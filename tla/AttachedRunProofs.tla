------------------------- MODULE AttachedRunProofs -------------------------
(***************************************************************************)
(* For any process ids and any number of launches: types, the lifetime of  *)
(* a plugin file, and what a run that returned has joined and read.        *)
(***************************************************************************)
EXTENDS AttachedRun, TLAPS

\* A running goroutine structure: what the caller's position says of the rest.
JoinOK ==
  /\ caller \in {"join_writer", "join_watcher", "returned"} => root = "exited"
  /\ caller \in {"join_watcher", "returned"} => writer = "done"
  /\ caller = "returned" => watcher = "done"
  /\ caller \notin {"idle", "read"} /\ "caller" \notin failed =>
       ~unread /\ ~holder /\ root = "exited"
  /\ writer = "done" /\ ~attached /\ "writer" \notin failed => input

\* The plugin of the current launch, if any, names the living adapter, and no
\* sweep found its process dead; before it is linked nobody knows its token.
InUse == phase = "linked" \/ (phase = "running" /\ attached)

FilesOK ==
  /\ phase # "idle" => pid["self"] # 0
  /\ plugin = IF InUse THEN Token ELSE NoFile
  /\ InUse => plugin \in files /\ \A a \in Adapters : doomed[a] # plugin
  /\ \A f \in files : f.token <= launch
  /\ \A a \in Adapters : \A f \in sweeping[a] : f.token <= launch
  /\ \A a \in Adapters : doomed[a].token <= launch
  /\ phase = "sweeping" =>
       /\ launch # 0
       /\ \A f \in files : f.token # launch
       /\ \A a \in Adapters : \A f \in sweeping[a] : f.token # launch
       /\ \A a \in Adapters : doomed[a].token # launch
  /\ phase \in {"linked", "running"} => launch # 0

IInv == TypeOK /\ JoinOK /\ FilesOK /\ OnlyCrashesLeak

(***************************************************************************)
(* A step of the run itself keeps its types and the order of its joins.    *)
(***************************************************************************)
LEMMA RunStepKeeps ==
  RunTypeOK /\ JoinOK /\ RunStep => RunTypeOK' /\ JoinOK'
<1> SUFFICES ASSUME RunTypeOK, JoinOK, RunStep
             PROVE  RunTypeOK' /\ JoinOK'
  OBVIOUS
<1> USE DEF RunTypeOK, JoinOK
<1>1. CASE Writes
  BY <1>1 DEF Writes, goroutines
<1>2. CASE Forks
  BY <1>2 DEF Forks, goroutines
<1>3. CASE RootExits
  BY <1>3 DEF RootExits, goroutines
<1>4. CASE HolderExits
  BY <1>4 DEF HolderExits, goroutines
<1>5. CASE ContextDone
  BY <1>5 DEF ContextDone
<1>6. CASE Consume
  BY <1>6 DEF Consume, goroutines
<1>7. CASE ReadToEnd
  BY <1>7 DEF ReadToEnd, EndOfOutput
<1>8. CASE ReadFails
  BY <1>8 DEF ReadFails, Kill
<1>9. CASE Waits
  BY <1>9 DEF Waits, Kill
<1>10. CASE JoinWriter
  BY <1>10 DEF JoinWriter
<1>11. CASE JoinWatcher
  BY <1>11 DEF JoinWatcher
<1>12. CASE BrokenPipe
  BY <1>12 DEF BrokenPipe, WriterEnds
<1>13. CASE ControlEnds
  BY <1>13 DEF ControlEnds, WriterEnds
<1>14. CASE WritesInput
  BY <1>14 DEF WritesInput, WriterEnds
<1>15. CASE ControlStops
  BY <1>15 DEF ControlStops, Kill
<1>16. CASE WatchContext
  BY <1>16 DEF WatchContext
<1>17. CASE WatcherStops
  BY <1>17 DEF WatcherStops, Kill
<1>18. CASE WatchExit
  BY <1>18 DEF WatchExit
<1>19. CASE WatcherDone
  BY <1>19 DEF WatcherDone, ReadDone
<1>20. CASE GraceExpires
  BY <1>20 DEF GraceExpires
<1>21. QED
  BY <1>1, <1>2, <1>3, <1>4, <1>5, <1>6, <1>7, <1>8, <1>9, <1>10, <1>11, <1>12, <1>13, <1>14, <1>15, <1>16, <1>17, <1>18, <1>19, <1>20 DEF RunStep, Natives, CallerStep, WriterStep, WatcherStep

\* No step of a run changes what kind of run it is.
LEMMA RunStepAttached == RunStep => attached' = attached
<1> SUFFICES ASSUME RunStep PROVE attached' = attached
  OBVIOUS
<1>1. QED
  BY DEF RunStep, Natives, CallerStep, WriterStep, WatcherStep, WriterEnds, goroutines,
     Writes, Forks, RootExits, HolderExits, ContextDone, Consume, ReadToEnd, ReadFails, Waits, JoinWriter, JoinWatcher, BrokenPipe, ControlEnds, WritesInput, ControlStops, WatchContext, WatcherStops, WatchExit, WatcherDone, GraceExpires

\* The adapters start without a run and with an empty plugin directory.
LEMMA InitIInv == Init => IInv
<1> SUFFICES ASSUME Init PROVE IInv
  OBVIOUS
<1> USE DEF Init, RunInit
<1>1. TypeOK
  <2>1. RunTypeOK
    BY DEF RunTypeOK
  <2>2. launch \in 0 .. MaxLaunches
    BY LaunchesAssumption
  <2>3. sweeping \in [Adapters -> SUBSET Files] /\ doomed \in [Adapters -> Files \cup {NoFile}]
    OBVIOUS
  <2>4. QED
    BY <2>1, <2>2, <2>3 DEF TypeOK
<1>2. JoinOK
  BY DEF JoinOK
<1>3. FilesOK
  BY DEF FilesOK, InUse, Adapters, NoFile
<1>4. QED
  BY <1>1, <1>2, <1>3 DEF IInv, OnlyCrashesLeak

\* Types; what the sweep and a crash record needs the launch to be a real one.
LEMMA TypeStep ==
  TypeOK /\ JoinOK /\ FilesOK /\ [Next]_vars => TypeOK'
<1> SUFFICES ASSUME TypeOK, JoinOK, FilesOK, [Next]_vars
             PROVE  TypeOK'
  OBVIOUS
<1> USE PidsAssumption, LaunchesAssumption DEF TypeOK
<1>1. CASE RunStep /\ phase = "running" /\ UNCHANGED fileVars
  BY <1>1, RunStepKeeps DEF fileVars
<1>2. CASE Installs
  BY <1>2 DEF Installs, RunTypeOK, runVars, Files, Launches, Adapters, NoFile
<1>3. CASE Links
  <2>1. launch \in Launches /\ pid["self"] \in Pids
    BY <1>3 DEF Links, FilesOK, Launches, Adapters
  <2>2. Token \in Files
    BY <2>1 DEF Token, Files
  <2>3. QED
    BY <1>3, <2>2 DEF Links, RunTypeOK, runVars
<1>4. CASE InstallFails
  BY <1>4 DEF InstallFails, Closes, RunTypeOK, runVars, Files, Launches, Adapters, NoFile
<1>5. CASE StartsProcess
  BY <1>5 DEF StartsProcess, Started, RunTypeOK, Files, Launches, Adapters, NoFile
<1>6. CASE StartFails
  BY <1>6 DEF StartFails, Closes, RunTypeOK, runVars, Files, Launches, Adapters, NoFile
<1>7. CASE RunReturned
  BY <1>7 DEF RunReturned, Closes, MayClose, RunTypeOK, runVars, Files, Launches, Adapters, NoFile
<1>8. CASE StartsCommand
  <2>1. RunTypeOK'
    BY <1>8 DEF StartsCommand, Started, RunTypeOK
  <2>2. launch' \in 0 .. MaxLaunches
    BY <1>8 DEF StartsCommand
  <2>3. QED
    BY <1>8, <2>1, <2>2 DEF StartsCommand
<1>9. CASE RivalSweeps
  BY <1>9 DEF RivalSweeps, RunTypeOK, runVars, Files, Launches, Adapters, NoFile
<1>10. CASE Crash
  <2>1. RunTypeOK'
    BY <1>10 DEF Crash, RunTypeOK
  <2>2. plugin \in files => launch \in Launches
    BY DEF FilesOK, InUse, Files, NoFile, Launches
  <2>3. QED
    BY <1>10, <2>1, <2>2 DEF Crash
<1>11. CASE RivalCrash
  BY <1>11 DEF RivalCrash, RunTypeOK, runVars, Files, Launches, Adapters, NoFile
<1>12. ASSUME NEW a \in Adapters, SweepLooks(a)
      PROVE  TypeOK'
  BY <1>12 DEF SweepLooks, ProcessAlive, RunTypeOK, runVars, Files, Launches, Adapters, NoFile
<1>13. ASSUME NEW a \in Adapters, SweepRemoves(a)
      PROVE  TypeOK'
  BY <1>13 DEF SweepRemoves, RunTypeOK, runVars, Files, Launches, Adapters, NoFile
<1>14. ASSUME NEW a \in Adapters, Starts(a)
      PROVE  TypeOK'
  BY <1>14 DEF Starts, RunTypeOK, runVars, Files, Launches, Adapters, NoFile
<1>15. CASE UNCHANGED vars
  BY <1>15 DEF vars, runVars, fileVars, RunTypeOK
<1>16. QED
  BY <1>1, <1>2, <1>3, <1>4, <1>5, <1>6, <1>7, <1>8, <1>9, <1>10, <1>11, <1>12, <1>13, <1>14, <1>15 DEF Next, Install, Sweep

\* A run starts with everything unjoined and ends by returning or by a crash.
LEMMA JoinStep ==
  TypeOK /\ JoinOK /\ [Next]_vars => JoinOK'
<1> SUFFICES ASSUME TypeOK, JoinOK, [Next]_vars
             PROVE  JoinOK'
  OBVIOUS
<1>1. CASE RunStep /\ phase = "running" /\ UNCHANGED fileVars
  BY <1>1, RunStepKeeps DEF TypeOK
<1>2. CASE Installs
  BY <1>2 DEF Installs, JoinOK, runVars
<1>3. CASE Links
  BY <1>3 DEF Links, Token, JoinOK, runVars
<1>4. CASE InstallFails
  BY <1>4 DEF InstallFails, Closes, JoinOK, runVars
<1>5. CASE StartsProcess
  BY <1>5 DEF StartsProcess, Started, JoinOK
<1>6. CASE StartFails
  BY <1>6 DEF StartFails, Closes, JoinOK, runVars
<1>7. CASE RunReturned
  BY <1>7 DEF RunReturned, Closes, MayClose, JoinOK, runVars
<1>8. CASE StartsCommand
  BY <1>8 DEF StartsCommand, Started, JoinOK
<1>9. CASE RivalSweeps
  BY <1>9 DEF RivalSweeps, JoinOK, runVars
<1>10. CASE Crash
  BY <1>10 DEF Crash, JoinOK
<1>11. CASE RivalCrash
  BY <1>11 DEF RivalCrash, JoinOK, runVars
<1>12. ASSUME NEW a \in Adapters, SweepLooks(a)
      PROVE  JoinOK'
  BY <1>12 DEF SweepLooks, ProcessAlive, JoinOK, runVars
<1>13. ASSUME NEW a \in Adapters, SweepRemoves(a)
      PROVE  JoinOK'
  BY <1>13 DEF SweepRemoves, JoinOK, runVars
<1>14. ASSUME NEW a \in Adapters, Starts(a)
      PROVE  JoinOK'
  BY <1>14 DEF Starts, JoinOK, runVars
<1>15. CASE UNCHANGED vars
  BY <1>15 DEF vars, runVars, JoinOK
<1>16. QED
  BY <1>1, <1>2, <1>3, <1>4, <1>5, <1>6, <1>7, <1>8, <1>9, <1>10, <1>11, <1>12, <1>13, <1>14, <1>15 DEF Next, Install, Sweep

\* A sweep judges a file by its process id: no file of the launch about to link
\* exists, and the file of a linked one names a living adapter.
LEMMA FilesStep ==
  TypeOK /\ FilesOK /\ [Next]_vars => FilesOK'
<1> SUFFICES ASSUME TypeOK, FilesOK, [Next]_vars
             PROVE  FilesOK'
  OBVIOUS
<1> USE PidsAssumption, LaunchesAssumption
    DEF TypeOK, RunTypeOK, FilesOK, InUse, Token, NoFile, Adapters, Files, Launches
<1>1. CASE RunStep /\ phase = "running" /\ UNCHANGED fileVars
  BY <1>1, RunStepAttached DEF fileVars
<1>2. CASE Installs
  BY <1>2 DEF Installs, runVars
<1>3. CASE Links
  BY <1>3 DEF Links, Token, runVars, Swept
<1>4. CASE InstallFails
  BY <1>4 DEF InstallFails, Closes, runVars, Swept
<1>5. CASE StartsProcess
  BY <1>5 DEF StartsProcess, Started
<1>6. CASE StartFails
  BY <1>6 DEF StartFails, Closes, runVars
<1>7. CASE RunReturned
  BY <1>7 DEF RunReturned, Closes, MayClose, runVars
<1>8. CASE StartsCommand
  BY <1>8 DEF StartsCommand, Started
<1>9. CASE RivalSweeps
  BY <1>9 DEF RivalSweeps, runVars
<1>10. CASE Crash
  BY <1>10 DEF Crash
<1>11. CASE RivalCrash
  BY <1>11 DEF RivalCrash, runVars
<1>12. ASSUME NEW a \in Adapters, SweepLooks(a)
      PROVE  FilesOK'
  BY <1>12 DEF SweepLooks, ProcessAlive, runVars
<1>13. ASSUME NEW a \in Adapters, SweepRemoves(a)
      PROVE  FilesOK'
  BY <1>13 DEF SweepRemoves, runVars
<1>14. ASSUME NEW a \in Adapters, Starts(a)
      PROVE  FilesOK'
  BY <1>14 DEF Starts, runVars
<1>15. CASE UNCHANGED vars
  BY <1>15 DEF vars, runVars, fileVars
<1>16. QED
  BY <1>1, <1>2, <1>3, <1>4, <1>5, <1>6, <1>7, <1>8, <1>9, <1>10, <1>11, <1>12, <1>13, <1>14, <1>15 DEF Next, Install, Sweep

\* What bridge.close does not remove was recorded as crashed.
LEMMA LeakStep ==
  TypeOK /\ FilesOK /\ OnlyCrashesLeak /\ [Next]_vars => OnlyCrashesLeak'
<1> SUFFICES ASSUME TypeOK, FilesOK, OnlyCrashesLeak, [Next]_vars
             PROVE  OnlyCrashesLeak'
  OBVIOUS
<1> USE PidsAssumption, LaunchesAssumption
    DEF TypeOK, FilesOK, InUse, Token, NoFile, Files, OnlyCrashesLeak
<1>1. CASE RunStep /\ phase = "running" /\ UNCHANGED fileVars
  BY <1>1 DEF fileVars
<1>2. CASE Installs
  BY <1>2 DEF Installs, runVars
<1>3. CASE Links
  BY <1>3 DEF Links, Token, runVars
<1>4. CASE InstallFails
  BY <1>4 DEF InstallFails, Closes, runVars
<1>5. CASE StartsProcess
  BY <1>5 DEF StartsProcess, Started
<1>6. CASE StartFails
  BY <1>6 DEF StartFails, Closes, runVars
<1>7. CASE RunReturned
  BY <1>7 DEF RunReturned, Closes, MayClose, runVars
<1>8. CASE StartsCommand
  BY <1>8 DEF StartsCommand, Started
<1>9. CASE RivalSweeps
  BY <1>9 DEF RivalSweeps, runVars
<1>10. CASE Crash
  BY <1>10 DEF Crash
<1>11. CASE RivalCrash
  BY <1>11 DEF RivalCrash, runVars
<1>12. ASSUME NEW a \in Adapters, SweepLooks(a)
      PROVE  OnlyCrashesLeak'
  BY <1>12 DEF SweepLooks, ProcessAlive, runVars
<1>13. ASSUME NEW a \in Adapters, SweepRemoves(a)
      PROVE  OnlyCrashesLeak'
  BY <1>13 DEF SweepRemoves, runVars
<1>14. ASSUME NEW a \in Adapters, Starts(a)
      PROVE  OnlyCrashesLeak'
  BY <1>14 DEF Starts, runVars
<1>15. CASE UNCHANGED vars
  BY <1>15 DEF vars, runVars, fileVars
<1>16. QED
  BY <1>1, <1>2, <1>3, <1>4, <1>5, <1>6, <1>7, <1>8, <1>9, <1>10, <1>11, <1>12, <1>13, <1>14, <1>15 DEF Next, Install, Sweep

\* The four parts together are inductive.
LEMMA IInvStep == IInv /\ [Next]_vars => IInv'
BY TypeStep, JoinStep, FilesStep, LeakStep DEF IInv

\* So they hold in every reachable state.
LEMMA Inductive == Spec => []IInv
<1>1. QED
  BY InitIInv, IInvStep, PTL DEF Spec

\* Every variable of the run and of the plugin directory keeps its type.
THEOREM TypeCorrect == Spec => []TypeOK
<1>1. IInv => TypeOK
  BY DEF IInv
<1>2. QED
  BY <1>1, Inductive, PTL

\* However many adapters die and whatever process ids are reused, no rival's sweep
\* takes the plugin of a process that still runs (sweepOrphanPlugins, bridge.close).
THEOREM LivePluginStays == Spec => []PluginOutlivesProcess
<1>1. IInv => PluginOutlivesProcess
  BY DEF IInv, FilesOK, InUse, PluginOutlivesProcess
<1>2. QED
  BY <1>1, Inductive, PTL

\* A plugin file without a launch is one whose adapter died (bridge.close).
THEOREM CleanReturn == Spec => []OnlyCrashesLeak
<1>1. IInv => OnlyCrashesLeak
  BY DEF IInv
<1>2. QED
  BY <1>1, Inductive, PTL

\* A run that returned has reaped its process and joined its goroutines (run).
THEOREM ReturnJoins == Spec => []NothingLeft
<1>1. IInv => NothingLeft
  BY DEF IInv, JoinOK, NothingLeft
<1>2. QED
  BY <1>1, Inductive, PTL

\* A run that reports no error has read everything the process and its
\* descendants wrote, and a plain command has been handed its whole input (run).
THEOREM SuccessLosesNothing == Spec => []SuccessIsComplete
<1>1. IInv => SuccessIsComplete
  BY DEF IInv, JoinOK, SuccessIsComplete, Succeeded
<1>2. QED
  BY <1>1, Inductive, PTL

============================================================================
