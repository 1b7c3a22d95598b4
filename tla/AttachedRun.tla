---------------------------- MODULE AttachedRun ----------------------------
(***************************************************************************)
(* The runs of one adapter and the plugin files they install in the native *)
(* plugin directory, beside a second adapter that sweeps it.  An adapter   *)
(* may die at any moment and start again; the system reuses process ids.   *)
(* Only attached runs install a plugin; a plain command uses NativeRun     *)
(* alone.  A file is named by the process id of its adapter and a random   *)
(* number, modelled as the number of the launch.                           *)
(***************************************************************************)
EXTENDS NativeRun, FiniteSets

CONSTANTS
  Pids,         \* process ids
  MaxLaunches   \* bound: runs this adapter starts

ASSUME PidsAssumption == Pids \subseteq Nat \ {0} /\ IsFiniteSet(Pids)
ASSUME LaunchesAssumption == MaxLaunches \in Nat \ {0}

VARIABLES
  pid,        \* the process id of the adapter and of its rival; 0 when dead
  launch,     \* the number of the current or last launch
  phase,      \* the adapter: idle, sweeping, linked, running
  files,      \* the plugin files
  plugin,     \* the file of the current launch
  sweeping,   \* per sweeper, the directory entries still to look at
  doomed,     \* per sweeper, the file whose process it found dead
  crashed     \* launches their adapter did not survive

fileVars == <<pid, launch, phase, files, plugin, sweeping, doomed, crashed>>
vars == <<runVars, fileVars>>

Adapters == {"self", "rival"}
Launches == 1 .. MaxLaunches
NoFile == [pid |-> 0, token |-> 0]
Files == [pid : Pids, token : Launches]

TypeOK ==
  /\ RunTypeOK
  /\ pid \in [Adapters -> Pids \cup {0}]
  /\ launch \in 0 .. MaxLaunches
  /\ phase \in {"idle", "sweeping", "linked", "running"}
  /\ files \subseteq Files /\ plugin \in Files \cup {NoFile}
  /\ sweeping \in [Adapters -> SUBSET Files]
  /\ doomed \in [Adapters -> Files \cup {NoFile}]
  /\ crashed \subseteq Launches

Init ==
  /\ RunInit
  /\ pid \in [Adapters -> Pids \cup {0}] /\ pid["self"] # 0 /\ pid["self"] # pid["rival"]
  /\ launch = 0 /\ phase = "idle" /\ files = {} /\ plugin = NoFile
  /\ sweeping = [a \in Adapters |-> {}] /\ doomed = [a \in Adapters |-> NoFile]
  /\ crashed = {}

----------------------------------------------------------------------------
(* sweepOrphanPlugins.                                                     *)

\* Mutant: the file is named by the process id alone.
TokenPidOnly == [pid |-> pid["self"], token |-> 0]

Token == [pid |-> pid["self"], token |-> launch]

\* Mutant: a process is dead unless it is the sweeper's own.
AliveOwn(a, p) == p = pid[a]

ProcessAlive(a, p) == p \in {pid["self"], pid["rival"]}

\* Looks at one entry; between that and the removal anything may happen.
SweepLooks(a) ==
  /\ doomed[a] = NoFile
  /\ \E f \in sweeping[a] :
       /\ sweeping' = [sweeping EXCEPT ![a] = @ \ {f}]
       /\ doomed' = [doomed EXCEPT ![a] = IF ProcessAlive(a, f.pid) THEN @ ELSE f]
  /\ UNCHANGED <<runVars, pid, launch, phase, files, plugin, crashed>>

SweepRemoves(a) ==
  /\ doomed[a] # NoFile
  /\ files' = files \ {doomed[a]}
  /\ doomed' = [doomed EXCEPT ![a] = NoFile]
  /\ UNCHANGED <<runVars, pid, launch, phase, plugin, sweeping, crashed>>

Swept(a) == sweeping[a] = {} /\ doomed[a] = NoFile

\* The rival starts a run of its own.
RivalSweeps ==
  /\ pid["rival"] # 0 /\ Swept("rival") /\ files # {}
  /\ sweeping' = [sweeping EXCEPT !["rival"] = files]
  /\ UNCHANGED <<runVars, pid, launch, phase, files, plugin, doomed, crashed>>

----------------------------------------------------------------------------
(* installBridge and RunAttached.                                          *)

Installs ==
  /\ pid["self"] # 0 /\ phase = "idle" /\ launch < MaxLaunches
  /\ launch' = launch + 1 /\ phase' = "sweeping"
  /\ sweeping' = [sweeping EXCEPT !["self"] = files]
  /\ UNCHANGED <<runVars, pid, files, plugin, doomed, crashed>>

\* os.Link refuses a name that exists.
Links ==
  /\ phase = "sweeping" /\ Swept("self") /\ Token \notin files
  /\ files' = files \cup {Token} /\ plugin' = Token /\ phase' = "linked"
  /\ UNCHANGED <<runVars, pid, launch, sweeping, doomed, crashed>>

\* bridge.close.
Closes ==
  /\ files' = files \ {plugin} /\ plugin' = NoFile /\ phase' = "idle"
  /\ UNCHANGED <<pid, launch, sweeping, doomed, crashed>>

InstallFails ==
  /\ phase = "sweeping" /\ Swept("self")
  /\ Closes
  /\ UNCHANGED runVars

StartsProcess ==
  /\ phase = "linked"
  /\ Started /\ attached'
  /\ phase' = "running"
  /\ UNCHANGED <<pid, launch, files, plugin, sweeping, doomed, crashed>>

\* Mutant: a process that does not start leaves its plugin behind.
StartFailsUnclosed ==
  /\ phase = "linked"
  /\ phase' = "idle" /\ plugin' = NoFile
  /\ UNCHANGED <<runVars, pid, launch, files, sweeping, doomed, crashed>>

StartFails ==
  /\ phase = "linked"
  /\ Closes
  /\ UNCHANGED runVars

\* A command that is not attached installs nothing.
StartsCommand ==
  /\ pid["self"] # 0 /\ phase = "idle" /\ launch < MaxLaunches
  /\ Started /\ ~attached'
  /\ launch' = launch + 1 /\ phase' = "running"
  /\ UNCHANGED <<pid, files, plugin, sweeping, doomed, crashed>>

\* Mutant: the files go when the process has been told to stop.
MayCloseEarly == caller \notin {"idle", "read"}

MayClose == caller = "returned"

RunReturned ==
  /\ phase = "running" /\ MayClose
  /\ Closes
  /\ UNCHANGED runVars

----------------------------------------------------------------------------
(* Crashes.                                                                *)

\* The goroutines are gone; the native process may live on.
Crash ==
  /\ pid["self"] # 0
  /\ pid' = [pid EXCEPT !["self"] = 0]
  /\ crashed' = IF plugin \in files THEN crashed \cup {launch} ELSE crashed
  /\ phase' = "idle" /\ plugin' = NoFile
  /\ sweeping' = [sweeping EXCEPT !["self"] = {}]
  /\ doomed' = [doomed EXCEPT !["self"] = NoFile]
  /\ root' = "none" /\ holder' = FALSE /\ unread' = FALSE /\ attached' = FALSE
  /\ input' = FALSE /\ ctx' = FALSE /\ closed' = FALSE
  /\ caller' = "idle" /\ writer' = "none" /\ watcher' = "none" /\ failed' = {}
  /\ UNCHANGED <<launch, files>>

RivalCrash ==
  /\ pid["rival"] # 0
  /\ pid' = [pid EXCEPT !["rival"] = 0]
  /\ sweeping' = [sweeping EXCEPT !["rival"] = {}]
  /\ doomed' = [doomed EXCEPT !["rival"] = NoFile]
  /\ UNCHANGED <<runVars, launch, phase, files, plugin, crashed>>

Starts(a) ==
  /\ pid[a] = 0
  /\ \E p \in Pids \ {pid["self"], pid["rival"]} : pid' = [pid EXCEPT ![a] = p]
  /\ UNCHANGED <<runVars, launch, phase, files, plugin, sweeping, doomed, crashed>>

----------------------------------------------------------------------------
Install == Installs \/ Links \/ InstallFails \/ StartsProcess \/ StartFails \/ RunReturned
Sweep(a) == SweepLooks(a) \/ SweepRemoves(a)

Next ==
  \/ RunStep /\ phase = "running" /\ UNCHANGED fileVars
  \/ Install \/ StartsCommand \/ RivalSweeps \/ \E a \in Adapters : Sweep(a) \/ Starts(a)
  \/ Crash \/ RivalCrash

Goroutines == (CallerStep \/ WriterStep \/ WatcherStep) /\ UNCHANGED fileVars

\* Goroutines are scheduled, the shutdown and the grace period have deadlines.
\* Nothing obliges the processes, and nothing the input they leave unread.
Spec ==
  /\ Init /\ [][Next]_vars
  /\ WF_vars(CallerStep /\ UNCHANGED fileVars)
  /\ WF_vars(WriterStep /\ UNCHANGED fileVars)
  /\ WF_vars(WatcherStep /\ UNCHANGED fileVars)

----------------------------------------------------------------------------
(* Properties.                                                             *)

\* The plugin file stays from before the process starts until it has been
\* reaped: the process may load it at any time, and no sweep of a rival takes it
\* for an orphan's, whatever process ids are reused.
PluginOutlivesProcess ==
  phase = "running" /\ attached /\ root = "running" => plugin \in files

\* Only a crash leaves a plugin behind.
OnlyCrashesLeak ==
  \A f \in files : f = plugin \/ f.token \in crashed

\* run returns only when the process is reaped and its goroutines have ended.
NothingLeft ==
  caller = "returned" => root = "exited" /\ writer = "done" /\ watcher = "done"

\* A run without an error has consumed everything that was written, and a plain
\* command's whole input went into its pipe, where the process may have left it.
\* Of what the control loop of an attached run answered nothing follows: the loop
\* may end without an error when the process does.
SuccessIsComplete == Succeeded => ~unread /\ ~holder /\ (~attached => input)

\* Once the process exited or the context is done, run returns, whatever holds
\* the pipes open, unless the adapter dies.
RunReturns ==
  phase = "running" /\ (root = "exited" \/ ctx) ~> caller \in {"idle", "returned"}
============================================================================
