------------------------ MODULE TurnSettlementProofs ------------------------
(***************************************************************************)
(* For any number of turns: what the host is told against what the store   *)
(* holds, what a verdict, a commit and a submission rest on, and what a    *)
(* poisoned session still does.                                            *)
(***************************************************************************)
EXTENDS TurnSettlement, TLAPS

\* No handler or restore has a turn.
Resting == pc \in {"ready", "reload", "down", "restore"}

\* Which evidence of a turn can exist where the handler is.
StageOK ==
  /\ alive \/ reading => pc = "running"
  /\ Resting =>
       /\ ~submitted /\ receipt = "none" /\ ended = "none" /\ ~accepted
       /\ verdict = "none" /\ ~committed /\ runErr = "none" /\ report = NoReport
  /\ pc \in {"ready", "down"} => view = NoView
  /\ committed => pc = "publish"
  /\ pc = "running" => verdict = "none"
  /\ verdict = "none" => Resting \/ pc = "running"
  /\ receipt # "none" => ended # "none"
  /\ pc = "running" /\ ~submitted =>
       ended = "none" /\ ~accepted /\ view = NoView
  /\ pc = "running" /\ submitted /\ ended = "none" => report = NoReport

\* Turns are numbered in the order they come up; one that has ended, or that has
\* left its messages with the handler, is neither running nor on its way.
NumberOK ==
  /\ thread \cup inflight \cup told \subseteq 1 .. last
  /\ last + admitted <= MaxTurns
  /\ remote <= last /\ n <= last /\ inherited <= last
  /\ remote \notin inflight /\ inherited \notin inflight
  /\ ~Resting => n # 0
  /\ pc = "running" => inherited # n
  /\ pc = "running" /\ ~submitted => n \notin inflight /\ n # remote /\ n \notin thread
  /\ pc = "running" /\ ended # "none" => n \notin inflight /\ n # remote
  /\ accepted => n \notin inflight

\* The service has run the current turn.
Ran == accepted \/ receipt # "none"

\* What a handler has seen contains the turn it saw, unless that was truncated.
SettledOK ==
  /\ ~Resting /\ Ran => n \notin inflight
  /\ pc = "running" /\ ended # "none" /\ report # NoReport =>
       {n} \cap thread \subseteq report.turns
  /\ pc = "running" /\ view # NoView => ended # "none" /\ {n} \cap thread \subseteq view
  /\ pc = "export" /\ Ran => n # remote /\ {n} \cap thread \subseteq view
  /\ pc = "commit" /\ Ran => n # remote /\ {n} \cap thread \subseteq rows
  /\ committed /\ Ran => n # remote /\ {n} \cap thread \subseteq durable

\* A turn the host was told is over is not the current one and runs no more.
ToldOK ==
  /\ told \cap (inflight \cup {remote}) = {}
  /\ ~Resting => n \notin told

\* The rows in memory are never behind the store.
RowsOK == pc # "down" => durable \subseteq rows

\* A verdict that ends the turn well had its receipt and a clean run.
VerdictOK ==
  verdict \in {"end_turn", "refusal"} =>
    /\ pc \in {"observe", "export", "commit", "publish"}
    /\ receipt = "done" /\ runErr = "none"
    /\ pc = "publish" => committed

\* A drifted run is neither observed, exported nor committed.
DriftOK == runErr = "drift" => pc \in {"running", "publish"}

\* A quiet event was written after the inherited turn had ended.
WaitsOK ==
  /\ pc = "running" /\ ~submitted /\ report.quiet /\ inherited # 0 =>
       remote # inherited
  /\ PromptWaits

IInv ==
  /\ TypeOK /\ StageOK /\ NumberOK /\ SettledOK /\ ToldOK /\ RowsOK /\ VerdictOK
  /\ DriftOK /\ WaitsOK /\ IdleIsDurable

\* Every combination of evidence has an answer.
LEMMA VerdictType == TypeOK => TurnVerdict \in Reasons \cup {"failed"}
BY DEF TypeOK, TurnVerdict, Failed, Cancelled, Reason, Reasons, Terminals

\* A report tells a state and a set of turns.
LEMMA ReportType ==
  /\ NoReport \in Reports
  /\ \A q \in BOOLEAN, s \in (SUBSET Turns) \cup {NoView} : Report(q, s) \in Reports
  /\ \A r \in Reports : r.turns \in (SUBSET Turns) \cup {NoView}
BY DEF Reports, Report, NoReport

\* Types; the turn a handler publishes is one that was prompted.
LEMMA TypeStep ==
  TypeOK /\ StageOK /\ NumberOK /\ [Next]_vars => TypeOK'
<1> SUFFICES ASSUME TypeOK, StageOK, NumberOK, [Next]_vars
             PROVE  TypeOK'
  OBVIOUS
<1> USE DEF TypeOK,
           serviceVars, remoteVars, sessionVars, outcomeVars, nativeVars,
           turnVars, hostVars, settleVars
<1>1. CASE RemoteStarts
  BY <1>1 DEF RemoteStarts, ServiceStep, Flags
<1>2. CASE OtherStarts
  BY <1>2, MaxTurnsAssumption
     DEF OtherStarts, ServiceStep, Room, NumberOK, Turns, Flags
<1>3. CASE RemoteEnds
  BY <1>3 DEF RemoteEnds, ServiceStep, Turns, Statuses, Flags
<1>4. CASE ExportCatchesUp
  BY <1>4 DEF ExportCatchesUp, ServiceStep, Flags
<1>5. CASE RemoteTruncated
  BY <1>5 DEF RemoteTruncated, ServiceStep, Flags
<1>6. CASE NativeExits
  <2>1. Flags' \subseteq BOOLEAN
    BY <1>6 DEF NativeExits, Flags
  <2>2. QED
    BY <1>6, <2>1 DEF NativeExits
<1>7. CASE Admit
  BY <1>7, MaxTurnsAssumption DEF Admit, HandlerStep, Room, NumberOK, Turns, Flags
<1>8. CASE Prompt
  BY <1>8, MaxTurnsAssumption DEF Prompt, HandlerStep, NumberOK, Turns, PCs, Flags
<1>9. CASE Refuse
  BY <1>9, MaxTurnsAssumption DEF Refuse, HandlerStep, Turns, Flags
<1>10. CASE Cancel
  BY <1>10 DEF Cancel, Flags
<1>11. CASE ReportReady
  <2>1. Flags' \subseteq BOOLEAN
    BY <1>11 DEF ReportReady, Loop, LoopStep, Quiet, Flags
  <2>2. report' \in Reports
    BY <1>11, ReportType DEF ReportReady, Loop, LoopStep, Quiet
  <2>3. LoopStep /\ UNCHANGED <<inflight, outcomeVars>>
    BY <1>11 DEF ReportReady
  <2>4. QED
    BY <2>1, <2>2, <2>3 DEF LoopStep
<1>12. CASE ReportSettled
  <2>1. Flags' \subseteq BOOLEAN
    BY <1>12 DEF ReportSettled, Loop, LoopStep, Quiet, Flags
  <2>2. report' \in Reports
    BY <1>12, ReportType DEF ReportSettled, Loop, LoopStep, Quiet
  <2>3. LoopStep /\ UNCHANGED <<inflight, outcomeVars>>
    BY <1>12 DEF ReportSettled
  <2>4. QED
    BY <2>1, <2>2, <2>3 DEF LoopStep
<1>13. CASE Ready
  BY <1>13, ReportType
     DEF Ready, Loop, Submit, LoopStep, VerifyMirror, NumberOK, Resting, Turns, Flags
<1>14. CASE ReadReceipt
  BY <1>14 DEF ReadReceipt, Loop, LoopStep, Flags
<1>15. CASE ReadSettled
  BY <1>15, ReportType DEF ReadSettled, Loop, LoopStep, ContainsReceipt, Flags
<1>16. CASE SendCancel
  BY <1>16 DEF SendCancel, Loop, LoopStep, Flags
<1>17. CASE ReadCancelAck
  BY <1>17 DEF ReadCancelAck, Loop, LoopStep, Flags
<1>18. CASE Stop
  <2>1. Flags' \subseteq BOOLEAN
    BY <1>18 DEF Stop, Loop, Settled, Flags
  <2>2. report' \in Reports
    BY <1>18, ReportType DEF Stop, Loop, Settled
  <2>3. QED
    BY <1>18, <2>1, <2>2 DEF Stop, Loop, Settled
<1>19. CASE LoopExits
  BY <1>19 DEF LoopExits, Loop, Flags
<1>20. CASE BridgeFails
  <2>1. Flags' \subseteq BOOLEAN
    BY <1>20 DEF BridgeFails, Loop, LoopFails, Flags
  <2>2. report' \in Reports
    BY <1>20, ReportType DEF BridgeFails, Loop, LoopFails
  <2>3. QED
    BY <1>20, <2>1, <2>2 DEF BridgeFails, Loop, LoopFails
<1>21. CASE Deadline
  <2>1. Flags' \subseteq BOOLEAN
    BY <1>21 DEF Deadline, Loop, LoopFails, Flags
  <2>2. report' \in Reports
    BY <1>21, ReportType DEF Deadline, Loop, LoopFails
  <2>3. QED
    BY <1>21, <2>1, <2>2 DEF Deadline, Loop, LoopFails
<1>22. CASE FrameMessage
  BY <1>22 DEF FrameMessage, Reading, Flags
<1>23. CASE FrameDrift
  <2>1. Flags' \subseteq BOOLEAN
    BY <1>23 DEF FrameDrift, Reading, Flags
  <2>2. QED
    BY <1>23, <2>1 DEF FrameDrift, Reading
<1>24. CASE FrameFails
  <2>1. Flags' \subseteq BOOLEAN
    BY <1>24 DEF FrameFails, Reading, Flags
  <2>2. QED
    BY <1>24, <2>1 DEF FrameFails, Reading
<1>25. CASE FinishTurn
  <2>1. TurnVerdict \in Reasons \cup {"failed"}
    BY VerdictType
  <2>2. view' \in (SUBSET Turns) \cup {NoView} /\ pc' \in PCs
    BY <1>25 DEF FinishTurn, AfterRun, PCs
  <2>3. QED
    BY <1>25, <2>1, <2>2 DEF FinishTurn, Flags
<1>26. CASE Observe
  BY <1>26 DEF Observe, Quiet, SettleFails, SettleFrame, PCs, Flags
<1>27. CASE Export
  BY <1>27 DEF Export, VerifiedExport, SettleFails, SettleFrame, PCs, Flags
<1>28. CASE Commit
  <2>1. Flags' \subseteq BOOLEAN
    BY <1>28 DEF Commit, SettleFails, Flags
  <2>2. QED
    BY <1>28, <2>1 DEF Commit, SettleFails, PCs
<1>29. CASE Publish
  <2>1. n \in Turns /\ verdict \in Reasons \cup {"failed"}
    BY <1>29 DEF Publish, StageOK, NumberOK, Resting, Turns, Reasons
  <2>2. told' \in SUBSET Turns /\ response' \in Reasons \cup {"none", "failed"}
    BY <1>29, <2>1 DEF Publish
  <2>3. QED
    BY <1>29, <2>2, ReportType DEF Publish, DropTurn, PCs, Flags
<1>30. CASE Republish
  BY <1>30 DEF Republish, Flags
<1>31. CASE Crash
  <2>1. Flags' \subseteq BOOLEAN
    BY <1>31 DEF Crash, DropTurn, Flags
  <2>2. report' \in Reports
    BY <1>31, ReportType DEF Crash, DropTurn
  <2>3. QED
    BY <1>31, <2>1, <2>2, MaxTurnsAssumption DEF Crash, DropTurn, PCs
<1>32. CASE RestoreObserves
  BY <1>32 DEF RestoreObserves, RestoreStep, Quiet, PCs, Flags
<1>33. CASE RestoreCommits
  BY <1>33 DEF RestoreCommits, RestoreStep, VerifiedExport, PCs, Flags
<1>34. CASE ReloadFails
  BY <1>34 DEF ReloadFails, RestoreStep, PCs, Flags
<1>35. CASE UNCHANGED vars
  BY <1>35 DEF vars, Flags
<1>36. QED
  BY <1>1, <1>2, <1>3, <1>4, <1>5, <1>6, <1>7, <1>8, <1>9, <1>10, <1>11, <1>12,
     <1>13, <1>14, <1>15, <1>16, <1>17, <1>18, <1>19, <1>20, <1>21, <1>22, <1>23, <1>24,
     <1>25, <1>26, <1>27, <1>28, <1>29, <1>30, <1>31, <1>32, <1>33, <1>34, <1>35
     DEF Next, Service, Handler, Control, Reader, Settle, Restart

\* Evidence appears and is dropped together with the handler's stages.
LEMMA StageStep ==
  TypeOK /\ StageOK /\ NumberOK /\ [Next]_vars => StageOK'
<1> SUFFICES ASSUME TypeOK, StageOK, NumberOK, [Next]_vars
             PROVE  StageOK'
  OBVIOUS
<1> USE DEF TypeOK, StageOK, NumberOK, Resting, Statuses, NoView,
           serviceVars, remoteVars, sessionVars, outcomeVars, nativeVars,
           turnVars, hostVars, settleVars
<1>1. CASE RemoteStarts
  BY <1>1 DEF RemoteStarts, ServiceStep
<1>2. CASE OtherStarts
  BY <1>2 DEF OtherStarts, ServiceStep, Room
<1>3. CASE RemoteEnds
  BY <1>3 DEF RemoteEnds, ServiceStep
<1>4. CASE ExportCatchesUp
  BY <1>4 DEF ExportCatchesUp, ServiceStep
<1>5. CASE RemoteTruncated
  BY <1>5 DEF RemoteTruncated, ServiceStep
<1>6. CASE NativeExits
  BY <1>6 DEF NativeExits
<1>7. CASE Admit
  BY <1>7 DEF Admit, HandlerStep, Room
<1>8. CASE Prompt
  BY <1>8 DEF Prompt, HandlerStep
<1>9. CASE Refuse
  BY <1>9 DEF Refuse, HandlerStep
<1>10. CASE Cancel
  BY <1>10 DEF Cancel
<1>11. CASE ReportReady
  BY <1>11 DEF ReportReady, Loop, LoopStep, Quiet
<1>12. CASE ReportSettled
  BY <1>12 DEF ReportSettled, Loop, LoopStep, Quiet
<1>13. CASE Ready
  BY <1>13 DEF Ready, Loop, Submit, LoopStep, VerifyMirror
<1>14. CASE ReadReceipt
  BY <1>14 DEF ReadReceipt, Loop, LoopStep
<1>15. CASE ReadSettled
  BY <1>15 DEF ReadSettled, Loop, LoopStep, ContainsReceipt
<1>16. CASE SendCancel
  BY <1>16 DEF SendCancel, Loop, LoopStep
<1>17. CASE ReadCancelAck
  BY <1>17 DEF ReadCancelAck, Loop, LoopStep
<1>18. CASE Stop
  BY <1>18 DEF Stop, Loop, Settled
<1>19. CASE LoopExits
  BY <1>19 DEF LoopExits, Loop
<1>20. CASE BridgeFails
  BY <1>20 DEF BridgeFails, Loop, LoopFails
<1>21. CASE Deadline
  BY <1>21 DEF Deadline, Loop, LoopFails
<1>22. CASE FrameMessage
  BY <1>22 DEF FrameMessage, Reading
<1>23. CASE FrameDrift
  BY <1>23 DEF FrameDrift, Reading
<1>24. CASE FrameFails
  BY <1>24 DEF FrameFails, Reading
<1>25. CASE FinishTurn
  <2>1. TurnVerdict # "none"
    BY VerdictType DEF Reasons
  <2>2. QED
    BY <1>25, <2>1 DEF FinishTurn, AfterRun
<1>26. CASE Observe
  BY <1>26 DEF Observe, Quiet, SettleFails, SettleFrame
<1>27. CASE Export
  BY <1>27 DEF Export, VerifiedExport, SettleFails, SettleFrame
<1>28. CASE Commit
  BY <1>28 DEF Commit, SettleFails
<1>29. CASE Publish
  BY <1>29 DEF Publish, DropTurn, MayIdle
<1>30. CASE Republish
  BY <1>30 DEF Republish
<1>31. CASE Crash
  BY <1>31 DEF Crash, DropTurn
<1>32. CASE RestoreObserves
  BY <1>32 DEF RestoreObserves, RestoreStep, Quiet
<1>33. CASE RestoreCommits
  BY <1>33 DEF RestoreCommits, RestoreStep, VerifiedExport
<1>34. CASE ReloadFails
  BY <1>34 DEF ReloadFails, RestoreStep
<1>35. CASE UNCHANGED vars
  BY <1>35 DEF vars
<1>36. QED
  BY <1>1, <1>2, <1>3, <1>4, <1>5, <1>6, <1>7, <1>8, <1>9, <1>10, <1>11, <1>12,
     <1>13, <1>14, <1>15, <1>16, <1>17, <1>18, <1>19, <1>20, <1>21, <1>22, <1>23, <1>24,
     <1>25, <1>26, <1>27, <1>28, <1>29, <1>30, <1>31, <1>32, <1>33, <1>34, <1>35
     DEF Next, Service, Handler, Control, Reader, Settle, Restart

\* Every turn that comes up takes the next number.
LEMMA NumberStep ==
  TypeOK /\ StageOK /\ NumberOK /\ [Next]_vars => NumberOK'
<1> SUFFICES ASSUME TypeOK, StageOK, NumberOK, [Next]_vars
             PROVE  NumberOK'
  OBVIOUS
<1> USE MaxTurnsAssumption DEF TypeOK, StageOK, NumberOK, Resting, Turns,
           serviceVars, remoteVars, sessionVars, outcomeVars, nativeVars,
           turnVars, hostVars, settleVars
<1>1. CASE RemoteStarts
  BY <1>1 DEF RemoteStarts, ServiceStep
<1>2. CASE OtherStarts
  BY <1>2 DEF OtherStarts, ServiceStep, Room
<1>3. CASE RemoteEnds
  BY <1>3 DEF RemoteEnds, ServiceStep
<1>4. CASE ExportCatchesUp
  BY <1>4 DEF ExportCatchesUp, ServiceStep
<1>5. CASE RemoteTruncated
  BY <1>5 DEF RemoteTruncated, ServiceStep
<1>6. CASE NativeExits
  BY <1>6 DEF NativeExits
<1>7. CASE Admit
  BY <1>7 DEF Admit, HandlerStep, Room
<1>8. CASE Prompt
  BY <1>8 DEF Prompt, HandlerStep
<1>9. CASE Refuse
  BY <1>9 DEF Refuse, HandlerStep
<1>10. CASE Cancel
  BY <1>10 DEF Cancel
<1>11. CASE ReportReady
  BY <1>11 DEF ReportReady, Loop, LoopStep, Quiet
<1>12. CASE ReportSettled
  BY <1>12 DEF ReportSettled, Loop, LoopStep, Quiet
<1>13. CASE Ready
  BY <1>13 DEF Ready, Loop, Submit, LoopStep, VerifyMirror
<1>14. CASE ReadReceipt
  BY <1>14 DEF ReadReceipt, Loop, LoopStep
<1>15. CASE ReadSettled
  BY <1>15 DEF ReadSettled, Loop, LoopStep, ContainsReceipt
<1>16. CASE SendCancel
  BY <1>16 DEF SendCancel, Loop, LoopStep
<1>17. CASE ReadCancelAck
  BY <1>17 DEF ReadCancelAck, Loop, LoopStep
<1>18. CASE Stop
  BY <1>18 DEF Stop, Loop, Settled
<1>19. CASE LoopExits
  BY <1>19 DEF LoopExits, Loop
<1>20. CASE BridgeFails
  BY <1>20 DEF BridgeFails, Loop, LoopFails
<1>21. CASE Deadline
  BY <1>21 DEF Deadline, Loop, LoopFails
<1>22. CASE FrameMessage
  BY <1>22 DEF FrameMessage, Reading
<1>23. CASE FrameDrift
  BY <1>23 DEF FrameDrift, Reading
<1>24. CASE FrameFails
  BY <1>24 DEF FrameFails, Reading
<1>25. CASE FinishTurn
  BY <1>25 DEF FinishTurn, AfterRun
<1>26. CASE Observe
  BY <1>26 DEF Observe, Quiet, SettleFails, SettleFrame
<1>27. CASE Export
  BY <1>27 DEF Export, VerifiedExport, SettleFails, SettleFrame
<1>28. CASE Commit
  BY <1>28 DEF Commit, SettleFails
<1>29. CASE Publish
  BY <1>29 DEF Publish, DropTurn, MayIdle
<1>30. CASE Republish
  BY <1>30 DEF Republish
<1>31. CASE Crash
  BY <1>31 DEF Crash, DropTurn
<1>32. CASE RestoreObserves
  BY <1>32 DEF RestoreObserves, RestoreStep, Quiet
<1>33. CASE RestoreCommits
  BY <1>33 DEF RestoreCommits, RestoreStep, VerifiedExport
<1>34. CASE ReloadFails
  BY <1>34 DEF ReloadFails, RestoreStep
<1>35. CASE UNCHANGED vars
  BY <1>35 DEF vars
<1>36. QED
  BY <1>1, <1>2, <1>3, <1>4, <1>5, <1>6, <1>7, <1>8, <1>9, <1>10, <1>11, <1>12,
     <1>13, <1>14, <1>15, <1>16, <1>17, <1>18, <1>19, <1>20, <1>21, <1>22, <1>23, <1>24,
     <1>25, <1>26, <1>27, <1>28, <1>29, <1>30, <1>31, <1>32, <1>33, <1>34, <1>35
     DEF Next, Service, Handler, Control, Reader, Settle, Restart

\* What is seen after the turn has ended contains it, and only a truncation takes
\* it away again.
LEMMA SettledStep ==
  TypeOK /\ StageOK /\ NumberOK /\ SettledOK /\ [Next]_vars => SettledOK'
<1> SUFFICES ASSUME TypeOK, StageOK, NumberOK, SettledOK, [Next]_vars
             PROVE  SettledOK'
  OBVIOUS
<1> USE DEF TypeOK, StageOK, NumberOK, SettledOK, Resting, Ran, NoView, NoReport, Report,
           serviceVars, remoteVars, sessionVars, outcomeVars, nativeVars,
           turnVars, hostVars, settleVars
<1>1. CASE RemoteStarts
  BY <1>1 DEF RemoteStarts, ServiceStep
<1>2. CASE OtherStarts
  BY <1>2 DEF OtherStarts, ServiceStep, Room
<1>3. CASE RemoteEnds
  BY <1>3 DEF RemoteEnds, ServiceStep
<1>4. CASE ExportCatchesUp
  BY <1>4 DEF ExportCatchesUp, ServiceStep
<1>5. CASE RemoteTruncated
  BY <1>5 DEF RemoteTruncated, ServiceStep
<1>6. CASE NativeExits
  BY <1>6 DEF NativeExits
<1>7. CASE Admit
  BY <1>7 DEF Admit, HandlerStep, Room
<1>8. CASE Prompt
  BY <1>8 DEF Prompt, HandlerStep
<1>9. CASE Refuse
  BY <1>9 DEF Refuse, HandlerStep
<1>10. CASE Cancel
  BY <1>10 DEF Cancel
<1>11. CASE ReportReady
  BY <1>11 DEF ReportReady, Loop, LoopStep, Quiet
<1>12. CASE ReportSettled
  BY <1>12 DEF ReportSettled, Loop, LoopStep, Quiet
<1>13. CASE Ready
  BY <1>13 DEF Ready, Loop, Submit, LoopStep, VerifyMirror
<1>14. CASE ReadReceipt
  BY <1>14 DEF ReadReceipt, Loop, LoopStep
<1>15. CASE ReadSettled
  BY <1>15 DEF ReadSettled, Loop, LoopStep, ContainsReceipt
<1>16. CASE SendCancel
  BY <1>16 DEF SendCancel, Loop, LoopStep
<1>17. CASE ReadCancelAck
  BY <1>17 DEF ReadCancelAck, Loop, LoopStep
<1>18. CASE Stop
  BY <1>18 DEF Stop, Loop, Settled
<1>19. CASE LoopExits
  BY <1>19 DEF LoopExits, Loop
<1>20. CASE BridgeFails
  BY <1>20 DEF BridgeFails, Loop, LoopFails
<1>21. CASE Deadline
  BY <1>21 DEF Deadline, Loop, LoopFails
<1>22. CASE FrameMessage
  BY <1>22 DEF FrameMessage, Reading
<1>23. CASE FrameDrift
  BY <1>23 DEF FrameDrift, Reading
<1>24. CASE FrameFails
  BY <1>24 DEF FrameFails, Reading
<1>25. CASE FinishTurn
  BY <1>25 DEF FinishTurn, AfterRun
<1>26. CASE Observe
  BY <1>26 DEF Observe, Quiet, SettleFails, SettleFrame
<1>27. CASE Export
  BY <1>27 DEF Export, VerifiedExport, SettleFails, SettleFrame
<1>28. CASE Commit
  BY <1>28 DEF Commit, SettleFails
<1>29. CASE Publish
  BY <1>29 DEF Publish, DropTurn, MayIdle
<1>30. CASE Republish
  BY <1>30 DEF Republish
<1>31. CASE Crash
  BY <1>31 DEF Crash, DropTurn
<1>32. CASE RestoreObserves
  BY <1>32 DEF RestoreObserves, RestoreStep, Quiet
<1>33. CASE RestoreCommits
  BY <1>33 DEF RestoreCommits, RestoreStep, VerifiedExport
<1>34. CASE ReloadFails
  BY <1>34 DEF ReloadFails, RestoreStep
<1>35. CASE UNCHANGED vars
  BY <1>35 DEF vars
<1>36. QED
  BY <1>1, <1>2, <1>3, <1>4, <1>5, <1>6, <1>7, <1>8, <1>9, <1>10, <1>11, <1>12,
     <1>13, <1>14, <1>15, <1>16, <1>17, <1>18, <1>19, <1>20, <1>21, <1>22, <1>23, <1>24,
     <1>25, <1>26, <1>27, <1>28, <1>29, <1>30, <1>31, <1>32, <1>33, <1>34, <1>35
     DEF Next, Service, Handler, Control, Reader, Settle, Restart

\* Only the turn that is published, not running any more, is told.
LEMMA ToldStep ==
  TypeOK /\ StageOK /\ NumberOK /\ SettledOK /\ ToldOK /\ [Next]_vars => ToldOK'
<1> SUFFICES ASSUME TypeOK, StageOK, NumberOK, SettledOK, ToldOK, [Next]_vars
             PROVE  ToldOK'
  OBVIOUS
<1> USE DEF TypeOK, StageOK, NumberOK, SettledOK, ToldOK, Resting, Ran,
           serviceVars, remoteVars, sessionVars, outcomeVars, nativeVars,
           turnVars, hostVars, settleVars
<1>1. CASE RemoteStarts
  BY <1>1 DEF RemoteStarts, ServiceStep
<1>2. CASE OtherStarts
  BY <1>2 DEF OtherStarts, ServiceStep, Room
<1>3. CASE RemoteEnds
  BY <1>3 DEF RemoteEnds, ServiceStep
<1>4. CASE ExportCatchesUp
  BY <1>4 DEF ExportCatchesUp, ServiceStep
<1>5. CASE RemoteTruncated
  BY <1>5 DEF RemoteTruncated, ServiceStep
<1>6. CASE NativeExits
  BY <1>6 DEF NativeExits
<1>7. CASE Admit
  BY <1>7 DEF Admit, HandlerStep, Room
<1>8. CASE Prompt
  BY <1>8 DEF Prompt, HandlerStep
<1>9. CASE Refuse
  BY <1>9 DEF Refuse, HandlerStep
<1>10. CASE Cancel
  BY <1>10 DEF Cancel
<1>11. CASE ReportReady
  BY <1>11 DEF ReportReady, Loop, LoopStep, Quiet
<1>12. CASE ReportSettled
  BY <1>12 DEF ReportSettled, Loop, LoopStep, Quiet
<1>13. CASE Ready
  BY <1>13 DEF Ready, Loop, Submit, LoopStep, VerifyMirror
<1>14. CASE ReadReceipt
  BY <1>14 DEF ReadReceipt, Loop, LoopStep
<1>15. CASE ReadSettled
  BY <1>15 DEF ReadSettled, Loop, LoopStep, ContainsReceipt
<1>16. CASE SendCancel
  BY <1>16 DEF SendCancel, Loop, LoopStep
<1>17. CASE ReadCancelAck
  BY <1>17 DEF ReadCancelAck, Loop, LoopStep
<1>18. CASE Stop
  BY <1>18 DEF Stop, Loop, Settled
<1>19. CASE LoopExits
  BY <1>19 DEF LoopExits, Loop
<1>20. CASE BridgeFails
  BY <1>20 DEF BridgeFails, Loop, LoopFails
<1>21. CASE Deadline
  BY <1>21 DEF Deadline, Loop, LoopFails
<1>22. CASE FrameMessage
  BY <1>22 DEF FrameMessage, Reading
<1>23. CASE FrameDrift
  BY <1>23 DEF FrameDrift, Reading
<1>24. CASE FrameFails
  BY <1>24 DEF FrameFails, Reading
<1>25. CASE FinishTurn
  BY <1>25 DEF FinishTurn, AfterRun
<1>26. CASE Observe
  BY <1>26 DEF Observe, Quiet, SettleFails, SettleFrame
<1>27. CASE Export
  BY <1>27 DEF Export, VerifiedExport, SettleFails, SettleFrame
<1>28. CASE Commit
  BY <1>28 DEF Commit, SettleFails
<1>29. CASE Publish
  BY <1>29 DEF Publish, DropTurn, MayIdle
<1>30. CASE Republish
  BY <1>30 DEF Republish
<1>31. CASE Crash
  BY <1>31 DEF Crash, DropTurn
<1>32. CASE RestoreObserves
  BY <1>32 DEF RestoreObserves, RestoreStep, Quiet
<1>33. CASE RestoreCommits
  BY <1>33 DEF RestoreCommits, RestoreStep, VerifiedExport
<1>34. CASE ReloadFails
  BY <1>34 DEF ReloadFails, RestoreStep
<1>35. CASE UNCHANGED vars
  BY <1>35 DEF vars
<1>36. QED
  BY <1>1, <1>2, <1>3, <1>4, <1>5, <1>6, <1>7, <1>8, <1>9, <1>10, <1>11, <1>12,
     <1>13, <1>14, <1>15, <1>16, <1>17, <1>18, <1>19, <1>20, <1>21, <1>22, <1>23, <1>24,
     <1>25, <1>26, <1>27, <1>28, <1>29, <1>30, <1>31, <1>32, <1>33, <1>34, <1>35
     DEF Next, Service, Handler, Control, Reader, Settle, Restart

\* The rows and the store grow: what is adopted extends what was there.
LEMMA RowsStep ==
  TypeOK /\ StageOK /\ RowsOK /\ [Next]_vars => RowsOK' /\ durable \subseteq durable'
<1> SUFFICES ASSUME TypeOK, StageOK, RowsOK, [Next]_vars
             PROVE  RowsOK' /\ durable \subseteq durable'
  OBVIOUS
<1> USE DEF TypeOK, StageOK, RowsOK, Resting,
           serviceVars, remoteVars, sessionVars, outcomeVars, nativeVars,
           turnVars, hostVars, settleVars
<1>1. CASE RemoteStarts
  BY <1>1 DEF RemoteStarts, ServiceStep
<1>2. CASE OtherStarts
  BY <1>2 DEF OtherStarts, ServiceStep, Room
<1>3. CASE RemoteEnds
  BY <1>3 DEF RemoteEnds, ServiceStep
<1>4. CASE ExportCatchesUp
  BY <1>4 DEF ExportCatchesUp, ServiceStep
<1>5. CASE RemoteTruncated
  BY <1>5 DEF RemoteTruncated, ServiceStep
<1>6. CASE NativeExits
  BY <1>6 DEF NativeExits
<1>7. CASE Admit
  BY <1>7 DEF Admit, HandlerStep, Room
<1>8. CASE Prompt
  BY <1>8 DEF Prompt, HandlerStep
<1>9. CASE Refuse
  BY <1>9 DEF Refuse, HandlerStep
<1>10. CASE Cancel
  BY <1>10 DEF Cancel
<1>11. CASE ReportReady
  BY <1>11 DEF ReportReady, Loop, LoopStep, Quiet
<1>12. CASE ReportSettled
  BY <1>12 DEF ReportSettled, Loop, LoopStep, Quiet
<1>13. CASE Ready
  BY <1>13 DEF Ready, Loop, Submit, LoopStep, VerifyMirror
<1>14. CASE ReadReceipt
  BY <1>14 DEF ReadReceipt, Loop, LoopStep
<1>15. CASE ReadSettled
  BY <1>15 DEF ReadSettled, Loop, LoopStep, ContainsReceipt
<1>16. CASE SendCancel
  BY <1>16 DEF SendCancel, Loop, LoopStep
<1>17. CASE ReadCancelAck
  BY <1>17 DEF ReadCancelAck, Loop, LoopStep
<1>18. CASE Stop
  BY <1>18 DEF Stop, Loop, Settled
<1>19. CASE LoopExits
  BY <1>19 DEF LoopExits, Loop
<1>20. CASE BridgeFails
  BY <1>20 DEF BridgeFails, Loop, LoopFails
<1>21. CASE Deadline
  BY <1>21 DEF Deadline, Loop, LoopFails
<1>22. CASE FrameMessage
  BY <1>22 DEF FrameMessage, Reading
<1>23. CASE FrameDrift
  BY <1>23 DEF FrameDrift, Reading
<1>24. CASE FrameFails
  BY <1>24 DEF FrameFails, Reading
<1>25. CASE FinishTurn
  BY <1>25 DEF FinishTurn, AfterRun
<1>26. CASE Observe
  BY <1>26 DEF Observe, Quiet, SettleFails, SettleFrame
<1>27. CASE Export
  BY <1>27 DEF Export, VerifiedExport, SettleFails, SettleFrame
<1>28. CASE Commit
  BY <1>28 DEF Commit, SettleFails
<1>29. CASE Publish
  BY <1>29 DEF Publish, DropTurn, MayIdle
<1>30. CASE Republish
  BY <1>30 DEF Republish
<1>31. CASE Crash
  BY <1>31 DEF Crash, DropTurn
<1>32. CASE RestoreObserves
  BY <1>32 DEF RestoreObserves, RestoreStep, Quiet
<1>33. CASE RestoreCommits
  BY <1>33 DEF RestoreCommits, RestoreStep, VerifiedExport
<1>34. CASE ReloadFails
  BY <1>34 DEF ReloadFails, RestoreStep
<1>35. CASE UNCHANGED vars
  BY <1>35 DEF vars
<1>36. QED
  BY <1>1, <1>2, <1>3, <1>4, <1>5, <1>6, <1>7, <1>8, <1>9, <1>10, <1>11, <1>12,
     <1>13, <1>14, <1>15, <1>16, <1>17, <1>18, <1>19, <1>20, <1>21, <1>22, <1>23, <1>24,
     <1>25, <1>26, <1>27, <1>28, <1>29, <1>30, <1>31, <1>32, <1>33, <1>34, <1>35
     DEF Next, Service, Handler, Control, Reader, Settle, Restart

\* A settlement only ever weakens the verdict, and commits a good one.
LEMMA VerdictStep ==
  TypeOK /\ StageOK /\ VerdictOK /\ [Next]_vars => VerdictOK'
<1> SUFFICES ASSUME TypeOK, StageOK, VerdictOK, [Next]_vars
             PROVE  VerdictOK'
  OBVIOUS
<1> USE DEF TypeOK, StageOK, VerdictOK, Resting,
           serviceVars, remoteVars, sessionVars, outcomeVars, nativeVars,
           turnVars, hostVars, settleVars
<1>1. CASE RemoteStarts
  BY <1>1 DEF RemoteStarts, ServiceStep
<1>2. CASE OtherStarts
  BY <1>2 DEF OtherStarts, ServiceStep, Room
<1>3. CASE RemoteEnds
  BY <1>3 DEF RemoteEnds, ServiceStep
<1>4. CASE ExportCatchesUp
  BY <1>4 DEF ExportCatchesUp, ServiceStep
<1>5. CASE RemoteTruncated
  BY <1>5 DEF RemoteTruncated, ServiceStep
<1>6. CASE NativeExits
  BY <1>6 DEF NativeExits
<1>7. CASE Admit
  BY <1>7 DEF Admit, HandlerStep, Room
<1>8. CASE Prompt
  BY <1>8 DEF Prompt, HandlerStep
<1>9. CASE Refuse
  BY <1>9 DEF Refuse, HandlerStep
<1>10. CASE Cancel
  BY <1>10 DEF Cancel
<1>11. CASE ReportReady
  BY <1>11 DEF ReportReady, Loop, LoopStep, Quiet
<1>12. CASE ReportSettled
  BY <1>12 DEF ReportSettled, Loop, LoopStep, Quiet
<1>13. CASE Ready
  BY <1>13 DEF Ready, Loop, Submit, LoopStep, VerifyMirror
<1>14. CASE ReadReceipt
  BY <1>14 DEF ReadReceipt, Loop, LoopStep
<1>15. CASE ReadSettled
  BY <1>15 DEF ReadSettled, Loop, LoopStep, ContainsReceipt
<1>16. CASE SendCancel
  BY <1>16 DEF SendCancel, Loop, LoopStep
<1>17. CASE ReadCancelAck
  BY <1>17 DEF ReadCancelAck, Loop, LoopStep
<1>18. CASE Stop
  BY <1>18 DEF Stop, Loop, Settled
<1>19. CASE LoopExits
  BY <1>19 DEF LoopExits, Loop
<1>20. CASE BridgeFails
  BY <1>20 DEF BridgeFails, Loop, LoopFails
<1>21. CASE Deadline
  BY <1>21 DEF Deadline, Loop, LoopFails
<1>22. CASE FrameMessage
  BY <1>22 DEF FrameMessage, Reading
<1>23. CASE FrameDrift
  BY <1>23 DEF FrameDrift, Reading
<1>24. CASE FrameFails
  BY <1>24 DEF FrameFails, Reading
<1>25. CASE FinishTurn
  <2>1. TurnVerdict \in {"end_turn", "refusal"} => receipt = "done" /\ runErr = "none"
    BY DEF TurnVerdict, Failed, Cancelled, Reason, Terminals, Statuses
  <2>2. QED
    BY <1>25, <2>1 DEF FinishTurn, AfterRun
<1>26. CASE Observe
  BY <1>26 DEF Observe, Quiet, SettleFails, SettleFrame
<1>27. CASE Export
  BY <1>27 DEF Export, VerifiedExport, SettleFails, SettleFrame
<1>28. CASE Commit
  BY <1>28 DEF Commit, SettleFails
<1>29. CASE Publish
  BY <1>29 DEF Publish, DropTurn, MayIdle
<1>30. CASE Republish
  BY <1>30 DEF Republish
<1>31. CASE Crash
  BY <1>31 DEF Crash, DropTurn
<1>32. CASE RestoreObserves
  BY <1>32 DEF RestoreObserves, RestoreStep, Quiet
<1>33. CASE RestoreCommits
  BY <1>33 DEF RestoreCommits, RestoreStep, VerifiedExport
<1>34. CASE ReloadFails
  BY <1>34 DEF ReloadFails, RestoreStep
<1>35. CASE UNCHANGED vars
  BY <1>35 DEF vars
<1>36. QED
  BY <1>1, <1>2, <1>3, <1>4, <1>5, <1>6, <1>7, <1>8, <1>9, <1>10, <1>11, <1>12,
     <1>13, <1>14, <1>15, <1>16, <1>17, <1>18, <1>19, <1>20, <1>21, <1>22, <1>23, <1>24,
     <1>25, <1>26, <1>27, <1>28, <1>29, <1>30, <1>31, <1>32, <1>33, <1>34, <1>35
     DEF Next, Service, Handler, Control, Reader, Settle, Restart

\* A drift is found while the turn runs, and then there is nothing to settle.
LEMMA DriftStep ==
  TypeOK /\ StageOK /\ DriftOK /\ [Next]_vars => DriftOK'
<1> SUFFICES ASSUME TypeOK, StageOK, DriftOK, [Next]_vars
             PROVE  DriftOK'
  OBVIOUS
<1> USE DEF TypeOK, StageOK, DriftOK, Resting,
           serviceVars, remoteVars, sessionVars, outcomeVars, nativeVars,
           turnVars, hostVars, settleVars
<1>1. CASE RemoteStarts
  BY <1>1 DEF RemoteStarts, ServiceStep
<1>2. CASE OtherStarts
  BY <1>2 DEF OtherStarts, ServiceStep, Room
<1>3. CASE RemoteEnds
  BY <1>3 DEF RemoteEnds, ServiceStep
<1>4. CASE ExportCatchesUp
  BY <1>4 DEF ExportCatchesUp, ServiceStep
<1>5. CASE RemoteTruncated
  BY <1>5 DEF RemoteTruncated, ServiceStep
<1>6. CASE NativeExits
  BY <1>6 DEF NativeExits
<1>7. CASE Admit
  BY <1>7 DEF Admit, HandlerStep, Room
<1>8. CASE Prompt
  BY <1>8 DEF Prompt, HandlerStep
<1>9. CASE Refuse
  BY <1>9 DEF Refuse, HandlerStep
<1>10. CASE Cancel
  BY <1>10 DEF Cancel
<1>11. CASE ReportReady
  BY <1>11 DEF ReportReady, Loop, LoopStep, Quiet
<1>12. CASE ReportSettled
  BY <1>12 DEF ReportSettled, Loop, LoopStep, Quiet
<1>13. CASE Ready
  BY <1>13 DEF Ready, Loop, Submit, LoopStep, VerifyMirror
<1>14. CASE ReadReceipt
  BY <1>14 DEF ReadReceipt, Loop, LoopStep
<1>15. CASE ReadSettled
  BY <1>15 DEF ReadSettled, Loop, LoopStep, ContainsReceipt
<1>16. CASE SendCancel
  BY <1>16 DEF SendCancel, Loop, LoopStep
<1>17. CASE ReadCancelAck
  BY <1>17 DEF ReadCancelAck, Loop, LoopStep
<1>18. CASE Stop
  BY <1>18 DEF Stop, Loop, Settled
<1>19. CASE LoopExits
  BY <1>19 DEF LoopExits, Loop
<1>20. CASE BridgeFails
  BY <1>20 DEF BridgeFails, Loop, LoopFails
<1>21. CASE Deadline
  BY <1>21 DEF Deadline, Loop, LoopFails
<1>22. CASE FrameMessage
  BY <1>22 DEF FrameMessage, Reading
<1>23. CASE FrameDrift
  BY <1>23 DEF FrameDrift, Reading
<1>24. CASE FrameFails
  BY <1>24 DEF FrameFails, Reading
<1>25. CASE FinishTurn
  BY <1>25 DEF FinishTurn, AfterRun
<1>26. CASE Observe
  BY <1>26 DEF Observe, Quiet, SettleFails, SettleFrame
<1>27. CASE Export
  BY <1>27 DEF Export, VerifiedExport, SettleFails, SettleFrame
<1>28. CASE Commit
  BY <1>28 DEF Commit, SettleFails
<1>29. CASE Publish
  BY <1>29 DEF Publish, DropTurn, MayIdle
<1>30. CASE Republish
  BY <1>30 DEF Republish
<1>31. CASE Crash
  BY <1>31 DEF Crash, DropTurn
<1>32. CASE RestoreObserves
  BY <1>32 DEF RestoreObserves, RestoreStep, Quiet
<1>33. CASE RestoreCommits
  BY <1>33 DEF RestoreCommits, RestoreStep, VerifiedExport
<1>34. CASE ReloadFails
  BY <1>34 DEF ReloadFails, RestoreStep
<1>35. CASE UNCHANGED vars
  BY <1>35 DEF vars
<1>36. QED
  BY <1>1, <1>2, <1>3, <1>4, <1>5, <1>6, <1>7, <1>8, <1>9, <1>10, <1>11, <1>12,
     <1>13, <1>14, <1>15, <1>16, <1>17, <1>18, <1>19, <1>20, <1>21, <1>22, <1>23, <1>24,
     <1>25, <1>26, <1>27, <1>28, <1>29, <1>30, <1>31, <1>32, <1>33, <1>34, <1>35
     DEF Next, Service, Handler, Control, Reader, Settle, Restart

\* A turn that has ended does not come up again.
LEMMA WaitsStep ==
  TypeOK /\ StageOK /\ NumberOK /\ WaitsOK /\ [Next]_vars => WaitsOK'
<1> SUFFICES ASSUME TypeOK, StageOK, NumberOK, WaitsOK, [Next]_vars
             PROVE  WaitsOK'
  OBVIOUS
<1> USE DEF TypeOK, StageOK, NumberOK, WaitsOK, PromptWaits, Resting, NoReport, Report,
           serviceVars, remoteVars, sessionVars, outcomeVars, nativeVars,
           turnVars, hostVars, settleVars
<1>1. CASE RemoteStarts
  BY <1>1 DEF RemoteStarts, ServiceStep
<1>2. CASE OtherStarts
  BY <1>2 DEF OtherStarts, ServiceStep, Room
<1>3. CASE RemoteEnds
  BY <1>3 DEF RemoteEnds, ServiceStep
<1>4. CASE ExportCatchesUp
  BY <1>4 DEF ExportCatchesUp, ServiceStep
<1>5. CASE RemoteTruncated
  BY <1>5 DEF RemoteTruncated, ServiceStep
<1>6. CASE NativeExits
  BY <1>6 DEF NativeExits
<1>7. CASE Admit
  BY <1>7 DEF Admit, HandlerStep, Room
<1>8. CASE Prompt
  BY <1>8 DEF Prompt, HandlerStep
<1>9. CASE Refuse
  BY <1>9 DEF Refuse, HandlerStep
<1>10. CASE Cancel
  BY <1>10 DEF Cancel
<1>11. CASE ReportReady
  BY <1>11 DEF ReportReady, Loop, LoopStep, Quiet
<1>12. CASE ReportSettled
  BY <1>12 DEF ReportSettled, Loop, LoopStep, Quiet
<1>13. CASE Ready
  BY <1>13 DEF Ready, Loop, Submit, LoopStep, VerifyMirror
<1>14. CASE ReadReceipt
  BY <1>14 DEF ReadReceipt, Loop, LoopStep
<1>15. CASE ReadSettled
  BY <1>15 DEF ReadSettled, Loop, LoopStep, ContainsReceipt
<1>16. CASE SendCancel
  BY <1>16 DEF SendCancel, Loop, LoopStep
<1>17. CASE ReadCancelAck
  BY <1>17 DEF ReadCancelAck, Loop, LoopStep
<1>18. CASE Stop
  BY <1>18 DEF Stop, Loop, Settled
<1>19. CASE LoopExits
  BY <1>19 DEF LoopExits, Loop
<1>20. CASE BridgeFails
  BY <1>20 DEF BridgeFails, Loop, LoopFails
<1>21. CASE Deadline
  BY <1>21 DEF Deadline, Loop, LoopFails
<1>22. CASE FrameMessage
  BY <1>22 DEF FrameMessage, Reading
<1>23. CASE FrameDrift
  BY <1>23 DEF FrameDrift, Reading
<1>24. CASE FrameFails
  BY <1>24 DEF FrameFails, Reading
<1>25. CASE FinishTurn
  BY <1>25 DEF FinishTurn, AfterRun
<1>26. CASE Observe
  BY <1>26 DEF Observe, Quiet, SettleFails, SettleFrame
<1>27. CASE Export
  BY <1>27 DEF Export, VerifiedExport, SettleFails, SettleFrame
<1>28. CASE Commit
  BY <1>28 DEF Commit, SettleFails
<1>29. CASE Publish
  BY <1>29 DEF Publish, DropTurn, MayIdle
<1>30. CASE Republish
  BY <1>30 DEF Republish
<1>31. CASE Crash
  BY <1>31 DEF Crash, DropTurn
<1>32. CASE RestoreObserves
  BY <1>32 DEF RestoreObserves, RestoreStep, Quiet
<1>33. CASE RestoreCommits
  BY <1>33 DEF RestoreCommits, RestoreStep, VerifiedExport
<1>34. CASE ReloadFails
  BY <1>34 DEF ReloadFails, RestoreStep
<1>35. CASE UNCHANGED vars
  BY <1>35 DEF vars
<1>36. QED
  BY <1>1, <1>2, <1>3, <1>4, <1>5, <1>6, <1>7, <1>8, <1>9, <1>10, <1>11, <1>12,
     <1>13, <1>14, <1>15, <1>16, <1>17, <1>18, <1>19, <1>20, <1>21, <1>22, <1>23, <1>24,
     <1>25, <1>26, <1>27, <1>28, <1>29, <1>30, <1>31, <1>32, <1>33, <1>34, <1>35
     DEF Next, Service, Handler, Control, Reader, Settle, Restart

\* The host is told of a turn the store holds, and the store keeps it.
LEMMA DurableStep ==
  TypeOK /\ StageOK /\ SettledOK /\ ToldOK /\ RowsOK /\ IdleIsDurable /\ [Next]_vars => IdleIsDurable'
<1> SUFFICES ASSUME TypeOK, StageOK, SettledOK, ToldOK, RowsOK, IdleIsDurable, [Next]_vars
             PROVE  IdleIsDurable'
  OBVIOUS
<1> USE RowsStep DEF TypeOK, StageOK, SettledOK, ToldOK, RowsOK, IdleIsDurable, Resting, Ran,
           serviceVars, remoteVars, sessionVars, outcomeVars, nativeVars,
           turnVars, hostVars, settleVars
<1>1. CASE RemoteStarts
  BY <1>1 DEF RemoteStarts, ServiceStep
<1>2. CASE OtherStarts
  BY <1>2 DEF OtherStarts, ServiceStep, Room
<1>3. CASE RemoteEnds
  BY <1>3 DEF RemoteEnds, ServiceStep
<1>4. CASE ExportCatchesUp
  BY <1>4 DEF ExportCatchesUp, ServiceStep
<1>5. CASE RemoteTruncated
  BY <1>5 DEF RemoteTruncated, ServiceStep
<1>6. CASE NativeExits
  BY <1>6 DEF NativeExits
<1>7. CASE Admit
  BY <1>7 DEF Admit, HandlerStep, Room
<1>8. CASE Prompt
  BY <1>8 DEF Prompt, HandlerStep
<1>9. CASE Refuse
  BY <1>9 DEF Refuse, HandlerStep
<1>10. CASE Cancel
  BY <1>10 DEF Cancel
<1>11. CASE ReportReady
  BY <1>11 DEF ReportReady, Loop, LoopStep, Quiet
<1>12. CASE ReportSettled
  BY <1>12 DEF ReportSettled, Loop, LoopStep, Quiet
<1>13. CASE Ready
  BY <1>13 DEF Ready, Loop, Submit, LoopStep, VerifyMirror
<1>14. CASE ReadReceipt
  BY <1>14 DEF ReadReceipt, Loop, LoopStep
<1>15. CASE ReadSettled
  BY <1>15 DEF ReadSettled, Loop, LoopStep, ContainsReceipt
<1>16. CASE SendCancel
  BY <1>16 DEF SendCancel, Loop, LoopStep
<1>17. CASE ReadCancelAck
  BY <1>17 DEF ReadCancelAck, Loop, LoopStep
<1>18. CASE Stop
  BY <1>18 DEF Stop, Loop, Settled
<1>19. CASE LoopExits
  BY <1>19 DEF LoopExits, Loop
<1>20. CASE BridgeFails
  BY <1>20 DEF BridgeFails, Loop, LoopFails
<1>21. CASE Deadline
  BY <1>21 DEF Deadline, Loop, LoopFails
<1>22. CASE FrameMessage
  BY <1>22 DEF FrameMessage, Reading
<1>23. CASE FrameDrift
  BY <1>23 DEF FrameDrift, Reading
<1>24. CASE FrameFails
  BY <1>24 DEF FrameFails, Reading
<1>25. CASE FinishTurn
  BY <1>25 DEF FinishTurn, AfterRun
<1>26. CASE Observe
  BY <1>26 DEF Observe, Quiet, SettleFails, SettleFrame
<1>27. CASE Export
  BY <1>27 DEF Export, VerifiedExport, SettleFails, SettleFrame
<1>28. CASE Commit
  BY <1>28 DEF Commit, SettleFails
<1>29. CASE Publish
  BY <1>29 DEF Publish, DropTurn, MayIdle
<1>30. CASE Republish
  BY <1>30 DEF Republish
<1>31. CASE Crash
  BY <1>31 DEF Crash, DropTurn
<1>32. CASE RestoreObserves
  BY <1>32 DEF RestoreObserves, RestoreStep, Quiet
<1>33. CASE RestoreCommits
  BY <1>33 DEF RestoreCommits, RestoreStep, VerifiedExport
<1>34. CASE ReloadFails
  BY <1>34 DEF ReloadFails, RestoreStep
<1>35. CASE UNCHANGED vars
  BY <1>35 DEF vars
<1>36. QED
  BY <1>1, <1>2, <1>3, <1>4, <1>5, <1>6, <1>7, <1>8, <1>9, <1>10, <1>11, <1>12,
     <1>13, <1>14, <1>15, <1>16, <1>17, <1>18, <1>19, <1>20, <1>21, <1>22, <1>23, <1>24,
     <1>25, <1>26, <1>27, <1>28, <1>29, <1>30, <1>31, <1>32, <1>33, <1>34, <1>35
     DEF Next, Service, Handler, Control, Reader, Settle, Restart

\* No turn, an empty thread and an empty store.
LEMMA InitIInv == Init => IInv
<1> SUFFICES ASSUME Init PROVE IInv
  OBVIOUS
<1> USE MaxTurnsAssumption DEF Init
<1>1. TypeOK
  <2>1. Flags \subseteq BOOLEAN /\ report \in Reports
    BY ReportType DEF Flags
  <2>2. QED
    BY <2>1 DEF TypeOK, PCs, Turns
<1>2. StageOK /\ NumberOK /\ SettledOK
  BY DEF StageOK, NumberOK, SettledOK, Resting
<1>3. ToldOK /\ RowsOK /\ VerdictOK /\ DriftOK
  BY DEF ToldOK, RowsOK, VerdictOK, DriftOK
<1>4. WaitsOK /\ IdleIsDurable
  BY DEF WaitsOK, PromptWaits, IdleIsDurable
<1>5. QED
  BY <1>1, <1>2, <1>3, <1>4 DEF IInv

\* The parts together are inductive.
LEMMA IInvStep == IInv /\ [Next]_vars => IInv'
BY TypeStep, StageStep, NumberStep, SettledStep, ToldStep, RowsStep, VerdictStep,
   DriftStep, WaitsStep, DurableStep DEF IInv

\* So they hold in every reachable state, whatever progress is assumed.
LEMMA Inductive == FairSpec => []IInv
<1>1. QED
  BY InitIInv, IInvStep, PTL DEF FairSpec, Spec

\* Every variable of the turn, the thread and the store keeps its type.
THEOREM TypeCorrect == FairSpec => []TypeOK
<1>1. IInv => TypeOK
  BY DEF IInv
<1>2. QED
  BY <1>1, Inductive, PTL

\* Whatever the order of cancel, receipt, exit, stale export, failed commit, crash
\* and other clients' turns, a turn the host was told is over is in the store as
\* long as it is in the thread (finishTurn).
THEOREM ToldIsDurable == FairSpec => []IdleIsDurable
<1>1. IInv => IdleIsDurable
  BY DEF IInv
<1>2. QED
  BY <1>1, Inductive, PTL

\* A prompt is submitted only after the turn the process found running has ended
\* (accept): the event that reports it is old by then, but the turn stays ended.
THEOREM PromptAfterInherited == FairSpec => []PromptWaits
<1>1. IInv => PromptWaits
  BY DEF IInv, WaitsOK
<1>2. QED
  BY <1>1, Inductive, PTL

\* No commit, of any origin, forgets a turn (commitMirror, reconcileNative).
THEOREM MirrorGrows == FairSpec => MirrorNeverShrinks
<1>1. IInv /\ [Next]_vars => [durable \subseteq durable']_vars
  BY RowsStep DEF IInv
<1>2. QED
  BY <1>1, Inductive, PTL DEF FairSpec, Spec, MirrorNeverShrinks

\* What FinishedNeedsEvidence says of one step.
EvidenceStep ==
  response' # response /\ response' \in {"end_turn", "refusal"} =>
    /\ receipt = "done" /\ runErr = "none" /\ committed
    /\ n \in thread => n \in durable

\* Only the publication of the current turn answers.
LEMMA EvidenceHolds ==
  TypeOK /\ StageOK /\ SettledOK /\ VerdictOK /\ [Next]_vars => EvidenceStep
<1> SUFFICES ASSUME TypeOK, StageOK, SettledOK, VerdictOK, [Next]_vars
             PROVE  EvidenceStep
  OBVIOUS
<1> USE DEF TypeOK, StageOK, SettledOK, VerdictOK, EvidenceStep, Resting, Ran,
           serviceVars, remoteVars, sessionVars, outcomeVars, nativeVars,
           turnVars, hostVars, settleVars
<1>1. CASE RemoteStarts
  BY <1>1 DEF RemoteStarts, ServiceStep
<1>2. CASE OtherStarts
  BY <1>2 DEF OtherStarts, ServiceStep, Room
<1>3. CASE RemoteEnds
  BY <1>3 DEF RemoteEnds, ServiceStep
<1>4. CASE ExportCatchesUp
  BY <1>4 DEF ExportCatchesUp, ServiceStep
<1>5. CASE RemoteTruncated
  BY <1>5 DEF RemoteTruncated, ServiceStep
<1>6. CASE NativeExits
  BY <1>6 DEF NativeExits
<1>7. CASE Admit
  BY <1>7 DEF Admit, HandlerStep, Room
<1>8. CASE Prompt
  BY <1>8 DEF Prompt, HandlerStep
<1>9. CASE Refuse
  BY <1>9 DEF Refuse, HandlerStep
<1>10. CASE Cancel
  BY <1>10 DEF Cancel
<1>11. CASE ReportReady
  BY <1>11 DEF ReportReady, Loop, LoopStep, Quiet
<1>12. CASE ReportSettled
  BY <1>12 DEF ReportSettled, Loop, LoopStep, Quiet
<1>13. CASE Ready
  BY <1>13 DEF Ready, Loop, Submit, LoopStep, VerifyMirror
<1>14. CASE ReadReceipt
  BY <1>14 DEF ReadReceipt, Loop, LoopStep
<1>15. CASE ReadSettled
  BY <1>15 DEF ReadSettled, Loop, LoopStep, ContainsReceipt
<1>16. CASE SendCancel
  BY <1>16 DEF SendCancel, Loop, LoopStep
<1>17. CASE ReadCancelAck
  BY <1>17 DEF ReadCancelAck, Loop, LoopStep
<1>18. CASE Stop
  BY <1>18 DEF Stop, Loop, Settled
<1>19. CASE LoopExits
  BY <1>19 DEF LoopExits, Loop
<1>20. CASE BridgeFails
  BY <1>20 DEF BridgeFails, Loop, LoopFails
<1>21. CASE Deadline
  BY <1>21 DEF Deadline, Loop, LoopFails
<1>22. CASE FrameMessage
  BY <1>22 DEF FrameMessage, Reading
<1>23. CASE FrameDrift
  BY <1>23 DEF FrameDrift, Reading
<1>24. CASE FrameFails
  BY <1>24 DEF FrameFails, Reading
<1>25. CASE FinishTurn
  BY <1>25 DEF FinishTurn, AfterRun
<1>26. CASE Observe
  BY <1>26 DEF Observe, Quiet, SettleFails, SettleFrame
<1>27. CASE Export
  BY <1>27 DEF Export, VerifiedExport, SettleFails, SettleFrame
<1>28. CASE Commit
  BY <1>28 DEF Commit, SettleFails
<1>29. CASE Publish
  BY <1>29 DEF Publish, DropTurn, MayIdle
<1>30. CASE Republish
  BY <1>30 DEF Republish
<1>31. CASE Crash
  BY <1>31 DEF Crash, DropTurn
<1>32. CASE RestoreObserves
  BY <1>32 DEF RestoreObserves, RestoreStep, Quiet
<1>33. CASE RestoreCommits
  BY <1>33 DEF RestoreCommits, RestoreStep, VerifiedExport
<1>34. CASE ReloadFails
  BY <1>34 DEF ReloadFails, RestoreStep
<1>35. CASE UNCHANGED vars
  BY <1>35 DEF vars
<1>36. QED
  BY <1>1, <1>2, <1>3, <1>4, <1>5, <1>6, <1>7, <1>8, <1>9, <1>10, <1>11, <1>12,
     <1>13, <1>14, <1>15, <1>16, <1>17, <1>18, <1>19, <1>20, <1>21, <1>22, <1>23, <1>24,
     <1>25, <1>26, <1>27, <1>28, <1>29, <1>30, <1>31, <1>32, <1>33, <1>34, <1>35
     DEF Next, Service, Handler, Control, Reader, Settle, Restart

\* What PoisonQuarantine says of one step.
QuarantineStep ==
  poison /\ poison' =>
    /\ admitted' <= admitted /\ (n' # n => admitted' < admitted)
    /\ runErr = "drift" => rows' = rows /\ durable' = durable

\* A poisoned session admits nothing, and what it had admitted is used up; the steps
\* that write the rows or the mirror are not those of a drifted turn.
LEMMA QuarantineHolds ==
  TypeOK /\ StageOK /\ DriftOK /\ [Next]_vars => QuarantineStep
<1> SUFFICES ASSUME TypeOK, StageOK, DriftOK, [Next]_vars
             PROVE  QuarantineStep
  OBVIOUS
<1> USE MaxTurnsAssumption DEF TypeOK, StageOK, DriftOK, QuarantineStep, Resting,
           serviceVars, remoteVars, sessionVars, outcomeVars, nativeVars,
           turnVars, hostVars, settleVars
<1>1. CASE RemoteStarts
  BY <1>1 DEF RemoteStarts, ServiceStep
<1>2. CASE OtherStarts
  BY <1>2 DEF OtherStarts, ServiceStep, Room
<1>3. CASE RemoteEnds
  BY <1>3 DEF RemoteEnds, ServiceStep
<1>4. CASE ExportCatchesUp
  BY <1>4 DEF ExportCatchesUp, ServiceStep
<1>5. CASE RemoteTruncated
  BY <1>5 DEF RemoteTruncated, ServiceStep
<1>6. CASE NativeExits
  BY <1>6 DEF NativeExits
<1>7. CASE Admit
  BY <1>7 DEF Admit, HandlerStep, Room
<1>8. CASE Prompt
  BY <1>8 DEF Prompt, HandlerStep
<1>9. CASE Refuse
  BY <1>9 DEF Refuse, HandlerStep
<1>10. CASE Cancel
  BY <1>10 DEF Cancel
<1>11. CASE ReportReady
  BY <1>11 DEF ReportReady, Loop, LoopStep, Quiet
<1>12. CASE ReportSettled
  BY <1>12 DEF ReportSettled, Loop, LoopStep, Quiet
<1>13. CASE Ready
  BY <1>13 DEF Ready, Loop, Submit, LoopStep, VerifyMirror
<1>14. CASE ReadReceipt
  BY <1>14 DEF ReadReceipt, Loop, LoopStep
<1>15. CASE ReadSettled
  BY <1>15 DEF ReadSettled, Loop, LoopStep, ContainsReceipt
<1>16. CASE SendCancel
  BY <1>16 DEF SendCancel, Loop, LoopStep
<1>17. CASE ReadCancelAck
  BY <1>17 DEF ReadCancelAck, Loop, LoopStep
<1>18. CASE Stop
  BY <1>18 DEF Stop, Loop, Settled
<1>19. CASE LoopExits
  BY <1>19 DEF LoopExits, Loop
<1>20. CASE BridgeFails
  BY <1>20 DEF BridgeFails, Loop, LoopFails
<1>21. CASE Deadline
  BY <1>21 DEF Deadline, Loop, LoopFails
<1>22. CASE FrameMessage
  BY <1>22 DEF FrameMessage, Reading
<1>23. CASE FrameDrift
  BY <1>23 DEF FrameDrift, Reading
<1>24. CASE FrameFails
  BY <1>24 DEF FrameFails, Reading
<1>25. CASE FinishTurn
  BY <1>25 DEF FinishTurn, AfterRun
<1>26. CASE Observe
  BY <1>26 DEF Observe, Quiet, SettleFails, SettleFrame
<1>27. CASE Export
  BY <1>27 DEF Export, VerifiedExport, SettleFails, SettleFrame
<1>28. CASE Commit
  BY <1>28 DEF Commit, SettleFails
<1>29. CASE Publish
  BY <1>29 DEF Publish, DropTurn, MayIdle
<1>30. CASE Republish
  BY <1>30 DEF Republish
<1>31. CASE Crash
  BY <1>31 DEF Crash, DropTurn
<1>32. CASE RestoreObserves
  BY <1>32 DEF RestoreObserves, RestoreStep, Quiet
<1>33. CASE RestoreCommits
  BY <1>33 DEF RestoreCommits, RestoreStep, VerifiedExport
<1>34. CASE ReloadFails
  BY <1>34 DEF ReloadFails, RestoreStep
<1>35. CASE UNCHANGED vars
  BY <1>35 DEF vars
<1>36. QED
  BY <1>1, <1>2, <1>3, <1>4, <1>5, <1>6, <1>7, <1>8, <1>9, <1>10, <1>11, <1>12,
     <1>13, <1>14, <1>15, <1>16, <1>17, <1>18, <1>19, <1>20, <1>21, <1>22, <1>23, <1>24,
     <1>25, <1>26, <1>27, <1>28, <1>29, <1>30, <1>31, <1>32, <1>33, <1>34, <1>35
     DEF Next, Service, Handler, Control, Reader, Settle, Restart

\* A finished answer rests on the receipt, the terminal frame, a clean run and
\* the commit, whatever happened in between (turnVerdict, finishTurn).
THEOREM FinishedWithEvidence == FairSpec => FinishedNeedsEvidence
<1>1. IInv /\ [Next]_vars => [EvidenceStep]_vars
  BY EvidenceHolds DEF IInv
<1>2. QED
  BY <1>1, Inductive, PTL DEF FairSpec, Spec, FinishedNeedsEvidence, EvidenceStep

\* After an identity drift a session uses up what it had admitted and admits no
\* more, and the drifted turn publishes nothing (admissionError, finishTurn).
THEOREM PoisonedUsesUp == FairSpec => PoisonQuarantine
<1>1. IInv /\ [Next]_vars => [QuarantineStep]_vars
  BY QuarantineHolds DEF IInv
<1>2. QED
  BY <1>1, Inductive, PTL DEF FairSpec, Spec, PoisonQuarantine, QuarantineStep

=============================================================================
