--------------------------- MODULE TurnSettlement ---------------------------
(***************************************************************************)
(* One session's prompt turns, from their admission to the response.       *)
(*                                                                         *)
(* Three actors share a turn: the control loop that follows the bridge's   *)
(* events and stops the native process, the reader that projects stream    *)
(* frames, and the handler that settles the turn once both are joined.     *)
(* The remote thread runs on Amp's service, outlives the local process and *)
(* is open to other clients of the account.  An event the plugin wrote is  *)
(* read later: its report tells how the thread was when it was written.    *)
(* A thread, an export and a mirror are the sets of turns they contain.    *)
(***************************************************************************)
EXTENDS Naturals

CONSTANTS
  MaxTurns     \* bound: turns of this session and of other clients together

ASSUME MaxTurnsAssumption == MaxTurns \in Nat

Turns == 1 .. MaxTurns

NoView == {0}   \* no turn has the number 0

Report(isQuiet, seen) == [quiet |-> isQuiet, turns |-> seen]
NoReport == Report(FALSE, NoView)

VARIABLES
  thread,      \* the turns in the remote thread
  remote,      \* the turn the service is running, or 0
  inflight,    \* this session's prompts the service has not started
  last,        \* the number of the last turn of anyone
  exported,    \* what `threads export` returns: it may lag behind the thread
  ended,       \* the status agent.end wrote to the event file
  durable,     \* the turns in the stored mirror
  rows,        \* session.rows
  poison,      \* session.poison
  admitted,    \* the number of prompts between admissionError and acquireGate
  pc,          \* the holder of the gate: a prompt or a restore
  n,           \* the last turn the session installed
  alive,       \* the native process
  control,     \* the control loop: running or done
  reading,     \* the reader still consumes frames
  report,      \* the ready or settled event the loop has not read
  submitted, cancelSent, cancelAck, receipt, view, stopped,  \* amp.Outcome, attachedState
  runErr,      \* what RunAttached returns: none, drift or other
  exit,        \* the process exited with status 0
  cancelled,   \* turn.cancelled
  accepted, terminal,   \* turn.accepted, cycleState
  verdict,     \* turnVerdict and the first failure after it
  committed,
  told,        \* the turns whose host was told by a terminal idle that they are over
  response,    \* the answer to the last turn's prompt
  inherited    \* history: the turn the service ran when the process attached, or 0

serviceVars == <<thread, remote, inflight, last, exported>>
remoteVars == <<serviceVars, ended>>
outcomeVars == <<submitted, cancelSent, cancelAck, receipt, view, stopped>>
nativeVars == <<alive, control, reading, runErr, exit, inherited>>
turnVars == <<accepted, terminal>>
hostVars == <<told, response>>
settleVars == <<verdict, committed>>
sessionVars == <<durable, rows, poison, admitted, pc, n>>
vars == <<remoteVars, sessionVars, nativeVars, report, outcomeVars, cancelled,
          turnVars, settleVars, hostVars>>

Statuses == {"done", "error", "cancelled"}
Terminals == {"ok", "failed", "max_turns", "max_tokens", "refusal"}
Reasons == {"end_turn", "cancelled", "limit", "refusal"}
PCs == {"ready", "running", "observe", "export", "commit", "publish",
        "reload", "down", "restore"}
Reports == [quiet : BOOLEAN, turns : (SUBSET Turns) \cup {NoView}]

Flags == {poison, alive, reading, submitted, cancelSent, cancelAck, stopped, exit,
          cancelled, accepted, committed}

TypeOK ==
  /\ thread \in SUBSET Turns /\ exported \in SUBSET Turns
  /\ remote \in {0} \cup Turns
  /\ inflight \in SUBSET Turns /\ last \in 0 .. MaxTurns
  /\ ended \in Statuses \cup {"none"} /\ receipt \in Statuses \cup {"none"}
  /\ durable \in SUBSET Turns /\ rows \in SUBSET Turns
  /\ view \in (SUBSET Turns) \cup {NoView}
  /\ report \in Reports
  /\ pc \in PCs
  /\ n \in 0 .. MaxTurns /\ admitted \in 0 .. MaxTurns
  /\ control \in {"running", "done"}
  /\ runErr \in {"none", "drift", "other"}
  /\ terminal \in Terminals \cup {"none"}
  /\ verdict \in Reasons \cup {"none", "failed"}
  /\ told \in SUBSET Turns
  /\ response \in Reasons \cup {"none", "failed"}
  /\ inherited \in {0} \cup Turns
  /\ Flags \subseteq BOOLEAN

Init ==
  /\ thread = {} /\ remote = 0 /\ inflight = {} /\ last = 0
  /\ exported = {} /\ ended = "none"
  /\ durable = {} /\ rows = {} /\ poison = FALSE /\ admitted = 0
  /\ pc = "ready" /\ n = 0
  /\ alive = FALSE /\ control = "done" /\ reading = FALSE
  /\ runErr = "none" /\ exit = TRUE /\ inherited = 0
  /\ report = NoReport
  /\ submitted = FALSE /\ cancelSent = FALSE /\ cancelAck = FALSE
  /\ receipt = "none" /\ view = NoView /\ stopped = FALSE
  /\ cancelled = FALSE
  /\ accepted = FALSE /\ terminal = "none"
  /\ verdict = "none" /\ committed = FALSE
  /\ told = {} /\ response = "none"

----------------------------------------------------------------------------
(* Amp's service and the native process.                                   *)

ServiceStep ==
  UNCHANGED <<sessionVars, nativeVars, report, outcomeVars, cancelled,
              turnVars, settleVars, hostVars>>

\* A turn of anyone fits the bound, the admitted prompts included.
Room == last + admitted < MaxTurns

\* A prompt that reached Amp may be started late, when its process, its handler
\* and even the adapter are gone, or never.
RemoteStarts ==
  /\ remote = 0
  /\ \E t \in inflight : remote' = t /\ inflight' = inflight \ {t}
  /\ UNCHANGED <<thread, last, exported, ended>>
  /\ ServiceStep

OtherStarts ==
  /\ remote = 0 /\ Room
  /\ last' = last + 1
  /\ remote' = last'
  /\ UNCHANGED <<thread, inflight, exported, ended>>
  /\ ServiceStep

\* The turn's messages are in the thread; agent.end is written only by a live
\* process, and the status is cancelled only when a cancel reached it.
RemoteEnds ==
  /\ remote # 0
  /\ thread' = thread \cup {remote}
  /\ remote' = 0
  /\ \/ /\ alive /\ remote = n
        /\ \E s \in Statuses : (s = "cancelled" => cancelSent) /\ ended' = s
     \/ /\ ~(alive /\ remote = n)
        /\ UNCHANGED ended
  /\ UNCHANGED <<inflight, last, exported>>
  /\ ServiceStep

ExportCatchesUp ==
  /\ exported # thread
  /\ exported' = thread
  /\ UNCHANGED <<thread, remote, inflight, last, ended>>
  /\ ServiceStep

\* Someone truncates the thread outside this adapter.
RemoteTruncated ==
  /\ \E t \in thread : thread' = thread \ {t}
  /\ UNCHANGED <<remote, inflight, last, exported, ended>>
  /\ ServiceStep

NativeExits ==
  /\ alive
  /\ alive' = FALSE
  /\ exit' \in BOOLEAN
  /\ UNCHANGED <<remoteVars, sessionVars, control, reading, runErr, inherited,
                 report, outcomeVars, cancelled, turnVars, settleVars, hostVars>>

----------------------------------------------------------------------------
(* The prompt handler up to RunAttached.                                   *)

HandlerStep ==
  UNCHANGED <<thread, remote, inflight, exported, ended, durable, rows, poison, runErr, exit, report,
              outcomeVars, cancelled, turnVars, settleVars, told>>

\* admissionError looks at the poison; the gate is taken afterwards.
Admit ==
  /\ ~poison
  /\ pc \notin {"down", "restore"} /\ Room
  /\ admitted' = admitted + 1
  /\ UNCHANGED <<last, pc, n, alive, control, reading, inherited, response>>
  /\ HandlerStep

\* acquireGate takes a free gate, whatever became of the session since admission;
\* the early returns before the native process leave nothing behind.
Prompt ==
  /\ admitted > 0 /\ pc = "ready"
  /\ admitted' = admitted - 1
  /\ last' = last + 1 /\ n' = last'
  /\ pc' = "running"
  /\ alive' = TRUE /\ control' = "running" /\ reading' = TRUE
  /\ inherited' = remote
  /\ response' = "none"
  /\ HandlerStep

\* The gate is held by another prompt or a restore.
Refuse ==
  /\ admitted > 0 /\ pc # "ready"
  /\ admitted' = admitted - 1
  /\ UNCHANGED <<last, pc, n, alive, control, reading, inherited, response>>
  /\ HandlerStep

\* The turn and its evidence are dropped with the handler.
DropTurn ==
  /\ alive' = FALSE /\ control' = "done" /\ reading' = FALSE
  /\ runErr' = "none" /\ exit' = TRUE /\ ended' = "none" /\ inherited' = 0
  /\ report' = NoReport
  /\ submitted' = FALSE /\ cancelSent' = FALSE /\ cancelAck' = FALSE
  /\ receipt' = "none" /\ view' = NoView /\ stopped' = FALSE
  /\ cancelled' = FALSE
  /\ accepted' = FALSE /\ terminal' = "none"
  /\ verdict' = "none" /\ committed' = FALSE

\* session/cancel, the turn's timeout or close, unless the turn settles.
Cancel ==
  /\ pc = "running" /\ ~cancelled
  /\ cancelled' = TRUE
  /\ UNCHANGED <<remoteVars, sessionVars, nativeVars, report, outcomeVars,
                 turnVars, settleVars, hostVars>>

----------------------------------------------------------------------------
(* The control loop, and the plugin that writes what it reads.             *)

Loop == pc = "running" /\ control = "running"

LoopStep ==
  UNCHANGED <<thread, remote, last, exported, ended, sessionVars, nativeVars,
              cancelled, turnVars, settleVars, hostVars>>

\* The thread is at rest.
Quiet == remote = 0

\* The first event: the state and, of a quiet thread, what it contains.
ReportReady ==
  /\ Loop /\ alive /\ ~submitted /\ report = NoReport
  /\ report' = IF Quiet THEN Report(TRUE, thread) ELSE Report(FALSE, {})
  /\ UNCHANGED <<inflight, outcomeVars>>
  /\ LoopStep

\* After agent.end, whenever the thread is at rest.
ReportSettled ==
  /\ Loop /\ alive /\ ended # "none" /\ Quiet
  /\ report' = Report(TRUE, thread)
  /\ UNCHANGED <<inflight, outcomeVars>>
  /\ LoopStep

\* The observed thread extends the mirror, and contains the receipt's messages.
VerifyMirror(seen) == rows \subseteq seen
ContainsReceipt(seen) == n \in seen

Submit ==
  /\ submitted' = TRUE
  /\ inflight' = IF alive THEN inflight \cup {n} ELSE inflight
  /\ report' = NoReport
  /\ UNCHANGED <<cancelSent, cancelAck, receipt, view, stopped>>
  /\ LoopStep

\* Mutant: the prompt is submitted whatever state the event reports.
ReadyWhileActive ==
  /\ Loop /\ ~submitted /\ report # NoReport
  /\ VerifyMirror(report.turns) /\ ~cancelled
  /\ Submit

\* The ready event reported a quiet thread that extends the mirror, so the prompt
\* is written, whatever the thread is doing by now; a process that is gone does
\* not send it on.  Any other ready event fails the loop.
Ready ==
  /\ Loop /\ ~submitted /\ report # NoReport
  /\ report.quiet /\ VerifyMirror(report.turns) /\ ~cancelled
  /\ Submit

ReadReceipt ==
  /\ Loop /\ receipt = "none" /\ ended # "none"
  /\ receipt' = ended
  /\ UNCHANGED <<inflight, report, submitted, cancelSent, cancelAck, view, stopped>>
  /\ LoopStep

\* The settled event must contain the receipt.
ReadSettled ==
  /\ Loop /\ receipt # "none" /\ report # NoReport
  /\ ContainsReceipt(report.turns)
  /\ view' = report.turns
  /\ report' = NoReport
  /\ UNCHANGED <<inflight, submitted, cancelSent, cancelAck, receipt, stopped>>
  /\ LoopStep

\* The cancel file is written once, after the submission.
SendCancel ==
  /\ Loop /\ cancelled /\ submitted /\ ~cancelSent
  /\ cancelSent' = TRUE
  /\ UNCHANGED <<inflight, report, submitted, cancelAck, receipt, view, stopped>>
  /\ LoopStep

ReadCancelAck ==
  /\ Loop /\ alive /\ cancelSent /\ ~cancelAck
  /\ cancelAck' = TRUE
  /\ UNCHANGED <<inflight, report, submitted, cancelSent, receipt, view, stopped>>
  /\ LoopStep

Settled == view # NoView /\ (cancelSent => cancelAck)

\* stopObserver: the turn is settled, or cancelled before it was submitted; the
\* exit status no longer matters.  The shutdown itself may fail, and the run with it.
Stop ==
  /\ Loop
  /\ Settled \/ (cancelled /\ ~submitted)
  /\ stopped' = TRUE
  /\ control' = "done"
  /\ alive' = FALSE
  /\ runErr' \in (IF runErr = "none" THEN {"none", "other"} ELSE {runErr})
  /\ report' = NoReport
  /\ UNCHANGED <<remoteVars, sessionVars, reading, exit, inherited, submitted,
                 cancelSent, cancelAck, receipt, view, cancelled, turnVars,
                 settleVars, hostVars>>

\* The process is gone and the remaining events are read.
LoopExits ==
  /\ Loop /\ ~alive /\ ~Settled
  /\ (ended # "none" => receipt # "none") /\ report = NoReport
  /\ control' = "done"
  /\ UNCHANGED <<remoteVars, sessionVars, alive, reading, runErr, exit, inherited,
                 report, outcomeVars, cancelled, turnVars, settleVars, hostVars>>

LoopFails ==
  /\ control' = "done"
  /\ alive' = FALSE
  /\ exit' = FALSE
  /\ runErr' = IF runErr = "drift" THEN "drift" ELSE "other"
  /\ report' = NoReport
  /\ UNCHANGED <<remoteVars, sessionVars, reading, inherited, outcomeVars,
                 cancelled, turnVars, settleVars, hostVars>>

\* An unusable event, a refused ready event or a failed write.
BridgeFails == Loop /\ LoopFails

\* Mutant: a cancel does not arm the deadline.
NoCancelDeadline == Loop /\ (~submitted \/ receipt # "none") /\ LoopFails

\* The deadline is armed before the submission, by a cancel and by the receipt:
\* a turn nobody cancelled may run for ever.
Deadline == Loop /\ (~submitted \/ cancelSent \/ receipt # "none") /\ LoopFails

----------------------------------------------------------------------------
(* The reader.                                                             *)

Reading == pc = "running" /\ reading

\* A turn message: Amp streams those of a turn that it runs or has run.  Any other
\* frame, and any after the terminal one, changes nothing here.
FrameMessage ==
  /\ Reading /\ submitted /\ n \notin inflight /\ terminal = "none"
  /\ accepted' = TRUE
  /\ terminal' \in {"none"} \cup Terminals
  /\ UNCHANGED <<remoteVars, sessionVars, nativeVars, report, outcomeVars,
                 cancelled, settleVars, hostVars>>

\* A frame of another native session poisons this one, terminal frame or not.
FrameDrift ==
  /\ Reading
  /\ poison' = TRUE
  /\ reading' = FALSE /\ alive' = FALSE
  /\ runErr' = "drift"
  /\ UNCHANGED <<remoteVars, durable, rows, admitted, pc, n, control, exit,
                 inherited, report, outcomeVars, cancelled, turnVars,
                 settleVars, hostVars>>

\* A malformed frame, or the host cannot be told of it.
FrameFails ==
  /\ Reading
  /\ reading' = FALSE /\ alive' = FALSE
  /\ runErr' = "other"
  /\ UNCHANGED <<remoteVars, sessionVars, control, exit, inherited, report,
                 outcomeVars, cancelled, turnVars, settleVars, hostVars>>

----------------------------------------------------------------------------
(* Settlement: finishTurn, after the process and the loop are joined.      *)

Cancelled ==
  \/ cancelled /\ receipt = "none"
  \/ receipt = "cancelled" /\ runErr # "drift"

\* Mutant: a turn without a receipt is taken for a finished one.
FailedWithReceiptOnly ==
  \/ runErr = "drift" \/ terminal = "failed" \/ receipt = "error"
  \/ /\ terminal # "max_turns"
     /\ runErr # "none" \/ (~exit /\ ~stopped) \/ terminal = "none"

\* The native error cases; the turn limit outranks the weaker ones.
Failed ==
  \/ runErr = "drift" \/ terminal = "failed" \/ receipt = "error"
  \/ /\ terminal # "max_turns"
     /\ \/ runErr # "none" \/ (~exit /\ ~stopped)
        \/ receipt = "none" \/ terminal = "none"

Reason == [ok |-> "end_turn", max_turns |-> "limit",
           max_tokens |-> "limit", refusal |-> "refusal"]

\* Mutant: the native stop reason is answered as it is.
TurnVerdictUnmapped ==
  CASE Cancelled           -> "cancelled"
    [] ~Cancelled /\ Failed -> "failed"
    [] OTHER               -> terminal

TurnVerdict ==
  CASE Cancelled           -> "cancelled"
    [] ~Cancelled /\ Failed -> "failed"
    [] OTHER               -> Reason[terminal]

\* Mutant: a drifted turn is exported like any other.
AfterRunAlways(v) == IF v = NoView THEN "observe" ELSE "export"

\* Identity drift skips the export and the commit.
AfterRun(v) ==
  IF runErr = "drift" THEN "publish"
  ELSE IF v = NoView THEN "observe" ELSE "export"

\* RunAttached returns without the view when it failed; from here on a cancel is
\* too late, and of the evidence the settlement reads the receipt, the view, the
\* error and the acceptance.
FinishTurn ==
  /\ pc = "running" /\ control = "done" /\ ~alive
  /\ reading' = FALSE /\ exit' = TRUE /\ inherited' = 0
  /\ submitted' = FALSE /\ cancelSent' = FALSE /\ cancelAck' = FALSE
  /\ stopped' = FALSE /\ cancelled' = FALSE /\ terminal' = "none"
  /\ verdict' = TurnVerdict
  /\ view' = IF runErr = "none" THEN view ELSE NoView
  /\ pc' = AfterRun(view')
  /\ UNCHANGED <<remoteVars, durable, rows, poison, admitted, n, alive, control,
                 runErr, report, receipt, accepted, committed, hostVars>>

\* A commit failure is reported like a native one and ends the settlement.
SettleFails ==
  /\ verdict' = "failed"
  /\ pc' = "publish"

SettleFrame ==
  /\ UNCHANGED <<remoteVars, durable, poison, admitted, n, nativeVars, report,
                 submitted, cancelSent, cancelAck, receipt, stopped, cancelled,
                 turnVars, committed, hostVars>>

\* observeNative: a disconnected turn is reattached without input, and a thread
\* that is still active is refused.  The step is the plugin's snapshot: what is
\* done with the event later reads nothing else that changes.
Observe ==
  /\ pc = "observe"
  /\ \/ /\ Quiet
        /\ view' = thread
        /\ pc' = "export"
        /\ UNCHANGED <<rows, verdict>>
     \/ /\ SettleFails
        /\ UNCHANGED <<rows, view>>
  /\ SettleFrame

\* verifiedExport: the export shows the observed thread, which it may never do
\* before the deadline.
VerifiedExport == exported = view

\* Mutant: the mirror is not compared with the export.
ExportUnreconciled ==
  /\ pc = "export"
  /\ \/ /\ VerifiedExport
        /\ rows' = exported
        /\ pc' = "commit"
        /\ UNCHANGED <<verdict, view>>
     \/ /\ SettleFails
        /\ UNCHANGED <<rows, view>>
  /\ SettleFrame

\* settleExport: an export that is not verified, or that does not extend the
\* mirror (reconcileNative), is refused.
Export ==
  /\ pc = "export"
  /\ \/ /\ VerifiedExport /\ rows \subseteq exported
        /\ rows' = exported
        /\ pc' = "commit"
        /\ UNCHANGED <<verdict, view>>
     \/ /\ SettleFails
        /\ UNCHANGED <<rows, view>>
  /\ SettleFrame

Commit ==
  /\ pc = "commit"
  /\ \/ /\ durable' = rows
        /\ committed' = TRUE
        /\ pc' = "publish"
        /\ UNCHANGED verdict
     \/ /\ SettleFails
        /\ UNCHANGED <<durable, committed>>
  /\ UNCHANGED <<remoteVars, rows, poison, admitted, n, nativeVars, report,
                 outcomeVars, cancelled, turnVars, hostVars>>

\* Mutant: the incarnation of an unpublished turn is not fenced.
IdleUnpublished == accepted

\* A turn the store never received is fenced before its terminal idle.
MayIdle == accepted /\ committed

\* The last updates, the terminal idle and the response; delivery may fail.
Publish ==
  /\ pc = "publish"
  /\ \E emitted, delivered \in BOOLEAN :
       /\ told' = IF MayIdle /\ delivered THEN told \cup {n} ELSE told
       /\ response' = IF emitted /\ (MayIdle => delivered) THEN verdict ELSE "failed"
  /\ DropTurn
  /\ pc' = "ready"
  /\ UNCHANGED <<serviceVars, durable, rows, poison, admitted, n>>

----------------------------------------------------------------------------
(* Between turns, and across restarts.                                     *)

\* A config write or a close commits the rows in memory.
Republish ==
  /\ pc = "ready"
  /\ durable' = rows
  /\ UNCHANGED <<remoteVars, rows, poison, admitted, pc, n, nativeVars, report,
                 outcomeVars, cancelled, turnVars, settleVars, hostVars>>

\* The adapter dies, or drops a session it could not restore: the store, the
\* thread, what is on its way to it and what the host was told remain.
Crash ==
  /\ pc # "down"
  /\ pc' = "down"
  /\ rows' = {} /\ poison' = FALSE /\ admitted' = 0
  /\ DropTurn
  /\ UNCHANGED <<serviceVars, durable, n, hostVars>>

RestoreStep ==
  UNCHANGED <<remoteVars, poison, admitted, n, nativeVars, report, submitted,
              cancelSent, cancelAck, receipt, stopped, cancelled, turnVars,
              settleVars, hostVars>>

\* A load or resume observes the quiet thread: of the next process, from the
\* stored mirror, or of the live session, with the gate and the rows in memory.
RestoreObserves ==
  /\ \/ pc = "down" /\ pc' = "restore" /\ rows' = durable
     \/ pc = "ready" /\ ~poison /\ pc' = "reload" /\ UNCHANGED rows
  /\ Quiet
  /\ view' = thread
  /\ UNCHANGED durable
  /\ RestoreStep

\* The export shows the observed thread and extends the mirror (reconcileNative);
\* it is committed before the session adopts it.
RestoreCommits ==
  /\ pc \in {"restore", "reload"}
  /\ VerifiedExport /\ rows \subseteq exported
  /\ rows' = exported
  /\ durable' = exported
  /\ pc' = "ready" /\ view' = NoView
  /\ RestoreStep

\* A live session outlives its failed restore; a cold one is dropped (Crash).
ReloadFails ==
  /\ pc = "reload"
  /\ pc' = "ready" /\ view' = NoView
  /\ UNCHANGED <<rows, durable>>
  /\ RestoreStep

----------------------------------------------------------------------------
Service ==
  RemoteStarts \/ OtherStarts \/ RemoteEnds \/ ExportCatchesUp \/ RemoteTruncated

Handler == Admit \/ Prompt \/ Refuse \/ Cancel

Control ==
  \/ ReportReady \/ ReportSettled \/ Ready \/ ReadReceipt \/ ReadSettled
  \/ SendCancel \/ ReadCancelAck \/ Stop \/ LoopExits \/ BridgeFails \/ Deadline

Reader == FrameMessage \/ FrameDrift \/ FrameFails

Settle == FinishTurn \/ Observe \/ Export \/ Commit \/ Publish

Restart == Crash \/ RestoreObserves \/ RestoreCommits \/ ReloadFails

Next ==
  \/ Service \/ NativeExits \/ Handler \/ Control \/ Reader \/ Settle
  \/ Republish \/ Restart

Spec == Init /\ [][Next]_vars

\* The adapter's own steps make progress, each under a deadline of its own; the
\* service, the native process and the host promise nothing.
Fairness == WF_vars(SendCancel \/ Stop \/ LoopExits \/ Deadline \/ Settle)

FairSpec == Spec /\ Fairness

----------------------------------------------------------------------------
(* Properties.                                                             *)

\* Whenever the host has been told a turn is over, the store holds what the turn
\* left in the thread: whatever the order of cancel, receipt, process exit,
\* stale exports, failed commits and other clients' turns (README, Persistence;
\* finishTurn).
IdleIsDurable == told \cap thread \subseteq durable

\* The turn the service ran when the native process attached, an earlier prompt
\* that outlived its own process or another client's, is over before this prompt
\* is submitted, although the event that says so is read after the thread has
\* moved on (accept).  A turn that starts later is not excluded.
PromptWaits == submitted /\ pc = "running" /\ inherited # 0 => remote # inherited

\* A turn is answered as finished only on complete evidence: the native receipt,
\* the terminal frame, a clean run and the commit (turnVerdict, finishTurn).
FinishedNeedsEvidence ==
  [][response' # response /\ response' \in {"end_turn", "refusal"} =>
       /\ receipt = "done" /\ runErr = "none" /\ committed
       /\ n \in thread => n \in durable]_vars

\* The mirror only grows: a truncated or conflicting thread is refused, and a
\* crash between a turn and its commit loses no turn the store already had.
MirrorNeverShrinks == [][durable \subseteq durable']_vars

\* After an identity drift the session runs no prompt it had not admitted by then
\* (admissionError), and the turn that drifted changes neither the rows nor the
\* mirror (finishTurn).  A prompt admitted before may still run and commit.
PoisonQuarantine ==
  [][poison /\ poison' =>
       /\ admitted' <= admitted /\ (n' # n => admitted' < admitted)
       /\ runErr = "drift" => rows' = rows /\ durable' = durable]_vars

\* A cancelled turn is answered even if Amp never acknowledges the cancel.
CancelAnswered == pc = "running" /\ cancelled ~> pc \in {"ready", "down"}

\* README, Persistence: the mirror is durable before the prompt response.
AnsweredIsDurable ==
  response \notin {"none", "failed"} /\ n \in thread => n \in durable
=============================================================================
