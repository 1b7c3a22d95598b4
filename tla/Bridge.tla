------------------------------- MODULE Bridge -------------------------------
(***************************************************************************)
(* One attached run: the thread on Amp's service, the temporary plugin in  *)
(* the native process that observes it, and the adapter's control loop.    *)
(*                                                                         *)
(* The plugin is an event-driven program.  The host delivers answers and   *)
(* notifications in the order it produced them, one at a time: an answer   *)
(* finds every earlier notification delivered, and the code that awaits it *)
(* runs before the next one.                                               *)
(* It talks to the control loop through an append-only event file, and the *)
(* control loop to it through the presence of a cancel file.  The thread's *)
(* messages are read in pages; a page is the number of its last change.    *)
(***************************************************************************)
EXTENDS Naturals, Sequences

CONSTANTS
  Pages,       \* pages of messages in the thread
  MaxChanges,  \* bound: changes of a page
  MaxOthers,   \* bound: turns other clients of the account start
  Failures     \* the calls of the plugin that may fail

AllFailures == {"snapshot", "timer", "hook"}

ASSUME PagesAssumption == Pages \in Nat \ {0}
ASSUME BoundsAssumption == MaxChanges \in Nat /\ MaxOthers \in Nat
ASSUME FailuresAssumption == Failures \subseteq AllFailures

VARIABLES
  content,     \* the thread's messages, page by page
  turn,        \* the turn this run submits
  busy,        \* a turn of somebody else: an earlier run's, another client's
  others,      \* turns other clients may still start
  reached,     \* a cancel reached the running turn
  rests,       \* what the thread held at rest since its last own turn
  alive,       \* the native process
  attached,    \* the plugin's thread is set and subscribed to
  pending,     \* notifications on their way to the plugin
  due,         \* its zero timeouts: the snapshots to take
  snap,        \* the snapshot being read; phase none when reading is false
  ended, cancelling,   \* the plugin's variables of those names
  calls,       \* its thread.cancel() calls, by the code that awaits them
  events,      \* the event file from the control loop's position on
  input,       \* the run has a prompt to submit
  cancelled,   \* the turn's context is cancelled
  submitted, started, receipt, view, cancelSent, cancelAck,
  control      \* the control loop

serviceVars == <<content, turn, busy, others, rests>>
pluginVars == <<attached, due, snap, ended, cancelling, calls>>
stateVars == <<submitted, started, receipt, view, cancelSent, cancelAck>>
vars == <<serviceVars, reached, alive, pluginVars, pending, events, input,
          cancelled, stateVars, control>>

NoView == <<>>
Contents == [1 .. Pages -> 0 .. MaxChanges]
Views == UNION {[1 .. n -> 0 .. MaxChanges] : n \in 0 .. Pages}
NoSnapshot == [phase |-> "none", type |-> "ready", moved |-> FALSE,
               pages |-> NoView]

Snapshots == [phase : {"none", "get", "read", "recheck"},
              type : {"ready", "settled"}, moved : BOOLEAN, pages : Views]
Event == [type : {"ready", "settled", "start", "end", "cancel.ack", "error"},
          quiet : BOOLEAN, messages : Views]
Note == [kind : {"active", "quiet", "start", "end"}, messages : Views]

TypeOK ==
  /\ content \in Contents /\ rests \subseteq Contents
  /\ turn \in {"none", "running", "ending", "over"}
  /\ others \in 0 .. MaxOthers
  /\ pending \in Seq(Note)
  /\ due \subseteq {"ready", "settled"} /\ calls \subseteq {"timer", "hook"}
  /\ snap \in Snapshots /\ (snap.phase = "none" => snap = NoSnapshot)
  /\ events \in Seq(Event)
  /\ receipt \in Contents \cup {NoView} /\ view \in Contents \cup {NoView}
  /\ control \in {"running", "stopped", "failed", "exited"}
  /\ {busy, reached, alive, attached, ended, cancelling, input, cancelled,
      submitted, started, cancelSent, cancelAck} \subseteq BOOLEAN

Init ==
  /\ content = [p \in 1 .. Pages |-> 0]
  /\ turn = "none" /\ busy \in BOOLEAN /\ others = MaxOthers /\ reached = FALSE
  /\ rests = IF busy THEN {} ELSE {content}
  /\ alive = TRUE /\ attached = FALSE /\ pending = <<>> /\ due = {}
  /\ snap = NoSnapshot /\ ended = FALSE /\ cancelling = FALSE /\ calls = {}
  /\ events = <<>>
  /\ input \in BOOLEAN /\ cancelled = FALSE
  /\ submitted = FALSE /\ started = FALSE /\ receipt = NoView /\ view = NoView
  /\ cancelSent = FALSE /\ cancelAck = FALSE
  /\ control = "running"

----------------------------------------------------------------------------
(* Amp's service.  Nothing observes it once the native process is gone.    *)

Active == turn \in {"running", "ending"} \/ busy

Notify(kinds, messages) ==
  pending' = IF ~attached THEN pending
             ELSE pending \o [i \in DOMAIN kinds |->
                               [kind |-> kinds[i], messages |-> messages]]

ServiceStep ==
  /\ alive
  /\ UNCHANGED <<alive, pluginVars, events, input, cancelled, stateVars, control>>

\* The prompt is delivered and nobody else works on the thread.
TurnStarts ==
  /\ submitted /\ turn = "none" /\ ~busy
  /\ turn' = "running" /\ rests' = {}
  /\ \E notes \in {<<"active", "start">>, <<"start", "active">>} : Notify(notes, NoView)
  /\ UNCHANGED <<content, busy, others, reached>>
  /\ ServiceStep

\* A turn appends to the last page; somebody else may also edit an earlier one.
Write ==
  /\ turn = "running" \/ busy
  /\ \E p \in (IF busy THEN 1 .. Pages ELSE {Pages}) :
       /\ content[p] < MaxChanges
       /\ content' = [content EXCEPT ![p] = @ + 1]
  /\ UNCHANGED <<turn, busy, others, rests, reached, pending>>
  /\ ServiceStep

\* agent.end precedes the transition of the native state.
TurnEnds ==
  /\ turn = "running"
  /\ turn' = "ending"
  /\ Notify(<<"end">>, content)
  /\ UNCHANGED <<content, busy, others, rests, reached>>
  /\ ServiceStep

TurnRests ==
  /\ turn = "ending"
  /\ turn' = "over" /\ rests' = {content}
  /\ Notify(<<"quiet">>, NoView)
  /\ UNCHANGED <<content, busy, others, reached>>
  /\ ServiceStep

OtherStarts ==
  /\ others > 0 /\ ~Active
  /\ others' = others - 1 /\ busy' = TRUE
  /\ Notify(<<"active">>, NoView)
  /\ UNCHANGED <<content, turn, rests, reached>>
  /\ ServiceStep

OtherEnds ==
  /\ busy
  /\ busy' = FALSE /\ rests' = rests \cup {content}
  /\ Notify(<<"quiet">>, NoView)
  /\ UNCHANGED <<content, turn, others, reached>>
  /\ ServiceStep

ProcessExits ==
  /\ alive
  /\ alive' = FALSE
  /\ UNCHANGED <<serviceVars, reached, pluginVars, pending, events, input,
                 cancelled, stateVars, control>>

----------------------------------------------------------------------------
(* The plugin.                                                             *)

Emission(type, isQuiet, messages) ==
  [type |-> type, quiet |-> isQuiet, messages |-> messages]

Emit(type, isQuiet, messages) ==
  events' = Append(events, Emission(type, isQuiet, messages))

EmitError == Emit("error", FALSE, NoView)

PluginStep ==
  /\ alive
  /\ UNCHANGED <<serviceVars, alive, input, cancelled, stateVars, control>>

NewSnapshot(type) == [phase |-> "get", type |-> type, moved |-> FALSE, pages |-> NoView]

\* A snapshot asked for while another one is being read is dropped.
StartSnapshot(type) == snap' = IF snap.phase = "none" THEN NewSnapshot(type) ELSE snap

SessionStart ==
  /\ ~attached
  /\ attached' = TRUE /\ due' = due \cup {"ready"}
  /\ UNCHANGED <<snap, ended, cancelling, calls, reached, pending, events>>
  /\ PluginStep

TimeoutFires(type) ==
  /\ type \in due
  /\ due' = due \ {type}
  /\ StartSnapshot(type)
  /\ UNCHANGED <<attached, ended, cancelling, calls, reached, pending, events>>
  /\ PluginStep

NextNote(kinds) ==
  /\ pending # <<>> /\ Head(pending).kind \in kinds
  /\ pending' = Tail(pending)

\* Mutant: notifications leave the epoch alone.
MovedUnnoticed == snap

\* epoch++, seen by a snapshot that has taken its generation.
Moved == IF snap.phase \in {"read", "recheck"} THEN [snap EXCEPT !.moved = TRUE] ELSE snap

DeliverState ==
  /\ NextNote({"active", "quiet"})
  /\ IF Head(pending).kind = "quiet" /\ ended /\ snap.phase = "none"
     THEN StartSnapshot("settled")
     ELSE snap' = Moved
  /\ UNCHANGED <<attached, due, ended, cancelling, calls, reached, events>>
  /\ PluginStep

\* Mutant: agent.start does not look for the cancel file.
DeliverStartNoFile ==
  /\ NextNote({"start"})
  /\ snap' = Moved /\ ended' = FALSE
  /\ Emit("start", FALSE, NoView)
  /\ UNCHANGED <<attached, due, cancelling, calls, reached>>
  /\ PluginStep

DeliverStart ==
  /\ NextNote({"start"})
  /\ snap' = Moved /\ ended' = FALSE
  /\ Emit("start", FALSE, NoView)
  /\ calls' = IF cancelSent THEN calls \cup {"hook"} ELSE calls
  /\ UNCHANGED <<attached, due, cancelling, reached>>
  /\ PluginStep

DeliverEnd ==
  /\ NextNote({"end"})
  /\ snap' = Moved /\ ended' = TRUE
  /\ Emit("end", FALSE, Head(pending).messages)
  /\ due' = due \cup {"settled"}
  /\ UNCHANGED <<attached, cancelling, calls, reached>>
  /\ PluginStep

\* The state is known: read the messages, or give up on an active thread.
StateReply ==
  /\ snap.phase = "get" /\ pending = <<>>
  /\ IF ~Active THEN snap' = [snap EXCEPT !.phase = "read"] /\ UNCHANGED events
     ELSE /\ snap' = NoSnapshot
          /\ IF snap.type = "ready" THEN Emit("ready", FALSE, NoView) ELSE UNCHANGED events
  /\ UNCHANGED <<attached, due, ended, cancelling, calls, reached, pending>>
  /\ PluginStep

\* After the last page the epoch is compared, then the state is asked again.
ReadPage ==
  /\ snap.phase = "read" /\ pending = <<>>
  /\ LET pages == Append(snap.pages, content[Len(snap.pages) + 1])
     IN  IF Len(pages) < Pages
         THEN snap' = [snap EXCEPT !.pages = pages] /\ UNCHANGED events
         ELSE IF snap.moved THEN snap' = NoSnapshot /\ EmitError
         ELSE /\ snap' = [snap EXCEPT !.pages = pages, !.phase = "recheck"]
              /\ UNCHANGED events
  /\ UNCHANGED <<attached, due, ended, cancelling, calls, reached, pending>>
  /\ PluginStep

\* Mutant: the messages outlive the snapshot that read them.
RecheckKeepsPages ==
  /\ snap.phase = "recheck" /\ pending = <<>>
  /\ snap' = [snap EXCEPT !.phase = "none"]
  /\ IF Active THEN EmitError ELSE Emit(snap.type, TRUE, snap.pages)
  /\ UNCHANGED <<attached, due, ended, cancelling, calls, reached, pending>>
  /\ PluginStep

Recheck ==
  /\ snap.phase = "recheck" /\ pending = <<>>
  /\ snap' = NoSnapshot
  /\ IF Active THEN EmitError ELSE Emit(snap.type, TRUE, snap.pages)
  /\ UNCHANGED <<attached, due, ended, cancelling, calls, reached, pending>>
  /\ PluginStep

SnapshotFails ==
  /\ "snapshot" \in Failures /\ snap.phase # "none"
  /\ snap' = NoSnapshot /\ EmitError
  /\ UNCHANGED <<attached, due, ended, cancelling, calls, reached, pending>>
  /\ PluginStep

\* The interval finds the cancel file.
CancelDue == attached /\ ~cancelling /\ cancelSent

CancelTimer ==
  /\ CancelDue
  /\ cancelling' = TRUE /\ calls' = calls \cup {"timer"}
  /\ UNCHANGED <<attached, due, snap, ended, reached, pending, events>>
  /\ PluginStep

\* thread.cancel() cancels the turn that runs, if any, and is acknowledged.
CancelReply(caller) ==
  /\ caller \in calls /\ pending = <<>>
  /\ calls' = calls \ {caller}
  /\ reached' = (reached \/ turn = "running")
  /\ Emit("cancel.ack", FALSE, NoView)
  /\ IF caller = "timer" /\ ended THEN StartSnapshot("settled") ELSE UNCHANGED snap
  /\ cancelling' = (cancelling \/ caller = "hook")
  /\ UNCHANGED <<attached, due, ended, pending>>
  /\ PluginStep

\* The interval reports a failed cancel, the hook of agent.start does not.
CancelFails(caller) ==
  /\ caller \in calls \cap Failures
  /\ calls' = calls \ {caller}
  /\ IF caller = "timer" THEN EmitError ELSE UNCHANGED events
  /\ UNCHANGED <<attached, due, snap, ended, cancelling, reached, pending>>
  /\ PluginStep

----------------------------------------------------------------------------
(* The control loop.                                                       *)

ControlStep ==
  /\ control = "running"
  /\ UNCHANGED <<serviceVars, reached, pluginVars, pending, input>>

Goes(outcome) == control' = outcome /\ alive' = FALSE

\* run returns an error: the view is dropped and the process is killed.
Fails ==
  /\ Goes("failed")
  /\ view' = NoView
  /\ UNCHANGED <<submitted, started, receipt, cancelSent, cancelAck>>

NextEvent(type) ==
  /\ events # <<>> /\ Head(events).type = type
  /\ events' = Tail(events)

\* prepare may refuse the view.
AcceptReady ==
  /\ NextEvent("ready")
  /\ \/ Fails
     \/ /\ Head(events).quiet /\ ~cancelled
        /\ IF ~input THEN view' = Head(events).messages /\ UNCHANGED submitted
           ELSE ~submitted /\ submitted' = TRUE /\ UNCHANGED view
        /\ UNCHANGED <<alive, control, started, receipt, cancelSent, cancelAck>>
  /\ UNCHANGED cancelled
  /\ ControlStep

AcceptStart ==
  /\ NextEvent("start")
  /\ IF ~submitted \/ started THEN Fails
     ELSE /\ started' = TRUE
          /\ UNCHANGED <<alive, control, submitted, receipt, view, cancelSent, cancelAck>>
  /\ UNCHANGED cancelled
  /\ ControlStep

AcceptEnd ==
  /\ NextEvent("end")
  /\ IF ~started THEN Fails
     ELSE /\ receipt' = Head(events).messages
          /\ UNCHANGED <<alive, control, submitted, started, view, cancelSent, cancelAck>>
  /\ UNCHANGED cancelled
  /\ ControlStep

\* The turn wrote to the last page: the settled thread must still end with it.
ContainsReceipt(messages) == messages[Pages] = receipt[Pages]

AcceptSettled ==
  /\ NextEvent("settled")
  /\ IF receipt # NoView /\ ~ContainsReceipt(Head(events).messages) THEN Fails
     ELSE /\ view' = IF receipt = NoView THEN view ELSE Head(events).messages
          /\ UNCHANGED <<alive, control, submitted, started, receipt, cancelSent, cancelAck>>
  /\ UNCHANGED cancelled
  /\ ControlStep

AcceptAck ==
  /\ NextEvent("cancel.ack")
  /\ cancelAck' = TRUE
  /\ UNCHANGED <<alive, control, cancelled, submitted, started, receipt, view, cancelSent>>
  /\ ControlStep

AcceptError ==
  /\ NextEvent("error")
  /\ Fails
  /\ UNCHANGED cancelled
  /\ ControlStep

\* The turn is cancelled: session/cancel, close, or the caller's deadline.
Cancel ==
  /\ ~cancelled /\ control = "running"
  /\ cancelled' = TRUE
  /\ UNCHANGED <<serviceVars, reached, alive, pluginVars, pending, events, input,
                 stateVars, control>>

\* Nothing submitted: stop observing.  Otherwise leave the plugin a file.
HandleCancel ==
  /\ cancelled /\ ~cancelSent
  /\ IF submitted
     THEN \/ Fails
          \/ /\ cancelSent' = TRUE
             /\ UNCHANGED <<alive, control, submitted, started, receipt, view, cancelAck>>
     ELSE Goes("stopped") /\ UNCHANGED stateVars
  /\ UNCHANGED <<cancelled, events>>
  /\ ControlStep

\* Mutant: an acknowledged cancel concludes the run.
ConcludedOnAck == view # NoView \/ cancelAck

Concluded == view # NoView /\ (cancelSent => cancelAck)

\* stopObserver.
Stop ==
  /\ Concluded
  /\ Goes("stopped")
  /\ UNCHANGED <<stateVars, cancelled, events>>
  /\ ControlStep

\* The process is gone and its last events are read; it may have failed.
Exits ==
  /\ ~alive /\ events = <<>>
  /\ Goes("exited")
  /\ view' \in {view, NoView}
  /\ UNCHANGED <<submitted, started, receipt, cancelSent, cancelAck, cancelled, events>>
  /\ ControlStep

\* Mutant: the receipt does not arm the deadline again.
DeadlineArmedNoReceipt == ~submitted \/ cancelSent

DeadlineArmed == ~submitted \/ cancelSent \/ receipt # NoView

Deadline ==
  /\ DeadlineArmed
  /\ Fails
  /\ UNCHANGED <<cancelled, events>>
  /\ ControlStep

Service == TurnStarts \/ Write \/ TurnEnds \/ TurnRests \/ OtherStarts \/ OtherEnds

Plugin ==
  \/ SessionStart \/ \E type \in due : TimeoutFires(type)
  \/ DeliverState \/ DeliverStart \/ DeliverEnd
  \/ StateReply \/ ReadPage \/ Recheck \/ SnapshotFails
  \/ CancelTimer \/ \E caller \in calls : CancelReply(caller) \/ CancelFails(caller)

Control ==
  \/ AcceptReady \/ AcceptStart \/ AcceptEnd \/ AcceptSettled \/ AcceptAck
  \/ AcceptError \/ HandleCancel \/ Stop \/ Exits \/ Deadline

Done == control # "running" /\ UNCHANGED vars

Next == Service \/ ProcessExits \/ Plugin \/ Cancel \/ Control \/ Done

\* The loop polls every 10 ms; nothing obliges the service or the plugin.
Spec == Init /\ [][Next]_vars /\ WF_vars(Control)

----------------------------------------------------------------------------
(* Properties.                                                             *)

(* A view the control loop keeps is what the thread held, all pages at the *)
(* same moment, while nobody worked on it: bridge.ts reads pages while the *)
(* thread may change, and only the epoch and the two states tell.          *)
ViewWasAtRest == view # NoView => view \in rests

(* A cancel left in the file reaches the running turn, whether the plugin  *)
(* finds it before the turn starts, while it starts, or afterwards: when   *)
(* the plugin has nothing more to do, it has cancelled the turn or         *)
(* reported an error, which makes the loop kill the process.               *)
PluginIdle == pending = <<>> /\ calls = {} /\ ~CancelDue
ReportsError == \E i \in DOMAIN events : events[i].type = "error"

CancelNotLost ==
  alive /\ cancelSent /\ turn = "running" /\ PluginIdle => reached \/ ReportsError

(* The loop leaves the observer alone only while a turn it submitted runs: *)
(* before it submits, after a cancel and after the receipt it ends, even   *)
(* when the plugin dropped the snapshot it waits for.                      *)
ObserverEnds ==
  /\ ~submitted ~> (submitted \/ control # "running")
  /\ (cancelSent \/ receipt # NoView) ~> control # "running"

(* The attached run implements what its caller relies on: it concludes     *)
(* with a view of the thread at rest, after its own turn is over.          *)
Observer == INSTANCE AttachedObserver WITH
  turn <- IF turn = "ending" THEN "running" ELSE turn,
  phase <- IF control = "running" THEN IF submitted THEN "submitted" ELSE "attached"
           ELSE IF control = "stopped" \/ view # NoView THEN "concluded" ELSE "failed",
  view <- IF control = "running" THEN NoView ELSE view

ImplementsObserver == Observer!Spec

=============================================================================
