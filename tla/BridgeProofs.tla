---------------------------- MODULE BridgeProofs ----------------------------
(***************************************************************************)
(* For any number of pages, changes and other clients: the types of an     *)
(* attached run, the origin of its view, the fate of a cancel, and its     *)
(* refinement of AttachedObserver.                                         *)
(***************************************************************************)
EXTENDS Bridge, SequenceTheorems, TLAPS

Elements(s) == {s[i] : i \in 1 .. Len(s)}

Kinds == {"active", "quiet", "start", "end"}
Types == {"ready", "settled", "start", "end", "cancel.ack", "error"}

\* The own turn is submitted before it runs, and runs alone.
ServiceOK ==
  /\ ~Active => content \in rests
  /\ turn # "none" => submitted
  /\ busy => turn \notin {"running", "ending"}
  /\ submitted => input

\* What tells of the end of the own turn comes after it: the plugin's flags and
\* snapshots, the receipt, the notifications and the events.
EndOK ==
  ended \/ "settled" \in due \/ snap.type = "settled" \/ receipt # NoView =>
    turn \in {"ending", "over"}

EndNotesOK ==
  \A e \in Elements(pending) :
    e.kind = "end" => turn \in {"ending", "over"} /\ e.messages \in Contents

EndEventsOK ==
  \A e \in Elements(events) :
    e.type = "end" => turn \in {"ending", "over"} /\ e.messages \in Contents

\* A plugin without a thread has seen nothing.
DetachedOK ==
  ~attached => pending = <<>> /\ due = {} /\ ~ended /\ snap.phase = "none"

\* A snapshot that has not moved reads the resting thread, unless a notification
\* that will move it is on its way.
ReadsRest ==
  snap.phase = "read" /\ ~snap.moved /\ pending = <<>> =>
    ~Active /\ \A p \in 1 .. Len(snap.pages) : snap.pages[p] = content[p]

SnapOK ==
  /\ snap.phase \in {"none", "get"} => snap.pages = NoView
  /\ snap.phase \in {"read", "recheck"} /\ snap.type = "settled" => turn = "over"
  /\ snap.phase = "read" => Len(snap.pages) < Pages
  /\ snap.phase = "recheck" /\ (snap.type = "settled" \/ ~submitted) => snap.pages \in rests

\* The messages of a ready event count until the turn is submitted, those of a
\* settled one exist only after the turn.
QuietEventsOK ==
  \A e \in Elements(events) :
    /\ e.type = "settled" => turn = "over" /\ e.messages \in rests
    /\ e.type = "ready" /\ e.quiet /\ ~submitted => e.messages \in rests

ViewOK == view # NoView => view \in rests /\ (turn = "over" \/ ~input)

IInv ==
  /\ TypeOK /\ ServiceOK /\ EndOK /\ EndNotesOK /\ EndEventsOK /\ DetachedOK
  /\ ReadsRest /\ SnapOK /\ QuietEventsOK /\ ViewOK

----------------------------------------------------------------------------
(* Queues, as the sets of what is in them.                                 *)

\* Pages read one after another make a view of the thread.
LEMMA ViewFacts ==
  /\ \A v \in Views : v \in Seq(0 .. MaxChanges) /\ Len(v) \in 0 .. Pages
  /\ \A v \in Seq(0 .. MaxChanges) : Len(v) <= Pages => v \in Views
  /\ \A v \in Seq(0 .. MaxChanges) : Len(v) = Pages => v \in Contents
  /\ Contents \subseteq Views
  /\ NoView \in Views /\ NoView \notin Contents /\ Len(NoView) = 0
<1> USE PagesAssumption, BoundsAssumption DEF Views, Contents
<1>1. \A v \in Views : v \in Seq(0 .. MaxChanges) /\ Len(v) \in 0 .. Pages
  <2> TAKE v \in Views
  <2>1. PICK k \in 0 .. Pages : v \in [1 .. k -> 0 .. MaxChanges]
    OBVIOUS
  <2>2. v \in Seq(0 .. MaxChanges)
    BY <2>1, SeqDef
  <2>3. Len(v) = k
    BY <2>1, <2>2, LenProperties
  <2>4. QED
    BY <2>2, <2>3
<1>2. \A v \in Seq(0 .. MaxChanges) : v \in [1 .. Len(v) -> 0 .. MaxChanges] /\ Len(v) \in Nat
  BY LenProperties
<1>3. \A v \in Seq(0 .. MaxChanges) : Len(v) <= Pages => v \in Views
  BY <1>2
<1>4. \A v \in Seq(0 .. MaxChanges) : Len(v) = Pages => v \in Contents
  BY <1>2
<1>5. Contents \subseteq Views
  OBVIOUS
<1>6. NoView \in Views
  BY <1>3, EmptySeq DEF NoView
<1>7. NoView \notin Contents /\ Len(NoView) = 0
  BY DEF NoView
<1>8. QED
  BY <1>1, <1>3, <1>4, <1>5, <1>6, <1>7

\* Appending, and taking the first of a queue.
LEMMA AppendElements ==
  ASSUME NEW S, NEW s \in Seq(S), NEW e \in S
  PROVE  /\ Append(s, e) \in Seq(S)
         /\ Elements(Append(s, e)) = Elements(s) \cup {e}
<1>1. Append(s, e) \in Seq(S) /\ Len(Append(s, e)) = Len(s) + 1 /\ Len(s) \in Nat
  BY LenProperties
<1>2. \A i \in 1 .. Len(s) : Append(s, e)[i] = s[i]
  OBVIOUS
<1>3. Append(s, e)[Len(s) + 1] = e
  OBVIOUS
<1>4. QED
  BY <1>1, <1>2, <1>3 DEF Elements

\* Its first element is one of them, and the rest stays.
LEMMA TakeElements ==
  ASSUME NEW S, NEW s \in Seq(S), s # <<>>
  PROVE  /\ Head(s) \in S /\ Head(s) \in Elements(s)
         /\ Tail(s) \in Seq(S) /\ Elements(Tail(s)) \subseteq Elements(s)
<1>1. /\ Head(s) \in S /\ Tail(s) \in Seq(S) /\ Len(Tail(s)) = Len(s) - 1
      /\ \A i \in 1 .. Len(Tail(s)) : Tail(s)[i] = s[i + 1]
  BY HeadTailProperties
<1>2. Len(s) \in Nat \ {0} /\ Head(s) = s[1]
  BY EmptySeq
<1>3. QED
  BY <1>1, <1>2 DEF Elements

\* What a step does to a queue: adds a notification for each kind, takes one,
\* appends an event, takes one.
Notified(kinds, messages) ==
  /\ pending' \in Seq(Note)
  /\ attached => pending' # <<>>
  /\ ~attached => pending' = pending
  /\ \A e \in Elements(pending') :
       e \in Elements(pending) \/ (e.kind \in kinds /\ e.messages = messages)

Delivered ==
  /\ Head(pending) \in Note /\ Head(pending) \in Elements(pending)
  /\ pending' \in Seq(Note) /\ Elements(pending') \subseteq Elements(pending)

Emitted(type, isQuiet, messages) ==
  /\ events' \in Seq(Event)
  /\ Elements(events') = Elements(events) \cup {Emission(type, isQuiet, messages)}

Taken ==
  /\ Head(events) \in Event /\ Head(events) \in Elements(events)
  /\ events' \in Seq(Event) /\ Elements(events') \subseteq Elements(events)

\* The plugin's queue of notifications.
LEMMA NotifyAppends ==
  ASSUME NEW kinds \in Seq(Kinds), kinds # <<>>, NEW messages \in Views,
         pending \in Seq(Note), attached \in BOOLEAN, Notify(kinds, messages)
  PROVE  Notified(Elements(kinds), messages)
<1> DEFINE notes == [k \in DOMAIN kinds |-> [kind |-> kinds[k], messages |-> messages]]
<1>1. notes \in Seq(Note) /\ Len(notes) = Len(kinds)
  <2>1. notes \in [1 .. Len(kinds) -> Note] /\ Len(kinds) \in Nat
    BY LenProperties DEF Note, Kinds
  <2>2. notes \in Seq(Note)
    BY <2>1, SeqDef
  <2>3. QED
    BY <2>1, <2>2, LenProperties
<1>2. \A k \in 1 .. Len(kinds) : notes[k] = [kind |-> kinds[k], messages |-> messages]
  BY LenProperties
<1>3. pending' = IF attached THEN pending \o notes ELSE pending
  BY DEF Notify
<1> HIDE DEF notes
<1>4. CASE ~attached
  BY <1>3, <1>4 DEF Notified
<1>5. CASE attached
  <2>1. pending' = pending \o notes
    BY <1>3, <1>5
  <2>2. /\ pending' \in Seq(Note) /\ Len(pending') = Len(pending) + Len(notes)
        /\ Len(pending) \in Nat /\ Len(kinds) \in Nat \ {0}
    BY <1>1, <2>1, ConcatProperties, LenProperties, EmptySeq
  <2>3. \A i \in 1 .. Len(pending') : pending'[i] =
            IF i <= Len(pending) THEN pending[i] ELSE notes[i - Len(pending)]
    BY <1>1, <2>1, <2>2, ConcatProperties
  <2>4. pending' # <<>>
    BY <1>1, <2>2, EmptySeq
  <2>5. ASSUME NEW i \in 1 .. Len(pending')
        PROVE  \/ pending'[i] \in Elements(pending)
               \/ pending'[i].kind \in Elements(kinds) /\ pending'[i].messages = messages
    <3>1. CASE i <= Len(pending)
      <4>1. i \in 1 .. Len(pending) /\ pending'[i] = pending[i]
        BY <3>1, <2>2, <2>3
      <4>2. QED
        BY <4>1 DEF Elements
    <3>2. CASE ~(i <= Len(pending))
      <4>1. i - Len(pending) \in 1 .. Len(kinds)
        BY <3>2, <2>2, <1>1
      <4>2. pending'[i] = notes[i - Len(pending)]
        BY <3>2, <2>3
      <4>3. pending'[i] = [kind |-> kinds[i - Len(pending)], messages |-> messages]
        BY <4>1, <4>2, <1>2
      <4>4. kinds[i - Len(pending)] \in Elements(kinds)
        BY <4>1 DEF Elements
      <4>5. QED
        BY <4>3, <4>4
    <3>3. QED
      BY <3>1, <3>2
  <2>6. \A e \in Elements(pending') : \E i \in 1 .. Len(pending') : e = pending'[i]
    BY DEF Elements
  <2>7. QED
    BY <1>5, <2>2, <2>4, <2>5, <2>6 DEF Notified
<1>6. QED
  BY <1>4, <1>5

\* Delivering a notification.
LEMMA NoteTaken ==
  ASSUME TypeOK, pending # <<>>, pending' = Tail(pending)
  PROVE  Delivered
BY TakeElements DEF TypeOK, Delivered

\* The event file.
LEMMA EmitAppends ==
  ASSUME TypeOK, NEW type \in Types, NEW isQuiet \in BOOLEAN, NEW messages \in Views,
         Emit(type, isQuiet, messages)
  PROVE  Emitted(type, isQuiet, messages)
<1>1. Emission(type, isQuiet, messages) \in Event
  BY DEF Emission, Event, Types
<1>2. QED
  BY <1>1, AppendElements DEF Emit, Emitted, TypeOK

\* Reading an event.
LEMMA EventTaken ==
  ASSUME TypeOK, events # <<>>, events' = Tail(events)
  PROVE  Taken
BY TakeElements DEF TypeOK, Taken

----------------------------------------------------------------------------
(* What the steps do to the queues.                                        *)

\* The two notifications of a start come in either order.
LEMMA TurnStartsNotifies == TypeOK /\ TurnStarts => Notified({"active", "start"}, NoView)
<1> SUFFICES ASSUME TypeOK, TurnStarts
             PROVE  Notified({"active", "start"}, NoView)
  OBVIOUS
<1>1. PICK notes \in {<<"active", "start">>, <<"start", "active">>} : Notify(notes, NoView)
  BY DEF TurnStarts
<1>2. /\ <<"active", "start">> \in Seq(Kinds) /\ <<"active", "start">> # <<>>
      /\ <<"start", "active">> \in Seq(Kinds) /\ <<"start", "active">> # <<>>
  BY DEF Kinds
<1>3. Elements(notes) = {"active", "start"}
  BY <1>1 DEF Elements
<1>4. Notified(Elements(notes), NoView)
  BY <1>1, <1>2, NotifyAppends, ViewFacts DEF TypeOK
<1>5. QED
  BY <1>3, <1>4

\* agent.end carries the messages.
LEMMA TurnEndsNotifies == TypeOK /\ TurnEnds => Notified({"end"}, content)
<1> SUFFICES ASSUME TypeOK, TurnEnds
             PROVE  Notified({"end"}, content)
  OBVIOUS
<1>1. <<"end">> \in Seq(Kinds) /\ <<"end">> # <<>> /\ Notify(<<"end">>, content)
  BY DEF TurnEnds, Kinds
<1>2. Elements(<<"end">>) = {"end"}
  BY DEF Elements
<1>3. content \in Views
  BY ViewFacts DEF TypeOK
<1>4. Notified(Elements(<<"end">>), content)
  BY <1>1, <1>3, NotifyAppends DEF TypeOK
<1>5. QED
  BY <1>2, <1>4

\* The state becomes idle.
LEMMA TurnRestsNotifies == TypeOK /\ TurnRests => Notified({"quiet"}, NoView)
<1> SUFFICES ASSUME TypeOK, TurnRests
             PROVE  Notified({"quiet"}, NoView)
  OBVIOUS
<1>1. <<"quiet">> \in Seq(Kinds) /\ <<"quiet">> # <<>> /\ Notify(<<"quiet">>, NoView)
  BY DEF TurnRests, Kinds
<1>2. Elements(<<"quiet">>) = {"quiet"}
  BY DEF Elements
<1>3. NoView \in Views
  BY ViewFacts DEF TypeOK
<1>4. Notified(Elements(<<"quiet">>), NoView)
  BY <1>1, <1>3, NotifyAppends DEF TypeOK
<1>5. QED
  BY <1>2, <1>4

\* Somebody else makes the thread active.
LEMMA OtherStartsNotifies == TypeOK /\ OtherStarts => Notified({"active"}, NoView)
<1> SUFFICES ASSUME TypeOK, OtherStarts
             PROVE  Notified({"active"}, NoView)
  OBVIOUS
<1>1. <<"active">> \in Seq(Kinds) /\ <<"active">> # <<>> /\ Notify(<<"active">>, NoView)
  BY DEF OtherStarts, Kinds
<1>2. Elements(<<"active">>) = {"active"}
  BY DEF Elements
<1>3. NoView \in Views
  BY ViewFacts DEF TypeOK
<1>4. Notified(Elements(<<"active">>), NoView)
  BY <1>1, <1>3, NotifyAppends DEF TypeOK
<1>5. QED
  BY <1>2, <1>4

\* And leaves it.
LEMMA OtherEndsNotifies == TypeOK /\ OtherEnds => Notified({"quiet"}, NoView)
<1> SUFFICES ASSUME TypeOK, OtherEnds
             PROVE  Notified({"quiet"}, NoView)
  OBVIOUS
<1>1. <<"quiet">> \in Seq(Kinds) /\ <<"quiet">> # <<>> /\ Notify(<<"quiet">>, NoView)
  BY DEF OtherEnds, Kinds
<1>2. Elements(<<"quiet">>) = {"quiet"}
  BY DEF Elements
<1>3. NoView \in Views
  BY ViewFacts DEF TypeOK
<1>4. Notified(Elements(<<"quiet">>), NoView)
  BY <1>1, <1>3, NotifyAppends DEF TypeOK
<1>5. QED
  BY <1>2, <1>4

\* The three handlers of the plugin take one notification.
LEMMA Delivers == TypeOK /\ (DeliverState \/ DeliverStart \/ DeliverEnd) => Delivered
BY NoteTaken DEF DeliverState, DeliverStart, DeliverEnd, NextNote

\* Each writes what it is told to the event file.
LEMMA DeliverStartEmits == TypeOK /\ DeliverStart => Emitted("start", FALSE, NoView)
BY EmitAppends, ViewFacts DEF DeliverStart, Types

\* The end event passes the messages of agent.end on.
LEMMA DeliverEndEmits == TypeOK /\ DeliverEnd => Emitted("end", FALSE, Head(pending).messages)
<1> SUFFICES ASSUME TypeOK, DeliverEnd
             PROVE  Emitted("end", FALSE, Head(pending).messages)
  OBVIOUS
<1>1. Head(pending).messages \in Views
  BY Delivers DEF Delivered, Note
<1>2. Emit("end", FALSE, Head(pending).messages)
  BY DEF DeliverEnd
<1>3. QED
  BY <1>1, <1>2, EmitAppends DEF Types

\* A snapshot that fails says so.
LEMMA ErrorEmits == TypeOK /\ EmitError => Emitted("error", FALSE, NoView)
BY EmitAppends, ViewFacts DEF EmitError, Types

\* An active thread is reported by ready, and by nothing when settling.
LEMMA StateReplyEmits ==
  TypeOK /\ StateReply => events' = events \/ Emitted("ready", FALSE, NoView)
BY EmitAppends, ViewFacts DEF StateReply, Types

\* A snapshot is reported only if the thread is at rest again.
LEMMA RecheckEmits ==
  TypeOK /\ Recheck =>
    Emitted("error", FALSE, NoView) \/ (~Active /\ Emitted(snap.type, TRUE, snap.pages))
<1> SUFFICES ASSUME TypeOK, Recheck
             PROVE  \/ Emitted("error", FALSE, NoView)
                    \/ ~Active /\ Emitted(snap.type, TRUE, snap.pages)
  OBVIOUS
<1>1. CASE Active
  BY <1>1, ErrorEmits DEF Recheck
<1>2. CASE ~Active
  <2>1. snap.type \in Types /\ snap.pages \in Views
    BY DEF TypeOK, Snapshots, Types
  <2>2. Emit(snap.type, TRUE, snap.pages)
    BY <1>2 DEF Recheck
  <2>3. QED
    BY <1>2, <2>1, <2>2, EmitAppends
<1>3. QED
  BY <1>1, <1>2

\* A cancel is acknowledged or failed.
LEMMA CancelEmits ==
  ASSUME TypeOK, NEW caller
  PROVE  /\ CancelReply(caller) => Emitted("cancel.ack", FALSE, NoView)
         /\ CancelFails(caller) => events' = events \/ Emitted("error", FALSE, NoView)
BY EmitAppends, ErrorEmits, ViewFacts DEF CancelReply, CancelFails, Types

\* The control loop takes the events in order.
LEMMA Accepts ==
  TypeOK /\ (AcceptReady \/ AcceptStart \/ AcceptEnd \/ AcceptSettled \/ AcceptAck \/ AcceptError)
    => Taken
BY EventTaken DEF AcceptReady, AcceptStart, AcceptEnd, AcceptSettled, AcceptAck, AcceptError, NextEvent

----------------------------------------------------------------------------
(* What the steps do to the snapshot.                                      *)

\* Moving a snapshot changes nothing else of it.
LEMMA MovedFields ==
  TypeOK =>
    /\ Moved \in Snapshots /\ (Moved.phase = "none" => Moved = NoSnapshot)
    /\ Moved.phase = snap.phase /\ Moved.type = snap.type /\ Moved.pages = snap.pages
    /\ snap.phase \in {"read", "recheck"} => Moved.moved
<1> SUFFICES ASSUME TypeOK
             PROVE  /\ Moved \in Snapshots /\ (Moved.phase = "none" => Moved = NoSnapshot)
                    /\ Moved.phase = snap.phase /\ Moved.type = snap.type /\ Moved.pages = snap.pages
                    /\ snap.phase \in {"read", "recheck"} => Moved.moved
  OBVIOUS
<1>1. snap \in Snapshots /\ (snap.phase = "none" => snap = NoSnapshot)
  BY DEF TypeOK
<1>2. QED
  BY <1>1 DEF Moved, Snapshots

\* A new snapshot starts from nothing; a running one goes on.
LEMMA StartFields ==
  ASSUME TypeOK, NEW type \in {"ready", "settled"}, StartSnapshot(type)
  PROVE  /\ snap' \in Snapshots /\ (snap'.phase = "none" => snap' = NoSnapshot)
         /\ snap' = IF snap.phase = "none" THEN NewSnapshot(type) ELSE snap
<1>1. NewSnapshot(type) \in Snapshots
  BY ViewFacts DEF NewSnapshot, Snapshots
<1>2. snap' = IF snap.phase = "none" THEN NewSnapshot(type) ELSE snap
  BY DEF StartSnapshot
<1>3. QED
  BY <1>1, <1>2 DEF TypeOK, NewSnapshot

\* No snapshot is one.
LEMMA NoSnapshotType == NoSnapshot \in Snapshots
BY ViewFacts DEF NoSnapshot, Snapshots

\* The snapshot of a plugin step: dropped, started, moved or read on.
LEMMA StateReplyFields ==
  TypeOK /\ StateReply =>
    \/ snap' = NoSnapshot
    \/ ~Active /\ snap.phase = "get"
       /\ snap' = [phase |-> "read", type |-> snap.type, moved |-> snap.moved, pages |-> snap.pages]
BY DEF TypeOK, StateReply, Snapshots

\* The next page is appended to those read before.
LEMMA ReadPageFields ==
  ASSUME TypeOK, SnapOK, ReadPage
  PROVE  /\ snap.phase = "read" /\ pending = <<>> /\ Len(snap.pages) \in 0 .. Pages - 1
         /\ \/ snap' = NoSnapshot
            \/ \E pages \in Views, phase \in {"read", "recheck"} :
                 /\ snap' = [phase |-> phase, type |-> snap.type, moved |-> snap.moved, pages |-> pages]
                 /\ Len(pages) = Len(snap.pages) + 1
                 /\ phase = "read" => Len(pages) < Pages
                 /\ phase = "recheck" => Len(pages) = Pages /\ ~snap.moved
                 /\ \A p \in 1 .. Len(pages) :
                      pages[p] = IF p <= Len(snap.pages) THEN snap.pages[p] ELSE content[p]
<1> USE PagesAssumption, BoundsAssumption
<1> DEFINE pages == Append(snap.pages, content[Len(snap.pages) + 1])
<1>1. snap.phase = "read" /\ pending = <<>> /\ snap \in Snapshots
  BY DEF ReadPage, TypeOK
<1>2. snap.pages \in Seq(0 .. MaxChanges) /\ Len(snap.pages) \in 0 .. Pages - 1
  BY <1>1, ViewFacts DEF SnapOK, Snapshots
<1>3. content[Len(snap.pages) + 1] \in 0 .. MaxChanges
  BY <1>2 DEF TypeOK, Contents
<1>4. pages \in Seq(0 .. MaxChanges) /\ Len(pages) = Len(snap.pages) + 1
  BY <1>2, <1>3
<1>5. \A p \in 1 .. Len(pages) :
        pages[p] = IF p <= Len(snap.pages) THEN snap.pages[p] ELSE content[p]
  BY <1>2, <1>3
<1>6. pages \in Views
  <2> HIDE DEF pages
  <2>1. Len(pages) <= Pages
    BY <1>2, <1>4
  <2>2. QED
    BY <2>1, <1>4, ViewFacts
<1>7. snap' = IF Len(pages) < Pages THEN [snap EXCEPT !.pages = pages]
              ELSE IF snap.moved THEN NoSnapshot
              ELSE [snap EXCEPT !.pages = pages, !.phase = "recheck"]
  BY DEF ReadPage
<1> HIDE DEF pages
<1>8. CASE Len(pages) < Pages
  <2>1. snap' = [phase |-> "read", type |-> snap.type, moved |-> snap.moved, pages |-> pages]
    BY <1>1, <1>7, <1>8 DEF Snapshots
  <2>2. QED
    BY <2>1, <1>1, <1>2, <1>4, <1>5, <1>6, <1>8
<1>9. CASE ~(Len(pages) < Pages) /\ ~snap.moved
  <2>1. snap' = [phase |-> "recheck", type |-> snap.type, moved |-> snap.moved, pages |-> pages]
    BY <1>1, <1>7, <1>9 DEF Snapshots
  <2>2. Len(pages) = Pages
    BY <1>2, <1>4, <1>9
  <2>3. QED
    BY <2>1, <2>2, <1>1, <1>2, <1>4, <1>5, <1>6, <1>9
<1>10. CASE ~(Len(pages) < Pages) /\ snap.moved
  BY <1>1, <1>2, <1>7, <1>10
<1>11. QED
  BY <1>8, <1>9, <1>10

----------------------------------------------------------------------------
(* The invariant.                                                          *)

\* What is appended to the two queues is a notification or an event.
LEMMA SeqsStep ==
  TypeOK /\ [Next]_vars => pending' \in Seq(Note) /\ events' \in Seq(Event)
<1> SUFFICES ASSUME TypeOK, [Next]_vars
             PROVE  pending' \in Seq(Note) /\ events' \in Seq(Event)
  OBVIOUS
<1> USE DEF TypeOK
<1>1. CASE TurnStarts
  BY <1>1, TurnStartsNotifies DEF TurnStarts, ServiceStep, pluginVars, stateVars, Notified
<1>2. CASE Write
  BY <1>2 DEF Write, ServiceStep, pluginVars, stateVars
<1>3. CASE TurnEnds
  BY <1>3, TurnEndsNotifies DEF TurnEnds, ServiceStep, pluginVars, stateVars, Notified
<1>4. CASE TurnRests
  BY <1>4, TurnRestsNotifies DEF TurnRests, ServiceStep, pluginVars, stateVars, Notified
<1>5. CASE OtherStarts
  BY <1>5, OtherStartsNotifies DEF OtherStarts, ServiceStep, pluginVars, stateVars, Active, Notified
<1>6. CASE OtherEnds
  BY <1>6, OtherEndsNotifies DEF OtherEnds, ServiceStep, pluginVars, stateVars, Notified
<1>7. CASE ProcessExits
  BY <1>7 DEF ProcessExits, serviceVars, pluginVars, stateVars
<1>8. CASE SessionStart
  BY <1>8 DEF SessionStart, PluginStep, serviceVars, stateVars
<1>9. ASSUME NEW type \in due, TimeoutFires(type) PROVE pending' \in Seq(Note) /\ events' \in Seq(Event)
  BY <1>9 DEF TimeoutFires, PluginStep, serviceVars, stateVars
<1>10. CASE DeliverState
  BY <1>10, Delivers DEF DeliverState, PluginStep, serviceVars, stateVars, NextNote, Delivered
<1>11. CASE DeliverStart
  BY <1>11, Delivers, DeliverStartEmits DEF DeliverStart, PluginStep, serviceVars, stateVars, NextNote, Delivered, Emitted, Emission
<1>12. CASE DeliverEnd
  BY <1>12, Delivers, DeliverEndEmits DEF DeliverEnd, PluginStep, serviceVars, stateVars, NextNote, Delivered, Emitted, Emission
<1>13. CASE StateReply
  BY <1>13, StateReplyEmits DEF StateReply, PluginStep, serviceVars, stateVars, Active, Emitted, Emission
<1>14. CASE ReadPage
  BY <1>14, ErrorEmits DEF ReadPage, PluginStep, serviceVars, stateVars, Emitted, Emission
<1>15. CASE Recheck
  BY <1>15, RecheckEmits DEF Recheck, PluginStep, serviceVars, stateVars, Active, Emitted, Emission
<1>16. CASE SnapshotFails
  BY <1>16, ErrorEmits DEF SnapshotFails, PluginStep, serviceVars, stateVars, Emitted, Emission
<1>17. CASE CancelTimer
  BY <1>17 DEF CancelTimer, PluginStep, serviceVars, stateVars, CancelDue
<1>18. ASSUME NEW caller \in calls, CancelReply(caller) PROVE pending' \in Seq(Note) /\ events' \in Seq(Event)
  BY <1>18, CancelEmits DEF CancelReply, PluginStep, serviceVars, stateVars, Emitted, Emission
<1>19. ASSUME NEW caller \in calls, CancelFails(caller) PROVE pending' \in Seq(Note) /\ events' \in Seq(Event)
  BY <1>19, CancelEmits DEF CancelFails, PluginStep, serviceVars, stateVars, Emitted, Emission
<1>20. CASE Cancel
  BY <1>20 DEF Cancel, serviceVars, pluginVars, stateVars
<1>21. CASE AcceptReady
  BY <1>21, Accepts DEF AcceptReady, ControlStep, serviceVars, pluginVars, NextEvent, Fails, Goes, Taken
<1>22. CASE AcceptStart
  BY <1>22, Accepts DEF AcceptStart, ControlStep, serviceVars, pluginVars, NextEvent, Fails, Goes, Taken
<1>23. CASE AcceptEnd
  BY <1>23, Accepts DEF AcceptEnd, ControlStep, serviceVars, pluginVars, NextEvent, Fails, Goes, Taken
<1>24. CASE AcceptSettled
  BY <1>24, Accepts DEF AcceptSettled, ControlStep, serviceVars, pluginVars, NextEvent, Fails, Goes, Taken
<1>25. CASE AcceptAck
  BY <1>25, Accepts DEF AcceptAck, ControlStep, serviceVars, pluginVars, NextEvent, Taken
<1>26. CASE AcceptError
  BY <1>26, Accepts DEF AcceptError, ControlStep, serviceVars, pluginVars, NextEvent, Fails, Goes, Taken
<1>27. CASE HandleCancel
  BY <1>27 DEF HandleCancel, ControlStep, serviceVars, pluginVars, Fails, Goes, stateVars
<1>28. CASE Stop
  BY <1>28 DEF Stop, ControlStep, serviceVars, pluginVars, Goes, stateVars, Concluded
<1>29. CASE Exits
  BY <1>29 DEF Exits, ControlStep, serviceVars, pluginVars, Goes
<1>30. CASE Deadline
  BY <1>30 DEF Deadline, ControlStep, serviceVars, pluginVars, Fails, Goes, DeadlineArmed
<1>31. CASE UNCHANGED vars
  BY <1>31 DEF vars, serviceVars, pluginVars, stateVars
<1>32. QED
  BY <1>1, <1>2, <1>3, <1>4, <1>5, <1>6, <1>7, <1>8, <1>9, <1>10, <1>11, <1>12, <1>13, <1>14, <1>15, <1>16,
     <1>17, <1>18, <1>19, <1>20, <1>21, <1>22, <1>23, <1>24, <1>25, <1>26, <1>27, <1>28, <1>29, <1>30, <1>31 DEF Next, Service, Plugin, Control, Done

\* A turn is submitted before it runs, and runs alone.
LEMMA ServiceOKStep ==
  TypeOK /\ ServiceOK /\ [Next]_vars => ServiceOK'
<1> SUFFICES ASSUME TypeOK, ServiceOK, [Next]_vars
             PROVE  ServiceOK'
  OBVIOUS
<1> USE DEF TypeOK, ServiceOK, Active
<1>1. CASE TurnStarts
  BY <1>1 DEF TurnStarts, ServiceStep, pluginVars, stateVars, Active
<1>2. CASE Write
  BY <1>2 DEF Write, ServiceStep, pluginVars, stateVars, Active
<1>3. CASE TurnEnds
  BY <1>3 DEF TurnEnds, ServiceStep, pluginVars, stateVars, Active
<1>4. CASE TurnRests
  BY <1>4 DEF TurnRests, ServiceStep, pluginVars, stateVars, Active
<1>5. CASE OtherStarts
  BY <1>5 DEF OtherStarts, ServiceStep, pluginVars, stateVars, Active
<1>6. CASE OtherEnds
  BY <1>6 DEF OtherEnds, ServiceStep, pluginVars, stateVars, Active
<1>7. CASE ProcessExits
  BY <1>7 DEF ProcessExits, serviceVars, pluginVars, stateVars, Active
<1>8. CASE SessionStart
  BY <1>8 DEF SessionStart, PluginStep, serviceVars, stateVars, Active
<1>9. ASSUME NEW type \in due, TimeoutFires(type) PROVE ServiceOK'
  BY <1>9 DEF TimeoutFires, PluginStep, serviceVars, stateVars, Active
<1>10. CASE DeliverState
  BY <1>10 DEF DeliverState, PluginStep, serviceVars, stateVars, NextNote, Active
<1>11. CASE DeliverStart
  BY <1>11 DEF DeliverStart, PluginStep, serviceVars, stateVars, NextNote, Active
<1>12. CASE DeliverEnd
  BY <1>12 DEF DeliverEnd, PluginStep, serviceVars, stateVars, NextNote, Active
<1>13. CASE StateReply
  BY <1>13 DEF StateReply, PluginStep, serviceVars, stateVars, Active
<1>14. CASE ReadPage
  BY <1>14 DEF ReadPage, PluginStep, serviceVars, stateVars, Active
<1>15. CASE Recheck
  BY <1>15 DEF Recheck, PluginStep, serviceVars, stateVars, Active
<1>16. CASE SnapshotFails
  BY <1>16 DEF SnapshotFails, PluginStep, serviceVars, stateVars, Active
<1>17. CASE CancelTimer
  BY <1>17 DEF CancelTimer, PluginStep, serviceVars, stateVars, CancelDue, Active
<1>18. ASSUME NEW caller \in calls, CancelReply(caller) PROVE ServiceOK'
  BY <1>18 DEF CancelReply, PluginStep, serviceVars, stateVars, Active
<1>19. ASSUME NEW caller \in calls, CancelFails(caller) PROVE ServiceOK'
  BY <1>19 DEF CancelFails, PluginStep, serviceVars, stateVars, Active
<1>20. CASE Cancel
  BY <1>20 DEF Cancel, serviceVars, pluginVars, stateVars, Active
<1>21. CASE AcceptReady
  BY <1>21 DEF AcceptReady, ControlStep, serviceVars, pluginVars, NextEvent, Fails, Goes, Active
<1>22. CASE AcceptStart
  BY <1>22 DEF AcceptStart, ControlStep, serviceVars, pluginVars, NextEvent, Fails, Goes, Active
<1>23. CASE AcceptEnd
  BY <1>23 DEF AcceptEnd, ControlStep, serviceVars, pluginVars, NextEvent, Fails, Goes, Active
<1>24. CASE AcceptSettled
  BY <1>24 DEF AcceptSettled, ControlStep, serviceVars, pluginVars, NextEvent, Fails, Goes, Active
<1>25. CASE AcceptAck
  BY <1>25 DEF AcceptAck, ControlStep, serviceVars, pluginVars, NextEvent, Active
<1>26. CASE AcceptError
  BY <1>26 DEF AcceptError, ControlStep, serviceVars, pluginVars, NextEvent, Fails, Goes, Active
<1>27. CASE HandleCancel
  BY <1>27 DEF HandleCancel, ControlStep, serviceVars, pluginVars, Fails, Goes, stateVars, Active
<1>28. CASE Stop
  BY <1>28 DEF Stop, ControlStep, serviceVars, pluginVars, Goes, stateVars, Concluded, Active
<1>29. CASE Exits
  BY <1>29 DEF Exits, ControlStep, serviceVars, pluginVars, Goes, Active
<1>30. CASE Deadline
  BY <1>30 DEF Deadline, ControlStep, serviceVars, pluginVars, Fails, Goes, DeadlineArmed, Active
<1>31. CASE UNCHANGED vars
  BY <1>31 DEF vars, serviceVars, pluginVars, stateVars, Active
<1>32. QED
  BY <1>1, <1>2, <1>3, <1>4, <1>5, <1>6, <1>7, <1>8, <1>9, <1>10, <1>11, <1>12, <1>13, <1>14, <1>15, <1>16,
     <1>17, <1>18, <1>19, <1>20, <1>21, <1>22, <1>23, <1>24, <1>25, <1>26, <1>27, <1>28, <1>29, <1>30, <1>31 DEF Next, Service, Plugin, Control, Done

\* Nothing else tells of the end.
LEMMA EndStep ==
  TypeOK /\ SnapOK /\ EndOK /\ EndNotesOK /\ EndEventsOK /\ [Next]_vars => EndOK'
<1> SUFFICES ASSUME TypeOK, SnapOK, EndOK, EndNotesOK, EndEventsOK, [Next]_vars
             PROVE  EndOK'
  OBVIOUS
<1> USE DEF EndOK
<1>1. CASE TurnStarts
  BY <1>1 DEF TurnStarts, ServiceStep, pluginVars, stateVars
<1>2. CASE Write
  BY <1>2 DEF Write, ServiceStep, pluginVars, stateVars
<1>3. CASE TurnEnds
  BY <1>3 DEF TurnEnds, ServiceStep, pluginVars, stateVars
<1>4. CASE TurnRests
  BY <1>4 DEF TurnRests, ServiceStep, pluginVars, stateVars
<1>5. CASE OtherStarts
  BY <1>5 DEF OtherStarts, ServiceStep, pluginVars, stateVars, Active
<1>6. CASE OtherEnds
  BY <1>6 DEF OtherEnds, ServiceStep, pluginVars, stateVars
<1>7. CASE ProcessExits
  BY <1>7 DEF ProcessExits, serviceVars, pluginVars, stateVars
<1>8. CASE SessionStart
  BY <1>8 DEF SessionStart, PluginStep, serviceVars, stateVars, NoSnapshot
<1>9. ASSUME NEW type \in due, TimeoutFires(type) PROVE EndOK'
  BY <1>9, StartFields DEF TimeoutFires, PluginStep, serviceVars, stateVars, NewSnapshot, NoSnapshot, TypeOK
<1>10. CASE DeliverState
  BY <1>10, MovedFields, StartFields DEF DeliverState, PluginStep, serviceVars, stateVars, NextNote, NewSnapshot, NoSnapshot
<1>11. CASE DeliverStart
  BY <1>11, MovedFields DEF DeliverStart, PluginStep, serviceVars, stateVars, NextNote, NoSnapshot
<1>12. CASE DeliverEnd
  BY <1>12, MovedFields, Delivers DEF DeliverEnd, PluginStep, serviceVars, stateVars, NextNote, NoSnapshot, Delivered, EndNotesOK
<1>13. CASE StateReply
  <2>1. \/ snap' = NoSnapshot
        \/ ~Active /\ snap.phase = "get"
           /\ snap' = [phase |-> "read", type |-> snap.type, moved |-> snap.moved, pages |-> snap.pages]
    BY <1>13, StateReplyFields
  <2>2. UNCHANGED <<ended, due, receipt, turn>>
    BY <1>13 DEF StateReply, PluginStep, serviceVars, stateVars
  <2>3. QED
    BY <2>1, <2>2 DEF EndOK, NoSnapshot
<1>14. CASE ReadPage
  BY <1>14, ReadPageFields DEF ReadPage, PluginStep, serviceVars, stateVars, NoSnapshot
<1>15. CASE Recheck
  BY <1>15 DEF Recheck, PluginStep, serviceVars, stateVars, Active, NoSnapshot
<1>16. CASE SnapshotFails
  BY <1>16 DEF SnapshotFails, PluginStep, serviceVars, stateVars, NoSnapshot
<1>17. CASE CancelTimer
  BY <1>17 DEF CancelTimer, PluginStep, serviceVars, stateVars, CancelDue, NoSnapshot
<1>18. ASSUME NEW caller \in calls, CancelReply(caller) PROVE EndOK'
  BY <1>18, StartFields DEF CancelReply, PluginStep, serviceVars, stateVars, NewSnapshot, NoSnapshot
<1>19. ASSUME NEW caller \in calls, CancelFails(caller) PROVE EndOK'
  BY <1>19 DEF CancelFails, PluginStep, serviceVars, stateVars, NoSnapshot
<1>20. CASE Cancel
  BY <1>20 DEF Cancel, serviceVars, pluginVars, stateVars
<1>21. CASE AcceptReady
  BY <1>21, ViewFacts DEF AcceptReady, ControlStep, serviceVars, pluginVars, NextEvent, Fails, Goes
<1>22. CASE AcceptStart
  BY <1>22, ViewFacts DEF AcceptStart, ControlStep, serviceVars, pluginVars, NextEvent, Fails, Goes
<1>23. CASE AcceptEnd
  <2>1. turn \in {"ending", "over"} \/ receipt' \in {receipt, NoView}
    BY <1>23, Accepts DEF AcceptEnd, NextEvent, Taken, EndEventsOK, Fails
  <2>2. UNCHANGED <<ended, due, snap, turn>>
    BY <1>23 DEF AcceptEnd, ControlStep, serviceVars, pluginVars
  <2>3. QED
    BY <2>1, <2>2 DEF EndOK
<1>24. CASE AcceptSettled
  BY <1>24, ViewFacts DEF AcceptSettled, ControlStep, serviceVars, pluginVars, NextEvent, Fails, Goes
<1>25. CASE AcceptAck
  BY <1>25, ViewFacts DEF AcceptAck, ControlStep, serviceVars, pluginVars, NextEvent
<1>26. CASE AcceptError
  BY <1>26, ViewFacts DEF AcceptError, ControlStep, serviceVars, pluginVars, NextEvent, Fails, Goes
<1>27. CASE HandleCancel
  BY <1>27 DEF HandleCancel, ControlStep, serviceVars, pluginVars, Fails, Goes, stateVars
<1>28. CASE Stop
  BY <1>28 DEF Stop, ControlStep, serviceVars, pluginVars, Goes, stateVars, Concluded
<1>29. CASE Exits
  BY <1>29 DEF Exits, ControlStep, serviceVars, pluginVars, Goes
<1>30. CASE Deadline
  BY <1>30 DEF Deadline, ControlStep, serviceVars, pluginVars, Fails, Goes, DeadlineArmed
<1>31. CASE UNCHANGED vars
  BY <1>31 DEF vars, serviceVars, pluginVars, stateVars
<1>32. QED
  BY <1>1, <1>2, <1>3, <1>4, <1>5, <1>6, <1>7, <1>8, <1>9, <1>10, <1>11, <1>12, <1>13, <1>14, <1>15, <1>16,
     <1>17, <1>18, <1>19, <1>20, <1>21, <1>22, <1>23, <1>24, <1>25, <1>26, <1>27, <1>28, <1>29, <1>30, <1>31 DEF Next, Service, Plugin, Control, Done

\* Only the end of the own turn sends the end notification.
LEMMA EndNotesStep ==
  TypeOK /\ EndNotesOK /\ [Next]_vars => EndNotesOK'
<1> SUFFICES ASSUME TypeOK, EndNotesOK, [Next]_vars
             PROVE  EndNotesOK'
  OBVIOUS
<1> USE DEF EndNotesOK
<1>1. CASE TurnStarts
  BY <1>1, TurnStartsNotifies DEF TurnStarts, ServiceStep, pluginVars, stateVars, Notified
<1>2. CASE Write
  BY <1>2 DEF Write, ServiceStep, pluginVars, stateVars
<1>3. CASE TurnEnds
  BY <1>3, TurnEndsNotifies DEF TurnEnds, ServiceStep, pluginVars, stateVars, Notified, TypeOK
<1>4. CASE TurnRests
  BY <1>4, TurnRestsNotifies DEF TurnRests, ServiceStep, pluginVars, stateVars, Notified
<1>5. CASE OtherStarts
  BY <1>5, OtherStartsNotifies DEF OtherStarts, ServiceStep, pluginVars, stateVars, Active, Notified
<1>6. CASE OtherEnds
  BY <1>6, OtherEndsNotifies DEF OtherEnds, ServiceStep, pluginVars, stateVars, Notified
<1>7. CASE ProcessExits
  BY <1>7 DEF ProcessExits, serviceVars, pluginVars, stateVars
<1>8. CASE SessionStart
  BY <1>8 DEF SessionStart, PluginStep, serviceVars, stateVars
<1>9. ASSUME NEW type \in due, TimeoutFires(type) PROVE EndNotesOK'
  BY <1>9 DEF TimeoutFires, PluginStep, serviceVars, stateVars
<1>10. CASE DeliverState
  BY <1>10, Delivers DEF DeliverState, PluginStep, serviceVars, stateVars, NextNote, Delivered
<1>11. CASE DeliverStart
  BY <1>11, Delivers DEF DeliverStart, PluginStep, serviceVars, stateVars, NextNote, Delivered
<1>12. CASE DeliverEnd
  BY <1>12, Delivers DEF DeliverEnd, PluginStep, serviceVars, stateVars, NextNote, Delivered
<1>13. CASE StateReply
  BY <1>13 DEF StateReply, PluginStep, serviceVars, stateVars, Active
<1>14. CASE ReadPage
  BY <1>14 DEF ReadPage, PluginStep, serviceVars, stateVars
<1>15. CASE Recheck
  BY <1>15 DEF Recheck, PluginStep, serviceVars, stateVars, Active
<1>16. CASE SnapshotFails
  BY <1>16 DEF SnapshotFails, PluginStep, serviceVars, stateVars
<1>17. CASE CancelTimer
  BY <1>17 DEF CancelTimer, PluginStep, serviceVars, stateVars, CancelDue
<1>18. ASSUME NEW caller \in calls, CancelReply(caller) PROVE EndNotesOK'
  BY <1>18 DEF CancelReply, PluginStep, serviceVars, stateVars
<1>19. ASSUME NEW caller \in calls, CancelFails(caller) PROVE EndNotesOK'
  BY <1>19 DEF CancelFails, PluginStep, serviceVars, stateVars
<1>20. CASE Cancel
  BY <1>20 DEF Cancel, serviceVars, pluginVars, stateVars
<1>21. CASE AcceptReady
  BY <1>21, Accepts DEF AcceptReady, ControlStep, serviceVars, pluginVars, NextEvent, Fails, Goes, Taken
<1>22. CASE AcceptStart
  BY <1>22, Accepts DEF AcceptStart, ControlStep, serviceVars, pluginVars, NextEvent, Fails, Goes, Taken
<1>23. CASE AcceptEnd
  BY <1>23, Accepts DEF AcceptEnd, ControlStep, serviceVars, pluginVars, NextEvent, Fails, Goes, Taken
<1>24. CASE AcceptSettled
  BY <1>24, Accepts DEF AcceptSettled, ControlStep, serviceVars, pluginVars, NextEvent, Fails, Goes, Taken
<1>25. CASE AcceptAck
  BY <1>25, Accepts DEF AcceptAck, ControlStep, serviceVars, pluginVars, NextEvent, Taken
<1>26. CASE AcceptError
  BY <1>26, Accepts DEF AcceptError, ControlStep, serviceVars, pluginVars, NextEvent, Fails, Goes, Taken
<1>27. CASE HandleCancel
  BY <1>27 DEF HandleCancel, ControlStep, serviceVars, pluginVars, Fails, Goes, stateVars
<1>28. CASE Stop
  BY <1>28 DEF Stop, ControlStep, serviceVars, pluginVars, Goes, stateVars, Concluded
<1>29. CASE Exits
  BY <1>29 DEF Exits, ControlStep, serviceVars, pluginVars, Goes
<1>30. CASE Deadline
  BY <1>30 DEF Deadline, ControlStep, serviceVars, pluginVars, Fails, Goes, DeadlineArmed
<1>31. CASE UNCHANGED vars
  BY <1>31 DEF vars, serviceVars, pluginVars, stateVars
<1>32. QED
  BY <1>1, <1>2, <1>3, <1>4, <1>5, <1>6, <1>7, <1>8, <1>9, <1>10, <1>11, <1>12, <1>13, <1>14, <1>15, <1>16,
     <1>17, <1>18, <1>19, <1>20, <1>21, <1>22, <1>23, <1>24, <1>25, <1>26, <1>27, <1>28, <1>29, <1>30, <1>31 DEF Next, Service, Plugin, Control, Done

\* Only that notification makes the end event.
LEMMA EndEventsStep ==
  TypeOK /\ EndNotesOK /\ EndEventsOK /\ [Next]_vars => EndEventsOK'
<1> SUFFICES ASSUME TypeOK, EndNotesOK, EndEventsOK, [Next]_vars
             PROVE  EndEventsOK'
  OBVIOUS
<1> USE DEF EndEventsOK
<1>1. CASE TurnStarts
  BY <1>1 DEF TurnStarts, ServiceStep, pluginVars, stateVars
<1>2. CASE Write
  BY <1>2 DEF Write, ServiceStep, pluginVars, stateVars
<1>3. CASE TurnEnds
  BY <1>3 DEF TurnEnds, ServiceStep, pluginVars, stateVars
<1>4. CASE TurnRests
  BY <1>4 DEF TurnRests, ServiceStep, pluginVars, stateVars
<1>5. CASE OtherStarts
  BY <1>5 DEF OtherStarts, ServiceStep, pluginVars, stateVars, Active
<1>6. CASE OtherEnds
  BY <1>6 DEF OtherEnds, ServiceStep, pluginVars, stateVars
<1>7. CASE ProcessExits
  BY <1>7 DEF ProcessExits, serviceVars, pluginVars, stateVars
<1>8. CASE SessionStart
  BY <1>8 DEF SessionStart, PluginStep, serviceVars, stateVars
<1>9. ASSUME NEW type \in due, TimeoutFires(type) PROVE EndEventsOK'
  BY <1>9 DEF TimeoutFires, PluginStep, serviceVars, stateVars
<1>10. CASE DeliverState
  BY <1>10, Delivers DEF DeliverState, PluginStep, serviceVars, stateVars, NextNote, Delivered
<1>11. CASE DeliverStart
  <2>1. Emitted("start", FALSE, NoView)
    BY <1>11, DeliverStartEmits
  <2>2. UNCHANGED <<turn>>
    BY <1>11 DEF DeliverStart, PluginStep, serviceVars, stateVars
  <2>3. QED
    BY <2>1, <2>2 DEF Emitted, Emission, EndEventsOK
<1>12. CASE DeliverEnd
  <2>1. Emitted("end", FALSE, Head(pending).messages)
    BY <1>12, DeliverEndEmits
  <2>2. UNCHANGED <<turn>>
    BY <1>12 DEF DeliverEnd, PluginStep, serviceVars, stateVars
  <2>3. Head(pending).kind = "end" /\ Head(pending) \in Elements(pending)
    BY <1>12, Delivers DEF DeliverEnd, NextNote, Delivered
  <2>4. turn \in {"ending", "over"} /\ Head(pending).messages \in Contents
    BY <2>3 DEF EndNotesOK
  <2>5. QED
    BY <2>1, <2>2, <2>3, <2>4 DEF Emitted, Emission, EndEventsOK
<1>13. CASE StateReply
  <2>1. (events' = events \/ Emitted("ready", FALSE, NoView))
    BY <1>13, StateReplyEmits
  <2>2. UNCHANGED <<turn>>
    BY <1>13 DEF StateReply, PluginStep, serviceVars, stateVars
  <2>3. QED
    BY <2>1, <2>2 DEF Emitted, Emission, EndEventsOK
<1>14. CASE ReadPage
  BY <1>14, ErrorEmits DEF ReadPage, PluginStep, serviceVars, stateVars, Emitted, Emission
<1>15. CASE Recheck
  <2>1. (Emitted("error", FALSE, NoView) \/ (~Active /\ Emitted(snap.type, TRUE, snap.pages)))
    BY <1>15, RecheckEmits
  <2>2. UNCHANGED <<turn>>
    BY <1>15 DEF Recheck, PluginStep, serviceVars, stateVars
  <2>3. snap.type \in {"ready", "settled"}
    BY DEF TypeOK, Snapshots
  <2>4. QED
    BY <2>1, <2>2, <2>3 DEF Emitted, Emission, EndEventsOK
<1>16. CASE SnapshotFails
  BY <1>16, ErrorEmits DEF SnapshotFails, PluginStep, serviceVars, stateVars, Emitted, Emission
<1>17. CASE CancelTimer
  BY <1>17 DEF CancelTimer, PluginStep, serviceVars, stateVars, CancelDue
<1>18. ASSUME NEW caller \in calls, CancelReply(caller) PROVE EndEventsOK'
  <2>1. Emitted("cancel.ack", FALSE, NoView)
    BY <1>18, CancelEmits
  <2>2. UNCHANGED <<turn>>
    BY <1>18 DEF CancelReply, PluginStep, serviceVars, stateVars
  <2>3. QED
    BY <2>1, <2>2 DEF Emitted, Emission, EndEventsOK
<1>19. ASSUME NEW caller \in calls, CancelFails(caller) PROVE EndEventsOK'
  BY <1>19, CancelEmits DEF CancelFails, PluginStep, serviceVars, stateVars, Emitted, Emission
<1>20. CASE Cancel
  BY <1>20 DEF Cancel, serviceVars, pluginVars, stateVars
<1>21. CASE AcceptReady
  BY <1>21, Accepts DEF AcceptReady, ControlStep, serviceVars, pluginVars, NextEvent, Fails, Goes, Taken
<1>22. CASE AcceptStart
  BY <1>22, Accepts DEF AcceptStart, ControlStep, serviceVars, pluginVars, NextEvent, Fails, Goes, Taken
<1>23. CASE AcceptEnd
  BY <1>23, Accepts DEF AcceptEnd, ControlStep, serviceVars, pluginVars, NextEvent, Fails, Goes, Taken
<1>24. CASE AcceptSettled
  BY <1>24, Accepts DEF AcceptSettled, ControlStep, serviceVars, pluginVars, NextEvent, Fails, Goes, Taken
<1>25. CASE AcceptAck
  BY <1>25, Accepts DEF AcceptAck, ControlStep, serviceVars, pluginVars, NextEvent, Taken
<1>26. CASE AcceptError
  BY <1>26, Accepts DEF AcceptError, ControlStep, serviceVars, pluginVars, NextEvent, Fails, Goes, Taken
<1>27. CASE HandleCancel
  BY <1>27 DEF HandleCancel, ControlStep, serviceVars, pluginVars, Fails, Goes, stateVars
<1>28. CASE Stop
  BY <1>28 DEF Stop, ControlStep, serviceVars, pluginVars, Goes, stateVars, Concluded
<1>29. CASE Exits
  BY <1>29 DEF Exits, ControlStep, serviceVars, pluginVars, Goes
<1>30. CASE Deadline
  BY <1>30 DEF Deadline, ControlStep, serviceVars, pluginVars, Fails, Goes, DeadlineArmed
<1>31. CASE UNCHANGED vars
  BY <1>31 DEF vars, serviceVars, pluginVars, stateVars
<1>32. QED
  BY <1>1, <1>2, <1>3, <1>4, <1>5, <1>6, <1>7, <1>8, <1>9, <1>10, <1>11, <1>12, <1>13, <1>14, <1>15, <1>16,
     <1>17, <1>18, <1>19, <1>20, <1>21, <1>22, <1>23, <1>24, <1>25, <1>26, <1>27, <1>28, <1>29, <1>30, <1>31 DEF Next, Service, Plugin, Control, Done

\* Everything the plugin does follows from its thread.
LEMMA DetachedStep ==
  TypeOK /\ DetachedOK /\ [Next]_vars => DetachedOK'
<1> SUFFICES ASSUME TypeOK, DetachedOK, [Next]_vars
             PROVE  DetachedOK'
  OBVIOUS
<1> USE DEF DetachedOK
<1>1. CASE TurnStarts
  BY <1>1, TurnStartsNotifies DEF TurnStarts, ServiceStep, pluginVars, stateVars, Notified
<1>2. CASE Write
  BY <1>2 DEF Write, ServiceStep, pluginVars, stateVars
<1>3. CASE TurnEnds
  BY <1>3, TurnEndsNotifies DEF TurnEnds, ServiceStep, pluginVars, stateVars, Notified
<1>4. CASE TurnRests
  BY <1>4, TurnRestsNotifies DEF TurnRests, ServiceStep, pluginVars, stateVars, Notified
<1>5. CASE OtherStarts
  BY <1>5, OtherStartsNotifies DEF OtherStarts, ServiceStep, pluginVars, stateVars, Active, Notified
<1>6. CASE OtherEnds
  BY <1>6, OtherEndsNotifies DEF OtherEnds, ServiceStep, pluginVars, stateVars, Notified
<1>7. CASE ProcessExits
  BY <1>7 DEF ProcessExits, serviceVars, pluginVars, stateVars
<1>8. CASE SessionStart
  BY <1>8 DEF SessionStart, PluginStep, serviceVars, stateVars, NoSnapshot
<1>9. ASSUME NEW type \in due, TimeoutFires(type) PROVE DetachedOK'
  BY <1>9 DEF TimeoutFires, PluginStep, serviceVars, stateVars, NewSnapshot, NoSnapshot, StartSnapshot
<1>10. CASE DeliverState
  BY <1>10, Delivers DEF DeliverState, PluginStep, serviceVars, stateVars, NextNote, Delivered, NewSnapshot, NoSnapshot, StartSnapshot
<1>11. CASE DeliverStart
  BY <1>11, Delivers DEF DeliverStart, PluginStep, serviceVars, stateVars, NextNote, Delivered, NoSnapshot
<1>12. CASE DeliverEnd
  BY <1>12, Delivers DEF DeliverEnd, PluginStep, serviceVars, stateVars, NextNote, Delivered, NoSnapshot
<1>13. CASE StateReply
  BY <1>13 DEF StateReply, PluginStep, serviceVars, stateVars, Active, NoSnapshot
<1>14. CASE ReadPage
  BY <1>14 DEF ReadPage, PluginStep, serviceVars, stateVars, NoSnapshot
<1>15. CASE Recheck
  BY <1>15 DEF Recheck, PluginStep, serviceVars, stateVars, Active, NoSnapshot
<1>16. CASE SnapshotFails
  BY <1>16 DEF SnapshotFails, PluginStep, serviceVars, stateVars, NoSnapshot
<1>17. CASE CancelTimer
  BY <1>17 DEF CancelTimer, PluginStep, serviceVars, stateVars, CancelDue, NoSnapshot
<1>18. ASSUME NEW caller \in calls, CancelReply(caller) PROVE DetachedOK'
  BY <1>18 DEF CancelReply, PluginStep, serviceVars, stateVars, NewSnapshot, NoSnapshot, StartSnapshot
<1>19. ASSUME NEW caller \in calls, CancelFails(caller) PROVE DetachedOK'
  BY <1>19 DEF CancelFails, PluginStep, serviceVars, stateVars, NoSnapshot
<1>20. CASE Cancel
  BY <1>20 DEF Cancel, serviceVars, pluginVars, stateVars
<1>21. CASE AcceptReady
  BY <1>21, Accepts DEF AcceptReady, ControlStep, serviceVars, pluginVars, NextEvent, Fails, Goes, Taken
<1>22. CASE AcceptStart
  BY <1>22, Accepts DEF AcceptStart, ControlStep, serviceVars, pluginVars, NextEvent, Fails, Goes, Taken
<1>23. CASE AcceptEnd
  BY <1>23, Accepts DEF AcceptEnd, ControlStep, serviceVars, pluginVars, NextEvent, Fails, Goes, Taken
<1>24. CASE AcceptSettled
  BY <1>24, Accepts DEF AcceptSettled, ControlStep, serviceVars, pluginVars, NextEvent, Fails, Goes, Taken
<1>25. CASE AcceptAck
  BY <1>25, Accepts DEF AcceptAck, ControlStep, serviceVars, pluginVars, NextEvent, Taken
<1>26. CASE AcceptError
  BY <1>26, Accepts DEF AcceptError, ControlStep, serviceVars, pluginVars, NextEvent, Fails, Goes, Taken
<1>27. CASE HandleCancel
  BY <1>27 DEF HandleCancel, ControlStep, serviceVars, pluginVars, Fails, Goes, stateVars
<1>28. CASE Stop
  BY <1>28 DEF Stop, ControlStep, serviceVars, pluginVars, Goes, stateVars, Concluded
<1>29. CASE Exits
  BY <1>29 DEF Exits, ControlStep, serviceVars, pluginVars, Goes
<1>30. CASE Deadline
  BY <1>30 DEF Deadline, ControlStep, serviceVars, pluginVars, Fails, Goes, DeadlineArmed
<1>31. CASE UNCHANGED vars
  BY <1>31 DEF vars, serviceVars, pluginVars, stateVars
<1>32. QED
  BY <1>1, <1>2, <1>3, <1>4, <1>5, <1>6, <1>7, <1>8, <1>9, <1>10, <1>11, <1>12, <1>13, <1>14, <1>15, <1>16,
     <1>17, <1>18, <1>19, <1>20, <1>21, <1>22, <1>23, <1>24, <1>25, <1>26, <1>27, <1>28, <1>29, <1>30, <1>31 DEF Next, Service, Plugin, Control, Done

\* A thread that becomes active sends a notification the snapshot meets first.
LEMMA ReadsRestStep ==
  TypeOK /\ ServiceOK /\ SnapOK /\ DetachedOK /\ ReadsRest /\ [Next]_vars => ReadsRest'
<1> SUFFICES ASSUME TypeOK, ServiceOK, SnapOK, DetachedOK, ReadsRest, [Next]_vars
             PROVE  ReadsRest'
  OBVIOUS
<1> USE DEF ReadsRest, Active
<1>1. CASE TurnStarts
  BY <1>1, TurnStartsNotifies DEF TurnStarts, ServiceStep, pluginVars, stateVars, Active, Notified, DetachedOK
<1>2. CASE Write
  BY <1>2 DEF Write, ServiceStep, pluginVars, stateVars, Active, DetachedOK
<1>3. CASE TurnEnds
  BY <1>3, TurnEndsNotifies DEF TurnEnds, ServiceStep, pluginVars, stateVars, Active, Notified, DetachedOK
<1>4. CASE TurnRests
  BY <1>4, TurnRestsNotifies DEF TurnRests, ServiceStep, pluginVars, stateVars, Active, Notified, DetachedOK
<1>5. CASE OtherStarts
  BY <1>5, OtherStartsNotifies DEF OtherStarts, ServiceStep, pluginVars, stateVars, Active, Notified, DetachedOK
<1>6. CASE OtherEnds
  BY <1>6, OtherEndsNotifies DEF OtherEnds, ServiceStep, pluginVars, stateVars, Active, Notified, DetachedOK
<1>7. CASE ProcessExits
  BY <1>7 DEF ProcessExits, serviceVars, pluginVars, stateVars, Active
<1>8. CASE SessionStart
  BY <1>8 DEF SessionStart, PluginStep, serviceVars, stateVars, Active, NoSnapshot
<1>9. ASSUME NEW type \in due, TimeoutFires(type) PROVE ReadsRest'
  <2>1. snap' = IF snap.phase = "none" THEN NewSnapshot(type) ELSE snap
    BY <1>9, StartFields DEF TimeoutFires, TypeOK
  <2>2. UNCHANGED <<content, turn, busy, pending>>
    BY <1>9 DEF TimeoutFires, PluginStep, serviceVars, stateVars
  <2>3. QED
    BY <2>1, <2>2 DEF ReadsRest, Active, NewSnapshot
<1>10. CASE DeliverState
  BY <1>10, MovedFields, StartFields, Delivers DEF DeliverState, PluginStep, serviceVars, stateVars, NextNote, Active, Delivered, NewSnapshot, NoSnapshot
<1>11. CASE DeliverStart
  BY <1>11, MovedFields, Delivers DEF DeliverStart, PluginStep, serviceVars, stateVars, NextNote, Active, Delivered, NoSnapshot
<1>12. CASE DeliverEnd
  BY <1>12, MovedFields, Delivers DEF DeliverEnd, PluginStep, serviceVars, stateVars, NextNote, Active, Delivered, NoSnapshot
<1>13. CASE StateReply
  <2>1. \/ snap' = NoSnapshot
        \/ ~Active /\ snap.phase = "get"
           /\ snap' = [phase |-> "read", type |-> snap.type, moved |-> snap.moved, pages |-> snap.pages]
    BY <1>13, StateReplyFields
  <2>2. UNCHANGED <<content, turn, busy, pending>>
    BY <1>13 DEF StateReply, PluginStep, serviceVars, stateVars
  <2>3. snap.phase = "get" => Len(snap.pages) = 0
    BY ViewFacts DEF SnapOK
  <2>4. QED
    BY <2>1, <2>2, <2>3 DEF ReadsRest, Active, NoSnapshot
<1>14. CASE ReadPage
  BY <1>14, ReadPageFields DEF ReadPage, PluginStep, serviceVars, stateVars, Active, NoSnapshot
<1>15. CASE Recheck
  BY <1>15 DEF Recheck, PluginStep, serviceVars, stateVars, Active, NoSnapshot
<1>16. CASE SnapshotFails
  BY <1>16 DEF SnapshotFails, PluginStep, serviceVars, stateVars, Active, NoSnapshot
<1>17. CASE CancelTimer
  BY <1>17 DEF CancelTimer, PluginStep, serviceVars, stateVars, CancelDue, Active, NoSnapshot
<1>18. ASSUME NEW caller \in calls, CancelReply(caller) PROVE ReadsRest'
  BY <1>18, StartFields DEF CancelReply, PluginStep, serviceVars, stateVars, Active, NewSnapshot, NoSnapshot
<1>19. ASSUME NEW caller \in calls, CancelFails(caller) PROVE ReadsRest'
  BY <1>19 DEF CancelFails, PluginStep, serviceVars, stateVars, Active, NoSnapshot
<1>20. CASE Cancel
  BY <1>20 DEF Cancel, serviceVars, pluginVars, stateVars, Active
<1>21. CASE AcceptReady
  BY <1>21, Accepts DEF AcceptReady, ControlStep, serviceVars, pluginVars, NextEvent, Fails, Goes, Active, Taken
<1>22. CASE AcceptStart
  BY <1>22, Accepts DEF AcceptStart, ControlStep, serviceVars, pluginVars, NextEvent, Fails, Goes, Active, Taken
<1>23. CASE AcceptEnd
  BY <1>23, Accepts DEF AcceptEnd, ControlStep, serviceVars, pluginVars, NextEvent, Fails, Goes, Active, Taken
<1>24. CASE AcceptSettled
  BY <1>24, Accepts DEF AcceptSettled, ControlStep, serviceVars, pluginVars, NextEvent, Fails, Goes, Active, Taken
<1>25. CASE AcceptAck
  BY <1>25, Accepts DEF AcceptAck, ControlStep, serviceVars, pluginVars, NextEvent, Active, Taken
<1>26. CASE AcceptError
  BY <1>26, Accepts DEF AcceptError, ControlStep, serviceVars, pluginVars, NextEvent, Fails, Goes, Active, Taken
<1>27. CASE HandleCancel
  BY <1>27 DEF HandleCancel, ControlStep, serviceVars, pluginVars, Fails, Goes, stateVars, Active
<1>28. CASE Stop
  BY <1>28 DEF Stop, ControlStep, serviceVars, pluginVars, Goes, stateVars, Concluded, Active
<1>29. CASE Exits
  BY <1>29 DEF Exits, ControlStep, serviceVars, pluginVars, Goes, Active
<1>30. CASE Deadline
  BY <1>30 DEF Deadline, ControlStep, serviceVars, pluginVars, Fails, Goes, DeadlineArmed, Active
<1>31. CASE UNCHANGED vars
  BY <1>31 DEF vars, serviceVars, pluginVars, stateVars
<1>32. QED
  BY <1>1, <1>2, <1>3, <1>4, <1>5, <1>6, <1>7, <1>8, <1>9, <1>10, <1>11, <1>12, <1>13, <1>14, <1>15, <1>16,
     <1>17, <1>18, <1>19, <1>20, <1>21, <1>22, <1>23, <1>24, <1>25, <1>26, <1>27, <1>28, <1>29, <1>30, <1>31 DEF Next, Service, Plugin, Control, Done

\* The last page is read while the thread rests, or the snapshot has moved.
LEMMA SnapStep ==
  TypeOK /\ ServiceOK /\ EndOK /\ ReadsRest /\ SnapOK /\ [Next]_vars => SnapOK'
<1> SUFFICES ASSUME TypeOK, ServiceOK, EndOK, ReadsRest, SnapOK, [Next]_vars
             PROVE  SnapOK'
  OBVIOUS
<1> USE DEF SnapOK
<1>1. CASE TurnStarts
  BY <1>1 DEF TurnStarts, ServiceStep, pluginVars, stateVars, ServiceOK, EndOK
<1>2. CASE Write
  BY <1>2 DEF Write, ServiceStep, pluginVars, stateVars, ServiceOK, EndOK
<1>3. CASE TurnEnds
  BY <1>3 DEF TurnEnds, ServiceStep, pluginVars, stateVars, ServiceOK, EndOK
<1>4. CASE TurnRests
  BY <1>4 DEF TurnRests, ServiceStep, pluginVars, stateVars, ServiceOK, EndOK
<1>5. CASE OtherStarts
  BY <1>5 DEF OtherStarts, ServiceStep, pluginVars, stateVars, Active, ServiceOK, EndOK
<1>6. CASE OtherEnds
  BY <1>6 DEF OtherEnds, ServiceStep, pluginVars, stateVars, ServiceOK, EndOK
<1>7. CASE ProcessExits
  BY <1>7 DEF ProcessExits, serviceVars, pluginVars, stateVars
<1>8. CASE SessionStart
  BY <1>8 DEF SessionStart, PluginStep, serviceVars, stateVars, NoSnapshot
<1>9. ASSUME NEW type \in due, TimeoutFires(type) PROVE SnapOK'
  <2>1. snap' = IF snap.phase = "none" THEN NewSnapshot(type) ELSE snap
    BY <1>9, StartFields DEF TimeoutFires, TypeOK
  <2>2. UNCHANGED <<turn, submitted, rests>>
    BY <1>9 DEF TimeoutFires, PluginStep, serviceVars, stateVars
  <2>3. QED
    BY <2>1, <2>2 DEF SnapOK, NewSnapshot
<1>10. CASE DeliverState
  BY <1>10, MovedFields, StartFields DEF DeliverState, PluginStep, serviceVars, stateVars, NextNote, NewSnapshot, NoSnapshot
<1>11. CASE DeliverStart
  BY <1>11, MovedFields DEF DeliverStart, PluginStep, serviceVars, stateVars, NextNote, NoSnapshot
<1>12. CASE DeliverEnd
  BY <1>12, MovedFields DEF DeliverEnd, PluginStep, serviceVars, stateVars, NextNote, NoSnapshot
<1>13. CASE StateReply
  <2>1. \/ snap' = NoSnapshot
        \/ ~Active /\ snap.phase = "get"
           /\ snap' = [phase |-> "read", type |-> snap.type, moved |-> snap.moved, pages |-> snap.pages]
    BY <1>13, StateReplyFields
  <2>2. UNCHANGED <<turn, submitted, rests>>
    BY <1>13 DEF StateReply, PluginStep, serviceVars, stateVars
  <2>3. ~Active /\ snap.type = "settled" => turn = "over"
    BY DEF EndOK, Active, TypeOK, ServiceOK
  <2>4. snap.phase = "get" => Len(snap.pages) = 0 /\ 0 < Pages
    BY ViewFacts, PagesAssumption DEF SnapOK
  <2>5. QED
    BY <2>1, <2>2, <2>3, <2>4 DEF SnapOK, NoSnapshot
<1>14. CASE ReadPage
  <2>1. /\ snap.phase = "read" /\ pending = <<>> /\ Len(snap.pages) \in 0 .. Pages - 1
        /\ \/ snap' = NoSnapshot
           \/ \E pages \in Views, phase \in {"read", "recheck"} :
                /\ snap' = [phase |-> phase, type |-> snap.type, moved |-> snap.moved, pages |-> pages]
                /\ Len(pages) = Len(snap.pages) + 1
                /\ phase = "read" => Len(pages) < Pages
                /\ phase = "recheck" => Len(pages) = Pages /\ ~snap.moved
                /\ \A p \in 1 .. Len(pages) :
                     pages[p] = IF p <= Len(snap.pages) THEN snap.pages[p] ELSE content[p]
    BY <1>14, ReadPageFields
  <2>2. UNCHANGED <<turn, submitted, rests>>
    BY <1>14 DEF ReadPage, PluginStep, serviceVars, stateVars
  <2>3. ASSUME NEW pages \in Views, Len(pages) = Pages, ~snap.moved, Len(pages) = Len(snap.pages) + 1,
             \A p \in 1 .. Len(pages) :
                pages[p] = IF p <= Len(snap.pages) THEN snap.pages[p] ELSE content[p]
      PROVE  pages \in rests
    <3>1. ~Active /\ \A p \in 1 .. Len(snap.pages) : snap.pages[p] = content[p]
      BY <2>1, <2>3 DEF ReadsRest
    <3>2. \A p \in 1 .. Pages : pages[p] = content[p]
      BY <2>1, <2>3, <3>1
    <3>3. pages \in Contents /\ content \in Contents
      BY <2>3, ViewFacts DEF TypeOK
    <3>4. pages = content
      <4>1. /\ pages = [p \in 1 .. Pages |-> pages[p]]
            /\ content = [p \in 1 .. Pages |-> content[p]]
        BY <3>3 DEF Contents
      <4>2. QED
        BY <3>2, <4>1
    <3>5. QED
      BY <3>1, <3>4 DEF ServiceOK
  <2>4. snap.phase = "read" /\ snap.type = "settled" => turn = "over"
    BY DEF SnapOK
  <2>5. QED
    BY <2>1, <2>2, <2>3, <2>4 DEF SnapOK, NoSnapshot
<1>15. CASE Recheck
  BY <1>15 DEF Recheck, PluginStep, serviceVars, stateVars, Active, NoSnapshot
<1>16. CASE SnapshotFails
  BY <1>16 DEF SnapshotFails, PluginStep, serviceVars, stateVars, NoSnapshot
<1>17. CASE CancelTimer
  BY <1>17 DEF CancelTimer, PluginStep, serviceVars, stateVars, CancelDue, NoSnapshot
<1>18. ASSUME NEW caller \in calls, CancelReply(caller) PROVE SnapOK'
  BY <1>18, StartFields DEF CancelReply, PluginStep, serviceVars, stateVars, NewSnapshot, NoSnapshot
<1>19. ASSUME NEW caller \in calls, CancelFails(caller) PROVE SnapOK'
  BY <1>19 DEF CancelFails, PluginStep, serviceVars, stateVars, NoSnapshot
<1>20. CASE Cancel
  BY <1>20 DEF Cancel, serviceVars, pluginVars, stateVars
<1>21. CASE AcceptReady
  BY <1>21 DEF AcceptReady, ControlStep, serviceVars, pluginVars, NextEvent, Fails, Goes
<1>22. CASE AcceptStart
  BY <1>22 DEF AcceptStart, ControlStep, serviceVars, pluginVars, NextEvent, Fails, Goes
<1>23. CASE AcceptEnd
  BY <1>23 DEF AcceptEnd, ControlStep, serviceVars, pluginVars, NextEvent, Fails, Goes
<1>24. CASE AcceptSettled
  BY <1>24 DEF AcceptSettled, ControlStep, serviceVars, pluginVars, NextEvent, Fails, Goes
<1>25. CASE AcceptAck
  BY <1>25 DEF AcceptAck, ControlStep, serviceVars, pluginVars, NextEvent
<1>26. CASE AcceptError
  BY <1>26 DEF AcceptError, ControlStep, serviceVars, pluginVars, NextEvent, Fails, Goes
<1>27. CASE HandleCancel
  BY <1>27 DEF HandleCancel, ControlStep, serviceVars, pluginVars, Fails, Goes, stateVars
<1>28. CASE Stop
  BY <1>28 DEF Stop, ControlStep, serviceVars, pluginVars, Goes, stateVars, Concluded
<1>29. CASE Exits
  BY <1>29 DEF Exits, ControlStep, serviceVars, pluginVars, Goes
<1>30. CASE Deadline
  BY <1>30 DEF Deadline, ControlStep, serviceVars, pluginVars, Fails, Goes, DeadlineArmed
<1>31. CASE UNCHANGED vars
  BY <1>31 DEF vars, serviceVars, pluginVars, stateVars, Active
<1>32. QED
  BY <1>1, <1>2, <1>3, <1>4, <1>5, <1>6, <1>7, <1>8, <1>9, <1>10, <1>11, <1>12, <1>13, <1>14, <1>15, <1>16,
     <1>17, <1>18, <1>19, <1>20, <1>21, <1>22, <1>23, <1>24, <1>25, <1>26, <1>27, <1>28, <1>29, <1>30, <1>31 DEF Next, Service, Plugin, Control, Done

\* The plugin reports what the thread held at rest.
LEMMA QuietEventsStep ==
  TypeOK /\ ServiceOK /\ SnapOK /\ QuietEventsOK /\ [Next]_vars => QuietEventsOK'
<1> SUFFICES ASSUME TypeOK, ServiceOK, SnapOK, QuietEventsOK, [Next]_vars
             PROVE  QuietEventsOK'
  OBVIOUS
<1> USE DEF QuietEventsOK
<1>1. CASE TurnStarts
  BY <1>1 DEF TurnStarts, ServiceStep, pluginVars, stateVars, ServiceOK
<1>2. CASE Write
  BY <1>2 DEF Write, ServiceStep, pluginVars, stateVars, ServiceOK
<1>3. CASE TurnEnds
  BY <1>3 DEF TurnEnds, ServiceStep, pluginVars, stateVars, ServiceOK
<1>4. CASE TurnRests
  BY <1>4 DEF TurnRests, ServiceStep, pluginVars, stateVars, ServiceOK
<1>5. CASE OtherStarts
  BY <1>5 DEF OtherStarts, ServiceStep, pluginVars, stateVars, Active, ServiceOK
<1>6. CASE OtherEnds
  BY <1>6 DEF OtherEnds, ServiceStep, pluginVars, stateVars, ServiceOK
<1>7. CASE ProcessExits
  BY <1>7 DEF ProcessExits, serviceVars, pluginVars, stateVars
<1>8. CASE SessionStart
  BY <1>8 DEF SessionStart, PluginStep, serviceVars, stateVars
<1>9. ASSUME NEW type \in due, TimeoutFires(type) PROVE QuietEventsOK'
  BY <1>9 DEF TimeoutFires, PluginStep, serviceVars, stateVars
<1>10. CASE DeliverState
  BY <1>10, Delivers DEF DeliverState, PluginStep, serviceVars, stateVars, NextNote, Delivered
<1>11. CASE DeliverStart
  <2>1. Emitted("start", FALSE, NoView)
    BY <1>11, DeliverStartEmits
  <2>2. UNCHANGED <<turn, rests, submitted>>
    BY <1>11 DEF DeliverStart, PluginStep, serviceVars, stateVars
  <2>3. QED
    BY <2>1, <2>2 DEF Emitted, Emission, QuietEventsOK
<1>12. CASE DeliverEnd
  <2>1. Emitted("end", FALSE, Head(pending).messages)
    BY <1>12, DeliverEndEmits
  <2>2. UNCHANGED <<turn, rests, submitted>>
    BY <1>12 DEF DeliverEnd, PluginStep, serviceVars, stateVars
  <2>3. QED
    BY <2>1, <2>2 DEF Emitted, Emission, QuietEventsOK
<1>13. CASE StateReply
  <2>1. (events' = events \/ Emitted("ready", FALSE, NoView))
    BY <1>13, StateReplyEmits
  <2>2. UNCHANGED <<turn, rests, submitted>>
    BY <1>13 DEF StateReply, PluginStep, serviceVars, stateVars
  <2>3. QED
    BY <2>1, <2>2 DEF Emitted, Emission, QuietEventsOK
<1>14. CASE ReadPage
  BY <1>14, ErrorEmits DEF ReadPage, PluginStep, serviceVars, stateVars, Emitted, Emission
<1>15. CASE Recheck
  <2>1. (Emitted("error", FALSE, NoView) \/ (~Active /\ Emitted(snap.type, TRUE, snap.pages)))
    BY <1>15, RecheckEmits
  <2>2. UNCHANGED <<turn, rests, submitted>>
    BY <1>15 DEF Recheck, PluginStep, serviceVars, stateVars
  <2>3. snap.phase = "recheck"
    BY <1>15 DEF Recheck
  <2>4. snap.type \in {"ready", "settled"}
    BY DEF TypeOK, Snapshots
  <2>5. snap.type = "settled" => turn = "over"
    BY <2>3 DEF SnapOK
  <2>6. snap.type = "settled" \/ ~submitted => snap.pages \in rests
    BY <2>3 DEF SnapOK
  <2>7. QED
    BY <2>1, <2>2, <2>3, <2>4, <2>5, <2>6 DEF Emitted, Emission, QuietEventsOK
<1>16. CASE SnapshotFails
  BY <1>16, ErrorEmits DEF SnapshotFails, PluginStep, serviceVars, stateVars, Emitted, Emission
<1>17. CASE CancelTimer
  BY <1>17 DEF CancelTimer, PluginStep, serviceVars, stateVars, CancelDue
<1>18. ASSUME NEW caller \in calls, CancelReply(caller) PROVE QuietEventsOK'
  <2>1. Emitted("cancel.ack", FALSE, NoView)
    BY <1>18, CancelEmits
  <2>2. UNCHANGED <<turn, rests, submitted>>
    BY <1>18 DEF CancelReply, PluginStep, serviceVars, stateVars
  <2>3. QED
    BY <2>1, <2>2 DEF Emitted, Emission, QuietEventsOK
<1>19. ASSUME NEW caller \in calls, CancelFails(caller) PROVE QuietEventsOK'
  BY <1>19, CancelEmits DEF CancelFails, PluginStep, serviceVars, stateVars, Emitted, Emission
<1>20. CASE Cancel
  BY <1>20 DEF Cancel, serviceVars, pluginVars, stateVars
<1>21. CASE AcceptReady
  BY <1>21, Accepts DEF AcceptReady, ControlStep, serviceVars, pluginVars, NextEvent, Fails, Goes, Taken
<1>22. CASE AcceptStart
  BY <1>22, Accepts DEF AcceptStart, ControlStep, serviceVars, pluginVars, NextEvent, Fails, Goes, Taken
<1>23. CASE AcceptEnd
  BY <1>23, Accepts DEF AcceptEnd, ControlStep, serviceVars, pluginVars, NextEvent, Fails, Goes, Taken
<1>24. CASE AcceptSettled
  BY <1>24, Accepts DEF AcceptSettled, ControlStep, serviceVars, pluginVars, NextEvent, Fails, Goes, Taken
<1>25. CASE AcceptAck
  BY <1>25, Accepts DEF AcceptAck, ControlStep, serviceVars, pluginVars, NextEvent, Taken
<1>26. CASE AcceptError
  BY <1>26, Accepts DEF AcceptError, ControlStep, serviceVars, pluginVars, NextEvent, Fails, Goes, Taken
<1>27. CASE HandleCancel
  BY <1>27 DEF HandleCancel, ControlStep, serviceVars, pluginVars, Fails, Goes, stateVars
<1>28. CASE Stop
  BY <1>28 DEF Stop, ControlStep, serviceVars, pluginVars, Goes, stateVars, Concluded
<1>29. CASE Exits
  BY <1>29 DEF Exits, ControlStep, serviceVars, pluginVars, Goes
<1>30. CASE Deadline
  BY <1>30 DEF Deadline, ControlStep, serviceVars, pluginVars, Fails, Goes, DeadlineArmed
<1>31. CASE UNCHANGED vars
  BY <1>31 DEF vars, serviceVars, pluginVars, stateVars
<1>32. QED
  BY <1>1, <1>2, <1>3, <1>4, <1>5, <1>6, <1>7, <1>8, <1>9, <1>10, <1>11, <1>12, <1>13, <1>14, <1>15, <1>16,
     <1>17, <1>18, <1>19, <1>20, <1>21, <1>22, <1>23, <1>24, <1>25, <1>26, <1>27, <1>28, <1>29, <1>30, <1>31 DEF Next, Service, Plugin, Control, Done

\* A view is a settled or a ready event's.
LEMMA ViewStep ==
  TypeOK /\ ServiceOK /\ QuietEventsOK /\ ViewOK /\ [Next]_vars => ViewOK'
<1> SUFFICES ASSUME TypeOK, ServiceOK, QuietEventsOK, ViewOK, [Next]_vars
             PROVE  ViewOK'
  OBVIOUS
<1> USE DEF ViewOK
<1>1. CASE TurnStarts
  BY <1>1 DEF TurnStarts, ServiceStep, pluginVars, stateVars, ServiceOK
<1>2. CASE Write
  BY <1>2 DEF Write, ServiceStep, pluginVars, stateVars, ServiceOK
<1>3. CASE TurnEnds
  BY <1>3 DEF TurnEnds, ServiceStep, pluginVars, stateVars, ServiceOK
<1>4. CASE TurnRests
  BY <1>4 DEF TurnRests, ServiceStep, pluginVars, stateVars, ServiceOK
<1>5. CASE OtherStarts
  BY <1>5 DEF OtherStarts, ServiceStep, pluginVars, stateVars, Active, ServiceOK
<1>6. CASE OtherEnds
  BY <1>6 DEF OtherEnds, ServiceStep, pluginVars, stateVars, ServiceOK
<1>7. CASE ProcessExits
  BY <1>7 DEF ProcessExits, serviceVars, pluginVars, stateVars
<1>8. CASE SessionStart
  BY <1>8 DEF SessionStart, PluginStep, serviceVars, stateVars
<1>9. ASSUME NEW type \in due, TimeoutFires(type) PROVE ViewOK'
  BY <1>9 DEF TimeoutFires, PluginStep, serviceVars, stateVars
<1>10. CASE DeliverState
  BY <1>10 DEF DeliverState, PluginStep, serviceVars, stateVars, NextNote
<1>11. CASE DeliverStart
  BY <1>11 DEF DeliverStart, PluginStep, serviceVars, stateVars, NextNote
<1>12. CASE DeliverEnd
  BY <1>12 DEF DeliverEnd, PluginStep, serviceVars, stateVars, NextNote
<1>13. CASE StateReply
  BY <1>13 DEF StateReply, PluginStep, serviceVars, stateVars, Active
<1>14. CASE ReadPage
  BY <1>14 DEF ReadPage, PluginStep, serviceVars, stateVars
<1>15. CASE Recheck
  BY <1>15 DEF Recheck, PluginStep, serviceVars, stateVars, Active
<1>16. CASE SnapshotFails
  BY <1>16 DEF SnapshotFails, PluginStep, serviceVars, stateVars
<1>17. CASE CancelTimer
  BY <1>17 DEF CancelTimer, PluginStep, serviceVars, stateVars, CancelDue
<1>18. ASSUME NEW caller \in calls, CancelReply(caller) PROVE ViewOK'
  BY <1>18 DEF CancelReply, PluginStep, serviceVars, stateVars
<1>19. ASSUME NEW caller \in calls, CancelFails(caller) PROVE ViewOK'
  BY <1>19 DEF CancelFails, PluginStep, serviceVars, stateVars
<1>20. CASE Cancel
  BY <1>20 DEF Cancel, serviceVars, pluginVars, stateVars
<1>21. CASE AcceptReady
  BY <1>21, Accepts DEF AcceptReady, ControlStep, serviceVars, pluginVars, NextEvent, Fails, Goes, Taken, QuietEventsOK, ServiceOK
<1>22. CASE AcceptStart
  BY <1>22 DEF AcceptStart, ControlStep, serviceVars, pluginVars, NextEvent, Fails, Goes
<1>23. CASE AcceptEnd
  BY <1>23 DEF AcceptEnd, ControlStep, serviceVars, pluginVars, NextEvent, Fails, Goes
<1>24. CASE AcceptSettled
  BY <1>24, Accepts DEF AcceptSettled, ControlStep, serviceVars, pluginVars, NextEvent, Fails, Goes, Taken, QuietEventsOK, ServiceOK
<1>25. CASE AcceptAck
  BY <1>25 DEF AcceptAck, ControlStep, serviceVars, pluginVars, NextEvent
<1>26. CASE AcceptError
  BY <1>26 DEF AcceptError, ControlStep, serviceVars, pluginVars, NextEvent, Fails, Goes
<1>27. CASE HandleCancel
  BY <1>27 DEF HandleCancel, ControlStep, serviceVars, pluginVars, Fails, Goes, stateVars
<1>28. CASE Stop
  BY <1>28 DEF Stop, ControlStep, serviceVars, pluginVars, Goes, stateVars, Concluded
<1>29. CASE Exits
  BY <1>29 DEF Exits, ControlStep, serviceVars, pluginVars, Goes
<1>30. CASE Deadline
  BY <1>30 DEF Deadline, ControlStep, serviceVars, pluginVars, Fails, Goes, DeadlineArmed
<1>31. CASE UNCHANGED vars
  BY <1>31 DEF vars, serviceVars, pluginVars, stateVars
<1>32. QED
  BY <1>1, <1>2, <1>3, <1>4, <1>5, <1>6, <1>7, <1>8, <1>9, <1>10, <1>11, <1>12, <1>13, <1>14, <1>15, <1>16,
     <1>17, <1>18, <1>19, <1>20, <1>21, <1>22, <1>23, <1>24, <1>25, <1>26, <1>27, <1>28, <1>29, <1>30, <1>31 DEF Next, Service, Plugin, Control, Done

\* Types; pages are read until there are as many as the thread has.
LEMMA TypeStep ==
  TypeOK /\ ServiceOK /\ EndOK /\ EndEventsOK /\ SnapOK /\ QuietEventsOK /\ ViewOK /\ [Next]_vars => TypeOK'
<1> SUFFICES ASSUME TypeOK, ServiceOK, EndOK, EndEventsOK, SnapOK, QuietEventsOK, ViewOK, [Next]_vars
             PROVE  TypeOK'
  OBVIOUS
<1> USE SeqsStep DEF TypeOK
<1>1. CASE TurnStarts
  BY <1>1 DEF TurnStarts, ServiceStep, pluginVars, stateVars
<1>2. CASE Write
  <2>1. content' \in Contents
    BY <1>2, PagesAssumption, BoundsAssumption DEF Write, Contents
  <2>2. UNCHANGED <<turn, busy, others, reached, rests, alive, attached, pending, due, snap, ended, cancelling, calls, events, input, cancelled, submitted, started, receipt, view, cancelSent, cancelAck, control>>
    BY <1>2 DEF Write, ServiceStep, pluginVars, stateVars
  <2>3. QED
    BY <2>1, <2>2 
<1>3. CASE TurnEnds
  BY <1>3 DEF TurnEnds, ServiceStep, pluginVars, stateVars
<1>4. CASE TurnRests
  BY <1>4 DEF TurnRests, ServiceStep, pluginVars, stateVars
<1>5. CASE OtherStarts
  <2>1. others' \in 0 .. MaxOthers
    BY <1>5, BoundsAssumption DEF OtherStarts
  <2>2. UNCHANGED <<content, turn, reached, rests, alive, attached, due, snap, ended, cancelling, calls, events, input, cancelled, submitted, started, receipt, view, cancelSent, cancelAck, control>>
    BY <1>5 DEF OtherStarts, ServiceStep, pluginVars, stateVars
  <2>3. busy' = TRUE
    BY <1>5 DEF OtherStarts
  <2>4. QED
    BY <2>1, <2>2, <2>3 
<1>6. CASE OtherEnds
  BY <1>6 DEF OtherEnds, ServiceStep, pluginVars, stateVars
<1>7. CASE ProcessExits
  BY <1>7 DEF ProcessExits, serviceVars, pluginVars, stateVars
<1>8. CASE SessionStart
  BY <1>8 DEF SessionStart, PluginStep, serviceVars, stateVars, NoSnapshot
<1>9. ASSUME NEW type \in due, TimeoutFires(type) PROVE TypeOK'
  BY <1>9, StartFields DEF TimeoutFires, PluginStep, serviceVars, stateVars, NewSnapshot, NoSnapshot
<1>10. CASE DeliverState
  BY <1>10, MovedFields, StartFields DEF DeliverState, PluginStep, serviceVars, stateVars, NextNote, NewSnapshot, NoSnapshot
<1>11. CASE DeliverStart
  BY <1>11, MovedFields DEF DeliverStart, PluginStep, serviceVars, stateVars, NextNote, NoSnapshot
<1>12. CASE DeliverEnd
  BY <1>12, MovedFields DEF DeliverEnd, PluginStep, serviceVars, stateVars, NextNote, NoSnapshot
<1>13. CASE StateReply
  <2>1. \/ snap' = NoSnapshot
        \/ ~Active /\ snap.phase = "get"
           /\ snap' = [phase |-> "read", type |-> snap.type, moved |-> snap.moved, pages |-> snap.pages]
    BY <1>13, StateReplyFields
  <2>2. snap' \in Snapshots /\ (snap'.phase = "none" => snap' = NoSnapshot)
    BY <2>1, NoSnapshotType DEF Snapshots
  <2>3. UNCHANGED <<content, turn, busy, others, reached, rests, alive, attached, pending, due, ended, cancelling, calls, input, cancelled, submitted, started, receipt, view, cancelSent, cancelAck, control>>
    BY <1>13 DEF StateReply, PluginStep, serviceVars, stateVars
  <2>4. QED
    BY <2>1, <2>2, <2>3 
<1>14. CASE ReadPage
  <2>1. /\ snap.phase = "read" /\ pending = <<>> /\ Len(snap.pages) \in 0 .. Pages - 1
        /\ \/ snap' = NoSnapshot
           \/ \E pages \in Views, phase \in {"read", "recheck"} :
                /\ snap' = [phase |-> phase, type |-> snap.type, moved |-> snap.moved, pages |-> pages]
                /\ Len(pages) = Len(snap.pages) + 1
                /\ phase = "read" => Len(pages) < Pages
                /\ phase = "recheck" => Len(pages) = Pages /\ ~snap.moved
                /\ \A p \in 1 .. Len(pages) :
                     pages[p] = IF p <= Len(snap.pages) THEN snap.pages[p] ELSE content[p]
    BY <1>14, ReadPageFields
  <2>2. snap' \in Snapshots /\ (snap'.phase = "none" => snap' = NoSnapshot)
    BY <2>1, NoSnapshotType DEF Snapshots
  <2>3. UNCHANGED <<content, turn, busy, others, reached, rests, alive, attached, pending, due, ended, cancelling, calls, input, cancelled, submitted, started, receipt, view, cancelSent, cancelAck, control>>
    BY <1>14 DEF ReadPage, PluginStep, serviceVars, stateVars
  <2>4. QED
    BY <2>1, <2>2, <2>3 
<1>15. CASE Recheck
  <2>1. snap' \in Snapshots /\ (snap'.phase = "none" => snap' = NoSnapshot)
    BY <1>15, NoSnapshotType DEF Recheck
  <2>2. UNCHANGED <<content, turn, busy, others, reached, rests, alive, attached, pending, due, ended, cancelling, calls, input, cancelled, submitted, started, receipt, view, cancelSent, cancelAck, control>>
    BY <1>15 DEF Recheck, PluginStep, serviceVars, stateVars
  <2>3. QED
    BY <2>1, <2>2 
<1>16. CASE SnapshotFails
  <2>1. snap' \in Snapshots /\ (snap'.phase = "none" => snap' = NoSnapshot)
    BY <1>16, NoSnapshotType DEF SnapshotFails
  <2>2. UNCHANGED <<content, turn, busy, others, reached, rests, alive, attached, pending, due, ended, cancelling, calls, input, cancelled, submitted, started, receipt, view, cancelSent, cancelAck, control>>
    BY <1>16 DEF SnapshotFails, PluginStep, serviceVars, stateVars
  <2>3. QED
    BY <2>1, <2>2 
<1>17. CASE CancelTimer
  BY <1>17 DEF CancelTimer, PluginStep, serviceVars, stateVars, CancelDue, NoSnapshot
<1>18. ASSUME NEW caller \in calls, CancelReply(caller) PROVE TypeOK'
  BY <1>18, StartFields DEF CancelReply, PluginStep, serviceVars, stateVars, NewSnapshot, NoSnapshot
<1>19. ASSUME NEW caller \in calls, CancelFails(caller) PROVE TypeOK'
  BY <1>19 DEF CancelFails, PluginStep, serviceVars, stateVars, NoSnapshot
<1>20. CASE Cancel
  BY <1>20 DEF Cancel, serviceVars, pluginVars, stateVars
<1>21. CASE AcceptReady
  <2>1. view' \in Contents \cup {NoView}
    BY <1>21, Accepts DEF AcceptReady, NextEvent, Taken, QuietEventsOK, ServiceOK, Fails
  <2>2. {submitted', alive', cancelled'} \subseteq BOOLEAN /\ control' \in {"running", "failed"}
    BY <1>21 DEF AcceptReady, ControlStep, Fails, Goes
  <2>3. UNCHANGED <<content, turn, busy, others, reached, rests, attached, pending, due, snap, ended, cancelling, calls, input, started, receipt, cancelSent, cancelAck>>
    BY <1>21 DEF AcceptReady, ControlStep, serviceVars, pluginVars, NextEvent, Fails, Goes
  <2>4. QED
    BY <2>1, <2>2, <2>3 
<1>22. CASE AcceptStart
  BY <1>22 DEF AcceptStart, ControlStep, serviceVars, pluginVars, NextEvent, Fails, Goes
<1>23. CASE AcceptEnd
  <2>1. receipt' \in Contents \cup {NoView} /\ view' \in Contents \cup {NoView}
    BY <1>23, Accepts DEF AcceptEnd, NextEvent, Taken, EndEventsOK, Fails
  <2>2. alive' \in BOOLEAN /\ control' \in {"running", "failed"}
    BY <1>23 DEF AcceptEnd, ControlStep, Fails, Goes
  <2>3. UNCHANGED <<content, turn, busy, others, reached, rests, attached, pending, due, snap, ended, cancelling, calls, input, cancelled, submitted, started, cancelSent, cancelAck>>
    BY <1>23 DEF AcceptEnd, ControlStep, serviceVars, pluginVars, NextEvent, Fails, Goes
  <2>4. QED
    BY <2>1, <2>2, <2>3 
<1>24. CASE AcceptSettled
  <2>1. view' \in Contents \cup {NoView}
    BY <1>24, Accepts DEF AcceptSettled, NextEvent, Taken, QuietEventsOK, Fails
  <2>2. alive' \in BOOLEAN /\ control' \in {"running", "failed"}
    BY <1>24 DEF AcceptSettled, ControlStep, Fails, Goes
  <2>3. UNCHANGED <<content, turn, busy, others, reached, rests, attached, pending, due, snap, ended, cancelling, calls, input, cancelled, submitted, started, receipt, cancelSent, cancelAck>>
    BY <1>24 DEF AcceptSettled, ControlStep, serviceVars, pluginVars, NextEvent, Fails, Goes
  <2>4. QED
    BY <2>1, <2>2, <2>3 
<1>25. CASE AcceptAck
  BY <1>25 DEF AcceptAck, ControlStep, serviceVars, pluginVars, NextEvent
<1>26. CASE AcceptError
  BY <1>26 DEF AcceptError, ControlStep, serviceVars, pluginVars, NextEvent, Fails, Goes
<1>27. CASE HandleCancel
  BY <1>27 DEF HandleCancel, ControlStep, serviceVars, pluginVars, Fails, Goes, stateVars
<1>28. CASE Stop
  BY <1>28 DEF Stop, ControlStep, serviceVars, pluginVars, Goes, stateVars, Concluded
<1>29. CASE Exits
  BY <1>29 DEF Exits, ControlStep, serviceVars, pluginVars, Goes
<1>30. CASE Deadline
  BY <1>30 DEF Deadline, ControlStep, serviceVars, pluginVars, Fails, Goes, DeadlineArmed
<1>31. CASE UNCHANGED vars
  BY <1>31 DEF vars, serviceVars, pluginVars, stateVars
<1>32. QED
  BY <1>1, <1>2, <1>3, <1>4, <1>5, <1>6, <1>7, <1>8, <1>9, <1>10, <1>11, <1>12, <1>13, <1>14, <1>15, <1>16,
     <1>17, <1>18, <1>19, <1>20, <1>21, <1>22, <1>23, <1>24, <1>25, <1>26, <1>27, <1>28, <1>29, <1>30, <1>31 DEF Next, Service, Plugin, Control, Done

\* A thread somebody may be working on, and a plugin without a thread.
LEMMA InitIInv == Init => IInv
<1> SUFFICES ASSUME Init PROVE IInv
  OBVIOUS
<1> USE DEF Init
<1>1. Elements(pending) = {} /\ Elements(events) = {}
  BY DEF Elements
<1>2. TypeOK
  <2>1. content \in Contents /\ rests \subseteq Contents
    BY PagesAssumption, BoundsAssumption DEF Contents
  <2>2. others \in 0 .. MaxOthers
    BY BoundsAssumption
  <2>3. pending \in Seq(Note) /\ events \in Seq(Event)
    OBVIOUS
  <2>4. snap \in Snapshots /\ (snap.phase = "none" => snap = NoSnapshot)
    BY NoSnapshotType
  <2>5. QED
    BY <2>1, <2>2, <2>3, <2>4 DEF TypeOK
<1>3. ServiceOK
  BY DEF ServiceOK, Active
<1>4. EndOK /\ DetachedOK /\ ReadsRest /\ SnapOK /\ ViewOK
  BY DEF EndOK, DetachedOK, ReadsRest, SnapOK, ViewOK, NoSnapshot
<1>5. EndNotesOK /\ EndEventsOK /\ QuietEventsOK
  BY <1>1 DEF EndNotesOK, EndEventsOK, QuietEventsOK
<1>6. QED
  BY <1>2, <1>3, <1>4, <1>5 DEF IInv

\* The parts together are inductive.
LEMMA IInvStep == IInv /\ [Next]_vars => IInv'
BY TypeStep, ServiceOKStep, EndStep, EndNotesStep, EndEventsStep, DetachedStep,
   ReadsRestStep, SnapStep, QuietEventsStep, ViewStep DEF IInv

\* So they hold in every reachable state.
LEMMA Inductive == Spec => []IInv
<1>1. QED
  BY InitIInv, IInvStep, PTL DEF Spec

\* Every variable of the service, the plugin and the loop keeps its type: in
\* particular a receipt and a view are whole threads.
THEOREM TypeCorrect == Spec => []TypeOK
<1>1. IInv => TypeOK
  BY DEF IInv
<1>2. QED
  BY <1>1, Inductive, PTL

\* However many pages, changes and other clients there are, a view of the control
\* loop is what the thread held at rest (bridge.ts snapshot, state recheck).
THEOREM ViewsRest == Spec => []ViewWasAtRest
<1>1. IInv => ViewWasAtRest
  BY DEF IInv, ViewOK, ViewWasAtRest
<1>2. QED
  BY <1>1, Inductive, PTL

----------------------------------------------------------------------------
(* The cancel.                                                             *)

\* The file is only there once the turn is submitted, and the plugin cancels
\* nothing before it is there.
CancelFileOK ==
  /\ ~attached => ~submitted /\ events = <<>> /\ ~cancelling /\ calls = {}
  /\ ~cancelSent => ~cancelling /\ calls = {}
  /\ cancelSent => submitted

\* Whatever the interval has done before the turn ran, something is left to do for
\* a cancel that has not reached the turn.
HasStart == \E e \in Elements(pending) : e.kind = "start"
HasError == \E e \in Elements(events) : e.type = "error"

CancelCarried ==
  alive /\ cancelSent /\ turn = "running" =>
    reached \/ ~cancelling \/ calls # {} \/ HasStart \/ HasError

\* The start of the turn is notified to an attached plugin.
LEMMA StartIsSent == TypeOK /\ TurnStarts /\ attached => HasStart'
<1> SUFFICES ASSUME TypeOK, TurnStarts, attached PROVE HasStart'
  OBVIOUS
<1>1. PICK notes \in {<<"active", "start">>, <<"start", "active">>} : Notify(notes, NoView)
  BY DEF TurnStarts
<1> DEFINE new == [k \in DOMAIN notes |-> [kind |-> notes[k], messages |-> NoView]]
<1>2. PICK k \in 1 .. 2 : notes[k] = "start" /\ DOMAIN notes = 1 .. 2
  BY <1>1
<1>3. new \in Seq(Note) /\ Len(new) = 2 /\ new[k].kind = "start"
  <2>1. new \in [1 .. 2 -> Note] /\ new[k].kind = "start"
    <3>1. \A j \in 1 .. 2 : notes[j] \in {"active", "start"}
      BY <1>1
    <3>2. NoView \in Views
      BY ViewFacts
    <3>3. QED
      BY <1>2, <3>1, <3>2 DEF Note
  <2>2. new \in Seq(Note)
    BY <2>1, SeqDef
  <2>3. QED
    BY <2>1, <2>2, LenProperties
<1>4. pending' = pending \o new
  BY <1>1 DEF Notify
<1> HIDE DEF new
<1>5. pending \in Seq(Note) /\ Len(pending) \in Nat
  BY LenProperties DEF TypeOK
<1>6. /\ Len(pending') = Len(pending) + 2
      /\ pending'[Len(pending) + k] = new[k]
  <2>1. /\ Len(pending \o new) = Len(pending) + Len(new)
        /\ \A i \in 1 .. Len(pending) + Len(new) : (pending \o new)[i] =
             IF i <= Len(pending) THEN pending[i] ELSE new[i - Len(pending)]
    BY <1>3, <1>5, ConcatProperties
  <2>2. /\ Len(pending) + k \in 1 .. Len(pending) + 2
        /\ ~(Len(pending) + k <= Len(pending)) /\ (Len(pending) + k) - Len(pending) = k
    BY <1>5
  <2>3. QED
    BY <1>3, <1>4, <2>1, <2>2
<1>7. Len(pending) + k \in 1 .. Len(pending')
  BY <1>5, <1>6
<1>8. QED
  BY <1>3, <1>6, <1>7 DEF HasStart, Elements

\* What is not the first element stays in a queue.
LEMMA TailKeeps ==
  ASSUME NEW S, NEW s \in Seq(S), s # <<>>
  PROVE  Elements(s) \subseteq {Head(s)} \cup Elements(Tail(s))
<1>1. /\ Len(Tail(s)) = Len(s) - 1
      /\ \A i \in 1 .. Len(Tail(s)) : Tail(s)[i] = s[i + 1]
  BY HeadTailProperties
<1>2. Len(s) \in Nat \ {0} /\ Head(s) = s[1]
  BY EmptySeq
<1>3. ASSUME NEW i \in 1 .. Len(s) PROVE s[i] \in {Head(s)} \cup Elements(Tail(s))
  <2>1. CASE i = 1
    BY <1>2, <2>1
  <2>2. CASE i # 1
    <3>1. i - 1 \in 1 .. Len(Tail(s)) /\ Tail(s)[i - 1] = s[i]
      BY <1>1, <1>2, <2>2
    <3>2. QED
      BY <3>1 DEF Elements
  <2>3. QED
    BY <2>1, <2>2
<1>4. QED
  BY <1>3 DEF Elements

\* No other notification or event than a start or an error makes room for one.
LEMMA StartKept ==
  TypeOK /\ HasStart /\ (DeliverState \/ DeliverEnd) => HasStart'
BY TailKeeps DEF HasStart, TypeOK, DeliverState, DeliverEnd, NextNote

\* The loop does not pass an error by.
LEMMA ErrorKept ==
  TypeOK /\ HasError
    /\ (AcceptReady \/ AcceptStart \/ AcceptEnd \/ AcceptSettled \/ AcceptAck) => HasError'
BY TailKeeps DEF HasError, TypeOK, AcceptReady, AcceptStart, AcceptEnd, AcceptSettled, AcceptAck, NextEvent

\* An emission adds an event.
LEMMA EmissionKeeps ==
  ASSUME NEW type, NEW isQuiet, NEW messages, Emitted(type, isQuiet, messages)
  PROVE  /\ HasError => HasError'
         /\ type = "error" => HasError'
<1>1. Elements(events') = Elements(events) \cup {Emission(type, isQuiet, messages)}
  BY DEF Emitted
<1>2. Emission(type, isQuiet, messages).type = type
  BY DEF Emission
<1>3. HasError' <=> \E e \in Elements(events') : e.type = "error"
  BY DEF HasError, Elements
<1>4. QED
  BY <1>1, <1>2, <1>3 DEF HasError

\* Events and cancels come from an attached plugin, the file from the loop.
LEMMA CancelFileStep ==
  ASSUME TypeOK, DetachedOK, CancelFileOK, [Next]_vars
  PROVE  CancelFileOK'
<1> USE DEF DetachedOK, CancelFileOK
<1>1. CASE TurnStarts
  BY <1>1 DEF TurnStarts, ServiceStep, pluginVars, stateVars
<1>2. CASE Write
  BY <1>2 DEF Write, ServiceStep, pluginVars, stateVars
<1>3. CASE TurnEnds
  BY <1>3 DEF TurnEnds, ServiceStep, pluginVars, stateVars
<1>4. CASE TurnRests
  BY <1>4 DEF TurnRests, ServiceStep, pluginVars, stateVars
<1>5. CASE OtherStarts
  BY <1>5 DEF OtherStarts, ServiceStep, pluginVars, stateVars, Active
<1>6. CASE OtherEnds
  BY <1>6 DEF OtherEnds, ServiceStep, pluginVars, stateVars
<1>7. CASE ProcessExits
  BY <1>7 DEF ProcessExits, serviceVars, pluginVars, stateVars
<1>8. CASE SessionStart
  BY <1>8 DEF SessionStart, PluginStep, serviceVars, stateVars
<1>9. ASSUME NEW type \in due, TimeoutFires(type) PROVE CancelFileOK'
  BY <1>9 DEF TimeoutFires, PluginStep, serviceVars, stateVars
<1>10. CASE DeliverState
  BY <1>10 DEF DeliverState, PluginStep, serviceVars, stateVars, NextNote
<1>11. CASE DeliverStart
  BY <1>11 DEF DeliverStart, PluginStep, serviceVars, stateVars, NextNote
<1>12. CASE DeliverEnd
  BY <1>12 DEF DeliverEnd, PluginStep, serviceVars, stateVars, NextNote
<1>13. CASE StateReply
  BY <1>13 DEF StateReply, PluginStep, serviceVars, stateVars
<1>14. CASE ReadPage
  BY <1>14 DEF ReadPage, PluginStep, serviceVars, stateVars
<1>15. CASE Recheck
  BY <1>15 DEF Recheck, PluginStep, serviceVars, stateVars
<1>16. CASE SnapshotFails
  BY <1>16 DEF SnapshotFails, PluginStep, serviceVars, stateVars
<1>17. CASE CancelTimer
  BY <1>17 DEF CancelTimer, PluginStep, serviceVars, stateVars, CancelDue
<1>18. ASSUME NEW caller \in calls, CancelReply(caller) PROVE CancelFileOK'
  BY <1>18 DEF CancelReply, PluginStep, serviceVars, stateVars
<1>19. ASSUME NEW caller \in calls, CancelFails(caller) PROVE CancelFileOK'
  BY <1>19 DEF CancelFails, PluginStep, serviceVars, stateVars
<1>20. CASE Cancel
  BY <1>20 DEF Cancel, serviceVars, pluginVars, stateVars
<1>21. CASE AcceptReady
  BY <1>21 DEF AcceptReady, ControlStep, serviceVars, pluginVars, NextEvent, Fails, Goes
<1>22. CASE AcceptStart
  BY <1>22 DEF AcceptStart, ControlStep, serviceVars, pluginVars, NextEvent, Fails, Goes
<1>23. CASE AcceptEnd
  BY <1>23 DEF AcceptEnd, ControlStep, serviceVars, pluginVars, NextEvent, Fails, Goes
<1>24. CASE AcceptSettled
  BY <1>24 DEF AcceptSettled, ControlStep, serviceVars, pluginVars, NextEvent, Fails, Goes
<1>25. CASE AcceptAck
  BY <1>25 DEF AcceptAck, ControlStep, serviceVars, pluginVars, NextEvent
<1>26. CASE AcceptError
  BY <1>26 DEF AcceptError, ControlStep, serviceVars, pluginVars, NextEvent, Fails, Goes
<1>27. CASE HandleCancel
  BY <1>27 DEF HandleCancel, ControlStep, serviceVars, pluginVars, Fails, Goes, stateVars
<1>28. CASE Stop
  BY <1>28 DEF Stop, ControlStep, serviceVars, pluginVars, Goes, stateVars
<1>29. CASE Exits
  BY <1>29 DEF Exits, ControlStep, serviceVars, pluginVars, Goes
<1>30. CASE Deadline
  BY <1>30 DEF Deadline, ControlStep, serviceVars, pluginVars, Fails, Goes
<1>31. CASE UNCHANGED vars
  BY <1>31 DEF vars, serviceVars, pluginVars, stateVars
<1>32. QED
  BY <1>1, <1>2, <1>3, <1>4, <1>5, <1>6, <1>7, <1>8, <1>9, <1>10, <1>11, <1>12, <1>13, <1>14, <1>15, <1>16,
     <1>17, <1>18, <1>19, <1>20, <1>21, <1>22, <1>23, <1>24, <1>25, <1>26, <1>27, <1>28, <1>29, <1>30, <1>31 DEF Next, Service, Plugin, Control, Done

\* Who starts a cancel, or fails one, leaves the next to carry it.
LEMMA CancelCarriedStep ==
  ASSUME TypeOK, ServiceOK, CancelFileOK, CancelCarried, "hook" \notin Failures, [Next]_vars
  PROVE  CancelCarried'
<1> USE DEF CancelCarried, ServiceOK
<1>1. CASE TurnStarts
  BY <1>1, StartIsSent DEF TurnStarts, ServiceStep, pluginVars, stateVars, CancelFileOK
<1>2. CASE Write
  <2>1. (HasError => HasError') /\ (HasStart => HasStart')
    BY <1>2 DEF HasError, HasStart, Write, ServiceStep, pluginVars, stateVars
  <2>2. QED
    BY <1>2, <2>1 DEF Write, ServiceStep, pluginVars, stateVars
<1>3. CASE TurnEnds
  BY <1>3 DEF TurnEnds, ServiceStep, pluginVars, stateVars
<1>4. CASE TurnRests
  BY <1>4 DEF TurnRests, ServiceStep, pluginVars, stateVars
<1>5. CASE OtherStarts
  BY <1>5 DEF OtherStarts, ServiceStep, pluginVars, stateVars, Active
<1>6. CASE OtherEnds
  BY <1>6 DEF OtherEnds, ServiceStep, pluginVars, stateVars
<1>7. CASE ProcessExits
  BY <1>7 DEF ProcessExits, serviceVars, pluginVars, stateVars
<1>8. CASE SessionStart
  <2>1. (HasError => HasError') /\ (HasStart => HasStart')
    BY <1>8 DEF HasError, HasStart, SessionStart, PluginStep, serviceVars, stateVars
  <2>2. QED
    BY <1>8, <2>1 DEF SessionStart, PluginStep, serviceVars, stateVars
<1>9. ASSUME NEW type \in due, TimeoutFires(type) PROVE CancelCarried'
  <2>1. (HasError => HasError') /\ (HasStart => HasStart')
    BY <1>9 DEF HasError, HasStart, TimeoutFires, PluginStep, serviceVars, stateVars
  <2>2. QED
    BY <1>9, <2>1 DEF TimeoutFires, PluginStep, serviceVars, stateVars
<1>10. CASE DeliverState
  <2>1. (HasError => HasError') /\ (HasStart => HasStart')
    BY <1>10, StartKept DEF HasError, DeliverState
  <2>2. QED
    BY <1>10, <2>1 DEF DeliverState, PluginStep, serviceVars, stateVars, NextNote
<1>11. CASE DeliverStart
  <2>1. HasError => HasError'
    BY <1>11, DeliverStartEmits, EmissionKeeps
  <2>3. QED
    BY <1>11, <2>1 DEF DeliverStart, PluginStep, serviceVars, stateVars
<1>12. CASE DeliverEnd
  <2>1. HasError => HasError'
    BY <1>12, DeliverEndEmits, EmissionKeeps
  <2>2. HasStart => HasStart'
    BY <1>12, StartKept
  <2>3. QED
    BY <1>12, <2>1, <2>2 DEF DeliverEnd, PluginStep, serviceVars, stateVars
<1>13. CASE StateReply
  <2>1. HasError => HasError'
    BY <1>13, StateReplyEmits, EmissionKeeps DEF HasError
  <2>2. HasStart => HasStart'
    BY <1>13 DEF HasStart, StateReply
  <2>3. QED
    BY <1>13, <2>1, <2>2 DEF StateReply, PluginStep, serviceVars, stateVars
<1>14. CASE ReadPage
  <2>1. events' = events \/ Emitted("error", FALSE, NoView)
    BY <1>14, ErrorEmits DEF ReadPage
  <2>2. (HasError => HasError') /\ (HasStart => HasStart')
    BY <1>14, <2>1, EmissionKeeps DEF HasError, HasStart, ReadPage
  <2>3. QED
    BY <1>14, <2>2 DEF ReadPage, PluginStep, serviceVars, stateVars
<1>15. CASE Recheck
  <2>1. HasError => HasError'
    BY <1>15, RecheckEmits, EmissionKeeps
  <2>2. HasStart => HasStart'
    BY <1>15 DEF HasStart, Recheck
  <2>3. QED
    BY <1>15, <2>1, <2>2 DEF Recheck, PluginStep, serviceVars, stateVars
<1>16. CASE SnapshotFails
  <2>1. events' = events \/ Emitted("error", FALSE, NoView)
    BY <1>16, ErrorEmits DEF SnapshotFails
  <2>2. (HasError => HasError') /\ (HasStart => HasStart')
    BY <1>16, <2>1, EmissionKeeps DEF HasError, HasStart, SnapshotFails
  <2>3. QED
    BY <1>16, <2>2 DEF SnapshotFails, PluginStep, serviceVars, stateVars
<1>17. CASE CancelTimer
  <2>1. (HasError => HasError') /\ (HasStart => HasStart')
    BY <1>17 DEF HasError, HasStart, CancelTimer, PluginStep, serviceVars, stateVars, CancelDue
  <2>2. QED
    BY <1>17, <2>1 DEF CancelTimer, PluginStep, serviceVars, stateVars, CancelDue
<1>18. ASSUME NEW caller \in calls, CancelReply(caller) PROVE CancelCarried'
  BY <1>18 DEF CancelReply, PluginStep, serviceVars, stateVars
<1>19. ASSUME NEW caller \in calls, CancelFails(caller) PROVE CancelCarried'
  <2>1. caller = "timer"
    BY <1>19 DEF CancelFails, TypeOK
  <2>2. Emitted("error", FALSE, NoView)
    BY <1>19, <2>1, ErrorEmits DEF CancelFails
  <2>3. HasError'
    BY <2>2, EmissionKeeps
  <2>4. QED
    BY <2>3
<1>20. CASE Cancel
  <2>1. (HasError => HasError') /\ (HasStart => HasStart')
    BY <1>20 DEF HasError, HasStart, Cancel, serviceVars, pluginVars, stateVars
  <2>2. QED
    BY <1>20, <2>1 DEF Cancel, serviceVars, pluginVars, stateVars
<1>21. CASE AcceptReady
  <2>1. (HasError => HasError') /\ (HasStart => HasStart')
    BY <1>21, ErrorKept DEF HasStart, AcceptReady, ControlStep
  <2>2. QED
    BY <1>21, <2>1 DEF AcceptReady, ControlStep, serviceVars, pluginVars, NextEvent, Fails, Goes
<1>22. CASE AcceptStart
  <2>1. (HasError => HasError') /\ (HasStart => HasStart')
    BY <1>22, ErrorKept DEF HasStart, AcceptStart, ControlStep
  <2>2. QED
    BY <1>22, <2>1 DEF AcceptStart, ControlStep, serviceVars, pluginVars, NextEvent, Fails, Goes
<1>23. CASE AcceptEnd
  <2>1. (HasError => HasError') /\ (HasStart => HasStart')
    BY <1>23, ErrorKept DEF HasStart, AcceptEnd, ControlStep
  <2>2. QED
    BY <1>23, <2>1 DEF AcceptEnd, ControlStep, serviceVars, pluginVars, NextEvent, Fails, Goes
<1>24. CASE AcceptSettled
  <2>1. (HasError => HasError') /\ (HasStart => HasStart')
    BY <1>24, ErrorKept DEF HasStart, AcceptSettled, ControlStep
  <2>2. QED
    BY <1>24, <2>1 DEF AcceptSettled, ControlStep, serviceVars, pluginVars, NextEvent, Fails, Goes
<1>25. CASE AcceptAck
  <2>1. (HasError => HasError') /\ (HasStart => HasStart')
    BY <1>25, ErrorKept DEF HasStart, AcceptAck, ControlStep
  <2>2. QED
    BY <1>25, <2>1 DEF AcceptAck, ControlStep, serviceVars, pluginVars, NextEvent
<1>26. CASE AcceptError
  BY <1>26 DEF AcceptError, ControlStep, serviceVars, pluginVars, NextEvent, Fails, Goes
<1>27. CASE HandleCancel
  <2>1. (HasError => HasError') /\ (HasStart => HasStart')
    BY <1>27 DEF HasError, HasStart, HandleCancel, ControlStep, serviceVars, pluginVars, Fails, Goes, stateVars
  <2>2. QED
    BY <1>27, <2>1 DEF HandleCancel, ControlStep, serviceVars, pluginVars, Fails, Goes, stateVars, CancelFileOK
<1>28. CASE Stop
  BY <1>28 DEF Stop, ControlStep, serviceVars, pluginVars, Goes, stateVars
<1>29. CASE Exits
  BY <1>29 DEF Exits, ControlStep, serviceVars, pluginVars, Goes
<1>30. CASE Deadline
  BY <1>30 DEF Deadline, ControlStep, serviceVars, pluginVars, Fails, Goes
<1>31. CASE UNCHANGED vars
  BY <1>31 DEF vars, serviceVars, pluginVars, stateVars, HasStart, HasError
<1>32. QED
  BY <1>1, <1>2, <1>3, <1>4, <1>5, <1>6, <1>7, <1>8, <1>9, <1>10, <1>11, <1>12, <1>13, <1>14, <1>15, <1>16,
     <1>17, <1>18, <1>19, <1>20, <1>21, <1>22, <1>23, <1>24, <1>25, <1>26, <1>27, <1>28, <1>29, <1>30, <1>31 DEF Next, Service, Plugin, Control, Done

\* A cancel left in the file reaches the running turn or ends the run, however the
\* interval, the start of the turn and the loop interleave, unless the plugin's own
\* cancel on agent.start fails (bridge.ts, agent.start and the interval).
THEOREM CancelReaches ==
  ASSUME "hook" \notin Failures
  PROVE  Spec => []CancelNotLost
<1>1. Init => CancelFileOK /\ CancelCarried
  BY DEF Init, CancelFileOK, CancelCarried
<1>2. IInv /\ CancelFileOK /\ CancelCarried /\ [Next]_vars => (CancelFileOK /\ CancelCarried)'
  BY CancelFileStep, CancelCarriedStep DEF IInv
<1>3. TypeOK /\ CancelFileOK /\ CancelCarried => CancelNotLost
  <2> SUFFICES ASSUME TypeOK, CancelFileOK, CancelCarried, alive, cancelSent, turn = "running", PluginIdle,
                      ~reached
               PROVE  ReportsError
    BY DEF CancelNotLost
  <2>1. cancelling /\ calls = {}
    BY DEF CancelFileOK, PluginIdle, CancelDue
  <2>2. ~HasStart
    BY EmptySeq DEF HasStart, PluginIdle, Elements
  <2>3. HasError
    BY <2>1, <2>2 DEF CancelCarried
  <2>4. QED
    BY <2>3, LenProperties DEF HasError, ReportsError, Elements, TypeOK
<1>4. IInv => TypeOK
  BY DEF IInv
<1>5. QED
  BY <1>1, <1>2, <1>3, <1>4, Inductive, PTL DEF Spec

----------------------------------------------------------------------------
(* The refinement.                                                         *)

\* The adapter starts attached to the thread, with nothing concluded.
LEMMA ObserverInit == Init /\ IInv => Observer!Init
BY DEF Init, Observer!Init, IInv, TypeOK

\* What the loop does to the phase: submits, concludes or fails, once.
LEMMA ObserverStep == IInv /\ IInv' /\ [Next]_vars => [Observer!Next]_(Observer!vars)
<1> SUFFICES ASSUME IInv, IInv', [Next]_vars
             PROVE  [Observer!Next]_(Observer!vars)
  OBVIOUS
<1> USE DEF Observer!Next, Observer!vars
<1>1. CASE TurnStarts
  BY <1>1 DEF TurnStarts, ServiceStep, pluginVars, stateVars, Observer!TurnStarts, IInv, TypeOK, ServiceOK, Active
<1>2. CASE Write
  BY <1>2 DEF Write, ServiceStep, pluginVars, stateVars, Observer!Write, IInv, TypeOK, ServiceOK, Active
<1>3. CASE TurnEnds
  BY <1>3 DEF TurnEnds, ServiceStep, pluginVars, stateVars
<1>4. CASE TurnRests
  BY <1>4 DEF TurnRests, ServiceStep, pluginVars, stateVars, Observer!TurnEnds, IInv, TypeOK, ServiceOK, Active
<1>5. CASE OtherStarts
  BY <1>5 DEF OtherStarts, ServiceStep, pluginVars, stateVars, Active, Observer!OthersWork, IInv, TypeOK, ServiceOK
<1>6. CASE OtherEnds
  BY <1>6 DEF OtherEnds, ServiceStep, pluginVars, stateVars, Observer!OthersWork, IInv, TypeOK, ServiceOK, Active
<1>7. CASE ProcessExits
  BY <1>7 DEF ProcessExits, serviceVars, pluginVars, stateVars
<1>8. CASE SessionStart
  BY <1>8 DEF SessionStart, PluginStep, serviceVars, stateVars
<1>9. ASSUME NEW type \in due, TimeoutFires(type) PROVE [Observer!Next]_(Observer!vars)
  BY <1>9 DEF TimeoutFires, PluginStep, serviceVars, stateVars
<1>10. CASE DeliverState
  BY <1>10 DEF DeliverState, PluginStep, serviceVars, stateVars, NextNote
<1>11. CASE DeliverStart
  BY <1>11 DEF DeliverStart, PluginStep, serviceVars, stateVars, NextNote
<1>12. CASE DeliverEnd
  BY <1>12 DEF DeliverEnd, PluginStep, serviceVars, stateVars, NextNote
<1>13. CASE StateReply
  BY <1>13 DEF StateReply, PluginStep, serviceVars, stateVars, Active
<1>14. CASE ReadPage
  BY <1>14 DEF ReadPage, PluginStep, serviceVars, stateVars
<1>15. CASE Recheck
  BY <1>15 DEF Recheck, PluginStep, serviceVars, stateVars, Active
<1>16. CASE SnapshotFails
  BY <1>16 DEF SnapshotFails, PluginStep, serviceVars, stateVars
<1>17. CASE CancelTimer
  BY <1>17 DEF CancelTimer, PluginStep, serviceVars, stateVars, CancelDue
<1>18. ASSUME NEW caller \in calls, CancelReply(caller) PROVE [Observer!Next]_(Observer!vars)
  BY <1>18 DEF CancelReply, PluginStep, serviceVars, stateVars
<1>19. ASSUME NEW caller \in calls, CancelFails(caller) PROVE [Observer!Next]_(Observer!vars)
  BY <1>19 DEF CancelFails, PluginStep, serviceVars, stateVars
<1>20. CASE Cancel
  BY <1>20 DEF Cancel, serviceVars, pluginVars, stateVars
<1>21. CASE AcceptReady
  BY <1>21 DEF AcceptReady, ControlStep, serviceVars, pluginVars, NextEvent, Fails, Goes, IInv, ViewOK, ServiceOK, TypeOK, Observer!Submit, Observer!Conclude, Observer!Fail
<1>22. CASE AcceptStart
  BY <1>22 DEF AcceptStart, ControlStep, serviceVars, pluginVars, NextEvent, Fails, Goes, IInv, ViewOK, ServiceOK, TypeOK, Observer!Submit, Observer!Conclude, Observer!Fail
<1>23. CASE AcceptEnd
  BY <1>23 DEF AcceptEnd, ControlStep, serviceVars, pluginVars, NextEvent, Fails, Goes, IInv, ViewOK, ServiceOK, TypeOK, Observer!Submit, Observer!Conclude, Observer!Fail
<1>24. CASE AcceptSettled
  BY <1>24 DEF AcceptSettled, ControlStep, serviceVars, pluginVars, NextEvent, Fails, Goes, IInv, ViewOK, ServiceOK, TypeOK, Observer!Submit, Observer!Conclude, Observer!Fail
<1>25. CASE AcceptAck
  BY <1>25 DEF AcceptAck, ControlStep, serviceVars, pluginVars, NextEvent, IInv, ViewOK, ServiceOK, TypeOK, Observer!Submit, Observer!Conclude, Observer!Fail
<1>26. CASE AcceptError
  BY <1>26 DEF AcceptError, ControlStep, serviceVars, pluginVars, NextEvent, Fails, Goes, IInv, ViewOK, ServiceOK, TypeOK, Observer!Submit, Observer!Conclude, Observer!Fail
<1>27. CASE HandleCancel
  BY <1>27 DEF HandleCancel, ControlStep, serviceVars, pluginVars, Fails, Goes, stateVars, IInv, ViewOK, ServiceOK, TypeOK, Observer!Submit, Observer!Conclude, Observer!Fail
<1>28. CASE Stop
  BY <1>28 DEF Stop, ControlStep, serviceVars, pluginVars, Goes, stateVars, Concluded, IInv, ViewOK, ServiceOK, TypeOK, Observer!Submit, Observer!Conclude, Observer!Fail
<1>29. CASE Exits
  BY <1>29 DEF Exits, ControlStep, serviceVars, pluginVars, Goes, IInv, ViewOK, ServiceOK, TypeOK, Observer!Submit, Observer!Conclude, Observer!Fail
<1>30. CASE Deadline
  BY <1>30 DEF Deadline, ControlStep, serviceVars, pluginVars, Fails, Goes, DeadlineArmed, IInv, ViewOK, ServiceOK, TypeOK, Observer!Submit, Observer!Conclude, Observer!Fail
<1>31. CASE UNCHANGED vars
  BY <1>31 DEF vars, serviceVars, pluginVars, stateVars
<1>32. QED
  BY <1>1, <1>2, <1>3, <1>4, <1>5, <1>6, <1>7, <1>8, <1>9, <1>10, <1>11, <1>12, <1>13, <1>14, <1>15, <1>16,
     <1>17, <1>18, <1>19, <1>20, <1>21, <1>22, <1>23, <1>24, <1>25, <1>26, <1>27, <1>28, <1>29, <1>30, <1>31 DEF Next, Service, Plugin, Control, Done

\* An attached run implements what its caller relies on.
THEOREM Implements == Spec => ImplementsObserver
<1>1. QED
  BY ObserverInit, ObserverStep, Inductive, PTL DEF Spec, ImplementsObserver, Observer!Spec

=============================================================================
