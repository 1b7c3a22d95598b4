-------------------------- MODULE AttachedObserver --------------------------
(***************************************************************************)
(* What an attached run promises the turn that started it: it concludes    *)
(* cleanly only with messages the thread really held at rest, after its    *)
(* own turn was over, or before it submitted anything.                     *)
(***************************************************************************)
CONSTANTS
  Contents,    \* what the thread's messages can be
  NoView

VARIABLES
  content,     \* the messages of the thread
  turn,        \* the submitted turn: none, running or over
  busy,        \* someone else works on the thread
  rests,       \* what the thread held at rest since its last own turn
  phase, view  \* the run and the view it concludes with

vars == <<content, turn, busy, rests, phase, view>>

Init ==
  /\ content \in Contents /\ turn = "none" /\ busy \in BOOLEAN
  /\ rests = IF busy THEN {} ELSE {content}
  /\ phase = "attached" /\ view = NoView

\* The thread changes only while somebody works on it, and one at a time.
Write ==
  /\ turn = "running" \/ busy
  /\ content' \in Contents
  /\ UNCHANGED <<turn, busy, rests, phase, view>>

OthersWork ==
  /\ turn # "running"
  /\ busy' = ~busy
  /\ rests' = IF busy THEN rests \cup {content} ELSE rests
  /\ UNCHANGED <<content, turn, phase, view>>

TurnStarts ==
  /\ phase # "attached" /\ turn = "none" /\ ~busy
  /\ turn' = "running" /\ rests' = {}
  /\ UNCHANGED <<content, busy, phase, view>>

TurnEnds ==
  /\ turn = "running"
  /\ turn' = "over" /\ rests' = {content}
  /\ UNCHANGED <<content, busy, phase, view>>

Submit ==
  /\ phase = "attached"
  /\ phase' = "submitted"
  /\ UNCHANGED <<content, turn, busy, rests, view>>

\* A run that submitted a turn concludes only once the turn is over.
Conclude ==
  /\ \/ phase = "attached" /\ view' \in rests \cup {NoView}
     \/ phase = "submitted" /\ turn = "over" /\ view' \in rests
  /\ phase' = "concluded"
  /\ UNCHANGED <<content, turn, busy, rests>>

Fail ==
  /\ phase \in {"attached", "submitted"}
  /\ phase' = "failed"
  /\ UNCHANGED <<content, turn, busy, rests, view>>

Next ==
  \/ Write \/ OthersWork \/ TurnStarts \/ TurnEnds \/ Submit \/ Conclude \/ Fail

Spec == Init /\ [][Next]_vars
=============================================================================
