---------------------------- MODULE SessionList ----------------------------
(***************************************************************************)
(* session/list beside the requests of SessionRegistry: it reads the       *)
(* registry under Agent.mu, then asks the store without it, then looks at  *)
(* each stored session again.  Filters and pages are left out.             *)
(***************************************************************************)
EXTENDS SessionRegistry

VARIABLES
  lpc,      \* the list request
  seen,     \* ids already among the sessions of the answer
  left,     \* summaries of the store still to look at
  current,  \* the id whose record is loaded
  before    \* history: the ids the store had when the list began

listVars == <<lpc, seen, left, current, before>>

ListInit ==
  lpc = "idle" /\ seen = {} /\ left = {} /\ current = None /\ before = {}

StoredIds == {i \in Ids : store[i] = "stored"}

\* Live sessions that are neither deleted nor ephemeral.
Listable ==
  {i \in Ids : sessions[i] # None /\ i \notin deleted /\ ~eph[sessions[i]]}

ListActive ==
  /\ lpc = "idle"
  /\ IF closed THEN lpc' = "refused" /\ UNCHANGED seen
     ELSE lpc' = "store" /\ seen' = Listable
  /\ before' = StoredIds
  /\ UNCHANGED <<left, current>>

ListStore ==
  /\ lpc = "store"
  /\ \/ lpc' = "failed" /\ UNCHANGED left
     \/ lpc' = "next" /\ left' = StoredIds
  /\ UNCHANGED <<seen, current, before>>

\* Mutant: skip what is live now instead of what the answer already has.
SkipsLive(i) == sessions[i] # None \/ i \in deleted

Skips(i) == i \in seen \/ i \in deleted

ListNext ==
  /\ lpc = "next"
  /\ IF left = {} THEN lpc' = "ok" /\ UNCHANGED <<left, current>>
     ELSE \E i \in left :
            /\ left' = left \ {i}
            /\ IF Skips(i) THEN UNCHANGED <<lpc, current>>
               ELSE lpc' = "load" /\ current' = i
  /\ UNCHANGED <<seen, before>>

\* The load may fail.  A record that is gone by now makes an empty entry.
ListLoad ==
  /\ lpc = "load"
  /\ \/ lpc' = "failed" /\ UNCHANGED seen
     \/ lpc' = "next" /\ seen' = seen \cup {current}
  /\ current' = None
  /\ UNCHANGED <<left, before>>

ListStep == ListActive \/ ListStore \/ ListNext \/ ListLoad

ListSpec ==
  /\ Init /\ ListInit
  /\ [][(Next /\ UNCHANGED listVars) \/ (ListStep /\ UNCHANGED vars)]_<<vars, listVars>>

----------------------------------------------------------------------------
\* A list that succeeds misses no session that the store had when the list began,
\* of an earlier process or of this one, and that nobody deletes, whether it is
\* created, restored, closed, or restored again while the list moves from the
\* registry to the store (ListSessions).
ListComplete ==
  lpc = "ok" => \A i \in before : store[i] = "stored" /\ i \notin deleted => i \in seen
============================================================================
