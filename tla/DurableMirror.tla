--------------------------- MODULE DurableMirror ---------------------------
(***************************************************************************)
(* What the session store promises the host: for each ACP id a mirror of   *)
(* its native thread that only moves forward, to generations the thread    *)
(* really reached, until a delete ends it for good.                        *)
(***************************************************************************)
EXTENDS Naturals

CONSTANTS Ids, Stored
VARIABLES store, durable, thread

Init ==
  /\ store = [i \in Ids |-> IF i \in Stored THEN "stored" ELSE "absent"]
  /\ durable = [i \in Ids |-> 0]
  /\ thread = [i \in Ids |-> IF i \in Stored THEN 1 ELSE 0]

\* A native turn extends the thread, whether or not anyone records it.
Turn(i) ==
  /\ thread' = [thread EXCEPT ![i] = @ + 1]
  /\ UNCHANGED <<store, durable>>

\* A commit publishes a generation no older than the mirror's.
Publish(i) ==
  /\ store[i] # "tombstone"
  /\ store' = [store EXCEPT ![i] = "stored"]
  /\ \E g \in durable[i]..thread[i] : durable' = [durable EXCEPT ![i] = g]
  /\ UNCHANGED thread

\* A delete is final.
Delete(i) ==
  /\ store' = [store EXCEPT ![i] = "tombstone"]
  /\ UNCHANGED <<durable, thread>>

Next == \E i \in Ids : Turn(i) \/ Publish(i) \/ Delete(i)

Spec == Init /\ [][Next]_<<store, durable, thread>>
============================================================================
