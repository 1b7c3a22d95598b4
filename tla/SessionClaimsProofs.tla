------------------------ MODULE SessionClaimsProofs ------------------------
(***************************************************************************)
(* Who may work on a session, for any number of requests, ids and slots:   *)
(* one object per native thread, one entry per live object, no session     *)
(* beyond the limit and none after Agent.Close.                            *)
(***************************************************************************)
EXTENDS SessionRegistryProofs, FiniteSetTheorems

Opened == {"live", "closing", "closed"}
InUse == {"built", "live", "closing"}
Restoring(r) == kind[r] = "restore" /\ pc[r] # "done"

\* Who works on an object knows how far it is: opened objects are worked on,
\* built ones belong to the request that builds them, and an object is closed
\* by one closer, which holds the gate alone.
LifeOK ==
  /\ \A r \in Requests :
       /\ pc[r] \in ObjectLabels \ {"restore_commit"} => life[obj[r]] \in Opened
       /\ pc[r] \in {"release_slot", "commit"} => life[r] \in Opened
       /\ life[r] = "built" <=> pc[r] \in {"restore_commit", "install"}
       /\ pc[r] \in {"close_gate", "close_commit"} => life[obj[r]] = "closing"
       /\ pc[r] \in {"close_release", "detach"} => life[obj[r]] = "closed"
       /\ pc[r] \in GateLabels /\ life[Holding(r)] = "closed" => pc[r] = "close_release"
  /\ \A r, q \in Requests :
       /\ r # q
       /\ pc[r] \in {"close_gate", "close_commit"}
       /\ pc[q] \in {"close_gate", "close_commit"}
       => obj[r] # obj[q]

\* An opened object is registered under its id until it is closed, and what is
\* registered or left to Agent.Close was opened.
RegisteredOK ==
  /\ \A o \in Requests : life[o] \in {"live", "closing"} => sessions[sid[o]] = o
  /\ \A i \in Ids : sessions[i] # None => life[sessions[i]] \in Opened /\ sid[sessions[i]] = i
  /\ \A o \in todo : life[o] \in Opened

\* A restore claims its id until it ends; meanwhile the id resolves to the object
\* it works on or to none, and to none while it builds another.
RestoreOK ==
  /\ \A r \in Requests : pc[r] \in {"idle", "restore_lookup"} => obj[r] = None
  /\ \A r \in Requests : kind[r] = "restore" /\ life[r] # "none" => sid[r] = target[r]
  /\ \A r \in Requests : Restoring(r) =>
       /\ target[r] \in restoring
       /\ obj[r] # None => sid[obj[r]] = target[r] /\ sessions[target[r]] \in {obj[r], None}
       /\ pc[r] \in {"load", "restore_reserve", "hydrate", "restore_commit", "install"}
            => sessions[target[r]] = None
  /\ \A r, q \in Requests : r # q /\ Restoring(r) /\ Restoring(q) => target[r] # target[q]

\* Nobody knows the id of a new session before it is installed.
NewOK ==
  \A r \in Requests : kind[r] = "new" /\ pc[r] = "install" =>
    /\ sessions[sid[r]] = None /\ sid[r] \notin deleted /\ store[sid[r]] = "absent"
    /\ \A q \in Requests : target[q] # sid[r] /\ (q # r => sid[q] # sid[r])

\* A result is the answer of a request that ended.
ResultOK ==
  \A r \in Requests :
    /\ pc[r] # "done" => result[r] = "none"
    /\ kind[r] = "none" <=> pc[r] = "idle"
    /\ kind[r] = "delete" => pc[r] \in {"delete_store", "delete_mark", "done"} \cup CloseLabels
    /\ kind[r] = "shutdown" => pc[r] \in {"shutdown_next", "done"} \cup CloseLabels
    /\ pc[r] \in {"delete_store", "delete_mark"} => kind[r] = "delete"
    /\ pc[r] = "shutdown_next" => kind[r] = "shutdown"

\* Once a delete has marked its id, the id resolves to the object it closes or
\* to none.
DeleteOK ==
  \A r \in Requests : kind[r] = "delete" =>
    /\ pc[r] \in CloseLabels =>
         /\ target[r] \in deleted
         /\ sid[obj[r]] = target[r] /\ sessions[target[r]] \in {obj[r], None}
    /\ result[r] = "ok" => target[r] \in deleted /\ sessions[target[r]] = None

\* The first Agent.Close: closed, and every session is in its list, its hands or
\* gone.
Shutting(r) == kind[r] = "shutdown" /\ (pc[r] # "done" \/ result[r] = "ok")

ShutdownOK ==
  /\ \A r \in Requests : Shutting(r) =>
       /\ closed
       /\ \A i \in Ids : sessions[i] # None =>
            pc[r] # "done" /\ (sessions[i] \in todo \/ (pc[r] \in CloseLabels /\ sessions[i] = obj[r]))
  /\ \A r, q \in Requests : Shutting(r) /\ Shutting(q) => r = q

\* Who establishes a session is counted until it counts as active.
SlotOK ==
  \A r \in Requests :
    pc[r] \in {"create", "hydrate", "restore_commit", "install", "release_slot"} => r \in starting

\* The inductive invariant, on top of the one for the gates.
ClaimsInv ==
  /\ IInv /\ LifeOK /\ RegisteredOK /\ RestoreOK /\ NewOK
  /\ ResultOK /\ DeleteOK /\ ShutdownOK /\ SlotOK
  /\ OneObjectPerThread /\ SlotsBounded

\* Only its builder opens an object, one closer closes it, and the gate keeps every
\* other foreground operation away from a closed one.
LEMMA LifeStep ==
  ASSUME IInv, LifeOK, RegisteredOK, [Next]_vars
  PROVE  LifeOK'
<1> USE RequestsAssumption DEF IInv, TypeOK, AgentTypes, ObjectTypes,
       RequestTypes, PositionOK, BuilderOK, BuiltOK, GateExclusive, LifeOK,
       RegisteredOK, Opened, GateLabels, Holding, ObjectLabels, BuilderLabels,
       EmptyLabels, CloseLabels, RestoreLabels
<1>1. ASSUME NEW r \in Requests, NewReserve(r) PROVE LifeOK'
  BY <1>1 DEF NewReserve, Goto, Finish, Arrive, flags, carrier, storeVars,
     Active
<1>2. ASSUME NEW r \in Requests, NewCreate(r) PROVE LifeOK'
  BY <1>2 DEF NewCreate, Goto, Finish, TakeGate, carrier, storeVars, inputVars
<1>3. ASSUME NEW r \in Requests, Install(r) PROVE LifeOK'
  BY <1>3 DEF Install, Goto, Finish, ReleaseGate, RestoreClaims, identity,
     carrier, storeVars, inputVars
<1>4. ASSUME NEW r \in Requests, ReleaseSlot(r) PROVE LifeOK'
  BY <1>4 DEF ReleaseSlot, Goto, objVars, identity, flags, carrier, storeVars,
     inputVars
<1>5. ASSUME NEW r \in Requests, NewCommit(r) PROVE LifeOK'
  BY <1>5 DEF NewCommit, Goto, Finish, ReleaseGate, agentVars, identity,
     flags, storeVars, inputVars
<1>6. ASSUME NEW r \in Requests, RestoreBegin(r) PROVE LifeOK'
  BY <1>6 DEF RestoreBegin, Goto, Finish, Arrive, objVars, identity, flags,
     carrier, storeVars
<1>7. ASSUME NEW r \in Requests, RestoreLookup(r) PROVE LifeOK'
  BY <1>7 DEF RestoreLookup, Goto, Finish, RestoreEnds, objVars, identity,
     flags, carrier, storeVars, inputVars
<1>8. ASSUME NEW r \in Requests, RestoreGate(r) PROVE LifeOK'
  BY <1>8 DEF RestoreGate, Goto, Finish, RestoreEnds, TakeGate, Closing,
     identity, flags, carrier, storeVars, inputVars
<1>9. ASSUME NEW r \in Requests, RestoreCarrier(r) PROVE LifeOK'
  BY <1>9 DEF RestoreCarrier, Goto, Finish, RestoreEnds, ReleaseGate, Closing,
     identity, flags, carrier, storeVars, inputVars
<1>10. ASSUME NEW r \in Requests, ActiveLoad(r) PROVE LifeOK'
  BY <1>10 DEF ActiveLoad, Goto, Finish, RestoreEnds, ReleaseGate, identity,
     flags, carrier, storeVars, inputVars
<1>11. ASSUME NEW r \in Requests, ActiveCommit(r) PROVE LifeOK'
  BY <1>11 DEF ActiveCommit, Goto, Finish, RestoreEnds, ReleaseGate,
     CommitMirror, identity, flags, storeVars, inputVars
<1>12. ASSUME NEW r \in Requests, RestoreLoad(r) PROVE LifeOK'
  BY <1>12 DEF RestoreLoad, Goto, Finish, RestoreEnds, objVars, identity,
     flags, carrier, storeVars, inputVars
<1>13. ASSUME NEW r \in Requests, RestoreReserve(r) PROVE LifeOK'
  BY <1>13 DEF RestoreReserve, Goto, Finish, RestoreEnds, objVars, identity,
     flags, carrier, storeVars, inputVars, Active
<1>14. ASSUME NEW r \in Requests, Hydrate(r) PROVE LifeOK'
  BY <1>14 DEF Hydrate, Goto, Finish, RestoreEnds, TakeGate, storeVars,
     inputVars
<1>15. ASSUME NEW r \in Requests, RestoreCommit(r) PROVE LifeOK'
  BY <1>15 DEF RestoreCommit, Goto, Finish, RestoreEnds, ReleaseGate,
     identity, storeVars, inputVars
<1>16. ASSUME NEW r \in Requests, Replay(r) PROVE LifeOK'
  BY <1>16 DEF Replay, Goto, Finish, RestoreEnds, ReleaseGate, identity,
     flags, carrier, storeVars, inputVars
<1>17. ASSUME NEW r \in Requests, AddressSession(r) PROVE LifeOK'
  BY <1>17 DEF AddressSession, Goto, Finish, Arrive, agentVars, objVars,
     identity, flags, carrier, storeVars
<1>18. ASSUME NEW r \in Requests, Lookup(r) PROVE LifeOK'
  BY <1>18 DEF Lookup, Goto, Finish, agentVars, objVars, identity, flags,
     carrier, storeVars, inputVars
<1>19. ASSUME NEW r \in Requests, Admit(r) PROVE LifeOK'
  BY <1>19 DEF Admit, Goto, Finish, Closing, agentVars, objVars, identity,
     flags, carrier, storeVars, inputVars
<1>20. ASSUME NEW r \in Requests, AcquireGate(r) PROVE LifeOK'
  BY <1>20 DEF AcquireGate, Goto, Finish, TakeGate, Closing, agentVars,
     identity, flags, carrier, storeVars, inputVars
<1>21. ASSUME NEW r \in Requests, InstallTurn(r) PROVE LifeOK'
  BY <1>21 DEF InstallTurn, Goto, Finish, ReleaseGate, Closing, agentVars,
     identity, carrier, storeVars, inputVars
<1>22. ASSUME NEW r \in Requests, TurnNotStarted(r) PROVE LifeOK'
  BY <1>22 DEF TurnNotStarted, Finish, ReleaseGate, agentVars, identity,
     carrier, storeVars, inputVars
<1>23. ASSUME NEW r \in Requests, NativeExit(r) PROVE LifeOK'
  BY <1>23 DEF NativeExit, Goto, agentVars, identity, carrier, storeVars,
     inputVars
<1>24. ASSUME NEW r \in Requests, Settle(r) PROVE LifeOK'
  BY <1>24 DEF Settle, Goto, agentVars, identity, flags, storeVars, inputVars
<1>25. ASSUME NEW r \in Requests, EndTurn(r) PROVE LifeOK'
  BY <1>25 DEF EndTurn, Finish, ReleaseGate, agentVars, identity, carrier,
     storeVars, inputVars
<1>26. ASSUME NEW r \in Requests, ConfigCommit(r) PROVE LifeOK'
  BY <1>26 DEF ConfigCommit, Finish, ReleaseGate, agentVars, identity, flags,
     storeVars, inputVars
<1>27. ASSUME NEW r \in Requests, CancelTurn(r) PROVE LifeOK'
  BY <1>27 DEF CancelTurn, Finish, agentVars, identity, carrier, storeVars,
     inputVars
<1>28. ASSUME NEW r \in Requests, DeleteBegin(r) PROVE LifeOK'
  BY <1>28 DEF DeleteBegin, Goto, Finish, Arrive, agentVars, objVars,
     identity, flags, carrier, storeVars
<1>29. ASSUME NEW r \in Requests, DeleteStore(r) PROVE LifeOK'
  BY <1>29 DEF DeleteStore, Goto, Finish, agentVars, objVars, identity, flags,
     carrier, inputVars
<1>30. ASSUME NEW r \in Requests, DeleteMark(r) PROVE LifeOK'
  BY <1>30 DEF DeleteMark, Goto, Finish, objVars, identity, flags, carrier,
     storeVars, inputVars
<1>31. ASSUME NEW r \in Requests, ShutdownBegin(r) PROVE LifeOK'
  BY <1>31 DEF ShutdownBegin, Goto, Finish, Arrive, objVars, identity, flags,
     carrier, storeVars, Active
<1>32. ASSUME NEW r \in Requests, ShutdownNext(r) PROVE LifeOK'
  BY <1>32 DEF ShutdownNext, Goto, Finish, agentVars, objVars, identity,
     flags, carrier, storeVars, inputVars
<1>33. ASSUME NEW r \in Requests, CloseBegin(r) PROVE LifeOK'
  BY <1>33 DEF CloseBegin, Goto, Closing, agentVars, identity, carrier,
     storeVars, inputVars
<1>34. ASSUME NEW r \in Requests, CloseGate(r) PROVE LifeOK'
  BY <1>34 DEF CloseGate, Goto, TakeGate, agentVars, identity, flags, carrier,
     storeVars, inputVars
<1>35. ASSUME NEW r \in Requests, CloseCommit(r) PROVE LifeOK'
  BY <1>35 DEF CloseCommit, Goto, agentVars, identity, storeVars, inputVars
<1>36. ASSUME NEW r \in Requests, CloseRelease(r) PROVE LifeOK'
  BY <1>36 DEF CloseRelease, Goto, ReleaseGate, agentVars, identity, flags,
     carrier, storeVars, inputVars
<1>37. ASSUME NEW r \in Requests, CloseWait(r) PROVE LifeOK'
  BY <1>37 DEF CloseWait, Goto, agentVars, objVars, identity, flags, carrier,
     storeVars, inputVars
<1>38. ASSUME NEW r \in Requests, Detach(r) PROVE LifeOK'
  BY <1>38 DEF Detach, Goto, Finish, Detached, objVars, identity, flags,
     carrier, storeVars, inputVars
<1>39. CASE UNCHANGED vars
  BY <1>39 DEF vars, agentVars, objVars, identity, flags, carrier, storeVars,
     inputVars
<1>40. QED
  BY <1>1, <1>2, <1>3, <1>4, <1>5, <1>6, <1>7, <1>8, <1>9, <1>10, <1>11,
     <1>12, <1>13, <1>14, <1>15, <1>16, <1>17, <1>18, <1>19, <1>20, <1>21,
     <1>22, <1>23, <1>24, <1>25, <1>26, <1>27, <1>28, <1>29, <1>30, <1>31,
     <1>32, <1>33, <1>34, <1>35, <1>36, <1>37, <1>38, <1>39 DEF Next, Begin,
     Handle, TurnEnds, Quiescent

\* install takes an id nobody has; detach frees one only of a closed object.
LEMMA RegisteredStep ==
  ASSUME IInv, LifeOK, RegisteredOK, RestoreOK, NewOK, [Next]_vars
  PROVE  RegisteredOK'
<1> USE RequestsAssumption DEF IInv, TypeOK, AgentTypes, ObjectTypes,
       RequestTypes, PositionOK, LifeOK, RegisteredOK, Opened, ObjectLabels,
       BuilderLabels, EmptyLabels, CloseLabels, RestoreLabels
<1>1. ASSUME NEW r \in Requests, NewReserve(r) PROVE RegisteredOK'
  BY <1>1 DEF NewReserve, Goto, Finish, Arrive, flags, carrier, storeVars,
     Active
<1>2. ASSUME NEW r \in Requests, NewCreate(r) PROVE RegisteredOK'
  BY <1>2 DEF NewCreate, Goto, Finish, TakeGate, carrier, storeVars,
     inputVars, BuilderOK, BuiltOK
<1>3. ASSUME NEW r \in Requests, Install(r) PROVE RegisteredOK'
  <2>1. life[r] = "built" /\ sid[r] \in Ids
    BY <1>3 DEF Install, BuiltOK
  <2>2. \A i \in Ids : sessions[i] # r
    BY <1>3, <2>1
  <2>3. sid' = sid /\ todo' = todo /\ target' = target /\ kind' = kind /\ obj' = obj
    BY <1>3 DEF Install, identity, flags, inputVars
  <2>4. CASE MayInstall(sid[r])
    <3>1. /\ sessions' = [sessions EXCEPT ![sid[r]] = r]
          /\ life' = [life EXCEPT ![r] = "live"]
          /\ restoring' = restoring
          /\ pc' = [pc EXCEPT ![r] = "release_slot"]
      BY <1>3, <2>4 DEF Install, Goto
    <3>2. QED
      BY <2>1, <2>2, <2>3, <2>4, <3>1, <1>3 DEF Install, MayInstall
  <2>5. CASE ~MayInstall(sid[r])
    <3>1. /\ sessions' = sessions
          /\ life' = [life EXCEPT ![r] = "dropped"]
          /\ restoring' = RestoreClaims(r)
          /\ pc' = [pc EXCEPT ![r] = "done"]
      BY <1>3, <2>5 DEF Install, Finish
    <3>2. QED
      BY <2>1, <2>2, <2>3, <3>1, <1>3 DEF Install, RestoreClaims
  <2>6. QED
    BY <2>4, <2>5
<1>4. ASSUME NEW r \in Requests, ReleaseSlot(r) PROVE RegisteredOK'
  BY <1>4 DEF ReleaseSlot, Goto, objVars, identity, flags, carrier, storeVars,
     inputVars
<1>5. ASSUME NEW r \in Requests, NewCommit(r) PROVE RegisteredOK'
  BY <1>5 DEF NewCommit, Goto, Finish, ReleaseGate, agentVars, identity,
     flags, storeVars, inputVars
<1>6. ASSUME NEW r \in Requests, RestoreBegin(r) PROVE RegisteredOK'
  BY <1>6 DEF RestoreBegin, Goto, Finish, Arrive, objVars, identity, flags,
     carrier, storeVars
<1>7. ASSUME NEW r \in Requests, RestoreLookup(r) PROVE RegisteredOK'
  BY <1>7 DEF RestoreLookup, Goto, Finish, RestoreEnds, objVars, identity,
     flags, carrier, storeVars, inputVars
<1>8. ASSUME NEW r \in Requests, RestoreGate(r) PROVE RegisteredOK'
  BY <1>8 DEF RestoreGate, Goto, Finish, RestoreEnds, TakeGate, Closing,
     identity, flags, carrier, storeVars, inputVars
<1>9. ASSUME NEW r \in Requests, RestoreCarrier(r) PROVE RegisteredOK'
  BY <1>9 DEF RestoreCarrier, Goto, Finish, RestoreEnds, ReleaseGate, Closing,
     identity, flags, carrier, storeVars, inputVars
<1>10. ASSUME NEW r \in Requests, ActiveLoad(r) PROVE RegisteredOK'
  BY <1>10 DEF ActiveLoad, Goto, Finish, RestoreEnds, ReleaseGate, identity,
     flags, carrier, storeVars, inputVars
<1>11. ASSUME NEW r \in Requests, ActiveCommit(r) PROVE RegisteredOK'
  BY <1>11 DEF ActiveCommit, Goto, Finish, RestoreEnds, ReleaseGate,
     CommitMirror, identity, flags, storeVars, inputVars
<1>12. ASSUME NEW r \in Requests, RestoreLoad(r) PROVE RegisteredOK'
  BY <1>12 DEF RestoreLoad, Goto, Finish, RestoreEnds, objVars, identity,
     flags, carrier, storeVars, inputVars
<1>13. ASSUME NEW r \in Requests, RestoreReserve(r) PROVE RegisteredOK'
  BY <1>13 DEF RestoreReserve, Goto, Finish, RestoreEnds, objVars, identity,
     flags, carrier, storeVars, inputVars, Active
<1>14. ASSUME NEW r \in Requests, Hydrate(r) PROVE RegisteredOK'
  BY <1>14 DEF Hydrate, Goto, Finish, RestoreEnds, TakeGate, storeVars,
     inputVars, BuilderOK, BuiltOK
<1>15. ASSUME NEW r \in Requests, RestoreCommit(r) PROVE RegisteredOK'
  <2>1. life[r] = "built" /\ sid[r] \in Ids
    BY <1>15 DEF RestoreCommit, BuiltOK
  <2>2. \A i \in Ids : sessions[i] # r
    BY <1>15, <2>1
  <2>3. QED
    BY <1>15, <2>1, <2>2, SMTT(60) DEF RestoreCommit, Goto, Finish,
       RestoreEnds, ReleaseGate, identity, storeVars, inputVars
<1>16. ASSUME NEW r \in Requests, Replay(r) PROVE RegisteredOK'
  BY <1>16 DEF Replay, Goto, Finish, RestoreEnds, ReleaseGate, identity,
     flags, carrier, storeVars, inputVars
<1>17. ASSUME NEW r \in Requests, AddressSession(r) PROVE RegisteredOK'
  BY <1>17 DEF AddressSession, Goto, Finish, Arrive, agentVars, objVars,
     identity, flags, carrier, storeVars
<1>18. ASSUME NEW r \in Requests, Lookup(r) PROVE RegisteredOK'
  BY <1>18 DEF Lookup, Goto, Finish, agentVars, objVars, identity, flags,
     carrier, storeVars, inputVars
<1>19. ASSUME NEW r \in Requests, Admit(r) PROVE RegisteredOK'
  BY <1>19 DEF Admit, Goto, Finish, Closing, agentVars, objVars, identity,
     flags, carrier, storeVars, inputVars
<1>20. ASSUME NEW r \in Requests, AcquireGate(r) PROVE RegisteredOK'
  BY <1>20 DEF AcquireGate, Goto, Finish, TakeGate, Closing, agentVars,
     identity, flags, carrier, storeVars, inputVars
<1>21. ASSUME NEW r \in Requests, InstallTurn(r) PROVE RegisteredOK'
  BY <1>21 DEF InstallTurn, Goto, Finish, ReleaseGate, Closing, agentVars,
     identity, carrier, storeVars, inputVars
<1>22. ASSUME NEW r \in Requests, TurnNotStarted(r) PROVE RegisteredOK'
  BY <1>22 DEF TurnNotStarted, Finish, ReleaseGate, agentVars, identity,
     carrier, storeVars, inputVars
<1>23. ASSUME NEW r \in Requests, NativeExit(r) PROVE RegisteredOK'
  BY <1>23 DEF NativeExit, Goto, agentVars, identity, carrier, storeVars,
     inputVars
<1>24. ASSUME NEW r \in Requests, Settle(r) PROVE RegisteredOK'
  BY <1>24 DEF Settle, Goto, agentVars, identity, flags, storeVars, inputVars
<1>25. ASSUME NEW r \in Requests, EndTurn(r) PROVE RegisteredOK'
  BY <1>25 DEF EndTurn, Finish, ReleaseGate, agentVars, identity, carrier,
     storeVars, inputVars
<1>26. ASSUME NEW r \in Requests, ConfigCommit(r) PROVE RegisteredOK'
  BY <1>26 DEF ConfigCommit, Finish, ReleaseGate, agentVars, identity, flags,
     storeVars, inputVars
<1>27. ASSUME NEW r \in Requests, CancelTurn(r) PROVE RegisteredOK'
  BY <1>27 DEF CancelTurn, Finish, agentVars, identity, carrier, storeVars,
     inputVars
<1>28. ASSUME NEW r \in Requests, DeleteBegin(r) PROVE RegisteredOK'
  BY <1>28 DEF DeleteBegin, Goto, Finish, Arrive, agentVars, objVars,
     identity, flags, carrier, storeVars
<1>29. ASSUME NEW r \in Requests, DeleteStore(r) PROVE RegisteredOK'
  BY <1>29 DEF DeleteStore, Goto, Finish, agentVars, objVars, identity, flags,
     carrier, inputVars
<1>30. ASSUME NEW r \in Requests, DeleteMark(r) PROVE RegisteredOK'
  BY <1>30 DEF DeleteMark, Goto, Finish, objVars, identity, flags, carrier,
     storeVars, inputVars
<1>31. ASSUME NEW r \in Requests, ShutdownBegin(r) PROVE RegisteredOK'
  BY <1>31 DEF ShutdownBegin, Goto, Finish, Arrive, objVars, identity, flags,
     carrier, storeVars, Active
<1>32. ASSUME NEW r \in Requests, ShutdownNext(r) PROVE RegisteredOK'
  BY <1>32 DEF ShutdownNext, Goto, Finish, agentVars, objVars, identity,
     flags, carrier, storeVars, inputVars
<1>33. ASSUME NEW r \in Requests, CloseBegin(r) PROVE RegisteredOK'
  BY <1>33 DEF CloseBegin, Goto, Closing, agentVars, identity, carrier,
     storeVars, inputVars
<1>34. ASSUME NEW r \in Requests, CloseGate(r) PROVE RegisteredOK'
  BY <1>34 DEF CloseGate, Goto, TakeGate, agentVars, identity, flags, carrier,
     storeVars, inputVars
<1>35. ASSUME NEW r \in Requests, CloseCommit(r) PROVE RegisteredOK'
  BY <1>35 DEF CloseCommit, Goto, agentVars, identity, storeVars, inputVars
<1>36. ASSUME NEW r \in Requests, CloseRelease(r) PROVE RegisteredOK'
  BY <1>36 DEF CloseRelease, Goto, ReleaseGate, agentVars, identity, flags,
     carrier, storeVars, inputVars
<1>37. ASSUME NEW r \in Requests, CloseWait(r) PROVE RegisteredOK'
  BY <1>37 DEF CloseWait, Goto, agentVars, objVars, identity, flags, carrier,
     storeVars, inputVars
<1>38. ASSUME NEW r \in Requests, Detach(r) PROVE RegisteredOK'
  BY <1>38 DEF Detach, Goto, Finish, Detached, objVars, identity, flags,
     carrier, storeVars, inputVars
<1>39. CASE UNCHANGED vars
  BY <1>39 DEF vars, agentVars, objVars, identity, flags, carrier, storeVars,
     inputVars
<1>40. QED
  BY <1>1, <1>2, <1>3, <1>4, <1>5, <1>6, <1>7, <1>8, <1>9, <1>10, <1>11,
     <1>12, <1>13, <1>14, <1>15, <1>16, <1>17, <1>18, <1>19, <1>20, <1>21,
     <1>22, <1>23, <1>24, <1>25, <1>26, <1>27, <1>28, <1>29, <1>30, <1>31,
     <1>32, <1>33, <1>34, <1>35, <1>36, <1>37, <1>38, <1>39 DEF Next, Begin,
     Handle, TurnEnds, Quiescent

\* restores.Acquire keeps other restores of the id out, and only a restore installs
\* an object under an id that is known.
LEMMA RestoreStep ==
  ASSUME IInv, LifeOK, RegisteredOK, RestoreOK, NewOK, [Next]_vars
  PROVE  RestoreOK'
<1> USE RequestsAssumption DEF IInv, TypeOK, AgentTypes, ObjectTypes,
       RequestTypes, PositionOK, RestoreOK, Restoring, ObjectLabels,
       BuilderLabels, EmptyLabels, CloseLabels, RestoreLabels
<1>1. ASSUME NEW r \in Requests, NewReserve(r) PROVE RestoreOK'
  BY <1>1 DEF NewReserve, Goto, Finish, Arrive, flags, carrier, storeVars,
     Active
<1>2. ASSUME NEW r \in Requests, NewCreate(r) PROVE RestoreOK'
  <2>1. kind[r] = "new" /\ \A q \in Requests : obj[q] # r
    BY <1>2 DEF NewCreate, BuilderOK, BuiltOK
  <2>2. QED
    BY <1>2, <2>1, SMTT(60) DEF NewCreate, Goto, Finish, TakeGate, Fresh,
       carrier, storeVars, inputVars
<1>3. ASSUME NEW r \in Requests, Install(r) PROVE RestoreOK'
  <2>1. life[r] = "built" /\ sid[r] \in Ids /\ kind[r] \in {"new", "restore"}
    BY <1>3 DEF Install, LifeOK, BuiltOK
  <2>2. \A q \in Requests : q # r /\ Restoring(q) => target[q] # sid[r]
    BY <1>3, <2>1 DEF Install, NewOK
  <2>3. kind[r] = "restore" => obj[r] = r /\ sid[r] = target[r]
    BY <1>3, <2>1 DEF Install, BuilderOK
  <2>4. sid' = sid /\ todo' = todo /\ target' = target /\ kind' = kind /\ obj' = obj
    BY <1>3 DEF Install, identity, flags, inputVars
  <2>5. CASE MayInstall(sid[r])
    <3>1. /\ sessions' = [sessions EXCEPT ![sid[r]] = r]
          /\ life' = [life EXCEPT ![r] = "live"]
          /\ restoring' = restoring
          /\ pc' = [pc EXCEPT ![r] = "release_slot"]
      BY <1>3, <2>5 DEF Install, Goto
    <3>2. QED
      BY <2>1, <2>2, <2>3, <2>4, <2>5, <3>1, <1>3 DEF Install, MayInstall
  <2>6. CASE ~MayInstall(sid[r])
    <3>1. /\ sessions' = sessions
          /\ life' = [life EXCEPT ![r] = "dropped"]
          /\ restoring' = RestoreClaims(r)
          /\ pc' = [pc EXCEPT ![r] = "done"]
      BY <1>3, <2>6 DEF Install, Finish
    <3>2. QED
      BY <2>1, <2>2, <2>3, <2>4, <3>1, <1>3 DEF Install, RestoreClaims
  <2>7. QED
    BY <2>5, <2>6
<1>4. ASSUME NEW r \in Requests, ReleaseSlot(r) PROVE RestoreOK'
  BY <1>4 DEF ReleaseSlot, Goto, objVars, identity, flags, carrier, storeVars,
     inputVars
<1>5. ASSUME NEW r \in Requests, NewCommit(r) PROVE RestoreOK'
  BY <1>5 DEF NewCommit, Goto, Finish, ReleaseGate, agentVars, identity,
     flags, storeVars, inputVars
<1>6. ASSUME NEW r \in Requests, RestoreBegin(r) PROVE RestoreOK'
  BY <1>6 DEF RestoreBegin, Goto, Finish, Arrive, MayRestore, objVars,
     identity, flags, carrier, storeVars, BuilderOK
<1>7. ASSUME NEW r \in Requests, RestoreLookup(r) PROVE RestoreOK'
  BY <1>7, SMTT(60) DEF RestoreLookup, Goto, Finish, RestoreEnds, objVars,
     identity, flags, carrier, storeVars, inputVars, RegisteredOK
<1>8. ASSUME NEW r \in Requests, RestoreGate(r) PROVE RestoreOK'
  BY <1>8 DEF RestoreGate, Goto, Finish, RestoreEnds, TakeGate, identity,
     flags, carrier, storeVars, inputVars
<1>9. ASSUME NEW r \in Requests, RestoreCarrier(r) PROVE RestoreOK'
  BY <1>9 DEF RestoreCarrier, Goto, Finish, RestoreEnds, ReleaseGate,
     identity, flags, carrier, storeVars, inputVars
<1>10. ASSUME NEW r \in Requests, ActiveLoad(r) PROVE RestoreOK'
  BY <1>10 DEF ActiveLoad, Goto, Finish, RestoreEnds, ReleaseGate, identity,
     flags, carrier, storeVars, inputVars
<1>11. ASSUME NEW r \in Requests, ActiveCommit(r) PROVE RestoreOK'
  BY <1>11 DEF ActiveCommit, Goto, Finish, RestoreEnds, ReleaseGate,
     CommitMirror, identity, flags, storeVars, inputVars
<1>12. ASSUME NEW r \in Requests, RestoreLoad(r) PROVE RestoreOK'
  BY <1>12 DEF RestoreLoad, Goto, Finish, RestoreEnds, objVars, identity,
     flags, carrier, storeVars, inputVars
<1>13. ASSUME NEW r \in Requests, RestoreReserve(r) PROVE RestoreOK'
  BY <1>13 DEF RestoreReserve, Goto, Finish, RestoreEnds, objVars, identity,
     flags, carrier, storeVars, inputVars, Active
<1>14. ASSUME NEW r \in Requests, Hydrate(r) PROVE RestoreOK'
  BY <1>14, SMTT(60) DEF Hydrate, Goto, Finish, RestoreEnds, TakeGate,
     storeVars, inputVars, BuilderOK, BuiltOK
<1>15. ASSUME NEW r \in Requests, RestoreCommit(r) PROVE RestoreOK'
  BY <1>15 DEF RestoreCommit, Goto, Finish, RestoreEnds, ReleaseGate,
     identity, storeVars, inputVars, BuilderOK
<1>16. ASSUME NEW r \in Requests, Replay(r) PROVE RestoreOK'
  BY <1>16 DEF Replay, Goto, Finish, RestoreEnds, ReleaseGate, identity,
     flags, carrier, storeVars, inputVars
<1>17. ASSUME NEW r \in Requests, AddressSession(r) PROVE RestoreOK'
  BY <1>17 DEF AddressSession, Goto, Finish, Arrive, agentVars, objVars,
     identity, flags, carrier, storeVars
<1>18. ASSUME NEW r \in Requests, Lookup(r) PROVE RestoreOK'
  BY <1>18 DEF Lookup, Goto, Finish, agentVars, objVars, identity, flags,
     carrier, storeVars, inputVars
<1>19. ASSUME NEW r \in Requests, Admit(r) PROVE RestoreOK'
  BY <1>19 DEF Admit, Goto, Finish, agentVars, objVars, identity, flags,
     carrier, storeVars, inputVars
<1>20. ASSUME NEW r \in Requests, AcquireGate(r) PROVE RestoreOK'
  BY <1>20 DEF AcquireGate, Goto, Finish, TakeGate, agentVars, identity,
     flags, carrier, storeVars, inputVars
<1>21. ASSUME NEW r \in Requests, InstallTurn(r) PROVE RestoreOK'
  <2>1. kind[r] # "restore"
    BY <1>21 DEF InstallTurn
  <2>2. QED
    BY <1>21, <2>1 DEF InstallTurn, Goto, Finish, ReleaseGate, agentVars,
       identity, carrier, storeVars, inputVars
<1>22. ASSUME NEW r \in Requests, TurnNotStarted(r) PROVE RestoreOK'
  BY <1>22 DEF TurnNotStarted, Finish, ReleaseGate, agentVars, identity,
     carrier, storeVars, inputVars
<1>23. ASSUME NEW r \in Requests, NativeExit(r) PROVE RestoreOK'
  BY <1>23 DEF NativeExit, Goto, agentVars, identity, carrier, storeVars,
     inputVars
<1>24. ASSUME NEW r \in Requests, Settle(r) PROVE RestoreOK'
  BY <1>24 DEF Settle, Goto, agentVars, identity, flags, storeVars, inputVars
<1>25. ASSUME NEW r \in Requests, EndTurn(r) PROVE RestoreOK'
  BY <1>25 DEF EndTurn, Finish, ReleaseGate, agentVars, identity, carrier,
     storeVars, inputVars
<1>26. ASSUME NEW r \in Requests, ConfigCommit(r) PROVE RestoreOK'
  BY <1>26 DEF ConfigCommit, Finish, ReleaseGate, agentVars, identity, flags,
     storeVars, inputVars
<1>27. ASSUME NEW r \in Requests, CancelTurn(r) PROVE RestoreOK'
  BY <1>27 DEF CancelTurn, Finish, agentVars, identity, carrier, storeVars,
     inputVars
<1>28. ASSUME NEW r \in Requests, DeleteBegin(r) PROVE RestoreOK'
  BY <1>28 DEF DeleteBegin, Goto, Finish, Arrive, agentVars, objVars,
     identity, flags, carrier, storeVars
<1>29. ASSUME NEW r \in Requests, DeleteStore(r) PROVE RestoreOK'
  BY <1>29 DEF DeleteStore, Goto, Finish, agentVars, objVars, identity, flags,
     carrier, inputVars
<1>30. ASSUME NEW r \in Requests, DeleteMark(r) PROVE RestoreOK'
  BY <1>30 DEF DeleteMark, Goto, Finish, objVars, identity, flags, carrier,
     storeVars, inputVars
<1>31. ASSUME NEW r \in Requests, ShutdownBegin(r) PROVE RestoreOK'
  BY <1>31 DEF ShutdownBegin, Goto, Finish, Arrive, objVars, identity, flags,
     carrier, storeVars, Active
<1>32. ASSUME NEW r \in Requests, ShutdownNext(r) PROVE RestoreOK'
  BY <1>32 DEF ShutdownNext, Goto, Finish, agentVars, objVars, identity,
     flags, carrier, storeVars, inputVars
<1>33. ASSUME NEW r \in Requests, CloseBegin(r) PROVE RestoreOK'
  BY <1>33 DEF CloseBegin, Goto, agentVars, identity, carrier, storeVars,
     inputVars, LifeOK, Opened
<1>34. ASSUME NEW r \in Requests, CloseGate(r) PROVE RestoreOK'
  BY <1>34 DEF CloseGate, Goto, TakeGate, agentVars, identity, flags, carrier,
     storeVars, inputVars
<1>35. ASSUME NEW r \in Requests, CloseCommit(r) PROVE RestoreOK'
  BY <1>35 DEF CloseCommit, Goto, agentVars, identity, storeVars, inputVars,
     LifeOK, Opened
<1>36. ASSUME NEW r \in Requests, CloseRelease(r) PROVE RestoreOK'
  BY <1>36 DEF CloseRelease, Goto, ReleaseGate, agentVars, identity, flags,
     carrier, storeVars, inputVars
<1>37. ASSUME NEW r \in Requests, CloseWait(r) PROVE RestoreOK'
  BY <1>37 DEF CloseWait, Goto, agentVars, objVars, identity, flags, carrier,
     storeVars, inputVars
<1>38. ASSUME NEW r \in Requests, Detach(r) PROVE RestoreOK'
  BY <1>38 DEF Detach, Goto, Finish, Detached, objVars, identity, flags,
     carrier, storeVars, inputVars, RegisteredOK, LifeOK
<1>39. CASE UNCHANGED vars
  BY <1>39 DEF vars, agentVars, objVars, identity, flags, carrier, storeVars,
     inputVars
<1>40. QED
  BY <1>1, <1>2, <1>3, <1>4, <1>5, <1>6, <1>7, <1>8, <1>9, <1>10, <1>11,
     <1>12, <1>13, <1>14, <1>15, <1>16, <1>17, <1>18, <1>19, <1>20, <1>21,
     <1>22, <1>23, <1>24, <1>25, <1>26, <1>27, <1>28, <1>29, <1>30, <1>31,
     <1>32, <1>33, <1>34, <1>35, <1>36, <1>37, <1>38, <1>39 DEF Next, Begin,
     Handle, TurnEnds, Quiescent

\* `threads new` returns an id nobody has named.
LEMMA NewStep ==
  ASSUME IInv, LifeOK, RegisteredOK, RestoreOK, NewOK, [Next]_vars
  PROVE  NewOK'
<1> USE RequestsAssumption, IdsAssumption DEF IInv, TypeOK, AgentTypes,
       ObjectTypes, RequestTypes, StoreTypes, PositionOK, BuilderOK, BuiltOK,
       LifeOK, RestoreOK, Restoring, NewOK, Opened, ObjectLabels,
       BuilderLabels, EmptyLabels, CloseLabels, RestoreLabels
<1>1. ASSUME NEW r \in Requests, NewReserve(r) PROVE NewOK'
  BY <1>1 DEF NewReserve, Goto, Finish, Arrive, flags, carrier, storeVars,
     Active
<1>2. ASSUME NEW r \in Requests, NewCreate(r) PROVE NewOK'
  BY <1>2 DEF NewCreate, Goto, Finish, TakeGate, Fresh, Known, carrier,
     storeVars, inputVars
<1>3. ASSUME NEW r \in Requests, Install(r) PROVE NewOK'
  BY <1>3 DEF Install, Goto, Finish, ReleaseGate, RestoreClaims, identity,
     carrier, storeVars, inputVars
<1>4. ASSUME NEW r \in Requests, ReleaseSlot(r) PROVE NewOK'
  BY <1>4 DEF ReleaseSlot, Goto, objVars, identity, flags, carrier, storeVars,
     inputVars
<1>5. ASSUME NEW r \in Requests, NewCommit(r) PROVE NewOK'
  BY <1>5 DEF NewCommit, Goto, Finish, ReleaseGate, CommitMirror, agentVars,
     identity, flags, storeVars, inputVars
<1>6. ASSUME NEW r \in Requests, RestoreBegin(r) PROVE NewOK'
  BY <1>6 DEF RestoreBegin, Goto, Finish, Arrive, Known, objVars, identity,
     flags, carrier, storeVars
<1>7. ASSUME NEW r \in Requests, RestoreLookup(r) PROVE NewOK'
  BY <1>7 DEF RestoreLookup, Goto, Finish, RestoreEnds, objVars, identity,
     flags, carrier, storeVars, inputVars
<1>8. ASSUME NEW r \in Requests, RestoreGate(r) PROVE NewOK'
  BY <1>8 DEF RestoreGate, Goto, Finish, RestoreEnds, TakeGate, Closing,
     identity, flags, carrier, storeVars, inputVars
<1>9. ASSUME NEW r \in Requests, RestoreCarrier(r) PROVE NewOK'
  BY <1>9 DEF RestoreCarrier, Goto, Finish, RestoreEnds, ReleaseGate, Closing,
     identity, flags, carrier, storeVars, inputVars
<1>10. ASSUME NEW r \in Requests, ActiveLoad(r) PROVE NewOK'
  BY <1>10 DEF ActiveLoad, Goto, Finish, RestoreEnds, ReleaseGate, identity,
     flags, carrier, storeVars, inputVars
<1>11. ASSUME NEW r \in Requests, ActiveCommit(r) PROVE NewOK'
  BY <1>11 DEF ActiveCommit, Goto, Finish, RestoreEnds, ReleaseGate,
     CommitMirror, identity, flags, storeVars, inputVars
<1>12. ASSUME NEW r \in Requests, RestoreLoad(r) PROVE NewOK'
  BY <1>12 DEF RestoreLoad, Goto, Finish, RestoreEnds, objVars, identity,
     flags, carrier, storeVars, inputVars
<1>13. ASSUME NEW r \in Requests, RestoreReserve(r) PROVE NewOK'
  BY <1>13 DEF RestoreReserve, Goto, Finish, RestoreEnds, objVars, identity,
     flags, carrier, storeVars, inputVars, Active
<1>14. ASSUME NEW r \in Requests, Hydrate(r) PROVE NewOK'
  BY <1>14 DEF Hydrate, Goto, Finish, RestoreEnds, TakeGate, storeVars,
     inputVars
<1>15. ASSUME NEW r \in Requests, RestoreCommit(r) PROVE NewOK'
  BY <1>15 DEF RestoreCommit, Goto, Finish, RestoreEnds, ReleaseGate,
     CommitMirror, identity, storeVars, inputVars
<1>16. ASSUME NEW r \in Requests, Replay(r) PROVE NewOK'
  BY <1>16 DEF Replay, Goto, Finish, RestoreEnds, ReleaseGate, identity,
     flags, carrier, storeVars, inputVars
<1>17. ASSUME NEW r \in Requests, AddressSession(r) PROVE NewOK'
  BY <1>17 DEF AddressSession, Goto, Finish, Arrive, Known, agentVars,
     objVars, identity, flags, carrier, storeVars
<1>18. ASSUME NEW r \in Requests, Lookup(r) PROVE NewOK'
  BY <1>18 DEF Lookup, Goto, Finish, agentVars, objVars, identity, flags,
     carrier, storeVars, inputVars
<1>19. ASSUME NEW r \in Requests, Admit(r) PROVE NewOK'
  BY <1>19 DEF Admit, Goto, Finish, Closing, agentVars, objVars, identity,
     flags, carrier, storeVars, inputVars
<1>20. ASSUME NEW r \in Requests, AcquireGate(r) PROVE NewOK'
  BY <1>20 DEF AcquireGate, Goto, Finish, TakeGate, Closing, agentVars,
     identity, flags, carrier, storeVars, inputVars
<1>21. ASSUME NEW r \in Requests, InstallTurn(r) PROVE NewOK'
  BY <1>21 DEF InstallTurn, Goto, Finish, ReleaseGate, Closing, agentVars,
     identity, carrier, storeVars, inputVars
<1>22. ASSUME NEW r \in Requests, TurnNotStarted(r) PROVE NewOK'
  BY <1>22 DEF TurnNotStarted, Finish, ReleaseGate, agentVars, identity,
     carrier, storeVars, inputVars
<1>23. ASSUME NEW r \in Requests, NativeExit(r) PROVE NewOK'
  BY <1>23 DEF NativeExit, Goto, agentVars, identity, carrier, storeVars,
     inputVars
<1>24. ASSUME NEW r \in Requests, Settle(r) PROVE NewOK'
  <2>1. life[obj[r]] \in Opened
    BY <1>24 DEF Settle
  <2>2. QED
    BY <1>24, <2>1 DEF Settle, Goto, CommitMirror, agentVars, identity, flags,
       storeVars, inputVars
<1>25. ASSUME NEW r \in Requests, EndTurn(r) PROVE NewOK'
  BY <1>25 DEF EndTurn, Finish, ReleaseGate, agentVars, identity, carrier,
     storeVars, inputVars
<1>26. ASSUME NEW r \in Requests, ConfigCommit(r) PROVE NewOK'
  <2>1. life[obj[r]] \in Opened
    BY <1>26 DEF ConfigCommit
  <2>2. QED
    BY <1>26, <2>1 DEF ConfigCommit, Finish, ReleaseGate, CommitMirror,
       agentVars, identity, flags, storeVars, inputVars
<1>27. ASSUME NEW r \in Requests, CancelTurn(r) PROVE NewOK'
  BY <1>27 DEF CancelTurn, Finish, agentVars, identity, carrier, storeVars,
     inputVars
<1>28. ASSUME NEW r \in Requests, DeleteBegin(r) PROVE NewOK'
  BY <1>28 DEF DeleteBegin, Goto, Finish, Arrive, Known, agentVars, objVars,
     identity, flags, carrier, storeVars
<1>29. ASSUME NEW r \in Requests, DeleteStore(r) PROVE NewOK'
  BY <1>29 DEF DeleteStore, Goto, Finish, agentVars, objVars, identity, flags,
     carrier, inputVars
<1>30. ASSUME NEW r \in Requests, DeleteMark(r) PROVE NewOK'
  BY <1>30 DEF DeleteMark, Goto, Finish, objVars, identity, flags, carrier,
     storeVars, inputVars
<1>31. ASSUME NEW r \in Requests, ShutdownBegin(r) PROVE NewOK'
  BY <1>31 DEF ShutdownBegin, Goto, Finish, Arrive, objVars, identity, flags,
     carrier, storeVars, Active
<1>32. ASSUME NEW r \in Requests, ShutdownNext(r) PROVE NewOK'
  BY <1>32 DEF ShutdownNext, Goto, Finish, agentVars, objVars, identity,
     flags, carrier, storeVars, inputVars
<1>33. ASSUME NEW r \in Requests, CloseBegin(r) PROVE NewOK'
  BY <1>33 DEF CloseBegin, Goto, Closing, agentVars, identity, carrier,
     storeVars, inputVars
<1>34. ASSUME NEW r \in Requests, CloseGate(r) PROVE NewOK'
  BY <1>34 DEF CloseGate, Goto, TakeGate, agentVars, identity, flags, carrier,
     storeVars, inputVars
<1>35. ASSUME NEW r \in Requests, CloseCommit(r) PROVE NewOK'
  <2>1. life[obj[r]] \in Opened
    BY <1>35 DEF CloseCommit
  <2>2. QED
    BY <1>35, <2>1 DEF CloseCommit, Goto, CommitMirror, agentVars, identity,
       storeVars, inputVars
<1>36. ASSUME NEW r \in Requests, CloseRelease(r) PROVE NewOK'
  BY <1>36 DEF CloseRelease, Goto, ReleaseGate, agentVars, identity, flags,
     carrier, storeVars, inputVars
<1>37. ASSUME NEW r \in Requests, CloseWait(r) PROVE NewOK'
  BY <1>37 DEF CloseWait, Goto, agentVars, objVars, identity, flags, carrier,
     storeVars, inputVars
<1>38. ASSUME NEW r \in Requests, Detach(r) PROVE NewOK'
  BY <1>38 DEF Detach, Goto, Finish, Detached, objVars, identity, flags,
     carrier, storeVars, inputVars
<1>39. CASE UNCHANGED vars
  BY <1>39 DEF vars, agentVars, objVars, identity, flags, carrier, storeVars,
     inputVars
<1>40. QED
  BY <1>1, <1>2, <1>3, <1>4, <1>5, <1>6, <1>7, <1>8, <1>9, <1>10, <1>11,
     <1>12, <1>13, <1>14, <1>15, <1>16, <1>17, <1>18, <1>19, <1>20, <1>21,
     <1>22, <1>23, <1>24, <1>25, <1>26, <1>27, <1>28, <1>29, <1>30, <1>31,
     <1>32, <1>33, <1>34, <1>35, <1>36, <1>37, <1>38, <1>39 DEF Next, Begin,
     Handle, TurnEnds, Quiescent

\* A request answers once, and keeps its method.
LEMMA ResultStep ==
  ASSUME IInv, ResultOK, [Next]_vars
  PROVE  ResultOK'
<1> USE RequestsAssumption DEF IInv, TypeOK, AgentTypes, ObjectTypes,
       RequestTypes, PositionOK, ResultOK, ObjectLabels, BuilderLabels,
       EmptyLabels, CloseLabels, RestoreLabels
<1>1. ASSUME NEW r \in Requests, NewReserve(r) PROVE ResultOK'
  BY <1>1 DEF NewReserve, Goto, Finish, Arrive, flags, carrier, storeVars,
     Active
<1>2. ASSUME NEW r \in Requests, NewCreate(r) PROVE ResultOK'
  BY <1>2 DEF NewCreate, Goto, Finish, TakeGate, carrier, storeVars, inputVars
<1>3. ASSUME NEW r \in Requests, Install(r) PROVE ResultOK'
  BY <1>3 DEF Install, Goto, Finish, ReleaseGate, RestoreClaims, identity,
     carrier, storeVars, inputVars
<1>4. ASSUME NEW r \in Requests, ReleaseSlot(r) PROVE ResultOK'
  BY <1>4 DEF ReleaseSlot, Goto, objVars, identity, flags, carrier, storeVars,
     inputVars
<1>5. ASSUME NEW r \in Requests, NewCommit(r) PROVE ResultOK'
  BY <1>5 DEF NewCommit, Goto, Finish, ReleaseGate, agentVars, identity,
     flags, storeVars, inputVars
<1>6. ASSUME NEW r \in Requests, RestoreBegin(r) PROVE ResultOK'
  BY <1>6 DEF RestoreBegin, Goto, Finish, Arrive, objVars, identity, flags,
     carrier, storeVars
<1>7. ASSUME NEW r \in Requests, RestoreLookup(r) PROVE ResultOK'
  BY <1>7 DEF RestoreLookup, Goto, Finish, RestoreEnds, objVars, identity,
     flags, carrier, storeVars, inputVars
<1>8. ASSUME NEW r \in Requests, RestoreGate(r) PROVE ResultOK'
  BY <1>8 DEF RestoreGate, Goto, Finish, RestoreEnds, TakeGate, Closing,
     identity, flags, carrier, storeVars, inputVars
<1>9. ASSUME NEW r \in Requests, RestoreCarrier(r) PROVE ResultOK'
  BY <1>9 DEF RestoreCarrier, Goto, Finish, RestoreEnds, ReleaseGate, Closing,
     identity, flags, carrier, storeVars, inputVars
<1>10. ASSUME NEW r \in Requests, ActiveLoad(r) PROVE ResultOK'
  BY <1>10 DEF ActiveLoad, Goto, Finish, RestoreEnds, ReleaseGate, identity,
     flags, carrier, storeVars, inputVars
<1>11. ASSUME NEW r \in Requests, ActiveCommit(r) PROVE ResultOK'
  BY <1>11 DEF ActiveCommit, Goto, Finish, RestoreEnds, ReleaseGate,
     CommitMirror, identity, flags, storeVars, inputVars
<1>12. ASSUME NEW r \in Requests, RestoreLoad(r) PROVE ResultOK'
  BY <1>12 DEF RestoreLoad, Goto, Finish, RestoreEnds, objVars, identity,
     flags, carrier, storeVars, inputVars
<1>13. ASSUME NEW r \in Requests, RestoreReserve(r) PROVE ResultOK'
  BY <1>13 DEF RestoreReserve, Goto, Finish, RestoreEnds, objVars, identity,
     flags, carrier, storeVars, inputVars, Active
<1>14. ASSUME NEW r \in Requests, Hydrate(r) PROVE ResultOK'
  BY <1>14 DEF Hydrate, Goto, Finish, RestoreEnds, TakeGate, storeVars,
     inputVars
<1>15. ASSUME NEW r \in Requests, RestoreCommit(r) PROVE ResultOK'
  BY <1>15 DEF RestoreCommit, Goto, Finish, RestoreEnds, ReleaseGate,
     identity, storeVars, inputVars
<1>16. ASSUME NEW r \in Requests, Replay(r) PROVE ResultOK'
  BY <1>16 DEF Replay, Goto, Finish, RestoreEnds, ReleaseGate, identity,
     flags, carrier, storeVars, inputVars
<1>17. ASSUME NEW r \in Requests, AddressSession(r) PROVE ResultOK'
  BY <1>17 DEF AddressSession, Goto, Finish, Arrive, agentVars, objVars,
     identity, flags, carrier, storeVars
<1>18. ASSUME NEW r \in Requests, Lookup(r) PROVE ResultOK'
  BY <1>18 DEF Lookup, Goto, Finish, agentVars, objVars, identity, flags,
     carrier, storeVars, inputVars
<1>19. ASSUME NEW r \in Requests, Admit(r) PROVE ResultOK'
  BY <1>19 DEF Admit, Goto, Finish, Closing, agentVars, objVars, identity,
     flags, carrier, storeVars, inputVars
<1>20. ASSUME NEW r \in Requests, AcquireGate(r) PROVE ResultOK'
  BY <1>20 DEF AcquireGate, Goto, Finish, TakeGate, Closing, agentVars,
     identity, flags, carrier, storeVars, inputVars
<1>21. ASSUME NEW r \in Requests, InstallTurn(r) PROVE ResultOK'
  BY <1>21 DEF InstallTurn, Goto, Finish, ReleaseGate, Closing, agentVars,
     identity, carrier, storeVars, inputVars
<1>22. ASSUME NEW r \in Requests, TurnNotStarted(r) PROVE ResultOK'
  BY <1>22 DEF TurnNotStarted, Finish, ReleaseGate, agentVars, identity,
     carrier, storeVars, inputVars
<1>23. ASSUME NEW r \in Requests, NativeExit(r) PROVE ResultOK'
  BY <1>23 DEF NativeExit, Goto, agentVars, identity, carrier, storeVars,
     inputVars
<1>24. ASSUME NEW r \in Requests, Settle(r) PROVE ResultOK'
  BY <1>24 DEF Settle, Goto, agentVars, identity, flags, storeVars, inputVars
<1>25. ASSUME NEW r \in Requests, EndTurn(r) PROVE ResultOK'
  BY <1>25 DEF EndTurn, Finish, ReleaseGate, agentVars, identity, carrier,
     storeVars, inputVars
<1>26. ASSUME NEW r \in Requests, ConfigCommit(r) PROVE ResultOK'
  BY <1>26 DEF ConfigCommit, Finish, ReleaseGate, agentVars, identity, flags,
     storeVars, inputVars
<1>27. ASSUME NEW r \in Requests, CancelTurn(r) PROVE ResultOK'
  BY <1>27 DEF CancelTurn, Finish, agentVars, identity, carrier, storeVars,
     inputVars
<1>28. ASSUME NEW r \in Requests, DeleteBegin(r) PROVE ResultOK'
  BY <1>28 DEF DeleteBegin, Goto, Finish, Arrive, agentVars, objVars,
     identity, flags, carrier, storeVars
<1>29. ASSUME NEW r \in Requests, DeleteStore(r) PROVE ResultOK'
  BY <1>29 DEF DeleteStore, Goto, Finish, agentVars, objVars, identity, flags,
     carrier, inputVars
<1>30. ASSUME NEW r \in Requests, DeleteMark(r) PROVE ResultOK'
  BY <1>30 DEF DeleteMark, Goto, Finish, objVars, identity, flags, carrier,
     storeVars, inputVars
<1>31. ASSUME NEW r \in Requests, ShutdownBegin(r) PROVE ResultOK'
  BY <1>31 DEF ShutdownBegin, Goto, Finish, Arrive, objVars, identity, flags,
     carrier, storeVars, Active
<1>32. ASSUME NEW r \in Requests, ShutdownNext(r) PROVE ResultOK'
  BY <1>32 DEF ShutdownNext, Goto, Finish, agentVars, objVars, identity,
     flags, carrier, storeVars, inputVars
<1>33. ASSUME NEW r \in Requests, CloseBegin(r) PROVE ResultOK'
  BY <1>33 DEF CloseBegin, Goto, Closing, agentVars, identity, carrier,
     storeVars, inputVars
<1>34. ASSUME NEW r \in Requests, CloseGate(r) PROVE ResultOK'
  BY <1>34 DEF CloseGate, Goto, TakeGate, agentVars, identity, flags, carrier,
     storeVars, inputVars
<1>35. ASSUME NEW r \in Requests, CloseCommit(r) PROVE ResultOK'
  BY <1>35 DEF CloseCommit, Goto, agentVars, identity, storeVars, inputVars
<1>36. ASSUME NEW r \in Requests, CloseRelease(r) PROVE ResultOK'
  BY <1>36 DEF CloseRelease, Goto, ReleaseGate, agentVars, identity, flags,
     carrier, storeVars, inputVars
<1>37. ASSUME NEW r \in Requests, CloseWait(r) PROVE ResultOK'
  BY <1>37 DEF CloseWait, Goto, agentVars, objVars, identity, flags, carrier,
     storeVars, inputVars
<1>38. ASSUME NEW r \in Requests, Detach(r) PROVE ResultOK'
  BY <1>38 DEF Detach, Goto, Finish, Detached, objVars, identity, flags,
     carrier, storeVars, inputVars
<1>39. CASE UNCHANGED vars
  BY <1>39 DEF vars, agentVars, objVars, identity, flags, carrier, storeVars,
     inputVars
<1>40. QED
  BY <1>1, <1>2, <1>3, <1>4, <1>5, <1>6, <1>7, <1>8, <1>9, <1>10, <1>11,
     <1>12, <1>13, <1>14, <1>15, <1>16, <1>17, <1>18, <1>19, <1>20, <1>21,
     <1>22, <1>23, <1>24, <1>25, <1>26, <1>27, <1>28, <1>29, <1>30, <1>31,
     <1>32, <1>33, <1>34, <1>35, <1>36, <1>37, <1>38, <1>39 DEF Next, Begin,
     Handle, TurnEnds, Quiescent

\* After delete_mark no install passes MayInstall for the id.
LEMMA DeleteStep ==
  ASSUME IInv, LifeOK, RegisteredOK, ResultOK, DeleteOK, [Next]_vars
  PROVE  DeleteOK'
<1> USE RequestsAssumption, IdsAssumption DEF IInv, TypeOK, AgentTypes,
       ObjectTypes, RequestTypes, PositionOK, BuilderOK, BuiltOK, LifeOK,
       RegisteredOK, ResultOK, DeleteOK, ObjectLabels, BuilderLabels,
       EmptyLabels, CloseLabels, RestoreLabels
<1>1. ASSUME NEW r \in Requests, NewReserve(r) PROVE DeleteOK'
  BY <1>1 DEF NewReserve, Goto, Finish, Arrive, flags, carrier, storeVars,
     Active
<1>2. ASSUME NEW r \in Requests, NewCreate(r) PROVE DeleteOK'
  BY <1>2 DEF NewCreate, Goto, Finish, TakeGate, carrier, storeVars, inputVars
<1>3. ASSUME NEW r \in Requests, Install(r) PROVE DeleteOK'
  BY <1>3 DEF Install, Goto, Finish, ReleaseGate, MayInstall, RestoreClaims,
     identity, carrier, storeVars, inputVars
<1>4. ASSUME NEW r \in Requests, ReleaseSlot(r) PROVE DeleteOK'
  BY <1>4 DEF ReleaseSlot, Goto, objVars, identity, flags, carrier, storeVars,
     inputVars
<1>5. ASSUME NEW r \in Requests, NewCommit(r) PROVE DeleteOK'
  BY <1>5 DEF NewCommit, Goto, Finish, ReleaseGate, agentVars, identity,
     flags, storeVars, inputVars
<1>6. ASSUME NEW r \in Requests, RestoreBegin(r) PROVE DeleteOK'
  BY <1>6 DEF RestoreBegin, Goto, Finish, Arrive, objVars, identity, flags,
     carrier, storeVars
<1>7. ASSUME NEW r \in Requests, RestoreLookup(r) PROVE DeleteOK'
  BY <1>7 DEF RestoreLookup, Goto, Finish, RestoreEnds, objVars, identity,
     flags, carrier, storeVars, inputVars
<1>8. ASSUME NEW r \in Requests, RestoreGate(r) PROVE DeleteOK'
  BY <1>8 DEF RestoreGate, Goto, Finish, RestoreEnds, TakeGate, Closing,
     identity, flags, carrier, storeVars, inputVars
<1>9. ASSUME NEW r \in Requests, RestoreCarrier(r) PROVE DeleteOK'
  BY <1>9 DEF RestoreCarrier, Goto, Finish, RestoreEnds, ReleaseGate, Closing,
     identity, flags, carrier, storeVars, inputVars
<1>10. ASSUME NEW r \in Requests, ActiveLoad(r) PROVE DeleteOK'
  BY <1>10 DEF ActiveLoad, Goto, Finish, RestoreEnds, ReleaseGate, identity,
     flags, carrier, storeVars, inputVars
<1>11. ASSUME NEW r \in Requests, ActiveCommit(r) PROVE DeleteOK'
  BY <1>11 DEF ActiveCommit, Goto, Finish, RestoreEnds, ReleaseGate,
     CommitMirror, identity, flags, storeVars, inputVars
<1>12. ASSUME NEW r \in Requests, RestoreLoad(r) PROVE DeleteOK'
  BY <1>12 DEF RestoreLoad, Goto, Finish, RestoreEnds, objVars, identity,
     flags, carrier, storeVars, inputVars
<1>13. ASSUME NEW r \in Requests, RestoreReserve(r) PROVE DeleteOK'
  BY <1>13 DEF RestoreReserve, Goto, Finish, RestoreEnds, objVars, identity,
     flags, carrier, storeVars, inputVars, Active
<1>14. ASSUME NEW r \in Requests, Hydrate(r) PROVE DeleteOK'
  BY <1>14 DEF Hydrate, Goto, Finish, RestoreEnds, TakeGate, storeVars,
     inputVars
<1>15. ASSUME NEW r \in Requests, RestoreCommit(r) PROVE DeleteOK'
  BY <1>15 DEF RestoreCommit, Goto, Finish, RestoreEnds, ReleaseGate,
     identity, storeVars, inputVars
<1>16. ASSUME NEW r \in Requests, Replay(r) PROVE DeleteOK'
  BY <1>16 DEF Replay, Goto, Finish, RestoreEnds, ReleaseGate, identity,
     flags, carrier, storeVars, inputVars
<1>17. ASSUME NEW r \in Requests, AddressSession(r) PROVE DeleteOK'
  BY <1>17 DEF AddressSession, Goto, Finish, Arrive, agentVars, objVars,
     identity, flags, carrier, storeVars
<1>18. ASSUME NEW r \in Requests, Lookup(r) PROVE DeleteOK'
  BY <1>18 DEF Lookup, Goto, Finish, agentVars, objVars, identity, flags,
     carrier, storeVars, inputVars
<1>19. ASSUME NEW r \in Requests, Admit(r) PROVE DeleteOK'
  BY <1>19 DEF Admit, Goto, Finish, Closing, agentVars, objVars, identity,
     flags, carrier, storeVars, inputVars
<1>20. ASSUME NEW r \in Requests, AcquireGate(r) PROVE DeleteOK'
  BY <1>20 DEF AcquireGate, Goto, Finish, TakeGate, Closing, agentVars,
     identity, flags, carrier, storeVars, inputVars
<1>21. ASSUME NEW r \in Requests, InstallTurn(r) PROVE DeleteOK'
  BY <1>21 DEF InstallTurn, Goto, Finish, ReleaseGate, Closing, agentVars,
     identity, carrier, storeVars, inputVars
<1>22. ASSUME NEW r \in Requests, TurnNotStarted(r) PROVE DeleteOK'
  BY <1>22 DEF TurnNotStarted, Finish, ReleaseGate, agentVars, identity,
     carrier, storeVars, inputVars
<1>23. ASSUME NEW r \in Requests, NativeExit(r) PROVE DeleteOK'
  BY <1>23 DEF NativeExit, Goto, agentVars, identity, carrier, storeVars,
     inputVars
<1>24. ASSUME NEW r \in Requests, Settle(r) PROVE DeleteOK'
  BY <1>24 DEF Settle, Goto, agentVars, identity, flags, storeVars, inputVars
<1>25. ASSUME NEW r \in Requests, EndTurn(r) PROVE DeleteOK'
  BY <1>25 DEF EndTurn, Finish, ReleaseGate, agentVars, identity, carrier,
     storeVars, inputVars
<1>26. ASSUME NEW r \in Requests, ConfigCommit(r) PROVE DeleteOK'
  BY <1>26 DEF ConfigCommit, Finish, ReleaseGate, agentVars, identity, flags,
     storeVars, inputVars
<1>27. ASSUME NEW r \in Requests, CancelTurn(r) PROVE DeleteOK'
  BY <1>27 DEF CancelTurn, Finish, agentVars, identity, carrier, storeVars,
     inputVars
<1>28. ASSUME NEW r \in Requests, DeleteBegin(r) PROVE DeleteOK'
  BY <1>28 DEF DeleteBegin, Goto, Finish, Arrive, agentVars, objVars,
     identity, flags, carrier, storeVars
<1>29. ASSUME NEW r \in Requests, DeleteStore(r) PROVE DeleteOK'
  BY <1>29 DEF DeleteStore, Goto, Finish, agentVars, objVars, identity, flags,
     carrier, inputVars
<1>30. ASSUME NEW r \in Requests, DeleteMark(r) PROVE DeleteOK'
  BY <1>30 DEF DeleteMark, Goto, Finish, objVars, identity, flags, carrier,
     storeVars, inputVars
<1>31. ASSUME NEW r \in Requests, ShutdownBegin(r) PROVE DeleteOK'
  BY <1>31 DEF ShutdownBegin, Goto, Finish, Arrive, objVars, identity, flags,
     carrier, storeVars, Active
<1>32. ASSUME NEW r \in Requests, ShutdownNext(r) PROVE DeleteOK'
  BY <1>32 DEF ShutdownNext, Goto, Finish, agentVars, objVars, identity,
     flags, carrier, storeVars, inputVars
<1>33. ASSUME NEW r \in Requests, CloseBegin(r) PROVE DeleteOK'
  BY <1>33 DEF CloseBegin, Goto, Closing, agentVars, identity, carrier,
     storeVars, inputVars
<1>34. ASSUME NEW r \in Requests, CloseGate(r) PROVE DeleteOK'
  BY <1>34 DEF CloseGate, Goto, TakeGate, agentVars, identity, flags, carrier,
     storeVars, inputVars
<1>35. ASSUME NEW r \in Requests, CloseCommit(r) PROVE DeleteOK'
  BY <1>35 DEF CloseCommit, Goto, agentVars, identity, storeVars, inputVars
<1>36. ASSUME NEW r \in Requests, CloseRelease(r) PROVE DeleteOK'
  BY <1>36 DEF CloseRelease, Goto, ReleaseGate, agentVars, identity, flags,
     carrier, storeVars, inputVars
<1>37. ASSUME NEW r \in Requests, CloseWait(r) PROVE DeleteOK'
  BY <1>37 DEF CloseWait, Goto, agentVars, objVars, identity, flags, carrier,
     storeVars, inputVars
<1>38. ASSUME NEW r \in Requests, Detach(r) PROVE DeleteOK'
  BY <1>38 DEF Detach, Goto, Finish, Detached, objVars, identity, flags,
     carrier, storeVars, inputVars
<1>39. CASE UNCHANGED vars
  BY <1>39 DEF vars, agentVars, objVars, identity, flags, carrier, storeVars,
     inputVars
<1>40. QED
  BY <1>1, <1>2, <1>3, <1>4, <1>5, <1>6, <1>7, <1>8, <1>9, <1>10, <1>11,
     <1>12, <1>13, <1>14, <1>15, <1>16, <1>17, <1>18, <1>19, <1>20, <1>21,
     <1>22, <1>23, <1>24, <1>25, <1>26, <1>27, <1>28, <1>29, <1>30, <1>31,
     <1>32, <1>33, <1>34, <1>35, <1>36, <1>37, <1>38, <1>39 DEF Next, Begin,
     Handle, TurnEnds, Quiescent

\* After ShutdownBegin no install passes MayInstall.
LEMMA ShutdownStep ==
  ASSUME IInv, LifeOK, RegisteredOK, ResultOK, ShutdownOK, [Next]_vars
  PROVE  ShutdownOK'
<1> USE RequestsAssumption DEF IInv, TypeOK, AgentTypes, ObjectTypes,
       RequestTypes, PositionOK, BuilderOK, BuiltOK, RegisteredOK, ResultOK,
       ShutdownOK, Shutting, ObjectLabels, BuilderLabels, EmptyLabels,
       CloseLabels, RestoreLabels
<1>1. ASSUME NEW r \in Requests, NewReserve(r) PROVE ShutdownOK'
  BY <1>1 DEF NewReserve, Goto, Finish, Arrive, flags, carrier, storeVars,
     Active
<1>2. ASSUME NEW r \in Requests, NewCreate(r) PROVE ShutdownOK'
  BY <1>2 DEF NewCreate, Goto, Finish, TakeGate, carrier, storeVars, inputVars
<1>3. ASSUME NEW r \in Requests, Install(r) PROVE ShutdownOK'
  BY <1>3 DEF Install, Goto, Finish, ReleaseGate, MayInstall, RestoreClaims,
     identity, carrier, storeVars, inputVars
<1>4. ASSUME NEW r \in Requests, ReleaseSlot(r) PROVE ShutdownOK'
  BY <1>4 DEF ReleaseSlot, Goto, objVars, identity, flags, carrier, storeVars,
     inputVars
<1>5. ASSUME NEW r \in Requests, NewCommit(r) PROVE ShutdownOK'
  BY <1>5 DEF NewCommit, Goto, Finish, ReleaseGate, agentVars, identity,
     flags, storeVars, inputVars
<1>6. ASSUME NEW r \in Requests, RestoreBegin(r) PROVE ShutdownOK'
  BY <1>6 DEF RestoreBegin, Goto, Finish, Arrive, objVars, identity, flags,
     carrier, storeVars
<1>7. ASSUME NEW r \in Requests, RestoreLookup(r) PROVE ShutdownOK'
  BY <1>7 DEF RestoreLookup, Goto, Finish, RestoreEnds, objVars, identity,
     flags, carrier, storeVars, inputVars
<1>8. ASSUME NEW r \in Requests, RestoreGate(r) PROVE ShutdownOK'
  BY <1>8 DEF RestoreGate, Goto, Finish, RestoreEnds, TakeGate, Closing,
     identity, flags, carrier, storeVars, inputVars
<1>9. ASSUME NEW r \in Requests, RestoreCarrier(r) PROVE ShutdownOK'
  BY <1>9 DEF RestoreCarrier, Goto, Finish, RestoreEnds, ReleaseGate, Closing,
     identity, flags, carrier, storeVars, inputVars
<1>10. ASSUME NEW r \in Requests, ActiveLoad(r) PROVE ShutdownOK'
  BY <1>10 DEF ActiveLoad, Goto, Finish, RestoreEnds, ReleaseGate, identity,
     flags, carrier, storeVars, inputVars
<1>11. ASSUME NEW r \in Requests, ActiveCommit(r) PROVE ShutdownOK'
  BY <1>11 DEF ActiveCommit, Goto, Finish, RestoreEnds, ReleaseGate,
     CommitMirror, identity, flags, storeVars, inputVars
<1>12. ASSUME NEW r \in Requests, RestoreLoad(r) PROVE ShutdownOK'
  BY <1>12 DEF RestoreLoad, Goto, Finish, RestoreEnds, objVars, identity,
     flags, carrier, storeVars, inputVars
<1>13. ASSUME NEW r \in Requests, RestoreReserve(r) PROVE ShutdownOK'
  BY <1>13 DEF RestoreReserve, Goto, Finish, RestoreEnds, objVars, identity,
     flags, carrier, storeVars, inputVars, Active
<1>14. ASSUME NEW r \in Requests, Hydrate(r) PROVE ShutdownOK'
  BY <1>14 DEF Hydrate, Goto, Finish, RestoreEnds, TakeGate, storeVars,
     inputVars
<1>15. ASSUME NEW r \in Requests, RestoreCommit(r) PROVE ShutdownOK'
  BY <1>15 DEF RestoreCommit, Goto, Finish, RestoreEnds, ReleaseGate,
     identity, storeVars, inputVars
<1>16. ASSUME NEW r \in Requests, Replay(r) PROVE ShutdownOK'
  BY <1>16 DEF Replay, Goto, Finish, RestoreEnds, ReleaseGate, identity,
     flags, carrier, storeVars, inputVars
<1>17. ASSUME NEW r \in Requests, AddressSession(r) PROVE ShutdownOK'
  BY <1>17 DEF AddressSession, Goto, Finish, Arrive, agentVars, objVars,
     identity, flags, carrier, storeVars
<1>18. ASSUME NEW r \in Requests, Lookup(r) PROVE ShutdownOK'
  BY <1>18 DEF Lookup, Goto, Finish, agentVars, objVars, identity, flags,
     carrier, storeVars, inputVars
<1>19. ASSUME NEW r \in Requests, Admit(r) PROVE ShutdownOK'
  BY <1>19 DEF Admit, Goto, Finish, Closing, agentVars, objVars, identity,
     flags, carrier, storeVars, inputVars
<1>20. ASSUME NEW r \in Requests, AcquireGate(r) PROVE ShutdownOK'
  BY <1>20 DEF AcquireGate, Goto, Finish, TakeGate, Closing, agentVars,
     identity, flags, carrier, storeVars, inputVars
<1>21. ASSUME NEW r \in Requests, InstallTurn(r) PROVE ShutdownOK'
  BY <1>21 DEF InstallTurn, Goto, Finish, ReleaseGate, Closing, agentVars,
     identity, carrier, storeVars, inputVars
<1>22. ASSUME NEW r \in Requests, TurnNotStarted(r) PROVE ShutdownOK'
  BY <1>22 DEF TurnNotStarted, Finish, ReleaseGate, agentVars, identity,
     carrier, storeVars, inputVars
<1>23. ASSUME NEW r \in Requests, NativeExit(r) PROVE ShutdownOK'
  BY <1>23 DEF NativeExit, Goto, agentVars, identity, carrier, storeVars,
     inputVars
<1>24. ASSUME NEW r \in Requests, Settle(r) PROVE ShutdownOK'
  BY <1>24 DEF Settle, Goto, agentVars, identity, flags, storeVars, inputVars
<1>25. ASSUME NEW r \in Requests, EndTurn(r) PROVE ShutdownOK'
  BY <1>25 DEF EndTurn, Finish, ReleaseGate, agentVars, identity, carrier,
     storeVars, inputVars
<1>26. ASSUME NEW r \in Requests, ConfigCommit(r) PROVE ShutdownOK'
  BY <1>26 DEF ConfigCommit, Finish, ReleaseGate, agentVars, identity, flags,
     storeVars, inputVars
<1>27. ASSUME NEW r \in Requests, CancelTurn(r) PROVE ShutdownOK'
  BY <1>27 DEF CancelTurn, Finish, agentVars, identity, carrier, storeVars,
     inputVars
<1>28. ASSUME NEW r \in Requests, DeleteBegin(r) PROVE ShutdownOK'
  BY <1>28 DEF DeleteBegin, Goto, Finish, Arrive, agentVars, objVars,
     identity, flags, carrier, storeVars
<1>29. ASSUME NEW r \in Requests, DeleteStore(r) PROVE ShutdownOK'
  BY <1>29 DEF DeleteStore, Goto, Finish, agentVars, objVars, identity, flags,
     carrier, inputVars
<1>30. ASSUME NEW r \in Requests, DeleteMark(r) PROVE ShutdownOK'
  BY <1>30 DEF DeleteMark, Goto, Finish, objVars, identity, flags, carrier,
     storeVars, inputVars
<1>31. ASSUME NEW r \in Requests, ShutdownBegin(r) PROVE ShutdownOK'
  BY <1>31 DEF ShutdownBegin, Goto, Finish, Arrive, objVars, identity, flags,
     carrier, storeVars, Active
<1>32. ASSUME NEW r \in Requests, ShutdownNext(r) PROVE ShutdownOK'
  BY <1>32 DEF ShutdownNext, Goto, Finish, agentVars, objVars, identity,
     flags, carrier, storeVars, inputVars
<1>33. ASSUME NEW r \in Requests, CloseBegin(r) PROVE ShutdownOK'
  BY <1>33 DEF CloseBegin, Goto, Closing, agentVars, identity, carrier,
     storeVars, inputVars
<1>34. ASSUME NEW r \in Requests, CloseGate(r) PROVE ShutdownOK'
  BY <1>34 DEF CloseGate, Goto, TakeGate, agentVars, identity, flags, carrier,
     storeVars, inputVars
<1>35. ASSUME NEW r \in Requests, CloseCommit(r) PROVE ShutdownOK'
  BY <1>35 DEF CloseCommit, Goto, agentVars, identity, storeVars, inputVars
<1>36. ASSUME NEW r \in Requests, CloseRelease(r) PROVE ShutdownOK'
  BY <1>36 DEF CloseRelease, Goto, ReleaseGate, agentVars, identity, flags,
     carrier, storeVars, inputVars
<1>37. ASSUME NEW r \in Requests, CloseWait(r) PROVE ShutdownOK'
  BY <1>37 DEF CloseWait, Goto, agentVars, objVars, identity, flags, carrier,
     storeVars, inputVars
<1>38. ASSUME NEW r \in Requests, Detach(r) PROVE ShutdownOK'
  BY <1>38 DEF Detach, Goto, Finish, Detached, objVars, identity, flags,
     carrier, storeVars, inputVars
<1>39. CASE UNCHANGED vars
  BY <1>39 DEF vars, agentVars, objVars, identity, flags, carrier, storeVars,
     inputVars
<1>40. QED
  BY <1>1, <1>2, <1>3, <1>4, <1>5, <1>6, <1>7, <1>8, <1>9, <1>10, <1>11,
     <1>12, <1>13, <1>14, <1>15, <1>16, <1>17, <1>18, <1>19, <1>20, <1>21,
     <1>22, <1>23, <1>24, <1>25, <1>26, <1>27, <1>28, <1>29, <1>30, <1>31,
     <1>32, <1>33, <1>34, <1>35, <1>36, <1>37, <1>38, <1>39 DEF Next, Begin,
     Handle, TurnEnds, Quiescent

\* reserveSlot counts the request, releaseSlot comes after install.
LEMMA SlotStep ==
  ASSUME IInv, SlotOK, [Next]_vars
  PROVE  SlotOK'
<1> USE RequestsAssumption DEF IInv, TypeOK, AgentTypes, ObjectTypes,
       RequestTypes, PositionOK, SlotOK, ObjectLabels, BuilderLabels,
       EmptyLabels, CloseLabels, RestoreLabels
<1>1. ASSUME NEW r \in Requests, NewReserve(r) PROVE SlotOK'
  BY <1>1 DEF NewReserve, Goto, Finish, Arrive, flags, carrier, storeVars,
     Active
<1>2. ASSUME NEW r \in Requests, NewCreate(r) PROVE SlotOK'
  BY <1>2 DEF NewCreate, Goto, Finish, TakeGate, carrier, storeVars, inputVars
<1>3. ASSUME NEW r \in Requests, Install(r) PROVE SlotOK'
  BY <1>3 DEF Install, Goto, Finish, ReleaseGate, RestoreClaims, identity,
     carrier, storeVars, inputVars
<1>4. ASSUME NEW r \in Requests, ReleaseSlot(r) PROVE SlotOK'
  BY <1>4 DEF ReleaseSlot, Goto, objVars, identity, flags, carrier, storeVars,
     inputVars
<1>5. ASSUME NEW r \in Requests, NewCommit(r) PROVE SlotOK'
  BY <1>5 DEF NewCommit, Goto, Finish, ReleaseGate, agentVars, identity,
     flags, storeVars, inputVars
<1>6. ASSUME NEW r \in Requests, RestoreBegin(r) PROVE SlotOK'
  BY <1>6 DEF RestoreBegin, Goto, Finish, Arrive, objVars, identity, flags,
     carrier, storeVars
<1>7. ASSUME NEW r \in Requests, RestoreLookup(r) PROVE SlotOK'
  BY <1>7 DEF RestoreLookup, Goto, Finish, RestoreEnds, objVars, identity,
     flags, carrier, storeVars, inputVars
<1>8. ASSUME NEW r \in Requests, RestoreGate(r) PROVE SlotOK'
  BY <1>8 DEF RestoreGate, Goto, Finish, RestoreEnds, TakeGate, Closing,
     identity, flags, carrier, storeVars, inputVars
<1>9. ASSUME NEW r \in Requests, RestoreCarrier(r) PROVE SlotOK'
  BY <1>9 DEF RestoreCarrier, Goto, Finish, RestoreEnds, ReleaseGate, Closing,
     identity, flags, carrier, storeVars, inputVars
<1>10. ASSUME NEW r \in Requests, ActiveLoad(r) PROVE SlotOK'
  BY <1>10 DEF ActiveLoad, Goto, Finish, RestoreEnds, ReleaseGate, identity,
     flags, carrier, storeVars, inputVars
<1>11. ASSUME NEW r \in Requests, ActiveCommit(r) PROVE SlotOK'
  BY <1>11 DEF ActiveCommit, Goto, Finish, RestoreEnds, ReleaseGate,
     CommitMirror, identity, flags, storeVars, inputVars
<1>12. ASSUME NEW r \in Requests, RestoreLoad(r) PROVE SlotOK'
  BY <1>12 DEF RestoreLoad, Goto, Finish, RestoreEnds, objVars, identity,
     flags, carrier, storeVars, inputVars
<1>13. ASSUME NEW r \in Requests, RestoreReserve(r) PROVE SlotOK'
  BY <1>13 DEF RestoreReserve, Goto, Finish, RestoreEnds, objVars, identity,
     flags, carrier, storeVars, inputVars, Active
<1>14. ASSUME NEW r \in Requests, Hydrate(r) PROVE SlotOK'
  BY <1>14 DEF Hydrate, Goto, Finish, RestoreEnds, TakeGate, storeVars,
     inputVars
<1>15. ASSUME NEW r \in Requests, RestoreCommit(r) PROVE SlotOK'
  BY <1>15 DEF RestoreCommit, Goto, Finish, RestoreEnds, ReleaseGate,
     identity, storeVars, inputVars
<1>16. ASSUME NEW r \in Requests, Replay(r) PROVE SlotOK'
  BY <1>16 DEF Replay, Goto, Finish, RestoreEnds, ReleaseGate, identity,
     flags, carrier, storeVars, inputVars
<1>17. ASSUME NEW r \in Requests, AddressSession(r) PROVE SlotOK'
  BY <1>17 DEF AddressSession, Goto, Finish, Arrive, agentVars, objVars,
     identity, flags, carrier, storeVars
<1>18. ASSUME NEW r \in Requests, Lookup(r) PROVE SlotOK'
  BY <1>18 DEF Lookup, Goto, Finish, agentVars, objVars, identity, flags,
     carrier, storeVars, inputVars
<1>19. ASSUME NEW r \in Requests, Admit(r) PROVE SlotOK'
  BY <1>19 DEF Admit, Goto, Finish, Closing, agentVars, objVars, identity,
     flags, carrier, storeVars, inputVars
<1>20. ASSUME NEW r \in Requests, AcquireGate(r) PROVE SlotOK'
  BY <1>20 DEF AcquireGate, Goto, Finish, TakeGate, Closing, agentVars,
     identity, flags, carrier, storeVars, inputVars
<1>21. ASSUME NEW r \in Requests, InstallTurn(r) PROVE SlotOK'
  BY <1>21 DEF InstallTurn, Goto, Finish, ReleaseGate, Closing, agentVars,
     identity, carrier, storeVars, inputVars
<1>22. ASSUME NEW r \in Requests, TurnNotStarted(r) PROVE SlotOK'
  BY <1>22 DEF TurnNotStarted, Finish, ReleaseGate, agentVars, identity,
     carrier, storeVars, inputVars
<1>23. ASSUME NEW r \in Requests, NativeExit(r) PROVE SlotOK'
  BY <1>23 DEF NativeExit, Goto, agentVars, identity, carrier, storeVars,
     inputVars
<1>24. ASSUME NEW r \in Requests, Settle(r) PROVE SlotOK'
  BY <1>24 DEF Settle, Goto, agentVars, identity, flags, storeVars, inputVars
<1>25. ASSUME NEW r \in Requests, EndTurn(r) PROVE SlotOK'
  BY <1>25 DEF EndTurn, Finish, ReleaseGate, agentVars, identity, carrier,
     storeVars, inputVars
<1>26. ASSUME NEW r \in Requests, ConfigCommit(r) PROVE SlotOK'
  BY <1>26 DEF ConfigCommit, Finish, ReleaseGate, agentVars, identity, flags,
     storeVars, inputVars
<1>27. ASSUME NEW r \in Requests, CancelTurn(r) PROVE SlotOK'
  BY <1>27 DEF CancelTurn, Finish, agentVars, identity, carrier, storeVars,
     inputVars
<1>28. ASSUME NEW r \in Requests, DeleteBegin(r) PROVE SlotOK'
  BY <1>28 DEF DeleteBegin, Goto, Finish, Arrive, agentVars, objVars,
     identity, flags, carrier, storeVars
<1>29. ASSUME NEW r \in Requests, DeleteStore(r) PROVE SlotOK'
  BY <1>29 DEF DeleteStore, Goto, Finish, agentVars, objVars, identity, flags,
     carrier, inputVars
<1>30. ASSUME NEW r \in Requests, DeleteMark(r) PROVE SlotOK'
  BY <1>30 DEF DeleteMark, Goto, Finish, objVars, identity, flags, carrier,
     storeVars, inputVars
<1>31. ASSUME NEW r \in Requests, ShutdownBegin(r) PROVE SlotOK'
  BY <1>31 DEF ShutdownBegin, Goto, Finish, Arrive, objVars, identity, flags,
     carrier, storeVars, Active
<1>32. ASSUME NEW r \in Requests, ShutdownNext(r) PROVE SlotOK'
  BY <1>32 DEF ShutdownNext, Goto, Finish, agentVars, objVars, identity,
     flags, carrier, storeVars, inputVars
<1>33. ASSUME NEW r \in Requests, CloseBegin(r) PROVE SlotOK'
  BY <1>33 DEF CloseBegin, Goto, Closing, agentVars, identity, carrier,
     storeVars, inputVars
<1>34. ASSUME NEW r \in Requests, CloseGate(r) PROVE SlotOK'
  BY <1>34 DEF CloseGate, Goto, TakeGate, agentVars, identity, flags, carrier,
     storeVars, inputVars
<1>35. ASSUME NEW r \in Requests, CloseCommit(r) PROVE SlotOK'
  BY <1>35 DEF CloseCommit, Goto, agentVars, identity, storeVars, inputVars
<1>36. ASSUME NEW r \in Requests, CloseRelease(r) PROVE SlotOK'
  BY <1>36 DEF CloseRelease, Goto, ReleaseGate, agentVars, identity, flags,
     carrier, storeVars, inputVars
<1>37. ASSUME NEW r \in Requests, CloseWait(r) PROVE SlotOK'
  BY <1>37 DEF CloseWait, Goto, agentVars, objVars, identity, flags, carrier,
     storeVars, inputVars
<1>38. ASSUME NEW r \in Requests, Detach(r) PROVE SlotOK'
  BY <1>38 DEF Detach, Goto, Finish, Detached, objVars, identity, flags,
     carrier, storeVars, inputVars
<1>39. CASE UNCHANGED vars
  BY <1>39 DEF vars, agentVars, objVars, identity, flags, carrier, storeVars,
     inputVars
<1>40. QED
  BY <1>1, <1>2, <1>3, <1>4, <1>5, <1>6, <1>7, <1>8, <1>9, <1>10, <1>11,
     <1>12, <1>13, <1>14, <1>15, <1>16, <1>17, <1>18, <1>19, <1>20, <1>21,
     <1>22, <1>23, <1>24, <1>25, <1>26, <1>27, <1>28, <1>29, <1>30, <1>31,
     <1>32, <1>33, <1>34, <1>35, <1>36, <1>37, <1>38, <1>39 DEF Next, Begin,
     Handle, TurnEnds, Quiescent

\* A new thread is fresh, and a restore builds an object only when the id resolves
\* to none: an earlier object is closed by then.
LEMMA UniqueStep ==
  ASSUME IInv, LifeOK, RegisteredOK, RestoreOK, NewOK, OneObjectPerThread, [Next]_vars
  PROVE  OneObjectPerThread'
<1> USE RequestsAssumption, IdsAssumption DEF IInv, TypeOK, AgentTypes,
       ObjectTypes, RequestTypes, PositionOK, BuilderOK, BuiltOK, LifeOK,
       RegisteredOK, RestoreOK, Restoring, NewOK, OneObjectPerThread, Opened,
       ObjectLabels, BuilderLabels, EmptyLabels, CloseLabels, RestoreLabels
<1>1. ASSUME NEW r \in Requests, NewReserve(r) PROVE OneObjectPerThread'
  BY <1>1 DEF NewReserve, Goto, Finish, Arrive, flags, carrier, storeVars,
     Active
<1>2. ASSUME NEW r \in Requests, NewCreate(r) PROVE OneObjectPerThread'
  BY <1>2 DEF NewCreate, Goto, Finish, TakeGate, Fresh, carrier, storeVars,
     inputVars
<1>3. ASSUME NEW r \in Requests, Install(r) PROVE OneObjectPerThread'
  BY <1>3 DEF Install, Goto, Finish, ReleaseGate, RestoreClaims, identity,
     carrier, storeVars, inputVars
<1>4. ASSUME NEW r \in Requests, ReleaseSlot(r) PROVE OneObjectPerThread'
  BY <1>4 DEF ReleaseSlot, Goto, objVars, identity, flags, carrier, storeVars,
     inputVars
<1>5. ASSUME NEW r \in Requests, NewCommit(r) PROVE OneObjectPerThread'
  BY <1>5 DEF NewCommit, Goto, Finish, ReleaseGate, agentVars, identity,
     flags, storeVars, inputVars
<1>6. ASSUME NEW r \in Requests, RestoreBegin(r) PROVE OneObjectPerThread'
  BY <1>6 DEF RestoreBegin, Goto, Finish, Arrive, objVars, identity, flags,
     carrier, storeVars
<1>7. ASSUME NEW r \in Requests, RestoreLookup(r) PROVE OneObjectPerThread'
  BY <1>7 DEF RestoreLookup, Goto, Finish, RestoreEnds, objVars, identity,
     flags, carrier, storeVars, inputVars
<1>8. ASSUME NEW r \in Requests, RestoreGate(r) PROVE OneObjectPerThread'
  BY <1>8 DEF RestoreGate, Goto, Finish, RestoreEnds, TakeGate, Closing,
     identity, flags, carrier, storeVars, inputVars
<1>9. ASSUME NEW r \in Requests, RestoreCarrier(r) PROVE OneObjectPerThread'
  BY <1>9 DEF RestoreCarrier, Goto, Finish, RestoreEnds, ReleaseGate, Closing,
     identity, flags, carrier, storeVars, inputVars
<1>10. ASSUME NEW r \in Requests, ActiveLoad(r) PROVE OneObjectPerThread'
  BY <1>10 DEF ActiveLoad, Goto, Finish, RestoreEnds, ReleaseGate, identity,
     flags, carrier, storeVars, inputVars
<1>11. ASSUME NEW r \in Requests, ActiveCommit(r) PROVE OneObjectPerThread'
  BY <1>11 DEF ActiveCommit, Goto, Finish, RestoreEnds, ReleaseGate,
     CommitMirror, identity, flags, storeVars, inputVars
<1>12. ASSUME NEW r \in Requests, RestoreLoad(r) PROVE OneObjectPerThread'
  BY <1>12 DEF RestoreLoad, Goto, Finish, RestoreEnds, objVars, identity,
     flags, carrier, storeVars, inputVars
<1>13. ASSUME NEW r \in Requests, RestoreReserve(r) PROVE OneObjectPerThread'
  BY <1>13 DEF RestoreReserve, Goto, Finish, RestoreEnds, objVars, identity,
     flags, carrier, storeVars, inputVars, Active
<1>14. ASSUME NEW r \in Requests, Hydrate(r) PROVE OneObjectPerThread'
  BY <1>14 DEF Hydrate, Goto, Finish, RestoreEnds, TakeGate, storeVars,
     inputVars
<1>15. ASSUME NEW r \in Requests, RestoreCommit(r) PROVE OneObjectPerThread'
  BY <1>15 DEF RestoreCommit, Goto, Finish, RestoreEnds, ReleaseGate,
     identity, storeVars, inputVars
<1>16. ASSUME NEW r \in Requests, Replay(r) PROVE OneObjectPerThread'
  BY <1>16 DEF Replay, Goto, Finish, RestoreEnds, ReleaseGate, identity,
     flags, carrier, storeVars, inputVars
<1>17. ASSUME NEW r \in Requests, AddressSession(r) PROVE OneObjectPerThread'
  BY <1>17 DEF AddressSession, Goto, Finish, Arrive, agentVars, objVars,
     identity, flags, carrier, storeVars
<1>18. ASSUME NEW r \in Requests, Lookup(r) PROVE OneObjectPerThread'
  BY <1>18 DEF Lookup, Goto, Finish, agentVars, objVars, identity, flags,
     carrier, storeVars, inputVars
<1>19. ASSUME NEW r \in Requests, Admit(r) PROVE OneObjectPerThread'
  BY <1>19 DEF Admit, Goto, Finish, Closing, agentVars, objVars, identity,
     flags, carrier, storeVars, inputVars
<1>20. ASSUME NEW r \in Requests, AcquireGate(r) PROVE OneObjectPerThread'
  BY <1>20 DEF AcquireGate, Goto, Finish, TakeGate, Closing, agentVars,
     identity, flags, carrier, storeVars, inputVars
<1>21. ASSUME NEW r \in Requests, InstallTurn(r) PROVE OneObjectPerThread'
  BY <1>21 DEF InstallTurn, Goto, Finish, ReleaseGate, Closing, agentVars,
     identity, carrier, storeVars, inputVars
<1>22. ASSUME NEW r \in Requests, TurnNotStarted(r) PROVE OneObjectPerThread'
  BY <1>22 DEF TurnNotStarted, Finish, ReleaseGate, agentVars, identity,
     carrier, storeVars, inputVars
<1>23. ASSUME NEW r \in Requests, NativeExit(r) PROVE OneObjectPerThread'
  BY <1>23 DEF NativeExit, Goto, agentVars, identity, carrier, storeVars,
     inputVars
<1>24. ASSUME NEW r \in Requests, Settle(r) PROVE OneObjectPerThread'
  BY <1>24 DEF Settle, Goto, agentVars, identity, flags, storeVars, inputVars
<1>25. ASSUME NEW r \in Requests, EndTurn(r) PROVE OneObjectPerThread'
  BY <1>25 DEF EndTurn, Finish, ReleaseGate, agentVars, identity, carrier,
     storeVars, inputVars
<1>26. ASSUME NEW r \in Requests, ConfigCommit(r) PROVE OneObjectPerThread'
  BY <1>26 DEF ConfigCommit, Finish, ReleaseGate, agentVars, identity, flags,
     storeVars, inputVars
<1>27. ASSUME NEW r \in Requests, CancelTurn(r) PROVE OneObjectPerThread'
  BY <1>27 DEF CancelTurn, Finish, agentVars, identity, carrier, storeVars,
     inputVars
<1>28. ASSUME NEW r \in Requests, DeleteBegin(r) PROVE OneObjectPerThread'
  BY <1>28 DEF DeleteBegin, Goto, Finish, Arrive, agentVars, objVars,
     identity, flags, carrier, storeVars
<1>29. ASSUME NEW r \in Requests, DeleteStore(r) PROVE OneObjectPerThread'
  BY <1>29 DEF DeleteStore, Goto, Finish, agentVars, objVars, identity, flags,
     carrier, inputVars
<1>30. ASSUME NEW r \in Requests, DeleteMark(r) PROVE OneObjectPerThread'
  BY <1>30 DEF DeleteMark, Goto, Finish, objVars, identity, flags, carrier,
     storeVars, inputVars
<1>31. ASSUME NEW r \in Requests, ShutdownBegin(r) PROVE OneObjectPerThread'
  BY <1>31 DEF ShutdownBegin, Goto, Finish, Arrive, objVars, identity, flags,
     carrier, storeVars, Active
<1>32. ASSUME NEW r \in Requests, ShutdownNext(r) PROVE OneObjectPerThread'
  BY <1>32 DEF ShutdownNext, Goto, Finish, agentVars, objVars, identity,
     flags, carrier, storeVars, inputVars
<1>33. ASSUME NEW r \in Requests, CloseBegin(r) PROVE OneObjectPerThread'
  BY <1>33 DEF CloseBegin, Goto, Closing, agentVars, identity, carrier,
     storeVars, inputVars
<1>34. ASSUME NEW r \in Requests, CloseGate(r) PROVE OneObjectPerThread'
  BY <1>34 DEF CloseGate, Goto, TakeGate, agentVars, identity, flags, carrier,
     storeVars, inputVars
<1>35. ASSUME NEW r \in Requests, CloseCommit(r) PROVE OneObjectPerThread'
  BY <1>35 DEF CloseCommit, Goto, agentVars, identity, storeVars, inputVars
<1>36. ASSUME NEW r \in Requests, CloseRelease(r) PROVE OneObjectPerThread'
  BY <1>36 DEF CloseRelease, Goto, ReleaseGate, agentVars, identity, flags,
     carrier, storeVars, inputVars
<1>37. ASSUME NEW r \in Requests, CloseWait(r) PROVE OneObjectPerThread'
  BY <1>37 DEF CloseWait, Goto, agentVars, objVars, identity, flags, carrier,
     storeVars, inputVars
<1>38. ASSUME NEW r \in Requests, Detach(r) PROVE OneObjectPerThread'
  BY <1>38 DEF Detach, Goto, Finish, Detached, objVars, identity, flags,
     carrier, storeVars, inputVars
<1>39. CASE UNCHANGED vars
  BY <1>39 DEF vars, agentVars, objVars, identity, flags, carrier, storeVars,
     inputVars
<1>40. QED
  BY <1>1, <1>2, <1>3, <1>4, <1>5, <1>6, <1>7, <1>8, <1>9, <1>10, <1>11,
     <1>12, <1>13, <1>14, <1>15, <1>16, <1>17, <1>18, <1>19, <1>20, <1>21,
     <1>22, <1>23, <1>24, <1>25, <1>26, <1>27, <1>28, <1>29, <1>30, <1>31,
     <1>32, <1>33, <1>34, <1>35, <1>36, <1>37, <1>38, <1>39 DEF Next, Begin,
     Handle, TurnEnds, Quiescent

\* The requests that hold a slot for a session not installed yet.
Pending == {r \in starting : life[r] \in {"none", "built"}}

\* Both sets are finite, so their sizes are numbers.
LEMMA SlotsFinite ==
  ASSUME IInv
  PROVE  /\ IsFiniteSet(Active) /\ Cardinality(Active) \in Nat
         /\ IsFiniteSet(starting) /\ Cardinality(starting) \in Nat
         /\ IsFiniteSet(Pending) /\ Cardinality(Pending) \in Nat
<1>1. Active \subseteq Ids /\ starting \subseteq Requests /\ Pending \subseteq Requests
  BY DEF Active, Pending, IInv, TypeOK, AgentTypes
<1>2. QED
  BY <1>1, IdsAssumption, RequestsAssumption, FS_Subset, FS_CardinalityType

\* A step that adds no session and no claim on a slot keeps the limit.
LEMMA SlotsShrink ==
  ASSUME IInv, SlotsBounded, Active' \subseteq Active, Pending' \subseteq Pending
  PROVE  SlotsBounded'
<1>1. Cardinality(Active') <= Cardinality(Active) /\ Cardinality(Active') \in Nat
  BY SlotsFinite, FS_Subset, FS_CardinalityType
<1>2. Cardinality(Pending') <= Cardinality(Pending) /\ Cardinality(Pending') \in Nat
  BY SlotsFinite, FS_Subset, FS_CardinalityType
<1>3. Cardinality(Active) + Cardinality(Pending) <= MaxActive
  BY DEF SlotsBounded, Pending
<1>4. Cardinality(Active') + Cardinality(Pending') <= MaxActive
  BY <1>1, <1>2, <1>3, SlotsFinite, MaxActiveAssumption
<1>5. QED
  BY <1>4 DEF SlotsBounded, Pending

\* reserveSlot counts everyone the new claim competes with.
LEMMA SlotTaken ==
  ASSUME IInv, NEW r \in Requests, SlotFree, Active' = Active,
         Pending' \subseteq starting \cup {r}
  PROVE  SlotsBounded'
<1>1. /\ IsFiniteSet(starting \cup {r})
      /\ Cardinality(starting \cup {r}) \in Nat
      /\ Cardinality(starting \cup {r}) <= Cardinality(starting) + 1
  <2>1. IsFiniteSet(starting \cup {r})
    BY SlotsFinite, FS_AddElement
  <2>2. \/ Cardinality(starting \cup {r}) = Cardinality(starting)
        \/ Cardinality(starting \cup {r}) = Cardinality(starting) + 1
    BY SlotsFinite, FS_AddElement
  <2>3. QED
    BY <2>1, <2>2, SlotsFinite
<1>2. Cardinality(Pending') <= Cardinality(starting \cup {r}) /\ Cardinality(Pending') \in Nat
  BY <1>1, FS_Subset, FS_CardinalityType
<1>3. Cardinality(Active') + Cardinality(Pending') <= MaxActive
  BY <1>1, <1>2, SlotsFinite, MaxActiveAssumption DEF SlotFree
<1>4. QED
  BY <1>3 DEF SlotsBounded, Pending

\* install exchanges a claim for a session.
LEMMA SlotExchanged ==
  ASSUME IInv, SlotsBounded, NEW r \in Pending, NEW i \in Ids,
         Active' \subseteq Active \cup {i}, Pending' \subseteq Pending \ {r}
  PROVE  SlotsBounded'
<1>1. /\ IsFiniteSet(Active \cup {i})
      /\ Cardinality(Active \cup {i}) \in Nat
      /\ Cardinality(Active \cup {i}) <= Cardinality(Active) + 1
  <2>1. IsFiniteSet(Active \cup {i})
    BY SlotsFinite, FS_AddElement
  <2>2. \/ Cardinality(Active \cup {i}) = Cardinality(Active)
        \/ Cardinality(Active \cup {i}) = Cardinality(Active) + 1
    BY SlotsFinite, FS_AddElement
  <2>3. QED
    BY <2>1, <2>2, SlotsFinite
<1>2. /\ IsFiniteSet(Pending \ {r})
      /\ Cardinality(Pending \ {r}) = Cardinality(Pending) - 1
      /\ Cardinality(Pending \ {r}) \in Nat
  BY SlotsFinite, FS_RemoveElement, FS_CardinalityType
<1>3. Cardinality(Active') <= Cardinality(Active \cup {i}) /\ Cardinality(Active') \in Nat
  BY <1>1, FS_Subset, FS_CardinalityType
<1>4. Cardinality(Pending') <= Cardinality(Pending \ {r}) /\ Cardinality(Pending') \in Nat
  BY <1>2, FS_Subset, FS_CardinalityType
<1>5. Cardinality(Active) + Cardinality(Pending) <= MaxActive
  BY DEF SlotsBounded, Pending
<1>6. Cardinality(Active') + Cardinality(Pending') <= MaxActive
  BY <1>1, <1>2, <1>3, <1>4, <1>5, SlotsFinite, MaxActiveAssumption
<1>7. QED
  BY <1>6 DEF SlotsBounded, Pending

\* A claim is counted before it is exchanged for a session.
LEMMA SlotsStep ==
  ASSUME IInv, LifeOK, RegisteredOK, SlotOK, SlotsBounded, [Next]_vars
  PROVE  SlotsBounded'
<1> USE RequestsAssumption DEF IInv, TypeOK, AgentTypes, ObjectTypes,
       RequestTypes, PositionOK, BuilderOK, BuiltOK, LifeOK, RegisteredOK,
       Opened, SlotOK, Pending, Active, ObjectLabels, BuilderLabels,
       EmptyLabels, CloseLabels, RestoreLabels
<1>1. ASSUME NEW r \in Requests, NewReserve(r) PROVE SlotsBounded'
  <2>1. Active' = Active
    BY <1>1 DEF NewReserve, Active, RestoreEnds
  <2>2. CASE SlotFree
    <3>1. Pending' \subseteq starting \cup {r}
      BY <1>1 DEF NewReserve, Goto, Finish, Arrive, flags, carrier, storeVars
    <3>2. QED
      BY <2>1, <2>2, <3>1, SlotTaken
  <2>3. CASE ~SlotFree
    <3>1. Pending' \subseteq Pending
      BY <1>1, <2>3 DEF NewReserve, Goto, Finish, Arrive, flags, carrier,
         storeVars
    <3>2. QED
      BY <2>1, <3>1, SlotsShrink
  <2>4. QED
    BY <2>2, <2>3
<1>2. ASSUME NEW r \in Requests, NewCreate(r) PROVE SlotsBounded'
  <2>1. Active' \subseteq Active /\ Pending' \subseteq Pending
    BY <1>2 DEF NewCreate, Goto, Finish, TakeGate, carrier, storeVars,
       inputVars
  <2>2. QED
    BY <2>1, SlotsShrink
<1>3. ASSUME NEW r \in Requests, Install(r) PROVE SlotsBounded'
  <2>1. sid[r] \in Ids /\ r \in Pending
    BY <1>3 DEF Install
  <2>2. \/ Active' \subseteq Active \cup {sid[r]} /\ Pending' \subseteq Pending \ {r}
        \/ Active' \subseteq Active /\ Pending' \subseteq Pending
    BY <1>3, <2>1 DEF Install, Goto, Finish, ReleaseGate, RestoreClaims,
       identity, carrier, storeVars, inputVars
  <2>3. QED
    BY <2>1, <2>2, SlotsShrink, SlotExchanged
<1>4. ASSUME NEW r \in Requests, ReleaseSlot(r) PROVE SlotsBounded'
  <2>1. Active' \subseteq Active /\ Pending' \subseteq Pending
    BY <1>4 DEF ReleaseSlot, Goto, objVars, identity, flags, carrier,
       storeVars, inputVars
  <2>2. QED
    BY <2>1, SlotsShrink
<1>5. ASSUME NEW r \in Requests, NewCommit(r) PROVE SlotsBounded'
  <2>1. Active' \subseteq Active /\ Pending' \subseteq Pending
    BY <1>5 DEF NewCommit, Goto, Finish, ReleaseGate, agentVars, identity,
       flags, storeVars, inputVars
  <2>2. QED
    BY <2>1, SlotsShrink
<1>6. ASSUME NEW r \in Requests, RestoreBegin(r) PROVE SlotsBounded'
  <2>1. Active' \subseteq Active /\ Pending' \subseteq Pending
    BY <1>6 DEF RestoreBegin, Goto, Finish, Arrive, objVars, identity, flags,
       carrier, storeVars
  <2>2. QED
    BY <2>1, SlotsShrink
<1>7. ASSUME NEW r \in Requests, RestoreLookup(r) PROVE SlotsBounded'
  <2>1. Active' \subseteq Active /\ Pending' \subseteq Pending
    BY <1>7 DEF RestoreLookup, Goto, Finish, RestoreEnds, objVars, identity,
       flags, carrier, storeVars, inputVars
  <2>2. QED
    BY <2>1, SlotsShrink
<1>8. ASSUME NEW r \in Requests, RestoreGate(r) PROVE SlotsBounded'
  <2>1. Active' \subseteq Active /\ Pending' \subseteq Pending
    BY <1>8 DEF RestoreGate, Goto, Finish, RestoreEnds, TakeGate, Closing,
       identity, flags, carrier, storeVars, inputVars
  <2>2. QED
    BY <2>1, SlotsShrink
<1>9. ASSUME NEW r \in Requests, RestoreCarrier(r) PROVE SlotsBounded'
  <2>1. Active' \subseteq Active /\ Pending' \subseteq Pending
    BY <1>9 DEF RestoreCarrier, Goto, Finish, RestoreEnds, ReleaseGate,
       Closing, identity, flags, carrier, storeVars, inputVars
  <2>2. QED
    BY <2>1, SlotsShrink
<1>10. ASSUME NEW r \in Requests, ActiveLoad(r) PROVE SlotsBounded'
  <2>1. Active' \subseteq Active /\ Pending' \subseteq Pending
    BY <1>10 DEF ActiveLoad, Goto, Finish, RestoreEnds, ReleaseGate, identity,
       flags, carrier, storeVars, inputVars
  <2>2. QED
    BY <2>1, SlotsShrink
<1>11. ASSUME NEW r \in Requests, ActiveCommit(r) PROVE SlotsBounded'
  <2>1. Active' \subseteq Active /\ Pending' \subseteq Pending
    BY <1>11 DEF ActiveCommit, Goto, Finish, RestoreEnds, ReleaseGate,
       CommitMirror, identity, flags, storeVars, inputVars
  <2>2. QED
    BY <2>1, SlotsShrink
<1>12. ASSUME NEW r \in Requests, RestoreLoad(r) PROVE SlotsBounded'
  <2>1. Active' \subseteq Active /\ Pending' \subseteq Pending
    BY <1>12 DEF RestoreLoad, Goto, Finish, RestoreEnds, objVars, identity,
       flags, carrier, storeVars, inputVars
  <2>2. QED
    BY <2>1, SlotsShrink
<1>13. ASSUME NEW r \in Requests, RestoreReserve(r) PROVE SlotsBounded'
  <2>1. Active' = Active
    BY <1>13 DEF RestoreReserve, Active, RestoreEnds
  <2>2. CASE SlotFree
    <3>1. Pending' \subseteq starting \cup {r}
      BY <1>13 DEF RestoreReserve, Goto, Finish, RestoreEnds, objVars,
         identity, flags, carrier, storeVars, inputVars
    <3>2. QED
      BY <2>1, <2>2, <3>1, SlotTaken
  <2>3. CASE ~SlotFree
    <3>1. Pending' \subseteq Pending
      BY <1>13, <2>3 DEF RestoreReserve, Goto, Finish, RestoreEnds, objVars,
         identity, flags, carrier, storeVars, inputVars
    <3>2. QED
      BY <2>1, <3>1, SlotsShrink
  <2>4. QED
    BY <2>2, <2>3
<1>14. ASSUME NEW r \in Requests, Hydrate(r) PROVE SlotsBounded'
  <2>1. Active' \subseteq Active /\ Pending' \subseteq Pending
    BY <1>14 DEF Hydrate, Goto, Finish, RestoreEnds, TakeGate, storeVars,
       inputVars
  <2>2. QED
    BY <2>1, SlotsShrink
<1>15. ASSUME NEW r \in Requests, RestoreCommit(r) PROVE SlotsBounded'
  <2>1. Active' \subseteq Active /\ Pending' \subseteq Pending
    BY <1>15 DEF RestoreCommit, Goto, Finish, RestoreEnds, ReleaseGate,
       identity, storeVars, inputVars
  <2>2. QED
    BY <2>1, SlotsShrink
<1>16. ASSUME NEW r \in Requests, Replay(r) PROVE SlotsBounded'
  <2>1. Active' \subseteq Active /\ Pending' \subseteq Pending
    BY <1>16 DEF Replay, Goto, Finish, RestoreEnds, ReleaseGate, identity,
       flags, carrier, storeVars, inputVars
  <2>2. QED
    BY <2>1, SlotsShrink
<1>17. ASSUME NEW r \in Requests, AddressSession(r) PROVE SlotsBounded'
  <2>1. Active' \subseteq Active /\ Pending' \subseteq Pending
    BY <1>17 DEF AddressSession, Goto, Finish, Arrive, agentVars, objVars,
       identity, flags, carrier, storeVars
  <2>2. QED
    BY <2>1, SlotsShrink
<1>18. ASSUME NEW r \in Requests, Lookup(r) PROVE SlotsBounded'
  <2>1. Active' \subseteq Active /\ Pending' \subseteq Pending
    BY <1>18 DEF Lookup, Goto, Finish, agentVars, objVars, identity, flags,
       carrier, storeVars, inputVars
  <2>2. QED
    BY <2>1, SlotsShrink
<1>19. ASSUME NEW r \in Requests, Admit(r) PROVE SlotsBounded'
  <2>1. Active' \subseteq Active /\ Pending' \subseteq Pending
    BY <1>19 DEF Admit, Goto, Finish, Closing, agentVars, objVars, identity,
       flags, carrier, storeVars, inputVars
  <2>2. QED
    BY <2>1, SlotsShrink
<1>20. ASSUME NEW r \in Requests, AcquireGate(r) PROVE SlotsBounded'
  <2>1. Active' \subseteq Active /\ Pending' \subseteq Pending
    BY <1>20 DEF AcquireGate, Goto, Finish, TakeGate, Closing, agentVars,
       identity, flags, carrier, storeVars, inputVars
  <2>2. QED
    BY <2>1, SlotsShrink
<1>21. ASSUME NEW r \in Requests, InstallTurn(r) PROVE SlotsBounded'
  <2>1. Active' \subseteq Active /\ Pending' \subseteq Pending
    BY <1>21 DEF InstallTurn, Goto, Finish, ReleaseGate, Closing, agentVars,
       identity, carrier, storeVars, inputVars
  <2>2. QED
    BY <2>1, SlotsShrink
<1>22. ASSUME NEW r \in Requests, TurnNotStarted(r) PROVE SlotsBounded'
  <2>1. Active' \subseteq Active /\ Pending' \subseteq Pending
    BY <1>22 DEF TurnNotStarted, Finish, ReleaseGate, agentVars, identity,
       carrier, storeVars, inputVars
  <2>2. QED
    BY <2>1, SlotsShrink
<1>23. ASSUME NEW r \in Requests, NativeExit(r) PROVE SlotsBounded'
  <2>1. Active' \subseteq Active /\ Pending' \subseteq Pending
    BY <1>23 DEF NativeExit, Goto, agentVars, identity, carrier, storeVars,
       inputVars
  <2>2. QED
    BY <2>1, SlotsShrink
<1>24. ASSUME NEW r \in Requests, Settle(r) PROVE SlotsBounded'
  <2>1. Active' \subseteq Active /\ Pending' \subseteq Pending
    BY <1>24 DEF Settle, Goto, agentVars, identity, flags, storeVars,
       inputVars
  <2>2. QED
    BY <2>1, SlotsShrink
<1>25. ASSUME NEW r \in Requests, EndTurn(r) PROVE SlotsBounded'
  <2>1. Active' \subseteq Active /\ Pending' \subseteq Pending
    BY <1>25 DEF EndTurn, Finish, ReleaseGate, agentVars, identity, carrier,
       storeVars, inputVars
  <2>2. QED
    BY <2>1, SlotsShrink
<1>26. ASSUME NEW r \in Requests, ConfigCommit(r) PROVE SlotsBounded'
  <2>1. Active' \subseteq Active /\ Pending' \subseteq Pending
    BY <1>26 DEF ConfigCommit, Finish, ReleaseGate, agentVars, identity,
       flags, storeVars, inputVars
  <2>2. QED
    BY <2>1, SlotsShrink
<1>27. ASSUME NEW r \in Requests, CancelTurn(r) PROVE SlotsBounded'
  <2>1. Active' \subseteq Active /\ Pending' \subseteq Pending
    BY <1>27 DEF CancelTurn, Finish, agentVars, identity, carrier, storeVars,
       inputVars
  <2>2. QED
    BY <2>1, SlotsShrink
<1>28. ASSUME NEW r \in Requests, DeleteBegin(r) PROVE SlotsBounded'
  <2>1. Active' \subseteq Active /\ Pending' \subseteq Pending
    BY <1>28 DEF DeleteBegin, Goto, Finish, Arrive, agentVars, objVars,
       identity, flags, carrier, storeVars
  <2>2. QED
    BY <2>1, SlotsShrink
<1>29. ASSUME NEW r \in Requests, DeleteStore(r) PROVE SlotsBounded'
  <2>1. Active' \subseteq Active /\ Pending' \subseteq Pending
    BY <1>29 DEF DeleteStore, Goto, Finish, agentVars, objVars, identity,
       flags, carrier, inputVars
  <2>2. QED
    BY <2>1, SlotsShrink
<1>30. ASSUME NEW r \in Requests, DeleteMark(r) PROVE SlotsBounded'
  <2>1. Active' \subseteq Active /\ Pending' \subseteq Pending
    BY <1>30 DEF DeleteMark, Goto, Finish, objVars, identity, flags, carrier,
       storeVars, inputVars
  <2>2. QED
    BY <2>1, SlotsShrink
<1>31. ASSUME NEW r \in Requests, ShutdownBegin(r) PROVE SlotsBounded'
  <2>1. Active' \subseteq Active /\ Pending' \subseteq Pending
    BY <1>31 DEF ShutdownBegin, Goto, Finish, Arrive, objVars, identity,
       flags, carrier, storeVars, Active
  <2>2. QED
    BY <2>1, SlotsShrink
<1>32. ASSUME NEW r \in Requests, ShutdownNext(r) PROVE SlotsBounded'
  <2>1. Active' \subseteq Active /\ Pending' \subseteq Pending
    BY <1>32 DEF ShutdownNext, Goto, Finish, agentVars, objVars, identity,
       flags, carrier, storeVars, inputVars
  <2>2. QED
    BY <2>1, SlotsShrink
<1>33. ASSUME NEW r \in Requests, CloseBegin(r) PROVE SlotsBounded'
  <2>1. Active' \subseteq Active /\ Pending' \subseteq Pending
    BY <1>33 DEF CloseBegin, Goto, Closing, agentVars, identity, carrier,
       storeVars, inputVars
  <2>2. QED
    BY <2>1, SlotsShrink
<1>34. ASSUME NEW r \in Requests, CloseGate(r) PROVE SlotsBounded'
  <2>1. Active' \subseteq Active /\ Pending' \subseteq Pending
    BY <1>34 DEF CloseGate, Goto, TakeGate, agentVars, identity, flags,
       carrier, storeVars, inputVars
  <2>2. QED
    BY <2>1, SlotsShrink
<1>35. ASSUME NEW r \in Requests, CloseCommit(r) PROVE SlotsBounded'
  <2>1. Active' \subseteq Active /\ Pending' \subseteq Pending
    BY <1>35 DEF CloseCommit, Goto, agentVars, identity, storeVars, inputVars
  <2>2. QED
    BY <2>1, SlotsShrink
<1>36. ASSUME NEW r \in Requests, CloseRelease(r) PROVE SlotsBounded'
  <2>1. Active' \subseteq Active /\ Pending' \subseteq Pending
    BY <1>36 DEF CloseRelease, Goto, ReleaseGate, agentVars, identity, flags,
       carrier, storeVars, inputVars
  <2>2. QED
    BY <2>1, SlotsShrink
<1>37. ASSUME NEW r \in Requests, CloseWait(r) PROVE SlotsBounded'
  <2>1. Active' \subseteq Active /\ Pending' \subseteq Pending
    BY <1>37 DEF CloseWait, Goto, agentVars, objVars, identity, flags,
       carrier, storeVars, inputVars
  <2>2. QED
    BY <2>1, SlotsShrink
<1>38. ASSUME NEW r \in Requests, Detach(r) PROVE SlotsBounded'
  <2>1. Active' \subseteq Active /\ Pending' \subseteq Pending
    BY <1>38 DEF Detach, Goto, Finish, Detached, objVars, identity, flags,
       carrier, storeVars, inputVars
  <2>2. QED
    BY <2>1, SlotsShrink
<1>39. CASE UNCHANGED vars
  <2>1. Active' \subseteq Active /\ Pending' \subseteq Pending
    BY <1>39 DEF vars, agentVars, objVars, identity, flags, carrier,
       storeVars, inputVars
  <2>2. QED
    BY <2>1, SlotsShrink
<1>40. QED
  BY <1>1, <1>2, <1>3, <1>4, <1>5, <1>6, <1>7, <1>8, <1>9, <1>10, <1>11,
     <1>12, <1>13, <1>14, <1>15, <1>16, <1>17, <1>18, <1>19, <1>20, <1>21,
     <1>22, <1>23, <1>24, <1>25, <1>26, <1>27, <1>28, <1>29, <1>30, <1>31,
     <1>32, <1>33, <1>34, <1>35, <1>36, <1>37, <1>38, <1>39 DEF Next, Begin,
     Handle, TurnEnds, Quiescent

\* The agent starts without sessions, claims or requests.
LEMMA ClaimsInit == Init => ClaimsInv
<1> SUFFICES ASSUME Init PROVE ClaimsInv
  OBVIOUS
<1>1. IInv
  BY IInvInit
<1>2. LifeOK /\ RegisteredOK /\ RestoreOK /\ NewOK /\ ResultOK
  BY RequestsAssumption DEF Init, LifeOK, RegisteredOK, RestoreOK, Restoring,
     NewOK, ResultOK, ObjectLabels, GateLabels
<1>3. DeleteOK /\ ShutdownOK /\ SlotOK /\ OneObjectPerThread
  BY DEF Init, DeleteOK, ShutdownOK, Shutting, SlotOK, OneObjectPerThread
<1>4. SlotsBounded
  <2>1. Active = {} /\ Pending = {}
    BY <1>1 DEF Init, Active, Pending
  <2>2. Cardinality({}) = 0
    BY FS_EmptySet
  <2>3. QED
    BY <2>1, <2>2, MaxActiveAssumption DEF SlotsBounded, Pending
<1>5. QED
  BY <1>1, <1>2, <1>3, <1>4 DEF ClaimsInv

\* Every step keeps it.
LEMMA ClaimsStep == ClaimsInv /\ [Next]_vars => ClaimsInv'
<1> SUFFICES ASSUME ClaimsInv, [Next]_vars PROVE ClaimsInv'
  OBVIOUS
<1>1. IInv' /\ LifeOK' /\ RegisteredOK'
  BY IInvStep, LifeStep, RegisteredStep DEF ClaimsInv
<1>2. RestoreOK' /\ NewOK' /\ ResultOK'
  BY RestoreStep, NewStep, ResultStep DEF ClaimsInv
<1>3. DeleteOK' /\ ShutdownOK' /\ SlotOK'
  BY DeleteStep, ShutdownStep, SlotStep DEF ClaimsInv
<1>4. OneObjectPerThread' /\ SlotsBounded'
  BY UniqueStep, SlotsStep DEF ClaimsInv
<1>5. QED
  BY <1>1, <1>2, <1>3, <1>4 DEF ClaimsInv

\* So it holds in every reachable state.
LEMMA ClaimsInductive == Spec => []ClaimsInv
<1>1. QED
  BY ClaimsInit, ClaimsStep, PTL DEF Spec

\* For any number of restores, new sessions and closers, no two objects work on
\* one native thread (restores.Acquire, install, detach).
THEOREM OneObject == Spec => []OneObjectPerThread
<1>1. ClaimsInv => OneObjectPerThread
  BY DEF ClaimsInv
<1>2. QED
  BY <1>1, ClaimsInductive, PTL

\* No late closer evicts a successor: a live session is always reachable under
\* its id (detach).
THEOREM LiveStaysRegistered == Spec => []LiveIsRegistered
<1>1. ClaimsInv => LiveIsRegistered
  BY DEF ClaimsInv, RegisteredOK, LiveIsRegistered
<1>2. QED
  BY <1>1, ClaimsInductive, PTL

\* The active-session limit holds through every hand-over of a slot, for any
\* limit (reserveSlot, install, releaseSlot).
THEOREM LimitHolds == Spec => []SlotsBounded
<1>1. ClaimsInv => SlotsBounded
  BY DEF ClaimsInv
<1>2. QED
  BY <1>1, ClaimsInductive, PTL

\* When Agent.Close returns to its first caller nothing is left open, whatever
\* was being established at the time (Agent.Close, install).
THEOREM CloseIsFinal == Spec => []ShutdownLeavesNothing
<1>1. ClaimsInv => ShutdownLeavesNothing
  <2> SUFFICES ASSUME ClaimsInv, NEW r \in Requests, kind[r] = "shutdown", result[r] = "ok"
               PROVE  /\ \A i \in Ids : sessions[i] = None
                      /\ \A o \in Requests : life[o] \notin {"live", "closing"}
    BY DEF ShutdownLeavesNothing
  <2>1. pc[r] = "done"
    BY DEF ClaimsInv, ResultOK
  <2>2. \A i \in Ids : sessions[i] = None
    BY <2>1 DEF ClaimsInv, ShutdownOK, Shutting
  <2>3. ASSUME NEW o \in Requests, life[o] \in {"live", "closing"} PROVE FALSE
    <3>1. sid[o] \in Ids /\ sessions[sid[o]] = o
      BY <2>3 DEF ClaimsInv, RegisteredOK, IInv, TypeOK, BuiltOK
    <3>2. QED
      BY <2>2, <3>1, RequestsAssumption
  <2>4. QED
    BY <2>2, <2>3
<1>2. QED
  BY <1>1, ClaimsInductive, PTL
============================================================================
