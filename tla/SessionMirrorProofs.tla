------------------------ MODULE SessionMirrorProofs ------------------------
(***************************************************************************)
(* What reaches the session store, for any number of requests and ids: the *)
(* store implements DurableMirror, a delete is final, an ephemeral session *)
(* stays out, a close that succeeds leaves nothing behind, and a list      *)
(* misses no stored session.                                               *)
(***************************************************************************)
EXTENDS SessionList, SessionClaimsProofs

\* The thread of an ephemeral session is no other object's, restores included.
EphemeralOK ==
  /\ \A o \in Requests :
       /\ kind[o] # "new" => ~eph[o]
       /\ life[o] = "none" => sid[o] = None
  /\ \A o, p \in Requests : eph[p] /\ sid[p] # None /\ o # p => sid[o] # sid[p]
  /\ \A r \in Requests :
       pc[r] \in {"active_commit", "restore_reserve", "hydrate", "restore_commit"} =>
         \A o \in Requests : eph[o] => sid[o] # target[r]
  /\ \A i \in ephemeral : \E o \in Requests : eph[o] /\ sid[o] = i

\* A delete that skipped the store names an ephemeral session.
Erased(i) == store[i] = "tombstone" \/ \E o \in Requests : eph[o] /\ sid[o] = i

ErasedOK ==
  \A r \in Requests :
    kind[r] = "delete" /\ (pc[r] \in {"delete_mark"} \cup CloseLabels \/ result[r] = "ok")
      => Erased(target[r])

\* The generations: an object in use is between the store and the thread.
RowsOK ==
  /\ \A i \in Ids :
       /\ durable[i] <= thread[i]
       /\ store[i] = "absent" => durable[i] = 0
  /\ \A o \in Requests :
       /\ life[o] = "none" => rows[o] = 0 /\ ~persisted[o]
       /\ sid[o] # None => rows[o] <= thread[sid[o]]
       /\ life[o] \in InUse => durable[sid[o]] <= rows[o]
       /\ persisted[o] => ~eph[o] /\ store[sid[o]] # "absent"

\* The inductive invariant, on top of the one for the claims.
MirrorInv ==
  ClaimsInv /\ EphemeralOK /\ EphemeralNotStored /\ ErasedOK /\ RowsOK /\ CloseFlushes

----------------------------------------------------------------------------
\* Only the creating request makes an ephemeral session, on a fresh thread, and
\* no restore reaches an id the store does not hold.
LEMMA EphemeralStep ==
  ASSUME ClaimsInv, EphemeralOK, EphemeralNotStored, [Next]_vars
  PROVE  EphemeralOK'
<1> USE RequestsAssumption, IdsAssumption DEF IInv, TypeOK, AgentTypes,
       ObjectTypes, RequestTypes, StoreTypes, ClaimsInv, PositionOK,
       ObjectLabels, BuilderLabels, EmptyLabels, CloseLabels, RestoreLabels,
       EphemeralOK
<1>1. ASSUME NEW r \in Requests, NewReserve(r) PROVE EphemeralOK'
  <2>1. life[r] = "none" /\ kind[r] = "none" /\ sid[r] = None /\ ~eph[r]
    BY <1>1 DEF NewReserve, Arrive, BuilderOK, BuiltOK, LifeOK, ResultOK,
       EphemeralOK
  <2>2. QED
    BY <1>1, <2>1, SMTT(60) DEF NewReserve, Goto, Finish, Arrive, flags,
       carrier, storeVars, Active
<1>2. ASSUME NEW r \in Requests, NewCreate(r) PROVE EphemeralOK'
  <2>1. kind[r] = "new" /\ life[r] = "none" /\ sid[r] = None
    BY <1>2 DEF NewCreate, BuilderOK, BuiltOK, LifeOK, ResultOK, EphemeralOK
  <2>2. \A o \in Requests :
           /\ kind'[o] # "new" => ~eph'[o]
           /\ life'[o] = "none" => sid'[o] = None
    BY <1>2, <2>1 DEF NewCreate, Goto, Finish, TakeGate, Fresh, Known,
       carrier, storeVars, inputVars
  <2>3. \A o, p \in Requests : eph'[p] /\ sid'[p] # None /\ o # p => sid'[o] # sid'[p]
    BY <1>2, <2>1 DEF NewCreate, Goto, Finish, TakeGate, Fresh, Known,
       carrier, storeVars, inputVars
  <2>4. \A q \in Requests :
           pc'[q] \in {"active_commit", "restore_reserve", "hydrate", "restore_commit"} =>
             \A o \in Requests : eph'[o] => sid'[o] # target'[q]
    BY <1>2, <2>1 DEF NewCreate, Goto, Finish, TakeGate, Fresh, Known,
       carrier, storeVars, inputVars
  <2>5. \A i \in ephemeral' : \E o \in Requests : eph'[o] /\ sid'[o] = i
    BY <1>2, <2>1 DEF NewCreate, Goto, Finish, TakeGate, Fresh, Known,
       carrier, storeVars, inputVars
  <2>6. QED
    BY <2>2, <2>3, <2>4, <2>5 DEF EphemeralOK
<1>3. ASSUME NEW r \in Requests, Install(r) PROVE EphemeralOK'
  BY <1>3 DEF Install, Goto, Finish, ReleaseGate, RestoreClaims, identity,
     carrier, storeVars, inputVars, LifeOK
<1>4. ASSUME NEW r \in Requests, ReleaseSlot(r) PROVE EphemeralOK'
  BY <1>4 DEF ReleaseSlot, Goto, objVars, identity, flags, carrier, storeVars,
     inputVars
<1>5. ASSUME NEW r \in Requests, NewCommit(r) PROVE EphemeralOK'
  BY <1>5 DEF NewCommit, Goto, Finish, ReleaseGate, agentVars, identity,
     flags, storeVars, inputVars
<1>6. ASSUME NEW r \in Requests, RestoreBegin(r) PROVE EphemeralOK'
  <2>1. life[r] = "none" /\ kind[r] = "none" /\ sid[r] = None /\ ~eph[r]
    BY <1>6 DEF RestoreBegin, Arrive, BuilderOK, BuiltOK, LifeOK, ResultOK,
       EphemeralOK
  <2>2. QED
    BY <1>6, <2>1 DEF RestoreBegin, Goto, Finish, Arrive, Known, objVars,
       identity, flags, carrier, storeVars
<1>7. ASSUME NEW r \in Requests, RestoreLookup(r) PROVE EphemeralOK'
  BY <1>7 DEF RestoreLookup, Goto, Finish, RestoreEnds, objVars, identity,
     flags, carrier, storeVars, inputVars
<1>8. ASSUME NEW r \in Requests, RestoreGate(r) PROVE EphemeralOK'
  BY <1>8 DEF RestoreGate, Goto, Finish, RestoreEnds, TakeGate, Closing,
     identity, flags, carrier, storeVars, inputVars
<1>9. ASSUME NEW r \in Requests, RestoreCarrier(r) PROVE EphemeralOK'
  BY <1>9 DEF RestoreCarrier, Goto, Finish, RestoreEnds, ReleaseGate, Closing,
     identity, flags, carrier, storeVars, inputVars
<1>10. ASSUME NEW r \in Requests, ActiveLoad(r) PROVE EphemeralOK'
  BY <1>10 DEF ActiveLoad, Goto, Finish, RestoreEnds, ReleaseGate, identity,
     flags, carrier, storeVars, inputVars, EphemeralNotStored
<1>11. ASSUME NEW r \in Requests, ActiveCommit(r) PROVE EphemeralOK'
  BY <1>11 DEF ActiveCommit, Goto, Finish, RestoreEnds, ReleaseGate,
     CommitMirror, identity, flags, storeVars, inputVars
<1>12. ASSUME NEW r \in Requests, RestoreLoad(r) PROVE EphemeralOK'
  BY <1>12 DEF RestoreLoad, Goto, Finish, RestoreEnds, objVars, identity,
     flags, carrier, storeVars, inputVars, EphemeralNotStored
<1>13. ASSUME NEW r \in Requests, RestoreReserve(r) PROVE EphemeralOK'
  BY <1>13 DEF RestoreReserve, Goto, Finish, RestoreEnds, objVars, identity,
     flags, carrier, storeVars, inputVars, Active
<1>14. ASSUME NEW r \in Requests, Hydrate(r) PROVE EphemeralOK'
  <2>1. kind[r] = "restore" /\ target[r] \in Ids /\ ~eph[r] /\ sid[r] = None
    BY <1>14 DEF Hydrate, BuilderOK, BuiltOK, LifeOK, ResultOK, EphemeralOK
  <2>2. \A o \in Requests : eph[o] => sid[o] # target[r]
    BY <1>14 DEF Hydrate, EphemeralOK
  <2>3. \A o \in Requests :
           /\ kind'[o] # "new" => ~eph'[o]
           /\ life'[o] = "none" => sid'[o] = None
    BY <1>14, <2>1, <2>2 DEF Hydrate, Goto, Finish, RestoreEnds, TakeGate,
       storeVars, inputVars
  <2>4. \A o, p \in Requests : eph'[p] /\ sid'[p] # None /\ o # p => sid'[o] # sid'[p]
    BY <1>14, <2>1, <2>2 DEF Hydrate, Goto, Finish, RestoreEnds, TakeGate,
       storeVars, inputVars
  <2>5. \A q \in Requests :
           pc'[q] \in {"active_commit", "restore_reserve", "hydrate", "restore_commit"} =>
             \A o \in Requests : eph'[o] => sid'[o] # target'[q]
    BY <1>14, <2>1, <2>2 DEF Hydrate, Goto, Finish, RestoreEnds, TakeGate,
       storeVars, inputVars
  <2>6. \A i \in ephemeral' : \E o \in Requests : eph'[o] /\ sid'[o] = i
    BY <1>14, <2>1, <2>2 DEF Hydrate, Goto, Finish, RestoreEnds, TakeGate,
       storeVars, inputVars
  <2>7. QED
    BY <2>3, <2>4, <2>5, <2>6 DEF EphemeralOK
<1>15. ASSUME NEW r \in Requests, RestoreCommit(r) PROVE EphemeralOK'
  BY <1>15, SMTT(60) DEF RestoreCommit, Goto, Finish, RestoreEnds,
     ReleaseGate, identity, storeVars, inputVars, LifeOK
<1>16. ASSUME NEW r \in Requests, Replay(r) PROVE EphemeralOK'
  BY <1>16 DEF Replay, Goto, Finish, RestoreEnds, ReleaseGate, identity,
     flags, carrier, storeVars, inputVars
<1>17. ASSUME NEW r \in Requests, AddressSession(r) PROVE EphemeralOK'
  <2>1. life[r] = "none" /\ kind[r] = "none" /\ sid[r] = None /\ ~eph[r]
    BY <1>17 DEF AddressSession, Arrive, BuilderOK, BuiltOK, LifeOK, ResultOK,
       EphemeralOK
  <2>2. QED
    BY <1>17, <2>1 DEF AddressSession, Goto, Finish, Arrive, Known, agentVars,
       objVars, identity, flags, carrier, storeVars
<1>18. ASSUME NEW r \in Requests, Lookup(r) PROVE EphemeralOK'
  BY <1>18 DEF Lookup, Goto, Finish, agentVars, objVars, identity, flags,
     carrier, storeVars, inputVars
<1>19. ASSUME NEW r \in Requests, Admit(r) PROVE EphemeralOK'
  BY <1>19 DEF Admit, Goto, Finish, Closing, agentVars, objVars, identity,
     flags, carrier, storeVars, inputVars
<1>20. ASSUME NEW r \in Requests, AcquireGate(r) PROVE EphemeralOK'
  BY <1>20 DEF AcquireGate, Goto, Finish, TakeGate, Closing, agentVars,
     identity, flags, carrier, storeVars, inputVars
<1>21. ASSUME NEW r \in Requests, InstallTurn(r) PROVE EphemeralOK'
  BY <1>21 DEF InstallTurn, Goto, Finish, ReleaseGate, Closing, agentVars,
     identity, carrier, storeVars, inputVars
<1>22. ASSUME NEW r \in Requests, TurnNotStarted(r) PROVE EphemeralOK'
  BY <1>22 DEF TurnNotStarted, Finish, ReleaseGate, agentVars, identity,
     carrier, storeVars, inputVars
<1>23. ASSUME NEW r \in Requests, NativeExit(r) PROVE EphemeralOK'
  BY <1>23 DEF NativeExit, Goto, agentVars, identity, carrier, storeVars,
     inputVars
<1>24. ASSUME NEW r \in Requests, Settle(r) PROVE EphemeralOK'
  BY <1>24 DEF Settle, Goto, agentVars, identity, flags, storeVars, inputVars
<1>25. ASSUME NEW r \in Requests, EndTurn(r) PROVE EphemeralOK'
  BY <1>25 DEF EndTurn, Finish, ReleaseGate, agentVars, identity, carrier,
     storeVars, inputVars
<1>26. ASSUME NEW r \in Requests, ConfigCommit(r) PROVE EphemeralOK'
  BY <1>26 DEF ConfigCommit, Finish, ReleaseGate, agentVars, identity, flags,
     storeVars, inputVars
<1>27. ASSUME NEW r \in Requests, CancelTurn(r) PROVE EphemeralOK'
  BY <1>27 DEF CancelTurn, Finish, agentVars, identity, carrier, storeVars,
     inputVars
<1>28. ASSUME NEW r \in Requests, DeleteBegin(r) PROVE EphemeralOK'
  <2>1. life[r] = "none" /\ kind[r] = "none" /\ sid[r] = None /\ ~eph[r]
    BY <1>28 DEF DeleteBegin, Arrive, BuilderOK, BuiltOK, LifeOK, ResultOK,
       EphemeralOK
  <2>2. QED
    BY <1>28, <2>1 DEF DeleteBegin, Goto, Finish, Arrive, Known, agentVars,
       objVars, identity, flags, carrier, storeVars
<1>29. ASSUME NEW r \in Requests, DeleteStore(r) PROVE EphemeralOK'
  BY <1>29 DEF DeleteStore, Goto, Finish, agentVars, objVars, identity, flags,
     carrier, inputVars
<1>30. ASSUME NEW r \in Requests, DeleteMark(r) PROVE EphemeralOK'
  BY <1>30 DEF DeleteMark, Goto, Finish, objVars, identity, flags, carrier,
     storeVars, inputVars
<1>31. ASSUME NEW r \in Requests, ShutdownBegin(r) PROVE EphemeralOK'
  <2>1. life[r] = "none" /\ kind[r] = "none" /\ sid[r] = None /\ ~eph[r]
    BY <1>31 DEF ShutdownBegin, Arrive, BuilderOK, BuiltOK, LifeOK, ResultOK,
       EphemeralOK
  <2>2. QED
    BY <1>31, <2>1 DEF ShutdownBegin, Goto, Finish, Arrive, objVars, identity,
       flags, carrier, storeVars, Active
<1>32. ASSUME NEW r \in Requests, ShutdownNext(r) PROVE EphemeralOK'
  BY <1>32 DEF ShutdownNext, Goto, Finish, agentVars, objVars, identity,
     flags, carrier, storeVars, inputVars
<1>33. ASSUME NEW r \in Requests, CloseBegin(r) PROVE EphemeralOK'
  BY <1>33 DEF CloseBegin, Goto, Closing, agentVars, identity, carrier,
     storeVars, inputVars, LifeOK, Opened
<1>34. ASSUME NEW r \in Requests, CloseGate(r) PROVE EphemeralOK'
  BY <1>34 DEF CloseGate, Goto, TakeGate, agentVars, identity, flags, carrier,
     storeVars, inputVars
<1>35. ASSUME NEW r \in Requests, CloseCommit(r) PROVE EphemeralOK'
  BY <1>35 DEF CloseCommit, Goto, agentVars, identity, storeVars, inputVars,
     LifeOK, Opened
<1>36. ASSUME NEW r \in Requests, CloseRelease(r) PROVE EphemeralOK'
  BY <1>36 DEF CloseRelease, Goto, ReleaseGate, agentVars, identity, flags,
     carrier, storeVars, inputVars
<1>37. ASSUME NEW r \in Requests, CloseWait(r) PROVE EphemeralOK'
  BY <1>37 DEF CloseWait, Goto, agentVars, objVars, identity, flags, carrier,
     storeVars, inputVars
<1>38. ASSUME NEW r \in Requests, Detach(r) PROVE EphemeralOK'
  BY <1>38 DEF Detach, Goto, Finish, Detached, objVars, identity, flags,
     carrier, storeVars, inputVars
<1>39. CASE UNCHANGED vars
  BY <1>39 DEF vars, agentVars, objVars, identity, flags, carrier, storeVars,
     inputVars
<1>40. QED
  BY <1>1, <1>2, <1>3, <1>4, <1>5, <1>6, <1>7, <1>8, <1>9, <1>10, <1>11,
     <1>12, <1>13, <1>14, <1>15, <1>16, <1>17, <1>18, <1>19, <1>20, <1>21,
     <1>22, <1>23, <1>24, <1>25, <1>26, <1>27, <1>28, <1>29, <1>30, <1>31,
     <1>32, <1>33, <1>34, <1>35, <1>36, <1>37, <1>38, <1>39 DEF Next, Begin,
     Handle, TurnEnds, Quiescent

\* A commit of an ephemeral session writes nothing, and no other object commits
\* its thread.
LEMMA NotStoredStep ==
  ASSUME ClaimsInv, EphemeralOK, EphemeralNotStored, [Next]_vars
  PROVE  EphemeralNotStored'
<1> USE RequestsAssumption, IdsAssumption DEF IInv, TypeOK, AgentTypes,
       ObjectTypes, RequestTypes, StoreTypes, ClaimsInv, PositionOK,
       ObjectLabels, BuilderLabels, EmptyLabels, CloseLabels, RestoreLabels,
       BuiltOK, LifeOK, RestoreOK, Restoring, Opened, EphemeralOK,
       EphemeralNotStored
<1>1. ASSUME NEW r \in Requests, NewReserve(r) PROVE EphemeralNotStored'
  <2>1. life[r] = "none" /\ kind[r] = "none" /\ sid[r] = None /\ ~eph[r]
    BY <1>1 DEF NewReserve, Arrive, BuilderOK, BuiltOK, LifeOK, ResultOK,
       EphemeralOK
  <2>2. QED
    BY <1>1, <2>1 DEF NewReserve, Goto, Finish, Arrive, flags, carrier,
       storeVars, Active
<1>2. ASSUME NEW r \in Requests, NewCreate(r) PROVE EphemeralNotStored'
  BY <1>2 DEF NewCreate, Goto, Finish, TakeGate, Fresh, Known, carrier,
     storeVars, inputVars
<1>3. ASSUME NEW r \in Requests, Install(r) PROVE EphemeralNotStored'
  BY <1>3 DEF Install, Goto, Finish, ReleaseGate, RestoreClaims, identity,
     carrier, storeVars, inputVars
<1>4. ASSUME NEW r \in Requests, ReleaseSlot(r) PROVE EphemeralNotStored'
  BY <1>4 DEF ReleaseSlot, Goto, objVars, identity, flags, carrier, storeVars,
     inputVars
<1>5. ASSUME NEW r \in Requests, NewCommit(r) PROVE EphemeralNotStored'
  BY <1>5 DEF NewCommit, Goto, Finish, ReleaseGate, CommitMirror, agentVars,
     identity, flags, storeVars, inputVars
<1>6. ASSUME NEW r \in Requests, RestoreBegin(r) PROVE EphemeralNotStored'
  BY <1>6 DEF RestoreBegin, Goto, Finish, Arrive, Known, objVars, identity,
     flags, carrier, storeVars
<1>7. ASSUME NEW r \in Requests, RestoreLookup(r) PROVE EphemeralNotStored'
  BY <1>7 DEF RestoreLookup, Goto, Finish, RestoreEnds, objVars, identity,
     flags, carrier, storeVars, inputVars
<1>8. ASSUME NEW r \in Requests, RestoreGate(r) PROVE EphemeralNotStored'
  BY <1>8 DEF RestoreGate, Goto, Finish, RestoreEnds, TakeGate, Closing,
     identity, flags, carrier, storeVars, inputVars
<1>9. ASSUME NEW r \in Requests, RestoreCarrier(r) PROVE EphemeralNotStored'
  BY <1>9 DEF RestoreCarrier, Goto, Finish, RestoreEnds, ReleaseGate, Closing,
     identity, flags, carrier, storeVars, inputVars
<1>10. ASSUME NEW r \in Requests, ActiveLoad(r) PROVE EphemeralNotStored'
  BY <1>10 DEF ActiveLoad, Goto, Finish, RestoreEnds, ReleaseGate, identity,
     flags, carrier, storeVars, inputVars
<1>11. ASSUME NEW r \in Requests, ActiveCommit(r) PROVE EphemeralNotStored'
  BY <1>11 DEF ActiveCommit, Goto, Finish, RestoreEnds, ReleaseGate,
     CommitMirror, identity, flags, storeVars, inputVars
<1>12. ASSUME NEW r \in Requests, RestoreLoad(r) PROVE EphemeralNotStored'
  BY <1>12 DEF RestoreLoad, Goto, Finish, RestoreEnds, objVars, identity,
     flags, carrier, storeVars, inputVars
<1>13. ASSUME NEW r \in Requests, RestoreReserve(r) PROVE EphemeralNotStored'
  BY <1>13 DEF RestoreReserve, Goto, Finish, RestoreEnds, objVars, identity,
     flags, carrier, storeVars, inputVars, Active
<1>14. ASSUME NEW r \in Requests, Hydrate(r) PROVE EphemeralNotStored'
  BY <1>14, SMTT(60) DEF Hydrate, Goto, Finish, RestoreEnds, TakeGate,
     storeVars, inputVars
<1>15. ASSUME NEW r \in Requests, RestoreCommit(r) PROVE EphemeralNotStored'
  BY <1>15 DEF RestoreCommit, Goto, Finish, RestoreEnds, ReleaseGate,
     CommitMirror, identity, storeVars, inputVars
<1>16. ASSUME NEW r \in Requests, Replay(r) PROVE EphemeralNotStored'
  BY <1>16 DEF Replay, Goto, Finish, RestoreEnds, ReleaseGate, identity,
     flags, carrier, storeVars, inputVars
<1>17. ASSUME NEW r \in Requests, AddressSession(r) PROVE EphemeralNotStored'
  BY <1>17 DEF AddressSession, Goto, Finish, Arrive, Known, agentVars,
     objVars, identity, flags, carrier, storeVars
<1>18. ASSUME NEW r \in Requests, Lookup(r) PROVE EphemeralNotStored'
  BY <1>18 DEF Lookup, Goto, Finish, agentVars, objVars, identity, flags,
     carrier, storeVars, inputVars
<1>19. ASSUME NEW r \in Requests, Admit(r) PROVE EphemeralNotStored'
  BY <1>19 DEF Admit, Goto, Finish, Closing, agentVars, objVars, identity,
     flags, carrier, storeVars, inputVars
<1>20. ASSUME NEW r \in Requests, AcquireGate(r) PROVE EphemeralNotStored'
  BY <1>20 DEF AcquireGate, Goto, Finish, TakeGate, Closing, agentVars,
     identity, flags, carrier, storeVars, inputVars
<1>21. ASSUME NEW r \in Requests, InstallTurn(r) PROVE EphemeralNotStored'
  BY <1>21 DEF InstallTurn, Goto, Finish, ReleaseGate, Closing, agentVars,
     identity, carrier, storeVars, inputVars
<1>22. ASSUME NEW r \in Requests, TurnNotStarted(r) PROVE EphemeralNotStored'
  BY <1>22 DEF TurnNotStarted, Finish, ReleaseGate, agentVars, identity,
     carrier, storeVars, inputVars
<1>23. ASSUME NEW r \in Requests, NativeExit(r) PROVE EphemeralNotStored'
  BY <1>23 DEF NativeExit, Goto, agentVars, identity, carrier, storeVars,
     inputVars
<1>24. ASSUME NEW r \in Requests, Settle(r) PROVE EphemeralNotStored'
  BY <1>24 DEF Settle, Goto, CommitMirror, agentVars, identity, flags,
     storeVars, inputVars
<1>25. ASSUME NEW r \in Requests, EndTurn(r) PROVE EphemeralNotStored'
  BY <1>25 DEF EndTurn, Finish, ReleaseGate, agentVars, identity, carrier,
     storeVars, inputVars
<1>26. ASSUME NEW r \in Requests, ConfigCommit(r) PROVE EphemeralNotStored'
  BY <1>26 DEF ConfigCommit, Finish, ReleaseGate, CommitMirror, agentVars,
     identity, flags, storeVars, inputVars
<1>27. ASSUME NEW r \in Requests, CancelTurn(r) PROVE EphemeralNotStored'
  BY <1>27 DEF CancelTurn, Finish, agentVars, identity, carrier, storeVars,
     inputVars
<1>28. ASSUME NEW r \in Requests, DeleteBegin(r) PROVE EphemeralNotStored'
  BY <1>28 DEF DeleteBegin, Goto, Finish, Arrive, Known, agentVars, objVars,
     identity, flags, carrier, storeVars
<1>29. ASSUME NEW r \in Requests, DeleteStore(r) PROVE EphemeralNotStored'
  BY <1>29 DEF DeleteStore, Goto, Finish, agentVars, objVars, identity, flags,
     carrier, inputVars
<1>30. ASSUME NEW r \in Requests, DeleteMark(r) PROVE EphemeralNotStored'
  BY <1>30 DEF DeleteMark, Goto, Finish, objVars, identity, flags, carrier,
     storeVars, inputVars
<1>31. ASSUME NEW r \in Requests, ShutdownBegin(r) PROVE EphemeralNotStored'
  BY <1>31 DEF ShutdownBegin, Goto, Finish, Arrive, objVars, identity, flags,
     carrier, storeVars, Active
<1>32. ASSUME NEW r \in Requests, ShutdownNext(r) PROVE EphemeralNotStored'
  BY <1>32 DEF ShutdownNext, Goto, Finish, agentVars, objVars, identity,
     flags, carrier, storeVars, inputVars
<1>33. ASSUME NEW r \in Requests, CloseBegin(r) PROVE EphemeralNotStored'
  BY <1>33 DEF CloseBegin, Goto, Closing, agentVars, identity, carrier,
     storeVars, inputVars
<1>34. ASSUME NEW r \in Requests, CloseGate(r) PROVE EphemeralNotStored'
  BY <1>34 DEF CloseGate, Goto, TakeGate, agentVars, identity, flags, carrier,
     storeVars, inputVars
<1>35. ASSUME NEW r \in Requests, CloseCommit(r) PROVE EphemeralNotStored'
  BY <1>35 DEF CloseCommit, Goto, CommitMirror, agentVars, identity,
     storeVars, inputVars
<1>36. ASSUME NEW r \in Requests, CloseRelease(r) PROVE EphemeralNotStored'
  BY <1>36 DEF CloseRelease, Goto, ReleaseGate, agentVars, identity, flags,
     carrier, storeVars, inputVars
<1>37. ASSUME NEW r \in Requests, CloseWait(r) PROVE EphemeralNotStored'
  BY <1>37 DEF CloseWait, Goto, agentVars, objVars, identity, flags, carrier,
     storeVars, inputVars
<1>38. ASSUME NEW r \in Requests, Detach(r) PROVE EphemeralNotStored'
  BY <1>38 DEF Detach, Goto, Finish, Detached, objVars, identity, flags,
     carrier, storeVars, inputVars
<1>39. CASE UNCHANGED vars
  BY <1>39 DEF vars, agentVars, objVars, identity, flags, carrier, storeVars,
     inputVars
<1>40. QED
  BY <1>1, <1>2, <1>3, <1>4, <1>5, <1>6, <1>7, <1>8, <1>9, <1>10, <1>11,
     <1>12, <1>13, <1>14, <1>15, <1>16, <1>17, <1>18, <1>19, <1>20, <1>21,
     <1>22, <1>23, <1>24, <1>25, <1>26, <1>27, <1>28, <1>29, <1>30, <1>31,
     <1>32, <1>33, <1>34, <1>35, <1>36, <1>37, <1>38, <1>39 DEF Next, Begin,
     Handle, TurnEnds, Quiescent

\* A tombstone and the thread of an ephemeral session stay what they are.
LEMMA ErasedStays ==
  ASSUME ClaimsInv, EphemeralOK, NEW i \in Ids, Erased(i), [Next]_vars
  PROVE  Erased(i)'
<1> USE RequestsAssumption, IdsAssumption DEF IInv, TypeOK, AgentTypes,
       ObjectTypes, RequestTypes, StoreTypes, ClaimsInv, PositionOK, Erased,
       ObjectLabels, BuilderLabels, EmptyLabels, CloseLabels, RestoreLabels
<1>1. ASSUME NEW r \in Requests, NewReserve(r) PROVE Erased(i)'
  <2>1. life[r] = "none" /\ sid[r] = None
    BY <1>1 DEF NewReserve, Arrive, BuilderOK, BuiltOK, LifeOK, ResultOK,
       EphemeralOK
  <2>2. QED
    BY <1>1, <2>1 DEF NewReserve, Goto, Finish, Arrive, flags, carrier,
       storeVars, Active
<1>2. ASSUME NEW r \in Requests, NewCreate(r) PROVE Erased(i)'
  <2>1. life[r] = "none" /\ sid[r] = None
    BY <1>2 DEF NewCreate, Arrive, BuilderOK, BuiltOK, LifeOK, ResultOK,
       EphemeralOK
  <2>2. QED
    BY <1>2, <2>1 DEF NewCreate, Goto, Finish, TakeGate, carrier, storeVars,
       inputVars
<1>3. ASSUME NEW r \in Requests, Install(r) PROVE Erased(i)'
  BY <1>3 DEF Install, Goto, Finish, ReleaseGate, RestoreClaims, identity,
     carrier, storeVars, inputVars
<1>4. ASSUME NEW r \in Requests, ReleaseSlot(r) PROVE Erased(i)'
  BY <1>4 DEF ReleaseSlot, Goto, objVars, identity, flags, carrier, storeVars,
     inputVars
<1>5. ASSUME NEW r \in Requests, NewCommit(r) PROVE Erased(i)'
  BY <1>5 DEF NewCommit, Goto, Finish, ReleaseGate, CommitMirror, agentVars,
     identity, flags, storeVars, inputVars
<1>6. ASSUME NEW r \in Requests, RestoreBegin(r) PROVE Erased(i)'
  BY <1>6 DEF RestoreBegin, Goto, Finish, Arrive, objVars, identity, flags,
     carrier, storeVars
<1>7. ASSUME NEW r \in Requests, RestoreLookup(r) PROVE Erased(i)'
  BY <1>7 DEF RestoreLookup, Goto, Finish, RestoreEnds, objVars, identity,
     flags, carrier, storeVars, inputVars
<1>8. ASSUME NEW r \in Requests, RestoreGate(r) PROVE Erased(i)'
  BY <1>8 DEF RestoreGate, Goto, Finish, RestoreEnds, TakeGate, Closing,
     identity, flags, carrier, storeVars, inputVars
<1>9. ASSUME NEW r \in Requests, RestoreCarrier(r) PROVE Erased(i)'
  BY <1>9 DEF RestoreCarrier, Goto, Finish, RestoreEnds, ReleaseGate, Closing,
     identity, flags, carrier, storeVars, inputVars
<1>10. ASSUME NEW r \in Requests, ActiveLoad(r) PROVE Erased(i)'
  BY <1>10 DEF ActiveLoad, Goto, Finish, RestoreEnds, ReleaseGate, identity,
     flags, carrier, storeVars, inputVars
<1>11. ASSUME NEW r \in Requests, ActiveCommit(r) PROVE Erased(i)'
  BY <1>11 DEF ActiveCommit, Goto, Finish, RestoreEnds, ReleaseGate,
     CommitMirror, identity, flags, storeVars, inputVars
<1>12. ASSUME NEW r \in Requests, RestoreLoad(r) PROVE Erased(i)'
  BY <1>12 DEF RestoreLoad, Goto, Finish, RestoreEnds, objVars, identity,
     flags, carrier, storeVars, inputVars
<1>13. ASSUME NEW r \in Requests, RestoreReserve(r) PROVE Erased(i)'
  BY <1>13 DEF RestoreReserve, Goto, Finish, RestoreEnds, objVars, identity,
     flags, carrier, storeVars, inputVars, Active
<1>14. ASSUME NEW r \in Requests, Hydrate(r) PROVE Erased(i)'
  BY <1>14 DEF Hydrate, Goto, Finish, RestoreEnds, TakeGate, storeVars,
     inputVars, EphemeralOK, BuilderOK
<1>15. ASSUME NEW r \in Requests, RestoreCommit(r) PROVE Erased(i)'
  BY <1>15 DEF RestoreCommit, Goto, Finish, RestoreEnds, ReleaseGate,
     CommitMirror, identity, storeVars, inputVars
<1>16. ASSUME NEW r \in Requests, Replay(r) PROVE Erased(i)'
  BY <1>16 DEF Replay, Goto, Finish, RestoreEnds, ReleaseGate, identity,
     flags, carrier, storeVars, inputVars
<1>17. ASSUME NEW r \in Requests, AddressSession(r) PROVE Erased(i)'
  BY <1>17 DEF AddressSession, Goto, Finish, Arrive, agentVars, objVars,
     identity, flags, carrier, storeVars
<1>18. ASSUME NEW r \in Requests, Lookup(r) PROVE Erased(i)'
  BY <1>18 DEF Lookup, Goto, Finish, agentVars, objVars, identity, flags,
     carrier, storeVars, inputVars
<1>19. ASSUME NEW r \in Requests, Admit(r) PROVE Erased(i)'
  BY <1>19 DEF Admit, Goto, Finish, Closing, agentVars, objVars, identity,
     flags, carrier, storeVars, inputVars
<1>20. ASSUME NEW r \in Requests, AcquireGate(r) PROVE Erased(i)'
  BY <1>20 DEF AcquireGate, Goto, Finish, TakeGate, Closing, agentVars,
     identity, flags, carrier, storeVars, inputVars
<1>21. ASSUME NEW r \in Requests, InstallTurn(r) PROVE Erased(i)'
  BY <1>21 DEF InstallTurn, Goto, Finish, ReleaseGate, Closing, agentVars,
     identity, carrier, storeVars, inputVars
<1>22. ASSUME NEW r \in Requests, TurnNotStarted(r) PROVE Erased(i)'
  BY <1>22 DEF TurnNotStarted, Finish, ReleaseGate, agentVars, identity,
     carrier, storeVars, inputVars
<1>23. ASSUME NEW r \in Requests, NativeExit(r) PROVE Erased(i)'
  BY <1>23 DEF NativeExit, Goto, agentVars, identity, carrier, storeVars,
     inputVars
<1>24. ASSUME NEW r \in Requests, Settle(r) PROVE Erased(i)'
  BY <1>24 DEF Settle, Goto, CommitMirror, agentVars, identity, flags,
     storeVars, inputVars
<1>25. ASSUME NEW r \in Requests, EndTurn(r) PROVE Erased(i)'
  BY <1>25 DEF EndTurn, Finish, ReleaseGate, agentVars, identity, carrier,
     storeVars, inputVars
<1>26. ASSUME NEW r \in Requests, ConfigCommit(r) PROVE Erased(i)'
  BY <1>26 DEF ConfigCommit, Finish, ReleaseGate, CommitMirror, agentVars,
     identity, flags, storeVars, inputVars
<1>27. ASSUME NEW r \in Requests, CancelTurn(r) PROVE Erased(i)'
  BY <1>27 DEF CancelTurn, Finish, agentVars, identity, carrier, storeVars,
     inputVars
<1>28. ASSUME NEW r \in Requests, DeleteBegin(r) PROVE Erased(i)'
  BY <1>28 DEF DeleteBegin, Goto, Finish, Arrive, agentVars, objVars,
     identity, flags, carrier, storeVars
<1>29. ASSUME NEW r \in Requests, DeleteStore(r) PROVE Erased(i)'
  BY <1>29 DEF DeleteStore, Goto, Finish, agentVars, objVars, identity, flags,
     carrier, inputVars
<1>30. ASSUME NEW r \in Requests, DeleteMark(r) PROVE Erased(i)'
  BY <1>30 DEF DeleteMark, Goto, Finish, objVars, identity, flags, carrier,
     storeVars, inputVars
<1>31. ASSUME NEW r \in Requests, ShutdownBegin(r) PROVE Erased(i)'
  BY <1>31 DEF ShutdownBegin, Goto, Finish, Arrive, objVars, identity, flags,
     carrier, storeVars, Active
<1>32. ASSUME NEW r \in Requests, ShutdownNext(r) PROVE Erased(i)'
  BY <1>32 DEF ShutdownNext, Goto, Finish, agentVars, objVars, identity,
     flags, carrier, storeVars, inputVars
<1>33. ASSUME NEW r \in Requests, CloseBegin(r) PROVE Erased(i)'
  BY <1>33 DEF CloseBegin, Goto, Closing, agentVars, identity, carrier,
     storeVars, inputVars
<1>34. ASSUME NEW r \in Requests, CloseGate(r) PROVE Erased(i)'
  BY <1>34 DEF CloseGate, Goto, TakeGate, agentVars, identity, flags, carrier,
     storeVars, inputVars
<1>35. ASSUME NEW r \in Requests, CloseCommit(r) PROVE Erased(i)'
  BY <1>35 DEF CloseCommit, Goto, CommitMirror, agentVars, identity,
     storeVars, inputVars
<1>36. ASSUME NEW r \in Requests, CloseRelease(r) PROVE Erased(i)'
  BY <1>36 DEF CloseRelease, Goto, ReleaseGate, agentVars, identity, flags,
     carrier, storeVars, inputVars
<1>37. ASSUME NEW r \in Requests, CloseWait(r) PROVE Erased(i)'
  BY <1>37 DEF CloseWait, Goto, agentVars, objVars, identity, flags, carrier,
     storeVars, inputVars
<1>38. ASSUME NEW r \in Requests, Detach(r) PROVE Erased(i)'
  BY <1>38 DEF Detach, Goto, Finish, Detached, objVars, identity, flags,
     carrier, storeVars, inputVars
<1>39. CASE UNCHANGED vars
  BY <1>39 DEF vars, agentVars, objVars, identity, flags, carrier, storeVars,
     inputVars
<1>40. QED
  BY <1>1, <1>2, <1>3, <1>4, <1>5, <1>6, <1>7, <1>8, <1>9, <1>10, <1>11,
     <1>12, <1>13, <1>14, <1>15, <1>16, <1>17, <1>18, <1>19, <1>20, <1>21,
     <1>22, <1>23, <1>24, <1>25, <1>26, <1>27, <1>28, <1>29, <1>30, <1>31,
     <1>32, <1>33, <1>34, <1>35, <1>36, <1>37, <1>38, <1>39 DEF Next, Begin,
     Handle, TurnEnds, Quiescent

\* A delete that passed the store leaves its id erased until it returns.
LEMMA ErasedStep ==
  ASSUME ClaimsInv, EphemeralOK, ErasedOK, [Next]_vars
  PROVE  ErasedOK'
<1> USE RequestsAssumption, IdsAssumption DEF IInv, TypeOK, AgentTypes,
       ObjectTypes, RequestTypes, StoreTypes, ClaimsInv, PositionOK, ResultOK,
       ErasedOK, DeleteOK, ObjectLabels, BuilderLabels, EmptyLabels,
       CloseLabels, RestoreLabels
<1>1. ASSUME NEW r \in Requests, NewReserve(r) PROVE ErasedOK'
  <2>1. \A j \in Ids : Erased(j) => Erased(j)'
    BY ErasedStays
  <2>2. QED
    BY <1>1, <2>1 DEF NewReserve, Goto, Finish, Arrive, flags, carrier,
       storeVars, Active
<1>2. ASSUME NEW r \in Requests, NewCreate(r) PROVE ErasedOK'
  <2>1. \A j \in Ids : Erased(j) => Erased(j)'
    BY ErasedStays
  <2>2. QED
    BY <1>2, <2>1 DEF NewCreate, Goto, Finish, TakeGate, carrier, storeVars,
       inputVars
<1>3. ASSUME NEW r \in Requests, Install(r) PROVE ErasedOK'
  <2>1. \A j \in Ids : Erased(j) => Erased(j)'
    BY ErasedStays
  <2>2. QED
    BY <1>3, <2>1 DEF Install, Goto, Finish, ReleaseGate, RestoreClaims,
       identity, carrier, storeVars, inputVars
<1>4. ASSUME NEW r \in Requests, ReleaseSlot(r) PROVE ErasedOK'
  <2>1. \A j \in Ids : Erased(j) => Erased(j)'
    BY ErasedStays
  <2>2. QED
    BY <1>4, <2>1 DEF ReleaseSlot, Goto, objVars, identity, flags, carrier,
       storeVars, inputVars
<1>5. ASSUME NEW r \in Requests, NewCommit(r) PROVE ErasedOK'
  <2>1. \A j \in Ids : Erased(j) => Erased(j)'
    BY ErasedStays
  <2>2. QED
    BY <1>5, <2>1 DEF NewCommit, Goto, Finish, ReleaseGate, agentVars,
       identity, flags, storeVars, inputVars
<1>6. ASSUME NEW r \in Requests, RestoreBegin(r) PROVE ErasedOK'
  <2>1. \A j \in Ids : Erased(j) => Erased(j)'
    BY ErasedStays
  <2>2. QED
    BY <1>6, <2>1 DEF RestoreBegin, Goto, Finish, Arrive, objVars, identity,
       flags, carrier, storeVars
<1>7. ASSUME NEW r \in Requests, RestoreLookup(r) PROVE ErasedOK'
  <2>1. \A j \in Ids : Erased(j) => Erased(j)'
    BY ErasedStays
  <2>2. QED
    BY <1>7, <2>1 DEF RestoreLookup, Goto, Finish, RestoreEnds, objVars,
       identity, flags, carrier, storeVars, inputVars
<1>8. ASSUME NEW r \in Requests, RestoreGate(r) PROVE ErasedOK'
  <2>1. \A j \in Ids : Erased(j) => Erased(j)'
    BY ErasedStays
  <2>2. QED
    BY <1>8, <2>1 DEF RestoreGate, Goto, Finish, RestoreEnds, TakeGate,
       Closing, identity, flags, carrier, storeVars, inputVars
<1>9. ASSUME NEW r \in Requests, RestoreCarrier(r) PROVE ErasedOK'
  <2>1. \A j \in Ids : Erased(j) => Erased(j)'
    BY ErasedStays
  <2>2. QED
    BY <1>9, <2>1 DEF RestoreCarrier, Goto, Finish, RestoreEnds, ReleaseGate,
       Closing, identity, flags, carrier, storeVars, inputVars
<1>10. ASSUME NEW r \in Requests, ActiveLoad(r) PROVE ErasedOK'
  <2>1. \A j \in Ids : Erased(j) => Erased(j)'
    BY ErasedStays
  <2>2. QED
    BY <1>10, <2>1 DEF ActiveLoad, Goto, Finish, RestoreEnds, ReleaseGate,
       identity, flags, carrier, storeVars, inputVars
<1>11. ASSUME NEW r \in Requests, ActiveCommit(r) PROVE ErasedOK'
  <2>1. \A j \in Ids : Erased(j) => Erased(j)'
    BY ErasedStays
  <2>2. QED
    BY <1>11, <2>1 DEF ActiveCommit, Goto, Finish, RestoreEnds, ReleaseGate,
       CommitMirror, identity, flags, storeVars, inputVars
<1>12. ASSUME NEW r \in Requests, RestoreLoad(r) PROVE ErasedOK'
  <2>1. \A j \in Ids : Erased(j) => Erased(j)'
    BY ErasedStays
  <2>2. QED
    BY <1>12, <2>1 DEF RestoreLoad, Goto, Finish, RestoreEnds, objVars,
       identity, flags, carrier, storeVars, inputVars
<1>13. ASSUME NEW r \in Requests, RestoreReserve(r) PROVE ErasedOK'
  <2>1. \A j \in Ids : Erased(j) => Erased(j)'
    BY ErasedStays
  <2>2. QED
    BY <1>13, <2>1 DEF RestoreReserve, Goto, Finish, RestoreEnds, objVars,
       identity, flags, carrier, storeVars, inputVars, Active
<1>14. ASSUME NEW r \in Requests, Hydrate(r) PROVE ErasedOK'
  <2>1. \A j \in Ids : Erased(j) => Erased(j)'
    BY ErasedStays
  <2>2. QED
    BY <1>14, <2>1 DEF Hydrate, Goto, Finish, RestoreEnds, TakeGate,
       storeVars, inputVars
<1>15. ASSUME NEW r \in Requests, RestoreCommit(r) PROVE ErasedOK'
  <2>1. \A j \in Ids : Erased(j) => Erased(j)'
    BY ErasedStays
  <2>2. QED
    BY <1>15, <2>1 DEF RestoreCommit, Goto, Finish, RestoreEnds, ReleaseGate,
       identity, storeVars, inputVars
<1>16. ASSUME NEW r \in Requests, Replay(r) PROVE ErasedOK'
  <2>1. \A j \in Ids : Erased(j) => Erased(j)'
    BY ErasedStays
  <2>2. QED
    BY <1>16, <2>1 DEF Replay, Goto, Finish, RestoreEnds, ReleaseGate,
       identity, flags, carrier, storeVars, inputVars
<1>17. ASSUME NEW r \in Requests, AddressSession(r) PROVE ErasedOK'
  <2>1. \A j \in Ids : Erased(j) => Erased(j)'
    BY ErasedStays
  <2>2. QED
    BY <1>17, <2>1 DEF AddressSession, Goto, Finish, Arrive, agentVars,
       objVars, identity, flags, carrier, storeVars
<1>18. ASSUME NEW r \in Requests, Lookup(r) PROVE ErasedOK'
  <2>1. \A j \in Ids : Erased(j) => Erased(j)'
    BY ErasedStays
  <2>2. QED
    BY <1>18, <2>1 DEF Lookup, Goto, Finish, agentVars, objVars, identity,
       flags, carrier, storeVars, inputVars
<1>19. ASSUME NEW r \in Requests, Admit(r) PROVE ErasedOK'
  <2>1. \A j \in Ids : Erased(j) => Erased(j)'
    BY ErasedStays
  <2>2. QED
    BY <1>19, <2>1 DEF Admit, Goto, Finish, Closing, agentVars, objVars,
       identity, flags, carrier, storeVars, inputVars
<1>20. ASSUME NEW r \in Requests, AcquireGate(r) PROVE ErasedOK'
  <2>1. \A j \in Ids : Erased(j) => Erased(j)'
    BY ErasedStays
  <2>2. QED
    BY <1>20, <2>1 DEF AcquireGate, Goto, Finish, TakeGate, Closing,
       agentVars, identity, flags, carrier, storeVars, inputVars
<1>21. ASSUME NEW r \in Requests, InstallTurn(r) PROVE ErasedOK'
  <2>1. \A j \in Ids : Erased(j) => Erased(j)'
    BY ErasedStays
  <2>2. QED
    BY <1>21, <2>1 DEF InstallTurn, Goto, Finish, ReleaseGate, Closing,
       agentVars, identity, carrier, storeVars, inputVars
<1>22. ASSUME NEW r \in Requests, TurnNotStarted(r) PROVE ErasedOK'
  <2>1. \A j \in Ids : Erased(j) => Erased(j)'
    BY ErasedStays
  <2>2. QED
    BY <1>22, <2>1 DEF TurnNotStarted, Finish, ReleaseGate, agentVars,
       identity, carrier, storeVars, inputVars
<1>23. ASSUME NEW r \in Requests, NativeExit(r) PROVE ErasedOK'
  <2>1. \A j \in Ids : Erased(j) => Erased(j)'
    BY ErasedStays
  <2>2. QED
    BY <1>23, <2>1 DEF NativeExit, Goto, agentVars, identity, carrier,
       storeVars, inputVars
<1>24. ASSUME NEW r \in Requests, Settle(r) PROVE ErasedOK'
  <2>1. \A j \in Ids : Erased(j) => Erased(j)'
    BY ErasedStays
  <2>2. QED
    BY <1>24, <2>1 DEF Settle, Goto, agentVars, identity, flags, storeVars,
       inputVars
<1>25. ASSUME NEW r \in Requests, EndTurn(r) PROVE ErasedOK'
  <2>1. \A j \in Ids : Erased(j) => Erased(j)'
    BY ErasedStays
  <2>2. QED
    BY <1>25, <2>1 DEF EndTurn, Finish, ReleaseGate, agentVars, identity,
       carrier, storeVars, inputVars
<1>26. ASSUME NEW r \in Requests, ConfigCommit(r) PROVE ErasedOK'
  <2>1. \A j \in Ids : Erased(j) => Erased(j)'
    BY ErasedStays
  <2>2. QED
    BY <1>26, <2>1 DEF ConfigCommit, Finish, ReleaseGate, agentVars, identity,
       flags, storeVars, inputVars
<1>27. ASSUME NEW r \in Requests, CancelTurn(r) PROVE ErasedOK'
  <2>1. \A j \in Ids : Erased(j) => Erased(j)'
    BY ErasedStays
  <2>2. QED
    BY <1>27, <2>1 DEF CancelTurn, Finish, agentVars, identity, carrier,
       storeVars, inputVars
<1>28. ASSUME NEW r \in Requests, DeleteBegin(r) PROVE ErasedOK'
  <2>1. \A j \in Ids : Erased(j) => Erased(j)'
    BY ErasedStays
  <2>2. \A j \in ephemeral : j \in Ids /\ Erased(j)'
    BY <2>1 DEF EphemeralOK, Erased
  <2>3. QED
    BY <1>28, <2>1, <2>2 DEF DeleteBegin, Goto, Finish, Arrive, agentVars,
       objVars, identity, flags, carrier, storeVars
<1>29. ASSUME NEW r \in Requests, DeleteStore(r) PROVE ErasedOK'
  <2>1. \A j \in Ids : Erased(j) => Erased(j)'
    BY ErasedStays
  <2>2. pc'[r] = "delete_mark" => Erased(target[r])'
    BY <1>29 DEF DeleteStore, Goto, Finish, agentVars, objVars, identity,
       flags, carrier, inputVars, Erased
  <2>3. QED
    BY <1>29, <2>1, <2>2 DEF DeleteStore, Goto, Finish, agentVars, objVars,
       identity, flags, carrier, inputVars
<1>30. ASSUME NEW r \in Requests, DeleteMark(r) PROVE ErasedOK'
  <2>1. \A j \in Ids : Erased(j) => Erased(j)'
    BY ErasedStays
  <2>2. QED
    BY <1>30, <2>1 DEF DeleteMark, Goto, Finish, objVars, identity, flags,
       carrier, storeVars, inputVars
<1>31. ASSUME NEW r \in Requests, ShutdownBegin(r) PROVE ErasedOK'
  <2>1. \A j \in Ids : Erased(j) => Erased(j)'
    BY ErasedStays
  <2>2. QED
    BY <1>31, <2>1 DEF ShutdownBegin, Goto, Finish, Arrive, objVars, identity,
       flags, carrier, storeVars, Active
<1>32. ASSUME NEW r \in Requests, ShutdownNext(r) PROVE ErasedOK'
  <2>1. \A j \in Ids : Erased(j) => Erased(j)'
    BY ErasedStays
  <2>2. QED
    BY <1>32, <2>1 DEF ShutdownNext, Goto, Finish, agentVars, objVars,
       identity, flags, carrier, storeVars, inputVars
<1>33. ASSUME NEW r \in Requests, CloseBegin(r) PROVE ErasedOK'
  <2>1. \A j \in Ids : Erased(j) => Erased(j)'
    BY ErasedStays
  <2>2. QED
    BY <1>33, <2>1 DEF CloseBegin, Goto, Closing, agentVars, identity,
       carrier, storeVars, inputVars
<1>34. ASSUME NEW r \in Requests, CloseGate(r) PROVE ErasedOK'
  <2>1. \A j \in Ids : Erased(j) => Erased(j)'
    BY ErasedStays
  <2>2. QED
    BY <1>34, <2>1 DEF CloseGate, Goto, TakeGate, agentVars, identity, flags,
       carrier, storeVars, inputVars
<1>35. ASSUME NEW r \in Requests, CloseCommit(r) PROVE ErasedOK'
  <2>1. \A j \in Ids : Erased(j) => Erased(j)'
    BY ErasedStays
  <2>2. QED
    BY <1>35, <2>1 DEF CloseCommit, Goto, agentVars, identity, storeVars,
       inputVars
<1>36. ASSUME NEW r \in Requests, CloseRelease(r) PROVE ErasedOK'
  <2>1. \A j \in Ids : Erased(j) => Erased(j)'
    BY ErasedStays
  <2>2. QED
    BY <1>36, <2>1 DEF CloseRelease, Goto, ReleaseGate, agentVars, identity,
       flags, carrier, storeVars, inputVars
<1>37. ASSUME NEW r \in Requests, CloseWait(r) PROVE ErasedOK'
  <2>1. \A j \in Ids : Erased(j) => Erased(j)'
    BY ErasedStays
  <2>2. QED
    BY <1>37, <2>1 DEF CloseWait, Goto, agentVars, objVars, identity, flags,
       carrier, storeVars, inputVars
<1>38. ASSUME NEW r \in Requests, Detach(r) PROVE ErasedOK'
  <2>1. \A j \in Ids : Erased(j) => Erased(j)'
    BY ErasedStays
  <2>2. QED
    BY <1>38, <2>1 DEF Detach, Goto, Finish, Detached, objVars, identity,
       flags, carrier, storeVars, inputVars
<1>39. CASE UNCHANGED vars
  <2>1. \A j \in Ids : Erased(j) => Erased(j)'
    BY ErasedStays
  <2>2. QED
    BY <1>39, <2>1 DEF vars, agentVars, objVars, identity, flags, carrier,
       storeVars, inputVars
<1>40. QED
  BY <1>1, <1>2, <1>3, <1>4, <1>5, <1>6, <1>7, <1>8, <1>9, <1>10, <1>11,
     <1>12, <1>13, <1>14, <1>15, <1>16, <1>17, <1>18, <1>19, <1>20, <1>21,
     <1>22, <1>23, <1>24, <1>25, <1>26, <1>27, <1>28, <1>29, <1>30, <1>31,
     <1>32, <1>33, <1>34, <1>35, <1>36, <1>37, <1>38, <1>39 DEF Next, Begin,
     Handle, TurnEnds, Quiescent

\* What a commit of object o on the thread of id i does to the generations.
OnlyUser(o, i) ==
  /\ sid[o] = i /\ life[o] \in InUse
  /\ \A p \in Requests : p # o /\ life[p] \in InUse => sid[p] # i

KeepsIdentity ==
  /\ sid' = sid /\ thread' = thread /\ eph' = eph
  /\ \A p \in Requests : /\ life'[p] \in InUse => life[p] \in InUse
                         /\ life'[p] = "none" => life[p] = "none"

OneRow(o, i) ==
  /\ rows'[o] \in {rows[o], thread[i]}
  /\ \A p \in Requests : p # o => rows'[p] = rows[p] /\ persisted'[p] = persisted[p]

OneThread(o, i) ==
  /\ durable'[i] \in {durable[i], rows'[o]}
  /\ store'[i] = "absent" => store[i] = "absent" /\ durable'[i] = durable[i]
  /\ \A j \in Ids : j # i => durable'[j] = durable[j] /\ store'[j] = store[j]

MarksPersisted(o, i) ==
  persisted'[o] => persisted[o] \/ (~eph[o] /\ store'[i] # "absent")

Publishes(o, i) ==
  OnlyUser(o, i) /\ KeepsIdentity /\ OneRow(o, i) /\ OneThread(o, i) /\ MarksPersisted(o, i)

\* The one object in use on a thread publishes what lies between the store and
\* the thread, so the generations stay in order.
LEMMA PublishesRows ==
  ASSUME TypeOK, BuiltOK, RowsOK, NEW o \in Requests, NEW i \in Ids, Publishes(o, i)
  PROVE  RowsOK'
<1> USE DEF Publishes, OnlyUser, KeepsIdentity, OneRow, OneThread, MarksPersisted
<1>1. /\ durable[i] \in Nat /\ thread[i] \in Nat /\ rows[o] \in Nat
      /\ durable[i] <= rows[o] /\ rows[o] <= thread[i] /\ i # None
  BY IdsAssumption DEF TypeOK, StoreTypes, ObjectTypes, RowsOK
<1>2. /\ rows'[o] \in durable[i]..thread[i]
      /\ durable'[i] \in durable[i]..thread[i]
      /\ durable'[i] <= rows'[o]
  BY <1>1
<1>3. \A j \in Ids : durable'[j] <= thread'[j] /\ (store'[j] = "absent" => durable'[j] = 0)
  BY <1>1, <1>2 DEF RowsOK
<1>4. ASSUME NEW p \in Requests
      PROVE  /\ life'[p] = "none" => rows'[p] = 0 /\ ~persisted'[p]
             /\ sid'[p] # None => rows'[p] <= thread'[sid'[p]]
             /\ life'[p] \in InUse => durable'[sid'[p]] <= rows'[p]
             /\ persisted'[p] => ~eph'[p] /\ store'[sid'[p]] # "absent"
  <2>1. CASE p = o
    <3>1. life'[o] # "none"
      BY DEF InUse
    <3>2. persisted'[o] => ~eph[o] /\ store'[i] # "absent"
      BY DEF RowsOK
    <3>3. QED
      BY <2>1, <1>1, <1>2, <3>1, <3>2
  <2>2. CASE p # o
    <3>1. rows'[p] = rows[p] /\ persisted'[p] = persisted[p]
      BY <2>2
    <3>2. life[p] = "none" => rows[p] = 0 /\ ~persisted[p]
      BY DEF RowsOK
    <3>3. sid[p] # None => rows[p] <= thread[sid[p]]
      BY DEF RowsOK
    <3>4. life'[p] \in InUse => durable'[sid[p]] <= rows[p]
      <4>1. SUFFICES ASSUME life'[p] \in InUse PROVE durable'[sid[p]] <= rows[p]
        OBVIOUS
      <4>2. life[p] \in InUse /\ sid[p] # i
        BY <4>1, <2>2
      <4>3. sid[p] \in Ids
        BY <4>2 DEF BuiltOK, InUse
      <4>4. QED
        BY <4>2, <4>3 DEF RowsOK
    <3>5. persisted[p] => ~eph[p] /\ store'[sid[p]] # "absent"
      <4>1. SUFFICES ASSUME persisted[p] PROVE ~eph[p] /\ store'[sid[p]] # "absent"
        OBVIOUS
      <4>2. ~eph[p] /\ store[sid[p]] # "absent" /\ life[p] # "none"
        BY <4>1 DEF RowsOK
      <4>3. sid[p] \in Ids
        BY <4>2 DEF BuiltOK
      <4>4. QED
        BY <4>2, <4>3
    <3>6. QED
      BY <3>1, <3>2, <3>3, <3>4, <3>5
  <2>3. QED
    BY <2>1, <2>2
<1>5. QED
  BY <1>3, <1>4 DEF RowsOK

\* Every commit publishes as above, and nothing else moves the generations but a
\* native turn.
LEMMA RowsStep ==
  ASSUME ClaimsInv, EphemeralOK, RowsOK, [Next]_vars
  PROVE  RowsOK'
<1> USE RequestsAssumption, IdsAssumption DEF IInv, TypeOK, AgentTypes,
       ObjectTypes, RequestTypes, StoreTypes, ClaimsInv, PositionOK,
       ObjectLabels, BuilderLabels, EmptyLabels, CloseLabels, RestoreLabels,
       RowsOK, InUse
<1>1. ASSUME NEW r \in Requests, NewReserve(r) PROVE RowsOK'
  BY <1>1 DEF NewReserve, Goto, Finish, Arrive, flags, carrier, storeVars,
     Active, BuilderOK, BuiltOK, LifeOK, Opened, EphemeralOK
<1>2. ASSUME NEW r \in Requests, NewCreate(r) PROVE RowsOK'
  BY <1>2 DEF NewCreate, Goto, Finish, TakeGate, Fresh, Known, carrier,
     storeVars, inputVars, BuilderOK, BuiltOK, LifeOK, Opened, EphemeralOK
<1>3. ASSUME NEW r \in Requests, Install(r) PROVE RowsOK'
  BY <1>3 DEF Install, Goto, Finish, ReleaseGate, RestoreClaims, identity,
     carrier, storeVars, inputVars, BuilderOK, BuiltOK, LifeOK, Opened,
     EphemeralOK
<1>4. ASSUME NEW r \in Requests, ReleaseSlot(r) PROVE RowsOK'
  BY <1>4 DEF ReleaseSlot, Goto, objVars, identity, flags, carrier, storeVars,
     inputVars, BuilderOK, BuiltOK, LifeOK, Opened, EphemeralOK
<1>5. ASSUME NEW r \in Requests, NewCommit(r) PROVE RowsOK'
  <2>1. r \in Requests /\ sid[r] \in Ids /\ life[r] \in InUse
    BY <1>5 DEF NewCommit, LifeOK, Opened, BuiltOK, GateLabels, Holding, InUse
  <2>2. \A p \in Requests : p # r /\ life[p] \in InUse => sid[p] # sid[r]
    BY <1>5, <2>1 DEF OneObjectPerThread, InUse
  <2>3. OnlyUser(r, sid[r])
    BY <2>1, <2>2 DEF OnlyUser
  <2>4. KeepsIdentity
    BY <1>5, <2>1 DEF KeepsIdentity, NewCommit, identity, flags, InUse,
       LifeOK, Opened
  <2>5. OneRow(r, sid[r])
    BY <1>5, <2>1 DEF OneRow, NewCommit, carrier, flags
  <2>6. OneThread(r, sid[r])
    BY <1>5, <2>1 DEF OneThread, NewCommit, CommitMirror, storeVars
  <2>7. MarksPersisted(r, sid[r])
    BY <1>5, <2>1 DEF MarksPersisted, NewCommit, CommitMirror, storeVars,
       carrier, EphemeralOK
  <2>8. Publishes(r, sid[r])
    BY <2>3, <2>4, <2>5, <2>6, <2>7 DEF Publishes
  <2>9. QED
    BY <2>1, <2>8, PublishesRows
<1>6. ASSUME NEW r \in Requests, RestoreBegin(r) PROVE RowsOK'
  BY <1>6 DEF RestoreBegin, Goto, Finish, Arrive, Known, objVars, identity,
     flags, carrier, storeVars, BuilderOK, BuiltOK, LifeOK, Opened,
     EphemeralOK
<1>7. ASSUME NEW r \in Requests, RestoreLookup(r) PROVE RowsOK'
  BY <1>7 DEF RestoreLookup, Goto, Finish, RestoreEnds, objVars, identity,
     flags, carrier, storeVars, inputVars, BuilderOK, BuiltOK, LifeOK, Opened,
     EphemeralOK
<1>8. ASSUME NEW r \in Requests, RestoreGate(r) PROVE RowsOK'
  BY <1>8 DEF RestoreGate, Goto, Finish, RestoreEnds, TakeGate, Closing,
     identity, flags, carrier, storeVars, inputVars, BuilderOK, BuiltOK,
     LifeOK, Opened, EphemeralOK
<1>9. ASSUME NEW r \in Requests, RestoreCarrier(r) PROVE RowsOK'
  BY <1>9 DEF RestoreCarrier, Goto, Finish, RestoreEnds, ReleaseGate, Closing,
     identity, flags, carrier, storeVars, inputVars, BuilderOK, BuiltOK,
     LifeOK, Opened, EphemeralOK
<1>10. ASSUME NEW r \in Requests, ActiveLoad(r) PROVE RowsOK'
  BY <1>10 DEF ActiveLoad, Goto, Finish, RestoreEnds, ReleaseGate, identity,
     flags, carrier, storeVars, inputVars, BuilderOK, BuiltOK, LifeOK, Opened,
     EphemeralOK
<1>11. ASSUME NEW r \in Requests, ActiveCommit(r) PROVE RowsOK'
  <2>1. obj[r] \in Requests /\ target[r] \in Ids /\ sid[obj[r]] = target[r] /\ life[obj[r]] \in InUse
    BY <1>11 DEF ActiveCommit, LifeOK, Opened, BuiltOK, GateLabels, Holding,
       RestoreOK, Restoring, InUse
  <2>2. \A p \in Requests : p # obj[r] /\ life[p] \in InUse => sid[p] # target[r]
    BY <1>11, <2>1 DEF OneObjectPerThread, InUse
  <2>3. OnlyUser(obj[r], target[r])
    BY <2>1, <2>2 DEF OnlyUser
  <2>4. KeepsIdentity
    BY <1>11, <2>1 DEF KeepsIdentity, ActiveCommit, identity, flags, InUse,
       LifeOK, Opened
  <2>5. OneRow(obj[r], target[r])
    BY <1>11, <2>1 DEF OneRow, ActiveCommit, carrier, flags, RestoreEnds,
       CommitMirror
  <2>6. OneThread(obj[r], target[r])
    BY <1>11, <2>1 DEF OneThread, ActiveCommit, CommitMirror, storeVars
  <2>7. MarksPersisted(obj[r], target[r])
    BY <1>11, <2>1 DEF MarksPersisted, ActiveCommit, CommitMirror, storeVars,
       carrier, EphemeralOK
  <2>8. Publishes(obj[r], target[r])
    BY <2>3, <2>4, <2>5, <2>6, <2>7 DEF Publishes
  <2>9. QED
    BY <2>1, <2>8, PublishesRows
<1>12. ASSUME NEW r \in Requests, RestoreLoad(r) PROVE RowsOK'
  BY <1>12 DEF RestoreLoad, Goto, Finish, RestoreEnds, objVars, identity,
     flags, carrier, storeVars, inputVars, BuilderOK, BuiltOK, LifeOK, Opened,
     EphemeralOK
<1>13. ASSUME NEW r \in Requests, RestoreReserve(r) PROVE RowsOK'
  BY <1>13 DEF RestoreReserve, Goto, Finish, RestoreEnds, objVars, identity,
     flags, carrier, storeVars, inputVars, Active, BuilderOK, BuiltOK, LifeOK,
     Opened, EphemeralOK
<1>14. ASSUME NEW r \in Requests, Hydrate(r) PROVE RowsOK'
  <2>1. life[r] = "none" /\ kind[r] = "restore" /\ target[r] \in Ids /\ ~persisted[r]
    BY <1>14 DEF Hydrate, BuilderOK, RowsOK
  <2>2. QED
    BY <1>14, <2>1 DEF Hydrate, Goto, Finish, RestoreEnds, TakeGate,
       storeVars, inputVars, BuilderOK, BuiltOK, LifeOK, Opened, EphemeralOK
<1>15. ASSUME NEW r \in Requests, RestoreCommit(r) PROVE RowsOK'
  <2>1. r \in Requests /\ sid[r] \in Ids /\ life[r] \in InUse
    BY <1>15 DEF RestoreCommit, LifeOK, Opened, BuiltOK, GateLabels, Holding,
       InUse
  <2>2. \A p \in Requests : p # r /\ life[p] \in InUse => sid[p] # sid[r]
    BY <1>15, <2>1 DEF OneObjectPerThread, InUse
  <2>3. OnlyUser(r, sid[r])
    BY <2>1, <2>2 DEF OnlyUser
  <2>4. KeepsIdentity
    BY <1>15, <2>1 DEF KeepsIdentity, RestoreCommit, identity, flags, InUse,
       LifeOK, Opened
  <2>5. OneRow(r, sid[r])
    BY <1>15, <2>1 DEF OneRow, RestoreCommit, carrier, flags
  <2>6. OneThread(r, sid[r])
    BY <1>15, <2>1 DEF OneThread, RestoreCommit, CommitMirror, storeVars
  <2>7. MarksPersisted(r, sid[r])
    BY <1>15, <2>1 DEF MarksPersisted, RestoreCommit, CommitMirror, storeVars,
       carrier, EphemeralOK
  <2>8. Publishes(r, sid[r])
    BY <2>3, <2>4, <2>5, <2>6, <2>7 DEF Publishes
  <2>9. QED
    BY <2>1, <2>8, PublishesRows
<1>16. ASSUME NEW r \in Requests, Replay(r) PROVE RowsOK'
  BY <1>16 DEF Replay, Goto, Finish, RestoreEnds, ReleaseGate, identity,
     flags, carrier, storeVars, inputVars, BuilderOK, BuiltOK, LifeOK, Opened,
     EphemeralOK
<1>17. ASSUME NEW r \in Requests, AddressSession(r) PROVE RowsOK'
  BY <1>17 DEF AddressSession, Goto, Finish, Arrive, Known, agentVars,
     objVars, identity, flags, carrier, storeVars, BuilderOK, BuiltOK, LifeOK,
     Opened, EphemeralOK
<1>18. ASSUME NEW r \in Requests, Lookup(r) PROVE RowsOK'
  BY <1>18 DEF Lookup, Goto, Finish, agentVars, objVars, identity, flags,
     carrier, storeVars, inputVars, BuilderOK, BuiltOK, LifeOK, Opened,
     EphemeralOK
<1>19. ASSUME NEW r \in Requests, Admit(r) PROVE RowsOK'
  BY <1>19 DEF Admit, Goto, Finish, Closing, agentVars, objVars, identity,
     flags, carrier, storeVars, inputVars, BuilderOK, BuiltOK, LifeOK, Opened,
     EphemeralOK
<1>20. ASSUME NEW r \in Requests, AcquireGate(r) PROVE RowsOK'
  BY <1>20 DEF AcquireGate, Goto, Finish, TakeGate, Closing, agentVars,
     identity, flags, carrier, storeVars, inputVars, BuilderOK, BuiltOK,
     LifeOK, Opened, EphemeralOK
<1>21. ASSUME NEW r \in Requests, InstallTurn(r) PROVE RowsOK'
  BY <1>21 DEF InstallTurn, Goto, Finish, ReleaseGate, Closing, agentVars,
     identity, carrier, storeVars, inputVars, BuilderOK, BuiltOK, LifeOK,
     Opened, EphemeralOK
<1>22. ASSUME NEW r \in Requests, TurnNotStarted(r) PROVE RowsOK'
  BY <1>22 DEF TurnNotStarted, Finish, ReleaseGate, agentVars, identity,
     carrier, storeVars, inputVars, BuilderOK, BuiltOK, LifeOK, Opened,
     EphemeralOK
<1>23. ASSUME NEW r \in Requests, NativeExit(r) PROVE RowsOK'
  BY <1>23 DEF NativeExit, Goto, agentVars, identity, carrier, storeVars,
     inputVars, BuilderOK, BuiltOK, LifeOK, Opened, EphemeralOK
<1>24. ASSUME NEW r \in Requests, Settle(r) PROVE RowsOK'
  <2>1. obj[r] \in Requests /\ sid[obj[r]] \in Ids /\ life[obj[r]] \in InUse
    BY <1>24 DEF Settle, LifeOK, Opened, BuiltOK, GateLabels, Holding, InUse
  <2>2. \A p \in Requests : p # obj[r] /\ life[p] \in InUse => sid[p] # sid[obj[r]]
    BY <1>24, <2>1 DEF OneObjectPerThread, InUse
  <2>3. OnlyUser(obj[r], sid[obj[r]])
    BY <2>1, <2>2 DEF OnlyUser
  <2>4. KeepsIdentity
    BY <1>24, <2>1 DEF KeepsIdentity, Settle, identity, flags, InUse, LifeOK,
       Opened
  <2>5. OneRow(obj[r], sid[obj[r]])
    BY <1>24, <2>1 DEF OneRow, Settle, carrier, flags
  <2>6. OneThread(obj[r], sid[obj[r]])
    BY <1>24, <2>1 DEF OneThread, Settle, CommitMirror, storeVars
  <2>7. MarksPersisted(obj[r], sid[obj[r]])
    BY <1>24, <2>1 DEF MarksPersisted, Settle, CommitMirror, storeVars,
       carrier, EphemeralOK
  <2>8. Publishes(obj[r], sid[obj[r]])
    BY <2>3, <2>4, <2>5, <2>6, <2>7 DEF Publishes
  <2>9. QED
    BY <2>1, <2>8, PublishesRows
<1>25. ASSUME NEW r \in Requests, EndTurn(r) PROVE RowsOK'
  BY <1>25 DEF EndTurn, Finish, ReleaseGate, agentVars, identity, carrier,
     storeVars, inputVars, BuilderOK, BuiltOK, LifeOK, Opened, EphemeralOK
<1>26. ASSUME NEW r \in Requests, ConfigCommit(r) PROVE RowsOK'
  <2>1. obj[r] \in Requests /\ sid[obj[r]] \in Ids /\ life[obj[r]] \in InUse
    BY <1>26 DEF ConfigCommit, LifeOK, Opened, BuiltOK, GateLabels, Holding,
       InUse
  <2>2. \A p \in Requests : p # obj[r] /\ life[p] \in InUse => sid[p] # sid[obj[r]]
    BY <1>26, <2>1 DEF OneObjectPerThread, InUse
  <2>3. OnlyUser(obj[r], sid[obj[r]])
    BY <2>1, <2>2 DEF OnlyUser
  <2>4. KeepsIdentity
    BY <1>26, <2>1 DEF KeepsIdentity, ConfigCommit, identity, flags, InUse,
       LifeOK, Opened
  <2>5. OneRow(obj[r], sid[obj[r]])
    BY <1>26, <2>1 DEF OneRow, ConfigCommit, carrier, flags
  <2>6. OneThread(obj[r], sid[obj[r]])
    BY <1>26, <2>1 DEF OneThread, ConfigCommit, CommitMirror, storeVars
  <2>7. MarksPersisted(obj[r], sid[obj[r]])
    BY <1>26, <2>1 DEF MarksPersisted, ConfigCommit, CommitMirror, storeVars,
       carrier, EphemeralOK
  <2>8. Publishes(obj[r], sid[obj[r]])
    BY <2>3, <2>4, <2>5, <2>6, <2>7 DEF Publishes
  <2>9. QED
    BY <2>1, <2>8, PublishesRows
<1>27. ASSUME NEW r \in Requests, CancelTurn(r) PROVE RowsOK'
  BY <1>27 DEF CancelTurn, Finish, agentVars, identity, carrier, storeVars,
     inputVars, BuilderOK, BuiltOK, LifeOK, Opened, EphemeralOK
<1>28. ASSUME NEW r \in Requests, DeleteBegin(r) PROVE RowsOK'
  BY <1>28 DEF DeleteBegin, Goto, Finish, Arrive, Known, agentVars, objVars,
     identity, flags, carrier, storeVars, BuilderOK, BuiltOK, LifeOK, Opened,
     EphemeralOK
<1>29. ASSUME NEW r \in Requests, DeleteStore(r) PROVE RowsOK'
  BY <1>29 DEF DeleteStore, Goto, Finish, agentVars, objVars, identity, flags,
     carrier, inputVars, BuilderOK, BuiltOK, LifeOK, Opened, EphemeralOK
<1>30. ASSUME NEW r \in Requests, DeleteMark(r) PROVE RowsOK'
  BY <1>30 DEF DeleteMark, Goto, Finish, objVars, identity, flags, carrier,
     storeVars, inputVars, BuilderOK, BuiltOK, LifeOK, Opened, EphemeralOK
<1>31. ASSUME NEW r \in Requests, ShutdownBegin(r) PROVE RowsOK'
  BY <1>31 DEF ShutdownBegin, Goto, Finish, Arrive, objVars, identity, flags,
     carrier, storeVars, Active, BuilderOK, BuiltOK, LifeOK, Opened,
     EphemeralOK
<1>32. ASSUME NEW r \in Requests, ShutdownNext(r) PROVE RowsOK'
  BY <1>32 DEF ShutdownNext, Goto, Finish, agentVars, objVars, identity,
     flags, carrier, storeVars, inputVars, BuilderOK, BuiltOK, LifeOK, Opened,
     EphemeralOK
<1>33. ASSUME NEW r \in Requests, CloseBegin(r) PROVE RowsOK'
  BY <1>33 DEF CloseBegin, Goto, Closing, agentVars, identity, carrier,
     storeVars, inputVars, BuilderOK, BuiltOK, LifeOK, Opened, EphemeralOK
<1>34. ASSUME NEW r \in Requests, CloseGate(r) PROVE RowsOK'
  BY <1>34 DEF CloseGate, Goto, TakeGate, agentVars, identity, flags, carrier,
     storeVars, inputVars, BuilderOK, BuiltOK, LifeOK, Opened, EphemeralOK
<1>35. ASSUME NEW r \in Requests, CloseCommit(r) PROVE RowsOK'
  <2>1. obj[r] \in Requests /\ sid[obj[r]] \in Ids /\ life[obj[r]] \in InUse
    BY <1>35 DEF CloseCommit, LifeOK, Opened, BuiltOK, GateLabels, Holding,
       InUse
  <2>2. \A p \in Requests : p # obj[r] /\ life[p] \in InUse => sid[p] # sid[obj[r]]
    BY <1>35, <2>1 DEF OneObjectPerThread, InUse
  <2>3. OnlyUser(obj[r], sid[obj[r]])
    BY <2>1, <2>2 DEF OnlyUser
  <2>4. KeepsIdentity
    BY <1>35, <2>1 DEF KeepsIdentity, CloseCommit, identity, flags, InUse,
       LifeOK, Opened
  <2>5. OneRow(obj[r], sid[obj[r]])
    BY <1>35, <2>1 DEF OneRow, CloseCommit, carrier, flags
  <2>6. OneThread(obj[r], sid[obj[r]])
    BY <1>35, <2>1 DEF OneThread, CloseCommit, CommitMirror, storeVars
  <2>7. MarksPersisted(obj[r], sid[obj[r]])
    BY <1>35, <2>1 DEF MarksPersisted, CloseCommit, CommitMirror, storeVars,
       carrier, EphemeralOK
  <2>8. Publishes(obj[r], sid[obj[r]])
    BY <2>3, <2>4, <2>5, <2>6, <2>7 DEF Publishes
  <2>9. QED
    BY <2>1, <2>8, PublishesRows
<1>36. ASSUME NEW r \in Requests, CloseRelease(r) PROVE RowsOK'
  BY <1>36 DEF CloseRelease, Goto, ReleaseGate, agentVars, identity, flags,
     carrier, storeVars, inputVars, BuilderOK, BuiltOK, LifeOK, Opened,
     EphemeralOK
<1>37. ASSUME NEW r \in Requests, CloseWait(r) PROVE RowsOK'
  BY <1>37 DEF CloseWait, Goto, agentVars, objVars, identity, flags, carrier,
     storeVars, inputVars, BuilderOK, BuiltOK, LifeOK, Opened, EphemeralOK
<1>38. ASSUME NEW r \in Requests, Detach(r) PROVE RowsOK'
  BY <1>38 DEF Detach, Goto, Finish, Detached, objVars, identity, flags,
     carrier, storeVars, inputVars, BuilderOK, BuiltOK, LifeOK, Opened,
     EphemeralOK
<1>39. CASE UNCHANGED vars
  BY <1>39 DEF vars, agentVars, objVars, identity, flags, carrier, storeVars,
     inputVars
<1>40. QED
  BY <1>1, <1>2, <1>3, <1>4, <1>5, <1>6, <1>7, <1>8, <1>9, <1>10, <1>11,
     <1>12, <1>13, <1>14, <1>15, <1>16, <1>17, <1>18, <1>19, <1>20, <1>21,
     <1>22, <1>23, <1>24, <1>25, <1>26, <1>27, <1>28, <1>29, <1>30, <1>31,
     <1>32, <1>33, <1>34, <1>35, <1>36, <1>37, <1>38, <1>39 DEF Next, Begin,
     Handle, TurnEnds, Quiescent

\* A closed session whose last commit was acknowledged stays flushed: only an
\* object in use commits a thread, and rows of a closed object never change.
LEMMA FlushStep ==
  ASSUME ClaimsInv, EphemeralOK, RowsOK, CloseFlushes, [Next]_vars
  PROVE  CloseFlushes'
<1> USE RequestsAssumption, IdsAssumption DEF IInv, TypeOK, AgentTypes,
       ObjectTypes, RequestTypes, StoreTypes, ClaimsInv, PositionOK,
       ObjectLabels, BuilderLabels, EmptyLabels, CloseLabels, RestoreLabels,
       BuilderOK, BuiltOK, LifeOK, Opened, InUse, EphemeralOK, RowsOK,
       GateLabels, Holding, CloseFlushes
<1>1. ASSUME NEW r \in Requests, NewReserve(r) PROVE CloseFlushes'
  BY <1>1 DEF NewReserve, Goto, Finish, Arrive, flags, carrier, storeVars,
     Active
<1>2. ASSUME NEW r \in Requests, NewCreate(r) PROVE CloseFlushes'
  BY <1>2 DEF NewCreate, Goto, Finish, TakeGate, Fresh, Known, carrier,
     storeVars, inputVars
<1>3. ASSUME NEW r \in Requests, Install(r) PROVE CloseFlushes'
  BY <1>3 DEF Install, Goto, Finish, ReleaseGate, RestoreClaims, identity,
     carrier, storeVars, inputVars
<1>4. ASSUME NEW r \in Requests, ReleaseSlot(r) PROVE CloseFlushes'
  BY <1>4 DEF ReleaseSlot, Goto, objVars, identity, flags, carrier, storeVars,
     inputVars
<1>5. ASSUME NEW r \in Requests, NewCommit(r) PROVE CloseFlushes'
  BY <1>5, SMTT(60) DEF NewCommit, Goto, Finish, ReleaseGate, CommitMirror,
     agentVars, identity, flags, storeVars, inputVars
<1>6. ASSUME NEW r \in Requests, RestoreBegin(r) PROVE CloseFlushes'
  BY <1>6 DEF RestoreBegin, Goto, Finish, Arrive, Known, objVars, identity,
     flags, carrier, storeVars
<1>7. ASSUME NEW r \in Requests, RestoreLookup(r) PROVE CloseFlushes'
  BY <1>7 DEF RestoreLookup, Goto, Finish, RestoreEnds, objVars, identity,
     flags, carrier, storeVars, inputVars
<1>8. ASSUME NEW r \in Requests, RestoreGate(r) PROVE CloseFlushes'
  BY <1>8 DEF RestoreGate, Goto, Finish, RestoreEnds, TakeGate, Closing,
     identity, flags, carrier, storeVars, inputVars
<1>9. ASSUME NEW r \in Requests, RestoreCarrier(r) PROVE CloseFlushes'
  BY <1>9 DEF RestoreCarrier, Goto, Finish, RestoreEnds, ReleaseGate, Closing,
     identity, flags, carrier, storeVars, inputVars
<1>10. ASSUME NEW r \in Requests, ActiveLoad(r) PROVE CloseFlushes'
  BY <1>10 DEF ActiveLoad, Goto, Finish, RestoreEnds, ReleaseGate, identity,
     flags, carrier, storeVars, inputVars
<1>11. ASSUME NEW r \in Requests, ActiveCommit(r) PROVE CloseFlushes'
  BY <1>11, SMTT(60) DEF ActiveCommit, Goto, Finish, RestoreEnds, ReleaseGate,
     CommitMirror, identity, flags, storeVars, inputVars
<1>12. ASSUME NEW r \in Requests, RestoreLoad(r) PROVE CloseFlushes'
  BY <1>12 DEF RestoreLoad, Goto, Finish, RestoreEnds, objVars, identity,
     flags, carrier, storeVars, inputVars
<1>13. ASSUME NEW r \in Requests, RestoreReserve(r) PROVE CloseFlushes'
  BY <1>13 DEF RestoreReserve, Goto, Finish, RestoreEnds, objVars, identity,
     flags, carrier, storeVars, inputVars, Active
<1>14. ASSUME NEW r \in Requests, Hydrate(r) PROVE CloseFlushes'
  BY <1>14, SMTT(60) DEF Hydrate, Goto, Finish, RestoreEnds, TakeGate,
     storeVars, inputVars
<1>15. ASSUME NEW r \in Requests, RestoreCommit(r) PROVE CloseFlushes'
  BY <1>15, SMTT(60) DEF RestoreCommit, Goto, Finish, RestoreEnds,
     ReleaseGate, CommitMirror, identity, storeVars, inputVars
<1>16. ASSUME NEW r \in Requests, Replay(r) PROVE CloseFlushes'
  BY <1>16 DEF Replay, Goto, Finish, RestoreEnds, ReleaseGate, identity,
     flags, carrier, storeVars, inputVars
<1>17. ASSUME NEW r \in Requests, AddressSession(r) PROVE CloseFlushes'
  BY <1>17 DEF AddressSession, Goto, Finish, Arrive, Known, agentVars,
     objVars, identity, flags, carrier, storeVars
<1>18. ASSUME NEW r \in Requests, Lookup(r) PROVE CloseFlushes'
  BY <1>18 DEF Lookup, Goto, Finish, agentVars, objVars, identity, flags,
     carrier, storeVars, inputVars
<1>19. ASSUME NEW r \in Requests, Admit(r) PROVE CloseFlushes'
  BY <1>19 DEF Admit, Goto, Finish, Closing, agentVars, objVars, identity,
     flags, carrier, storeVars, inputVars
<1>20. ASSUME NEW r \in Requests, AcquireGate(r) PROVE CloseFlushes'
  BY <1>20 DEF AcquireGate, Goto, Finish, TakeGate, Closing, agentVars,
     identity, flags, carrier, storeVars, inputVars
<1>21. ASSUME NEW r \in Requests, InstallTurn(r) PROVE CloseFlushes'
  BY <1>21 DEF InstallTurn, Goto, Finish, ReleaseGate, Closing, agentVars,
     identity, carrier, storeVars, inputVars
<1>22. ASSUME NEW r \in Requests, TurnNotStarted(r) PROVE CloseFlushes'
  BY <1>22 DEF TurnNotStarted, Finish, ReleaseGate, agentVars, identity,
     carrier, storeVars, inputVars
<1>23. ASSUME NEW r \in Requests, NativeExit(r) PROVE CloseFlushes'
  BY <1>23 DEF NativeExit, Goto, agentVars, identity, carrier, storeVars,
     inputVars
<1>24. ASSUME NEW r \in Requests, Settle(r) PROVE CloseFlushes'
  BY <1>24, SMTT(60) DEF Settle, Goto, CommitMirror, agentVars, identity,
     flags, storeVars, inputVars
<1>25. ASSUME NEW r \in Requests, EndTurn(r) PROVE CloseFlushes'
  BY <1>25 DEF EndTurn, Finish, ReleaseGate, agentVars, identity, carrier,
     storeVars, inputVars
<1>26. ASSUME NEW r \in Requests, ConfigCommit(r) PROVE CloseFlushes'
  <2>1. obj[r] \in Requests /\ sid[obj[r]] \in Ids /\ life[obj[r]] \in InUse
    BY <1>26 DEF ConfigCommit, LifeOK, Opened, BuiltOK, GateLabels, Holding,
       InUse
  <2>2. durable[sid[obj[r]]] <= rows[obj[r]] /\ rows[obj[r]] <= thread[sid[obj[r]]]
    BY <1>26, <2>1 DEF RowsOK, InUse
  <2>3. \A p \in Requests : p # obj[r] /\ life[p] \in InUse => sid[p] # sid[obj[r]]
    BY <1>26, <2>1 DEF OneObjectPerThread, InUse
  <2>4. QED
    BY <1>26, <2>1, <2>2, <2>3 DEF ConfigCommit, Finish, ReleaseGate,
       CommitMirror, agentVars, identity, flags, storeVars, inputVars
<1>27. ASSUME NEW r \in Requests, CancelTurn(r) PROVE CloseFlushes'
  BY <1>27 DEF CancelTurn, Finish, agentVars, identity, carrier, storeVars,
     inputVars
<1>28. ASSUME NEW r \in Requests, DeleteBegin(r) PROVE CloseFlushes'
  BY <1>28 DEF DeleteBegin, Goto, Finish, Arrive, Known, agentVars, objVars,
     identity, flags, carrier, storeVars
<1>29. ASSUME NEW r \in Requests, DeleteStore(r) PROVE CloseFlushes'
  BY <1>29 DEF DeleteStore, Goto, Finish, agentVars, objVars, identity, flags,
     carrier, inputVars
<1>30. ASSUME NEW r \in Requests, DeleteMark(r) PROVE CloseFlushes'
  BY <1>30 DEF DeleteMark, Goto, Finish, objVars, identity, flags, carrier,
     storeVars, inputVars
<1>31. ASSUME NEW r \in Requests, ShutdownBegin(r) PROVE CloseFlushes'
  BY <1>31 DEF ShutdownBegin, Goto, Finish, Arrive, objVars, identity, flags,
     carrier, storeVars, Active
<1>32. ASSUME NEW r \in Requests, ShutdownNext(r) PROVE CloseFlushes'
  BY <1>32 DEF ShutdownNext, Goto, Finish, agentVars, objVars, identity,
     flags, carrier, storeVars, inputVars
<1>33. ASSUME NEW r \in Requests, CloseBegin(r) PROVE CloseFlushes'
  BY <1>33 DEF CloseBegin, Goto, Closing, agentVars, identity, carrier,
     storeVars, inputVars
<1>34. ASSUME NEW r \in Requests, CloseGate(r) PROVE CloseFlushes'
  BY <1>34 DEF CloseGate, Goto, TakeGate, agentVars, identity, flags, carrier,
     storeVars, inputVars
<1>35. ASSUME NEW r \in Requests, CloseCommit(r) PROVE CloseFlushes'
  BY <1>35 DEF CloseCommit, Goto, CommitMirror, agentVars, identity,
     storeVars, inputVars
<1>36. ASSUME NEW r \in Requests, CloseRelease(r) PROVE CloseFlushes'
  BY <1>36 DEF CloseRelease, Goto, ReleaseGate, agentVars, identity, flags,
     carrier, storeVars, inputVars
<1>37. ASSUME NEW r \in Requests, CloseWait(r) PROVE CloseFlushes'
  BY <1>37 DEF CloseWait, Goto, agentVars, objVars, identity, flags, carrier,
     storeVars, inputVars
<1>38. ASSUME NEW r \in Requests, Detach(r) PROVE CloseFlushes'
  BY <1>38 DEF Detach, Goto, Finish, Detached, objVars, identity, flags,
     carrier, storeVars, inputVars
<1>39. CASE UNCHANGED vars
  BY <1>39 DEF vars, agentVars, objVars, identity, flags, carrier, storeVars,
     inputVars
<1>40. QED
  BY <1>1, <1>2, <1>3, <1>4, <1>5, <1>6, <1>7, <1>8, <1>9, <1>10, <1>11,
     <1>12, <1>13, <1>14, <1>15, <1>16, <1>17, <1>18, <1>19, <1>20, <1>21,
     <1>22, <1>23, <1>24, <1>25, <1>26, <1>27, <1>28, <1>29, <1>30, <1>31,
     <1>32, <1>33, <1>34, <1>35, <1>36, <1>37, <1>38, <1>39, ZenonT(60)
  DEF Next, Begin, Handle, TurnEnds, Quiescent

\* Every step of a request is a native turn, a publication, a delete or a stutter
\* of the mirror.
LEMMA MirrorSteps ==
  ASSUME ClaimsInv, EphemeralOK, RowsOK, [Next]_vars
  PROVE  [Mirror!Next]_<<store, durable, thread>>
<1> USE RequestsAssumption, IdsAssumption DEF IInv, TypeOK, AgentTypes,
       ObjectTypes, RequestTypes, StoreTypes, ClaimsInv, PositionOK,
       ObjectLabels, BuilderLabels, EmptyLabels, CloseLabels, RestoreLabels,
       InUse
<1>1. ASSUME NEW r \in Requests, NewReserve(r) PROVE [Mirror!Next]_<<store, durable, thread>>
  BY <1>1 DEF NewReserve, Goto, Finish, Arrive, flags, carrier, storeVars,
     Active
<1>2. ASSUME NEW r \in Requests, NewCreate(r) PROVE [Mirror!Next]_<<store, durable, thread>>
  BY <1>2 DEF NewCreate, Goto, Finish, TakeGate, Fresh, Known, carrier,
     storeVars, inputVars
<1>3. ASSUME NEW r \in Requests, Install(r) PROVE [Mirror!Next]_<<store, durable, thread>>
  BY <1>3 DEF Install, Goto, Finish, ReleaseGate, RestoreClaims, identity,
     carrier, storeVars, inputVars
<1>4. ASSUME NEW r \in Requests, ReleaseSlot(r) PROVE [Mirror!Next]_<<store, durable, thread>>
  BY <1>4 DEF ReleaseSlot, Goto, objVars, identity, flags, carrier, storeVars,
     inputVars
<1>5. ASSUME NEW r \in Requests, NewCommit(r) PROVE [Mirror!Next]_<<store, durable, thread>>
  <2>1. r \in Requests /\ sid[r] \in Ids /\ life[r] \in InUse
    BY <1>5 DEF NewCommit, LifeOK, Opened, BuiltOK, GateLabels, Holding
  <2>2. durable[sid[r]] <= rows[r] /\ rows[r] <= thread[sid[r]]
    BY <1>5, <2>1 DEF RowsOK, InUse
  <2>3. Mirror!Publish(sid[r]) \/ UNCHANGED <<store, durable, thread>>
    BY <1>5, <2>1, <2>2 DEF NewCommit, CommitMirror, storeVars, Mirror!Publish
  <2>4. QED
    BY <2>1, <2>3 DEF Mirror!Next
<1>6. ASSUME NEW r \in Requests, RestoreBegin(r) PROVE [Mirror!Next]_<<store, durable, thread>>
  BY <1>6 DEF RestoreBegin, Goto, Finish, Arrive, Known, objVars, identity,
     flags, carrier, storeVars
<1>7. ASSUME NEW r \in Requests, RestoreLookup(r) PROVE [Mirror!Next]_<<store, durable, thread>>
  BY <1>7 DEF RestoreLookup, Goto, Finish, RestoreEnds, objVars, identity,
     flags, carrier, storeVars, inputVars
<1>8. ASSUME NEW r \in Requests, RestoreGate(r) PROVE [Mirror!Next]_<<store, durable, thread>>
  BY <1>8 DEF RestoreGate, Goto, Finish, RestoreEnds, TakeGate, Closing,
     identity, flags, carrier, storeVars, inputVars
<1>9. ASSUME NEW r \in Requests, RestoreCarrier(r) PROVE [Mirror!Next]_<<store, durable, thread>>
  BY <1>9 DEF RestoreCarrier, Goto, Finish, RestoreEnds, ReleaseGate, Closing,
     identity, flags, carrier, storeVars, inputVars
<1>10. ASSUME NEW r \in Requests, ActiveLoad(r) PROVE [Mirror!Next]_<<store, durable, thread>>
  BY <1>10 DEF ActiveLoad, Goto, Finish, RestoreEnds, ReleaseGate, identity,
     flags, carrier, storeVars, inputVars
<1>11. ASSUME NEW r \in Requests, ActiveCommit(r) PROVE [Mirror!Next]_<<store, durable, thread>>
  <2>1. obj[r] \in Requests /\ target[r] \in Ids /\ sid[obj[r]] = target[r] /\ life[obj[r]] \in InUse
    BY <1>11 DEF ActiveCommit, LifeOK, Opened, BuiltOK, GateLabels, Holding,
       RestoreOK, Restoring
  <2>2. durable[target[r]] <= rows[obj[r]] /\ rows[obj[r]] <= thread[target[r]]
    BY <1>11, <2>1 DEF RowsOK, InUse
  <2>3. Mirror!Publish(target[r]) \/ UNCHANGED <<store, durable, thread>>
    BY <1>11, <2>1, <2>2 DEF ActiveCommit, CommitMirror, storeVars,
       Mirror!Publish
  <2>4. QED
    BY <2>1, <2>3 DEF Mirror!Next
<1>12. ASSUME NEW r \in Requests, RestoreLoad(r) PROVE [Mirror!Next]_<<store, durable, thread>>
  BY <1>12 DEF RestoreLoad, Goto, Finish, RestoreEnds, objVars, identity,
     flags, carrier, storeVars, inputVars
<1>13. ASSUME NEW r \in Requests, RestoreReserve(r) PROVE [Mirror!Next]_<<store, durable, thread>>
  BY <1>13 DEF RestoreReserve, Goto, Finish, RestoreEnds, objVars, identity,
     flags, carrier, storeVars, inputVars, Active
<1>14. ASSUME NEW r \in Requests, Hydrate(r) PROVE [Mirror!Next]_<<store, durable, thread>>
  BY <1>14 DEF Hydrate, Goto, Finish, RestoreEnds, TakeGate, storeVars,
     inputVars
<1>15. ASSUME NEW r \in Requests, RestoreCommit(r) PROVE [Mirror!Next]_<<store, durable, thread>>
  <2>1. r \in Requests /\ sid[r] \in Ids /\ life[r] \in InUse
    BY <1>15 DEF RestoreCommit, LifeOK, Opened, BuiltOK, GateLabels, Holding
  <2>2. durable[sid[r]] <= rows[r] /\ rows[r] <= thread[sid[r]]
    BY <1>15, <2>1 DEF RowsOK, InUse
  <2>3. Mirror!Publish(sid[r]) \/ UNCHANGED <<store, durable, thread>>
    BY <1>15, <2>1, <2>2 DEF RestoreCommit, CommitMirror, storeVars,
       Mirror!Publish
  <2>4. QED
    BY <2>1, <2>3 DEF Mirror!Next
<1>16. ASSUME NEW r \in Requests, Replay(r) PROVE [Mirror!Next]_<<store, durable, thread>>
  BY <1>16 DEF Replay, Goto, Finish, RestoreEnds, ReleaseGate, identity,
     flags, carrier, storeVars, inputVars
<1>17. ASSUME NEW r \in Requests, AddressSession(r) PROVE [Mirror!Next]_<<store, durable, thread>>
  BY <1>17 DEF AddressSession, Goto, Finish, Arrive, Known, agentVars,
     objVars, identity, flags, carrier, storeVars
<1>18. ASSUME NEW r \in Requests, Lookup(r) PROVE [Mirror!Next]_<<store, durable, thread>>
  BY <1>18 DEF Lookup, Goto, Finish, agentVars, objVars, identity, flags,
     carrier, storeVars, inputVars
<1>19. ASSUME NEW r \in Requests, Admit(r) PROVE [Mirror!Next]_<<store, durable, thread>>
  BY <1>19 DEF Admit, Goto, Finish, Closing, agentVars, objVars, identity,
     flags, carrier, storeVars, inputVars
<1>20. ASSUME NEW r \in Requests, AcquireGate(r) PROVE [Mirror!Next]_<<store, durable, thread>>
  BY <1>20 DEF AcquireGate, Goto, Finish, TakeGate, Closing, agentVars,
     identity, flags, carrier, storeVars, inputVars
<1>21. ASSUME NEW r \in Requests, InstallTurn(r) PROVE [Mirror!Next]_<<store, durable, thread>>
  BY <1>21 DEF InstallTurn, Goto, Finish, ReleaseGate, Closing, agentVars,
     identity, carrier, storeVars, inputVars
<1>22. ASSUME NEW r \in Requests, TurnNotStarted(r) PROVE [Mirror!Next]_<<store, durable, thread>>
  BY <1>22 DEF TurnNotStarted, Finish, ReleaseGate, agentVars, identity,
     carrier, storeVars, inputVars
<1>23. ASSUME NEW r \in Requests, NativeExit(r) PROVE [Mirror!Next]_<<store, durable, thread>>
  <2>1. obj[r] \in Requests /\ sid[obj[r]] \in Ids
    BY <1>23 DEF NativeExit, LifeOK, Opened, BuiltOK, GateLabels, Holding
  <2>2. PICK g \in {thread[sid[obj[r]]], thread[sid[obj[r]]] + 1} :
           thread' = [thread EXCEPT ![sid[obj[r]]] = g]
    BY <1>23 DEF NativeExit
  <2>3. UNCHANGED <<store, durable>>
    BY <1>23 DEF NativeExit, storeVars
  <2>4. CASE g = thread[sid[obj[r]]]
    <3>1. thread' = thread
      BY <2>1, <2>2, <2>4
    <3>2. QED
      BY <2>3, <3>1
  <2>5. CASE g = thread[sid[obj[r]]] + 1
    <3>1. Mirror!Turn(sid[obj[r]])
      BY <2>2, <2>3, <2>5 DEF Mirror!Turn
    <3>2. QED
      BY <2>1, <3>1 DEF Mirror!Next
  <2>6. QED
    BY <2>2, <2>4, <2>5
<1>24. ASSUME NEW r \in Requests, Settle(r) PROVE [Mirror!Next]_<<store, durable, thread>>
  <2>1. obj[r] \in Requests /\ sid[obj[r]] \in Ids /\ life[obj[r]] \in InUse
    BY <1>24 DEF Settle, LifeOK, Opened, BuiltOK, GateLabels, Holding
  <2>2. durable[sid[obj[r]]] <= rows[obj[r]] /\ rows[obj[r]] <= thread[sid[obj[r]]]
    BY <1>24, <2>1 DEF RowsOK, InUse
  <2>3. Mirror!Publish(sid[obj[r]]) \/ UNCHANGED <<store, durable, thread>>
    BY <1>24, <2>1, <2>2 DEF Settle, CommitMirror, storeVars, Mirror!Publish
  <2>4. QED
    BY <2>1, <2>3 DEF Mirror!Next
<1>25. ASSUME NEW r \in Requests, EndTurn(r) PROVE [Mirror!Next]_<<store, durable, thread>>
  BY <1>25 DEF EndTurn, Finish, ReleaseGate, agentVars, identity, carrier,
     storeVars, inputVars
<1>26. ASSUME NEW r \in Requests, ConfigCommit(r) PROVE [Mirror!Next]_<<store, durable, thread>>
  <2>1. obj[r] \in Requests /\ sid[obj[r]] \in Ids /\ life[obj[r]] \in InUse
    BY <1>26 DEF ConfigCommit, LifeOK, Opened, BuiltOK, GateLabels, Holding
  <2>2. durable[sid[obj[r]]] <= rows[obj[r]] /\ rows[obj[r]] <= thread[sid[obj[r]]]
    BY <1>26, <2>1 DEF RowsOK, InUse
  <2>3. Mirror!Publish(sid[obj[r]]) \/ UNCHANGED <<store, durable, thread>>
    BY <1>26, <2>1, <2>2 DEF ConfigCommit, CommitMirror, storeVars,
       Mirror!Publish
  <2>4. QED
    BY <2>1, <2>3 DEF Mirror!Next
<1>27. ASSUME NEW r \in Requests, CancelTurn(r) PROVE [Mirror!Next]_<<store, durable, thread>>
  BY <1>27 DEF CancelTurn, Finish, agentVars, identity, carrier, storeVars,
     inputVars
<1>28. ASSUME NEW r \in Requests, DeleteBegin(r) PROVE [Mirror!Next]_<<store, durable, thread>>
  BY <1>28 DEF DeleteBegin, Goto, Finish, Arrive, Known, agentVars, objVars,
     identity, flags, carrier, storeVars
<1>29. ASSUME NEW r \in Requests, DeleteStore(r) PROVE [Mirror!Next]_<<store, durable, thread>>
  <2>1. target[r] \in Ids
    BY <1>29 DEF DeleteStore, ResultOK
  <2>2. Mirror!Delete(target[r]) \/ UNCHANGED <<store, durable, thread>>
    BY <1>29, <2>1 DEF DeleteStore, Mirror!Delete
  <2>3. QED
    BY <2>1, <2>2 DEF Mirror!Next
<1>30. ASSUME NEW r \in Requests, DeleteMark(r) PROVE [Mirror!Next]_<<store, durable, thread>>
  BY <1>30 DEF DeleteMark, Goto, Finish, objVars, identity, flags, carrier,
     storeVars, inputVars
<1>31. ASSUME NEW r \in Requests, ShutdownBegin(r) PROVE [Mirror!Next]_<<store, durable, thread>>
  BY <1>31 DEF ShutdownBegin, Goto, Finish, Arrive, objVars, identity, flags,
     carrier, storeVars, Active
<1>32. ASSUME NEW r \in Requests, ShutdownNext(r) PROVE [Mirror!Next]_<<store, durable, thread>>
  BY <1>32 DEF ShutdownNext, Goto, Finish, agentVars, objVars, identity,
     flags, carrier, storeVars, inputVars
<1>33. ASSUME NEW r \in Requests, CloseBegin(r) PROVE [Mirror!Next]_<<store, durable, thread>>
  BY <1>33 DEF CloseBegin, Goto, Closing, agentVars, identity, carrier,
     storeVars, inputVars
<1>34. ASSUME NEW r \in Requests, CloseGate(r) PROVE [Mirror!Next]_<<store, durable, thread>>
  BY <1>34 DEF CloseGate, Goto, TakeGate, agentVars, identity, flags, carrier,
     storeVars, inputVars
<1>35. ASSUME NEW r \in Requests, CloseCommit(r) PROVE [Mirror!Next]_<<store, durable, thread>>
  <2>1. obj[r] \in Requests /\ sid[obj[r]] \in Ids /\ life[obj[r]] \in InUse
    BY <1>35 DEF CloseCommit, LifeOK, Opened, BuiltOK, GateLabels, Holding
  <2>2. durable[sid[obj[r]]] <= rows[obj[r]] /\ rows[obj[r]] <= thread[sid[obj[r]]]
    BY <1>35, <2>1 DEF RowsOK, InUse
  <2>3. Mirror!Publish(sid[obj[r]]) \/ UNCHANGED <<store, durable, thread>>
    BY <1>35, <2>1, <2>2 DEF CloseCommit, CommitMirror, storeVars,
       Mirror!Publish
  <2>4. QED
    BY <2>1, <2>3 DEF Mirror!Next
<1>36. ASSUME NEW r \in Requests, CloseRelease(r) PROVE [Mirror!Next]_<<store, durable, thread>>
  BY <1>36 DEF CloseRelease, Goto, ReleaseGate, agentVars, identity, flags,
     carrier, storeVars, inputVars
<1>37. ASSUME NEW r \in Requests, CloseWait(r) PROVE [Mirror!Next]_<<store, durable, thread>>
  BY <1>37 DEF CloseWait, Goto, agentVars, objVars, identity, flags, carrier,
     storeVars, inputVars
<1>38. ASSUME NEW r \in Requests, Detach(r) PROVE [Mirror!Next]_<<store, durable, thread>>
  BY <1>38 DEF Detach, Goto, Finish, Detached, objVars, identity, flags,
     carrier, storeVars, inputVars
<1>39. CASE UNCHANGED vars
  BY <1>39 DEF vars, agentVars, objVars, identity, flags, carrier, storeVars,
     inputVars
<1>40. QED
  BY <1>1, <1>2, <1>3, <1>4, <1>5, <1>6, <1>7, <1>8, <1>9, <1>10, <1>11,
     <1>12, <1>13, <1>14, <1>15, <1>16, <1>17, <1>18, <1>19, <1>20, <1>21,
     <1>22, <1>23, <1>24, <1>25, <1>26, <1>27, <1>28, <1>29, <1>30, <1>31,
     <1>32, <1>33, <1>34, <1>35, <1>36, <1>37, <1>38, <1>39 DEF Next, Begin,
     Handle, TurnEnds, Quiescent

----------------------------------------------------------------------------
\* The store starts with the stored ids only, and no object exists.
LEMMA MirrorInit == Init => MirrorInv
<1> SUFFICES ASSUME Init PROVE MirrorInv
  OBVIOUS
<1>1. ClaimsInv
  BY ClaimsInit
<1>2. EphemeralOK /\ EphemeralNotStored /\ ErasedOK /\ CloseFlushes
  BY DEF Init, EphemeralOK, EphemeralNotStored, ErasedOK, CloseFlushes
<1>3. RowsOK
  BY DEF Init, RowsOK, InUse
<1>4. QED
  BY <1>1, <1>2, <1>3 DEF MirrorInv

\* Every step keeps it.
LEMMA MirrorStep == MirrorInv /\ [Next]_vars => MirrorInv'
<1> SUFFICES ASSUME MirrorInv, [Next]_vars PROVE MirrorInv'
  OBVIOUS
<1>1. ClaimsInv'
  BY ClaimsStep DEF MirrorInv
<1>2. EphemeralOK' /\ EphemeralNotStored'
  BY EphemeralStep, NotStoredStep DEF MirrorInv
<1>3. ErasedOK' /\ RowsOK' /\ CloseFlushes'
  BY ErasedStep, RowsStep, FlushStep DEF MirrorInv
<1>4. QED
  BY <1>1, <1>2, <1>3 DEF MirrorInv

\* So it holds in every reachable state.
LEMMA MirrorInductive == Spec => []MirrorInv
<1>1. QED
  BY MirrorInit, MirrorStep, PTL DEF Spec

\* An ephemeral session is never in the store, whatever commits, restores and
\* deletes run (Agent.ephemeral, commitMirror).
THEOREM EphemeralStaysOut == Spec => []EphemeralNotStored
<1>1. MirrorInv => EphemeralNotStored
  BY DEF MirrorInv
<1>2. QED
  BY <1>1, MirrorInductive, PTL

\* A close that succeeded published everything its session captured, and no later
\* request moves the store behind it (session.close, commitMirror).
THEOREM ClosePublishes == Spec => []CloseFlushes
<1>1. MirrorInv => CloseFlushes
  BY DEF MirrorInv
<1>2. QED
  BY <1>1, MirrorInductive, PTL

\* No commit or restore racing a delete brings its session back, in the registry
\* or in the store (DeleteSession, deleteState).
THEOREM DeleteIsFinal == Spec => []DeleteWins
<1>1. MirrorInv => DeleteWins
  <2> SUFFICES ASSUME MirrorInv, NEW r \in Requests, kind[r] = "delete", result[r] = "ok"
               PROVE  sessions[target[r]] = None /\ store[target[r]] # "stored"
    BY DEF DeleteWins
  <2>1. sessions[target[r]] = None
    BY DEF MirrorInv, ClaimsInv, DeleteOK
  <2>2. target[r] \in Ids
    BY IdsAssumption DEF MirrorInv, ClaimsInv, DeleteOK, IInv, TypeOK, AgentTypes
  <2>3. store[target[r]] = "tombstone" \/ \E o \in Requests : eph[o] /\ sid[o] = target[r]
    BY DEF MirrorInv, ErasedOK, Erased
  <2>4. store[target[r]] # "stored"
    BY <2>2, <2>3, IdsAssumption DEF MirrorInv, EphemeralNotStored
  <2>5. QED
    BY <2>1, <2>4
<1>2. QED
  BY <1>1, MirrorInductive, PTL

\* The store implements the abstract mirror: for any number of closers, config
\* writes, restores and turns, a mirror never moves back over what another request
\* made durable nor past what its thread reached (commitMirror, DurableMirror).
THEOREM StoreImplementsMirror == Spec => ImplementsMirror
<1>1. Init => Mirror!Init
  BY DEF Init, Mirror!Init
<1>2. MirrorInv /\ [Next]_vars => [Mirror!Next]_<<store, durable, thread>>
  BY MirrorSteps DEF MirrorInv
<1>3. QED
  BY <1>1, <1>2, MirrorInductive, PTL DEF Spec, ImplementsMirror, Mirror!Spec


----------------------------------------------------------------------------
(* session/list, which looks at the registry and the store at different    *)
(* moments while requests go on: it misses no stored session.              *)

\* A session that was stored when the list began, is still stored and not deleted.
Stays(i) == i \in before /\ store[i] = "stored" /\ i \notin deleted

\* An id that was stored never lacks a mirror again, and each session that stays is
\* in the answer, among the summaries left, or the one being loaded.
ListOK ==
  /\ \A i \in before : i \in Ids /\ store[i] # "absent"
  /\ lpc = "next" => \A i \in Ids : Stays(i) => i \in seen \cup left
  /\ lpc = "load" => \A i \in Ids : Stays(i) => i \in seen \cup left \cup {current}
  /\ lpc = "ok" => \A i \in Ids : Stays(i) => i \in seen

\* A request's step neither brings a deleted id back nor a mirror out of its
\* tombstone, so no session begins to stay (deleteState, commitMirror).
LEMMA DeletedGrows ==
  ASSUME TypeOK, [Next]_vars
  PROVE  deleted \subseteq deleted'
<1>1. ASSUME NEW r \in Requests, Begin(r) \/ Handle(r) \/ TurnEnds(r)
      PROVE  deleted \subseteq deleted'
  BY <1>1 DEF Begin, Handle, TurnEnds,
     NewReserve, NewCreate, Install, ReleaseSlot, NewCommit, RestoreBegin,
     RestoreLookup, RestoreGate, RestoreCarrier, ActiveLoad, ActiveCommit, RestoreLoad,
     RestoreReserve, Hydrate, RestoreCommit, Replay, AddressSession, Lookup, Admit,
     AcquireGate, InstallTurn, TurnNotStarted, NativeExit, Settle, EndTurn,
     ConfigCommit, CancelTurn, DeleteBegin, DeleteStore, DeleteMark, ShutdownBegin,
     ShutdownNext, CloseBegin, CloseGate, CloseCommit, CloseRelease, CloseWait, Detach,
     Goto, Finish, RestoreEnds, agentVars
<1>2. CASE UNCHANGED vars
  BY <1>2 DEF vars, agentVars
<1>3. QED
  BY <1>1, <1>2 DEF Next, Quiescent

\* What stays after a step of a request stayed before it.
LEMMA NoneBegins ==
  ASSUME MirrorInv, ListOK, [Next]_vars, UNCHANGED before
  PROVE  /\ \A i \in before : store'[i] # "absent"
         /\ \A i \in Ids : Stays(i)' => Stays(i)
<1>1. deleted \subseteq deleted' /\ store \in [Ids -> {"absent", "stored", "tombstone"}]
  BY DeletedGrows DEF MirrorInv, ClaimsInv, IInv, TypeOK, StoreTypes
<1>2. [Mirror!Next]_<<store, durable, thread>>
  BY MirrorSteps DEF MirrorInv
<1>3. \A i \in Ids : /\ store[i] # "absent" => store'[i] # "absent"
                     /\ store[i] = "tombstone" => store'[i] = "tombstone"
  BY <1>1, <1>2 DEF Mirror!Next, Mirror!Turn, Mirror!Publish, Mirror!Delete
<1>4. \A i \in before : i \in Ids /\ store[i] # "absent"
  BY DEF ListOK
<1>5. QED
  BY <1>1, <1>3, <1>4 DEF Stays

\* The list keeps what stays in view through its own steps and everybody else's.
LEMMA ListOKStep ==
  ASSUME MirrorInv, ListOK,
         [(Next /\ UNCHANGED listVars) \/ (ListStep /\ UNCHANGED vars)]_<<vars, listVars>>
  PROVE  ListOK'
<1>1. CASE [Next]_vars /\ UNCHANGED listVars
  BY <1>1, NoneBegins DEF ListOK, listVars
<1>2. CASE ListStep /\ UNCHANGED vars
  <2>1. UNCHANGED <<store, deleted, sessions, closed, eph>>
    BY <1>2 DEF vars, agentVars, objVars, identity, storeVars
  <2>2. UNCHANGED before => \A i \in Ids : Stays(i)' <=> Stays(i)
    BY <2>1 DEF Stays
  <2>3. CASE ListActive
    BY <2>1, <2>3 DEF ListOK, ListActive, StoredIds
  <2>4. CASE ListStore
    BY <2>1, <2>2, <2>4 DEF ListOK, ListStore, StoredIds, Stays
  <2>5. CASE ListNext
    BY <2>1, <2>2, <2>5 DEF ListOK, ListNext, Skips, Stays
  <2>6. CASE ListLoad
    BY <2>1, <2>2, <2>6 DEF ListOK, ListLoad
  <2>7. QED
    BY <1>2, <2>3, <2>4, <2>5, <2>6 DEF ListStep
<1>3. QED
  BY <1>1, <1>2

\* It holds beside the invariant of the registry.
LEMMA ListInductive == ListSpec => [](MirrorInv /\ ListOK)
<1>1. Init /\ ListInit => MirrorInv /\ ListOK
  BY MirrorInit, IdsAssumption DEF Init, ListInit, ListOK
<1>2. MirrorInv /\ ListOK
        /\ [(Next /\ UNCHANGED listVars) \/ (ListStep /\ UNCHANGED vars)]_<<vars, listVars>>
      => (MirrorInv /\ ListOK)'
  BY MirrorStep, ListOKStep
<1>3. QED
  BY <1>1, <1>2, PTL DEF ListSpec

\* A list that succeeds has every session that the store had when it began, of an
\* earlier process or of this one, and that nobody deleted, however it was created,
\* restored, closed and restored again while the list moved from the registry to
\* the store (ListSessions).
THEOREM ListMissesNone == ListSpec => []ListComplete
<1>1. ListOK => ListComplete
  BY DEF ListOK, ListComplete, Stays
<1>2. QED
  BY <1>1, ListInductive, PTL
============================================================================
