----------------------- MODULE SessionRegistryProofs -----------------------
(***************************************************************************)
(* Type correctness and the mutual exclusion of foreground work, for any   *)
(* number of requests, ids and slots.                                      *)
(***************************************************************************)
EXTENDS SessionRegistry, TLAPS

\* Where a restore is, where a request closes a session, and where a request
\* that builds an object holds that object's gate.
RestoreLabels == {"restore_lookup", "restore_gate", "restore_carrier",
                  "active_load", "active_commit", "load", "restore_reserve",
                  "hydrate", "restore_commit", "replay"}

CloseLabels == {"close_begin", "close_gate", "close_commit", "close_release",
                "close_wait", "detach"}

BuilderLabels == {"install", "release_slot", "commit", "restore_commit"}

EmptyLabels == {"idle", "restore_lookup", "load", "restore_reserve", "hydrate"}

\* What a request's position says about its method and its operands.
PositionOK ==
  \A r \in Requests :
    /\ pc[r] \in RestoreLabels => kind[r] = "restore"
    /\ pc[r] \in {"install", "release_slot"} => kind[r] \in {"new", "restore"}
    /\ pc[r] \in {"create", "commit"} => kind[r] = "new"
    /\ kind[r] = "restore" =>
         /\ pc[r] \in RestoreLabels \cup CloseLabels
                       \cup {"install", "release_slot", "done"}
         /\ target[r] \in Ids
    /\ pc[r] \in {"lookup", "delete_store", "delete_mark"} => target[r] \in Ids
    /\ pc[r] \in ObjectLabels => obj[r] \in Requests

\* A request that will build an object has none before, and works on it alone
\* until the object is installed.
BuilderOK ==
  \A r \in Requests :
    /\ pc[r] \in {"idle", "create"} => life[r] = "none"
    /\ kind[r] = "restore" /\ obj[r] # r => life[r] = "none"
    /\ pc[r] \in EmptyLabels => obj[r] # r
    /\ pc[r] \in BuilderLabels => life[r] # "none"
    /\ kind[r] = "restore" /\ pc[r] \in BuilderLabels => obj[r] = r

\* The inductive invariant: GateExclusive rests on the links because a new
\* object's gate is filled without looking (HoldSessionGate).
IInv == TypeOK /\ PositionOK /\ BuilderOK /\ GateExclusive

\* Every step keeps the types of Agent.sessions, deleted, ephemeral, starting
\* and restores: install and delete only ever name an id that exists.
LEMMA AgentTypesStep ==
  ASSUME TypeOK, PositionOK, BuilderOK, BuiltOK, Next PROVE AgentTypes'
<1>1. ASSUME NEW r \in Requests, NewReserve(r) PROVE AgentTypes'
  BY <1>1 DEF NewReserve, TypeOK, AgentTypes
<1>2. ASSUME NEW r \in Requests, NewCreate(r) PROVE AgentTypes'
  BY <1>2 DEF NewCreate, TypeOK, AgentTypes
<1>3. ASSUME NEW r \in Requests, Install(r) PROVE AgentTypes'
  <2>1. sid[r] \in Ids
    BY <1>3 DEF Install, BuilderOK, BuilderLabels, BuiltOK
  <2>2. QED
    BY <1>3, <2>1 DEF Install, TypeOK, AgentTypes, RestoreClaims
<1>4. ASSUME NEW r \in Requests, ReleaseSlot(r) PROVE AgentTypes'
  BY <1>4 DEF ReleaseSlot, TypeOK, AgentTypes
<1>5. ASSUME NEW r \in Requests, NewCommit(r) PROVE AgentTypes'
  BY <1>5 DEF NewCommit, TypeOK, AgentTypes, agentVars
<1>6. ASSUME NEW r \in Requests, RestoreBegin(r) PROVE AgentTypes'
  BY <1>6 DEF RestoreBegin, TypeOK, AgentTypes
<1>7. ASSUME NEW r \in Requests, RestoreLookup(r) PROVE AgentTypes'
  BY <1>7 DEF RestoreLookup, TypeOK, AgentTypes, RestoreEnds
<1>8. ASSUME NEW r \in Requests, RestoreGate(r) PROVE AgentTypes'
  BY <1>8 DEF RestoreGate, TypeOK, AgentTypes, RestoreEnds
<1>9. ASSUME NEW r \in Requests, RestoreCarrier(r) PROVE AgentTypes'
  BY <1>9 DEF RestoreCarrier, TypeOK, AgentTypes, RestoreEnds
<1>10. ASSUME NEW r \in Requests, ActiveLoad(r) PROVE AgentTypes'
  BY <1>10 DEF ActiveLoad, TypeOK, AgentTypes, RestoreEnds
<1>11. ASSUME NEW r \in Requests, ActiveCommit(r) PROVE AgentTypes'
  BY <1>11 DEF ActiveCommit, TypeOK, AgentTypes, RestoreEnds
<1>12. ASSUME NEW r \in Requests, RestoreLoad(r) PROVE AgentTypes'
  BY <1>12 DEF RestoreLoad, TypeOK, AgentTypes, RestoreEnds
<1>13. ASSUME NEW r \in Requests, RestoreReserve(r) PROVE AgentTypes'
  BY <1>13 DEF RestoreReserve, TypeOK, AgentTypes, RestoreEnds
<1>14. ASSUME NEW r \in Requests, Hydrate(r) PROVE AgentTypes'
  BY <1>14 DEF Hydrate, TypeOK, AgentTypes, RestoreEnds
<1>15. ASSUME NEW r \in Requests, RestoreCommit(r) PROVE AgentTypes'
  BY <1>15 DEF RestoreCommit, TypeOK, AgentTypes, RestoreEnds
<1>16. ASSUME NEW r \in Requests, Replay(r) PROVE AgentTypes'
  BY <1>16 DEF Replay, TypeOK, AgentTypes, RestoreEnds
<1>17. ASSUME NEW r \in Requests, AddressSession(r) PROVE AgentTypes'
  BY <1>17 DEF AddressSession, TypeOK, AgentTypes, agentVars
<1>18. ASSUME NEW r \in Requests, Lookup(r) PROVE AgentTypes'
  BY <1>18 DEF Lookup, TypeOK, AgentTypes, agentVars
<1>19. ASSUME NEW r \in Requests, Admit(r) PROVE AgentTypes'
  BY <1>19 DEF Admit, TypeOK, AgentTypes, agentVars
<1>20. ASSUME NEW r \in Requests, AcquireGate(r) PROVE AgentTypes'
  BY <1>20 DEF AcquireGate, TypeOK, AgentTypes, agentVars
<1>21. ASSUME NEW r \in Requests, InstallTurn(r) PROVE AgentTypes'
  BY <1>21 DEF InstallTurn, TypeOK, AgentTypes, agentVars
<1>22. ASSUME NEW r \in Requests, TurnNotStarted(r) PROVE AgentTypes'
  BY <1>22 DEF TurnNotStarted, TypeOK, AgentTypes, agentVars
<1>23. ASSUME NEW r \in Requests, NativeExit(r) PROVE AgentTypes'
  BY <1>23 DEF NativeExit, TypeOK, AgentTypes, agentVars
<1>24. ASSUME NEW r \in Requests, Settle(r) PROVE AgentTypes'
  BY <1>24 DEF Settle, TypeOK, AgentTypes, agentVars
<1>25. ASSUME NEW r \in Requests, EndTurn(r) PROVE AgentTypes'
  BY <1>25 DEF EndTurn, TypeOK, AgentTypes, agentVars
<1>26. ASSUME NEW r \in Requests, ConfigCommit(r) PROVE AgentTypes'
  BY <1>26 DEF ConfigCommit, TypeOK, AgentTypes, agentVars
<1>27. ASSUME NEW r \in Requests, CancelTurn(r) PROVE AgentTypes'
  BY <1>27 DEF CancelTurn, TypeOK, AgentTypes, agentVars
<1>28. ASSUME NEW r \in Requests, DeleteBegin(r) PROVE AgentTypes'
  BY <1>28 DEF DeleteBegin, TypeOK, AgentTypes, agentVars
<1>29. ASSUME NEW r \in Requests, DeleteStore(r) PROVE AgentTypes'
  BY <1>29 DEF DeleteStore, TypeOK, AgentTypes, agentVars
<1>30. ASSUME NEW r \in Requests, DeleteMark(r) PROVE AgentTypes'
  <2>1. target[r] \in Ids
    BY <1>30 DEF DeleteMark, PositionOK
  <2>2. QED
    BY <1>30, <2>1 DEF DeleteMark, TypeOK, AgentTypes
<1>31. ASSUME NEW r \in Requests, ShutdownBegin(r) PROVE AgentTypes'
  BY <1>31 DEF ShutdownBegin, TypeOK, AgentTypes, Active
<1>32. ASSUME NEW r \in Requests, ShutdownNext(r) PROVE AgentTypes'
  BY <1>32 DEF ShutdownNext, TypeOK, AgentTypes, agentVars
<1>33. ASSUME NEW r \in Requests, CloseBegin(r) PROVE AgentTypes'
  BY <1>33 DEF CloseBegin, TypeOK, AgentTypes, agentVars
<1>34. ASSUME NEW r \in Requests, CloseGate(r) PROVE AgentTypes'
  BY <1>34 DEF CloseGate, TypeOK, AgentTypes, agentVars
<1>35. ASSUME NEW r \in Requests, CloseCommit(r) PROVE AgentTypes'
  BY <1>35 DEF CloseCommit, TypeOK, AgentTypes, agentVars
<1>36. ASSUME NEW r \in Requests, CloseRelease(r) PROVE AgentTypes'
  BY <1>36 DEF CloseRelease, TypeOK, AgentTypes, agentVars
<1>37. ASSUME NEW r \in Requests, CloseWait(r) PROVE AgentTypes'
  BY <1>37 DEF CloseWait, TypeOK, AgentTypes, agentVars
<1>38. ASSUME NEW r \in Requests, Detach(r) PROVE AgentTypes'
  BY <1>38 DEF Detach, TypeOK, AgentTypes, Detached
<1>39. CASE UNCHANGED vars
  BY <1>39 DEF TypeOK, AgentTypes, vars, agentVars
<1>40. QED
  BY <1>1, <1>2, <1>3, <1>4, <1>5, <1>6, <1>7, <1>8, <1>9, <1>10, <1>11,
     <1>12, <1>13, <1>14, <1>15, <1>16, <1>17, <1>18, <1>19, <1>20, <1>21,
     <1>22, <1>23, <1>24, <1>25, <1>26, <1>27, <1>28, <1>29, <1>30, <1>31,
     <1>32, <1>33, <1>34, <1>35, <1>36, <1>37, <1>38, <1>39 DEF Next, Begin,
     Handle, TurnEnds, Quiescent

\* Every step keeps the types of the session objects: a handler changes the
\* flags, rows and gate of an object that has been built.
LEMMA ObjectTypesStep ==
  ASSUME TypeOK, PositionOK, BuilderOK, BuiltOK, Next PROVE ObjectTypes'
<1>1. ASSUME NEW r \in Requests, NewReserve(r) PROVE ObjectTypes'
  BY <1>1, InputsAssumption DEF NewReserve, TypeOK, ObjectTypes, flags,
     carrier
<1>2. ASSUME NEW r \in Requests, NewCreate(r) PROVE ObjectTypes'
  BY <1>2 DEF NewCreate, TypeOK, ObjectTypes, Lives, TakeGate, carrier,
     inputVars
<1>3. ASSUME NEW r \in Requests, Install(r) PROVE ObjectTypes'
  BY <1>3 DEF Install, TypeOK, ObjectTypes, Lives, ReleaseGate, identity,
     carrier
<1>4. ASSUME NEW r \in Requests, ReleaseSlot(r) PROVE ObjectTypes'
  BY <1>4 DEF ReleaseSlot, TypeOK, ObjectTypes, objVars, identity, flags,
     carrier
<1>5. ASSUME NEW r \in Requests, NewCommit(r) PROVE ObjectTypes'
  BY <1>5 DEF NewCommit, ReleaseGate, identity, flags, TypeOK, ObjectTypes
<1>6. ASSUME NEW r \in Requests, RestoreBegin(r) PROVE ObjectTypes'
  BY <1>6 DEF RestoreBegin, TypeOK, ObjectTypes, objVars, identity, flags,
     carrier
<1>7. ASSUME NEW r \in Requests, RestoreLookup(r) PROVE ObjectTypes'
  BY <1>7 DEF RestoreLookup, TypeOK, ObjectTypes, objVars, identity, flags,
     carrier
<1>8. ASSUME NEW r \in Requests, RestoreGate(r) PROVE ObjectTypes'
  BY <1>8 DEF RestoreGate, TypeOK, ObjectTypes, TakeGate, identity, flags,
     carrier
<1>9. ASSUME NEW r \in Requests, RestoreCarrier(r) PROVE ObjectTypes'
  BY <1>9 DEF RestoreCarrier, TypeOK, ObjectTypes, ReleaseGate, identity,
     flags, carrier
<1>10. ASSUME NEW r \in Requests, ActiveLoad(r) PROVE ObjectTypes'
  BY <1>10 DEF ActiveLoad, TypeOK, ObjectTypes, ReleaseGate, identity, flags,
     carrier
<1>11. ASSUME NEW r \in Requests, ActiveCommit(r) PROVE ObjectTypes'
  BY <1>11 DEF ActiveCommit, TypeOK, ObjectTypes, StoreTypes, PositionOK,
     RestoreLabels, CommitMirror, ReleaseGate, identity, flags
<1>12. ASSUME NEW r \in Requests, RestoreLoad(r) PROVE ObjectTypes'
  BY <1>12 DEF RestoreLoad, TypeOK, ObjectTypes, objVars, identity, flags,
     carrier
<1>13. ASSUME NEW r \in Requests, RestoreReserve(r) PROVE ObjectTypes'
  BY <1>13 DEF RestoreReserve, TypeOK, ObjectTypes, objVars, identity, flags,
     carrier
<1>14. ASSUME NEW r \in Requests, Hydrate(r) PROVE ObjectTypes'
  BY <1>14 DEF Hydrate, TypeOK, ObjectTypes, StoreTypes, PositionOK,
     RestoreLabels, Lives, TakeGate
<1>15. ASSUME NEW r \in Requests, RestoreCommit(r) PROVE ObjectTypes'
  BY <1>15 DEF RestoreCommit, ReleaseGate, identity, TypeOK, ObjectTypes,
     Lives
<1>16. ASSUME NEW r \in Requests, Replay(r) PROVE ObjectTypes'
  BY <1>16 DEF Replay, TypeOK, ObjectTypes, ReleaseGate, identity, flags,
     carrier
<1>17. ASSUME NEW r \in Requests, AddressSession(r) PROVE ObjectTypes'
  BY <1>17 DEF AddressSession, TypeOK, ObjectTypes, objVars, identity, flags,
     carrier
<1>18. ASSUME NEW r \in Requests, Lookup(r) PROVE ObjectTypes'
  BY <1>18 DEF Lookup, TypeOK, ObjectTypes, objVars, identity, flags, carrier
<1>19. ASSUME NEW r \in Requests, Admit(r) PROVE ObjectTypes'
  BY <1>19 DEF Admit, TypeOK, ObjectTypes, objVars, identity, flags, carrier
<1>20. ASSUME NEW r \in Requests, AcquireGate(r) PROVE ObjectTypes'
  BY <1>20 DEF AcquireGate, TypeOK, ObjectTypes, TakeGate, identity, flags,
     carrier
<1>21. ASSUME NEW r \in Requests, InstallTurn(r) PROVE ObjectTypes'
  BY <1>21 DEF InstallTurn, TypeOK, ObjectTypes, Turns, ReleaseGate, identity,
     carrier
<1>22. ASSUME NEW r \in Requests, TurnNotStarted(r) PROVE ObjectTypes'
  BY <1>22 DEF TurnNotStarted, TypeOK, ObjectTypes, Turns, ReleaseGate,
     identity, carrier
<1>23. ASSUME NEW r \in Requests, NativeExit(r) PROVE ObjectTypes'
  BY <1>23 DEF NativeExit, TypeOK, ObjectTypes, Turns, identity, carrier
<1>24. ASSUME NEW r \in Requests, Settle(r) PROVE ObjectTypes'
  <2>1. obj[r] \in Requests
    BY <1>24 DEF Settle, PositionOK, ObjectLabels
  <2>2. sid[obj[r]] \in Ids
    BY <2>1, RequestsAssumption DEF BuiltOK
  <2>3. thread[sid[obj[r]]] \in Nat
    BY <2>2 DEF TypeOK, StoreTypes
  <2>4. QED
    BY <1>24, <2>1, <2>3 DEF Settle, TypeOK, ObjectTypes, identity, flags
<1>25. ASSUME NEW r \in Requests, EndTurn(r) PROVE ObjectTypes'
  BY <1>25 DEF EndTurn, TypeOK, ObjectTypes, Turns, ReleaseGate, identity,
     carrier
<1>26. ASSUME NEW r \in Requests, ConfigCommit(r) PROVE ObjectTypes'
  BY <1>26 DEF ConfigCommit, TypeOK, ObjectTypes, PositionOK, CommitMirror,
     ReleaseGate, agentVars, identity, flags, storeVars, inputVars
<1>27. ASSUME NEW r \in Requests, CancelTurn(r) PROVE ObjectTypes'
  BY <1>27 DEF CancelTurn, TypeOK, ObjectTypes, Turns, identity, carrier
<1>28. ASSUME NEW r \in Requests, DeleteBegin(r) PROVE ObjectTypes'
  BY <1>28 DEF DeleteBegin, TypeOK, ObjectTypes, objVars, identity, flags,
     carrier
<1>29. ASSUME NEW r \in Requests, DeleteStore(r) PROVE ObjectTypes'
  BY <1>29 DEF DeleteStore, TypeOK, ObjectTypes, objVars, identity, flags,
     carrier
<1>30. ASSUME NEW r \in Requests, DeleteMark(r) PROVE ObjectTypes'
  BY <1>30 DEF DeleteMark, TypeOK, ObjectTypes, objVars, identity, flags,
     carrier
<1>31. ASSUME NEW r \in Requests, ShutdownBegin(r) PROVE ObjectTypes'
  BY <1>31 DEF ShutdownBegin, TypeOK, ObjectTypes, objVars, identity, flags,
     carrier
<1>32. ASSUME NEW r \in Requests, ShutdownNext(r) PROVE ObjectTypes'
  BY <1>32 DEF ShutdownNext, TypeOK, ObjectTypes, objVars, identity, flags,
     carrier
<1>33. ASSUME NEW r \in Requests, CloseBegin(r) PROVE ObjectTypes'
  BY <1>33 DEF CloseBegin, TypeOK, ObjectTypes, Lives, Turns, identity,
     carrier
<1>34. ASSUME NEW r \in Requests, CloseGate(r) PROVE ObjectTypes'
  BY <1>34 DEF CloseGate, TypeOK, ObjectTypes, TakeGate, identity, flags,
     carrier
<1>35. ASSUME NEW r \in Requests, CloseCommit(r) PROVE ObjectTypes'
  BY <1>35 DEF CloseCommit, TypeOK, ObjectTypes, Lives, identity
<1>36. ASSUME NEW r \in Requests, CloseRelease(r) PROVE ObjectTypes'
  BY <1>36 DEF CloseRelease, TypeOK, ObjectTypes, ReleaseGate, identity,
     flags, carrier
<1>37. ASSUME NEW r \in Requests, CloseWait(r) PROVE ObjectTypes'
  BY <1>37 DEF CloseWait, TypeOK, ObjectTypes, objVars, identity, flags,
     carrier
<1>38. ASSUME NEW r \in Requests, Detach(r) PROVE ObjectTypes'
  BY <1>38 DEF Detach, TypeOK, ObjectTypes, objVars, identity, flags, carrier
<1>39. CASE UNCHANGED vars
  BY <1>39 DEF TypeOK, ObjectTypes, vars, objVars, identity, flags, carrier
<1>40. QED
  BY <1>1, <1>2, <1>3, <1>4, <1>5, <1>6, <1>7, <1>8, <1>9, <1>10, <1>11,
     <1>12, <1>13, <1>14, <1>15, <1>16, <1>17, <1>18, <1>19, <1>20, <1>21,
     <1>22, <1>23, <1>24, <1>25, <1>26, <1>27, <1>28, <1>29, <1>30, <1>31,
     <1>32, <1>33, <1>34, <1>35, <1>36, <1>37, <1>38, <1>39 DEF Next, Begin,
     Handle, TurnEnds, Quiescent

\* Every step keeps the types of the store and of the native threads: commits,
\* turns and deletes name an id and a generation that exist.
LEMMA StoreTypesStep ==
  ASSUME TypeOK, PositionOK, BuilderOK, BuiltOK, Next PROVE StoreTypes'
<1>1. ASSUME NEW r \in Requests, NewReserve(r) PROVE StoreTypes'
  BY <1>1 DEF NewReserve, TypeOK, StoreTypes, storeVars
<1>2. ASSUME NEW r \in Requests, NewCreate(r) PROVE StoreTypes'
  BY <1>2 DEF NewCreate, TypeOK, StoreTypes, storeVars
<1>3. ASSUME NEW r \in Requests, Install(r) PROVE StoreTypes'
  BY <1>3 DEF Install, TypeOK, StoreTypes, storeVars
<1>4. ASSUME NEW r \in Requests, ReleaseSlot(r) PROVE StoreTypes'
  BY <1>4 DEF ReleaseSlot, TypeOK, StoreTypes, storeVars
<1>5. ASSUME NEW r \in Requests, NewCommit(r) PROVE StoreTypes'
  BY <1>5 DEF NewCommit, TypeOK, StoreTypes, ObjectTypes, CommitMirror,
     storeVars
<1>6. ASSUME NEW r \in Requests, RestoreBegin(r) PROVE StoreTypes'
  BY <1>6 DEF RestoreBegin, TypeOK, StoreTypes, storeVars
<1>7. ASSUME NEW r \in Requests, RestoreLookup(r) PROVE StoreTypes'
  BY <1>7 DEF RestoreLookup, TypeOK, StoreTypes, storeVars
<1>8. ASSUME NEW r \in Requests, RestoreGate(r) PROVE StoreTypes'
  BY <1>8 DEF RestoreGate, TypeOK, StoreTypes, storeVars
<1>9. ASSUME NEW r \in Requests, RestoreCarrier(r) PROVE StoreTypes'
  BY <1>9 DEF RestoreCarrier, TypeOK, StoreTypes, storeVars
<1>10. ASSUME NEW r \in Requests, ActiveLoad(r) PROVE StoreTypes'
  BY <1>10 DEF ActiveLoad, TypeOK, StoreTypes, storeVars
<1>11. ASSUME NEW r \in Requests, ActiveCommit(r) PROVE StoreTypes'
  BY <1>11 DEF ActiveCommit, TypeOK, StoreTypes, CommitMirror, storeVars
<1>12. ASSUME NEW r \in Requests, RestoreLoad(r) PROVE StoreTypes'
  BY <1>12 DEF RestoreLoad, TypeOK, StoreTypes, storeVars
<1>13. ASSUME NEW r \in Requests, RestoreReserve(r) PROVE StoreTypes'
  BY <1>13 DEF RestoreReserve, TypeOK, StoreTypes, storeVars
<1>14. ASSUME NEW r \in Requests, Hydrate(r) PROVE StoreTypes'
  BY <1>14 DEF Hydrate, TypeOK, StoreTypes, storeVars
<1>15. ASSUME NEW r \in Requests, RestoreCommit(r) PROVE StoreTypes'
  BY <1>15 DEF RestoreCommit, TypeOK, StoreTypes, ObjectTypes, CommitMirror,
     storeVars
<1>16. ASSUME NEW r \in Requests, Replay(r) PROVE StoreTypes'
  BY <1>16 DEF Replay, TypeOK, StoreTypes, storeVars
<1>17. ASSUME NEW r \in Requests, AddressSession(r) PROVE StoreTypes'
  BY <1>17 DEF AddressSession, TypeOK, StoreTypes, storeVars
<1>18. ASSUME NEW r \in Requests, Lookup(r) PROVE StoreTypes'
  BY <1>18 DEF Lookup, TypeOK, StoreTypes, storeVars
<1>19. ASSUME NEW r \in Requests, Admit(r) PROVE StoreTypes'
  BY <1>19 DEF Admit, TypeOK, StoreTypes, storeVars
<1>20. ASSUME NEW r \in Requests, AcquireGate(r) PROVE StoreTypes'
  BY <1>20 DEF AcquireGate, TypeOK, StoreTypes, storeVars
<1>21. ASSUME NEW r \in Requests, InstallTurn(r) PROVE StoreTypes'
  BY <1>21 DEF InstallTurn, TypeOK, StoreTypes, storeVars
<1>22. ASSUME NEW r \in Requests, TurnNotStarted(r) PROVE StoreTypes'
  BY <1>22 DEF TurnNotStarted, TypeOK, StoreTypes, storeVars
<1>23. ASSUME NEW r \in Requests, NativeExit(r) PROVE StoreTypes'
  <2>1. obj[r] \in Requests
    BY <1>23 DEF NativeExit, PositionOK, ObjectLabels
  <2>2. sid[obj[r]] \in Ids
    BY <2>1, RequestsAssumption DEF BuiltOK
  <2>3. thread[sid[obj[r]]] \in Nat
    BY <2>2 DEF TypeOK, StoreTypes
  <2>4. PICK g \in {thread[sid[obj[r]]], thread[sid[obj[r]]] + 1} :
           thread' = [thread EXCEPT ![sid[obj[r]]] = g]
    BY <1>23 DEF NativeExit
  <2>5. g \in Nat
    BY <2>3 <2>6. QED BY <1>23, <2>4, <2>5 DEF NativeExit, TypeOK, StoreTypes,
       storeVars
<1>24. ASSUME NEW r \in Requests, Settle(r) PROVE StoreTypes'
  BY <1>24 DEF Settle, TypeOK, StoreTypes, CommitMirror, storeVars
<1>25. ASSUME NEW r \in Requests, EndTurn(r) PROVE StoreTypes'
  BY <1>25 DEF EndTurn, TypeOK, StoreTypes, storeVars
<1>26. ASSUME NEW r \in Requests, ConfigCommit(r) PROVE StoreTypes'
  BY <1>26 DEF ConfigCommit, TypeOK, StoreTypes, ObjectTypes, PositionOK,
     ObjectLabels, CommitMirror, storeVars
<1>27. ASSUME NEW r \in Requests, CancelTurn(r) PROVE StoreTypes'
  BY <1>27 DEF CancelTurn, TypeOK, StoreTypes, storeVars
<1>28. ASSUME NEW r \in Requests, DeleteBegin(r) PROVE StoreTypes'
  BY <1>28 DEF DeleteBegin, TypeOK, StoreTypes, storeVars
<1>29. ASSUME NEW r \in Requests, DeleteStore(r) PROVE StoreTypes'
  BY <1>29 DEF DeleteStore, TypeOK, StoreTypes
<1>30. ASSUME NEW r \in Requests, DeleteMark(r) PROVE StoreTypes'
  BY <1>30 DEF DeleteMark, TypeOK, StoreTypes, storeVars
<1>31. ASSUME NEW r \in Requests, ShutdownBegin(r) PROVE StoreTypes'
  BY <1>31 DEF ShutdownBegin, TypeOK, StoreTypes, storeVars
<1>32. ASSUME NEW r \in Requests, ShutdownNext(r) PROVE StoreTypes'
  BY <1>32 DEF ShutdownNext, TypeOK, StoreTypes, storeVars
<1>33. ASSUME NEW r \in Requests, CloseBegin(r) PROVE StoreTypes'
  BY <1>33 DEF CloseBegin, TypeOK, StoreTypes, storeVars
<1>34. ASSUME NEW r \in Requests, CloseGate(r) PROVE StoreTypes'
  BY <1>34 DEF CloseGate, TypeOK, StoreTypes, storeVars
<1>35. ASSUME NEW r \in Requests, CloseCommit(r) PROVE StoreTypes'
  BY <1>35 DEF CloseCommit, TypeOK, StoreTypes, ObjectTypes, PositionOK,
     ObjectLabels, CommitMirror, storeVars
<1>36. ASSUME NEW r \in Requests, CloseRelease(r) PROVE StoreTypes'
  BY <1>36 DEF CloseRelease, TypeOK, StoreTypes, storeVars
<1>37. ASSUME NEW r \in Requests, CloseWait(r) PROVE StoreTypes'
  BY <1>37 DEF CloseWait, TypeOK, StoreTypes, storeVars
<1>38. ASSUME NEW r \in Requests, Detach(r) PROVE StoreTypes'
  BY <1>38 DEF Detach, TypeOK, StoreTypes, storeVars
<1>39. CASE UNCHANGED vars
  BY <1>39 DEF TypeOK, StoreTypes, vars, storeVars
<1>40. QED
  BY <1>1, <1>2, <1>3, <1>4, <1>5, <1>6, <1>7, <1>8, <1>9, <1>10, <1>11,
     <1>12, <1>13, <1>14, <1>15, <1>16, <1>17, <1>18, <1>19, <1>20, <1>21,
     <1>22, <1>23, <1>24, <1>25, <1>26, <1>27, <1>28, <1>29, <1>30, <1>31,
     <1>32, <1>33, <1>34, <1>35, <1>36, <1>37, <1>38, <1>39 DEF Next, Begin,
     Handle, TurnEnds, Quiescent

\* Every step keeps the types of the requests' own variables.
LEMMA RequestTypesStep ==
  ASSUME TypeOK, PositionOK, BuilderOK, BuiltOK, Next PROVE RequestTypes'
<1>1. ASSUME NEW r \in Requests, NewReserve(r) PROVE RequestTypes'
  BY <1>1, InputsAssumption DEF NewReserve, TypeOK, RequestTypes, Labels,
     Results, Goto, Finish, Arrive
<1>2. ASSUME NEW r \in Requests, NewCreate(r) PROVE RequestTypes'
  BY <1>2 DEF NewCreate, TypeOK, RequestTypes, Labels, Results, Goto, Finish,
     inputVars
<1>3. ASSUME NEW r \in Requests, Install(r) PROVE RequestTypes'
  BY <1>3 DEF Install, TypeOK, RequestTypes, Labels, Results, Goto, Finish,
     inputVars
<1>4. ASSUME NEW r \in Requests, ReleaseSlot(r) PROVE RequestTypes'
  BY <1>4 DEF ReleaseSlot, TypeOK, RequestTypes, Labels, Goto, inputVars
<1>5. ASSUME NEW r \in Requests, NewCommit(r) PROVE RequestTypes'
  BY <1>5 DEF NewCommit, TypeOK, RequestTypes, Labels, Results, Goto, Finish,
     inputVars
<1>6. ASSUME NEW r \in Requests, RestoreBegin(r) PROVE RequestTypes'
  BY <1>6, InputsAssumption DEF RestoreBegin, TypeOK, RequestTypes, Labels,
     Results, Goto, Finish, Arrive
<1>7. ASSUME NEW r \in Requests, RestoreLookup(r) PROVE RequestTypes'
  BY <1>7 DEF RestoreLookup, TypeOK, AgentTypes, RequestTypes, PositionOK,
     RestoreLabels, Labels, Results, Goto, Finish, RestoreEnds, inputVars
<1>8. ASSUME NEW r \in Requests, RestoreGate(r) PROVE RequestTypes'
  BY <1>8 DEF RestoreGate, TypeOK, RequestTypes, Labels, Results, Goto,
     Finish, RestoreEnds, inputVars
<1>9. ASSUME NEW r \in Requests, RestoreCarrier(r) PROVE RequestTypes'
  BY <1>9 DEF RestoreCarrier, TypeOK, RequestTypes, Labels, Results, Goto,
     Finish, RestoreEnds, inputVars
<1>10. ASSUME NEW r \in Requests, ActiveLoad(r) PROVE RequestTypes'
  BY <1>10 DEF ActiveLoad, TypeOK, RequestTypes, Labels, Results, Goto,
     Finish, RestoreEnds, inputVars
<1>11. ASSUME NEW r \in Requests, ActiveCommit(r) PROVE RequestTypes'
  BY <1>11 DEF ActiveCommit, TypeOK, RequestTypes, Labels, Results, Goto,
     Finish, RestoreEnds, CommitMirror, inputVars
<1>12. ASSUME NEW r \in Requests, RestoreLoad(r) PROVE RequestTypes'
  BY <1>12 DEF RestoreLoad, TypeOK, RequestTypes, Labels, Results, Goto,
     Finish, RestoreEnds, inputVars
<1>13. ASSUME NEW r \in Requests, RestoreReserve(r) PROVE RequestTypes'
  BY <1>13 DEF RestoreReserve, TypeOK, RequestTypes, Labels, Results, Goto,
     Finish, RestoreEnds, inputVars
<1>14. ASSUME NEW r \in Requests, Hydrate(r) PROVE RequestTypes'
  BY <1>14 DEF Hydrate, TypeOK, RequestTypes, Labels, Results, Goto, Finish,
     RestoreEnds, inputVars
<1>15. ASSUME NEW r \in Requests, RestoreCommit(r) PROVE RequestTypes'
  BY <1>15 DEF RestoreCommit, TypeOK, RequestTypes, Labels, Results, Goto,
     Finish, RestoreEnds, inputVars
<1>16. ASSUME NEW r \in Requests, Replay(r) PROVE RequestTypes'
  BY <1>16 DEF Replay, TypeOK, RequestTypes, Labels, Results, Goto, Finish,
     RestoreEnds, inputVars
<1>17. ASSUME NEW r \in Requests, AddressSession(r) PROVE RequestTypes'
  BY <1>17, InputsAssumption DEF AddressSession, TypeOK, RequestTypes, Labels,
     Results, Goto, Finish, Arrive
<1>18. ASSUME NEW r \in Requests, Lookup(r) PROVE RequestTypes'
  BY <1>18 DEF Lookup, TypeOK, AgentTypes, RequestTypes, PositionOK, Labels,
     Results, Goto, Finish, inputVars
<1>19. ASSUME NEW r \in Requests, Admit(r) PROVE RequestTypes'
  BY <1>19 DEF Admit, TypeOK, RequestTypes, Labels, Results, Goto, Finish,
     inputVars
<1>20. ASSUME NEW r \in Requests, AcquireGate(r) PROVE RequestTypes'
  BY <1>20 DEF AcquireGate, TypeOK, RequestTypes, Labels, Results, Goto,
     Finish, inputVars
<1>21. ASSUME NEW r \in Requests, InstallTurn(r) PROVE RequestTypes'
  BY <1>21 DEF InstallTurn, TypeOK, RequestTypes, Labels, Results, Goto,
     Finish, inputVars
<1>22. ASSUME NEW r \in Requests, TurnNotStarted(r) PROVE RequestTypes'
  BY <1>22 DEF TurnNotStarted, TypeOK, RequestTypes, Labels, Results, Finish,
     inputVars
<1>23. ASSUME NEW r \in Requests, NativeExit(r) PROVE RequestTypes'
  BY <1>23 DEF NativeExit, TypeOK, RequestTypes, Labels, Goto, inputVars
<1>24. ASSUME NEW r \in Requests, Settle(r) PROVE RequestTypes'
  BY <1>24 DEF Settle, TypeOK, RequestTypes, Labels, Goto, inputVars
<1>25. ASSUME NEW r \in Requests, EndTurn(r) PROVE RequestTypes'
  BY <1>25 DEF EndTurn, TypeOK, RequestTypes, Labels, Results, Finish,
     inputVars
<1>26. ASSUME NEW r \in Requests, ConfigCommit(r) PROVE RequestTypes'
  BY <1>26 DEF ConfigCommit, TypeOK, RequestTypes, Labels, Results, Finish,
     inputVars
<1>27. ASSUME NEW r \in Requests, CancelTurn(r) PROVE RequestTypes'
  BY <1>27 DEF CancelTurn, TypeOK, RequestTypes, Labels, Results, Finish,
     inputVars
<1>28. ASSUME NEW r \in Requests, DeleteBegin(r) PROVE RequestTypes'
  BY <1>28, InputsAssumption DEF DeleteBegin, TypeOK, RequestTypes, Labels,
     Results, Goto, Finish, Arrive
<1>29. ASSUME NEW r \in Requests, DeleteStore(r) PROVE RequestTypes'
  BY <1>29 DEF DeleteStore, TypeOK, RequestTypes, Labels, Results, Goto,
     Finish, inputVars
<1>30. ASSUME NEW r \in Requests, DeleteMark(r) PROVE RequestTypes'
  BY <1>30 DEF DeleteMark, TypeOK, AgentTypes, RequestTypes, PositionOK,
     Labels, Results, Goto, Finish, inputVars
<1>31. ASSUME NEW r \in Requests, ShutdownBegin(r) PROVE RequestTypes'
  BY <1>31, InputsAssumption DEF ShutdownBegin, TypeOK, RequestTypes, Labels,
     Results, Goto, Finish, Arrive
<1>32. ASSUME NEW r \in Requests, ShutdownNext(r) PROVE RequestTypes'
  BY <1>32 DEF ShutdownNext, TypeOK, AgentTypes, RequestTypes, Labels,
     Results, Goto, Finish, inputVars
<1>33. ASSUME NEW r \in Requests, CloseBegin(r) PROVE RequestTypes'
  BY <1>33 DEF CloseBegin, TypeOK, RequestTypes, Labels, Goto, inputVars
<1>34. ASSUME NEW r \in Requests, CloseGate(r) PROVE RequestTypes'
  BY <1>34 DEF CloseGate, TypeOK, RequestTypes, Labels, Goto, inputVars
<1>35. ASSUME NEW r \in Requests, CloseCommit(r) PROVE RequestTypes'
  BY <1>35 DEF CloseCommit, TypeOK, RequestTypes, Labels, Goto, inputVars
<1>36. ASSUME NEW r \in Requests, CloseRelease(r) PROVE RequestTypes'
  BY <1>36 DEF CloseRelease, TypeOK, RequestTypes, Labels, Goto, inputVars
<1>37. ASSUME NEW r \in Requests, CloseWait(r) PROVE RequestTypes'
  BY <1>37 DEF CloseWait, TypeOK, RequestTypes, Labels, Goto, inputVars
<1>38. ASSUME NEW r \in Requests, Detach(r) PROVE RequestTypes'
  BY <1>38 DEF Detach, TypeOK, RequestTypes, Labels, Results, Goto, Finish,
     inputVars
<1>39. CASE UNCHANGED vars
  BY <1>39 DEF TypeOK, RequestTypes, vars, inputVars
<1>40. QED
  BY <1>1, <1>2, <1>3, <1>4, <1>5, <1>6, <1>7, <1>8, <1>9, <1>10, <1>11,
     <1>12, <1>13, <1>14, <1>15, <1>16, <1>17, <1>18, <1>19, <1>20, <1>21,
     <1>22, <1>23, <1>24, <1>25, <1>26, <1>27, <1>28, <1>29, <1>30, <1>31,
     <1>32, <1>33, <1>34, <1>35, <1>36, <1>37, <1>38, <1>39 DEF Next, Begin,
     Handle, TurnEnds, Quiescent

\* Every step keeps a request's position consistent with its method and its
\* operands: a handler past its lookup has its id and its session.
LEMMA PositionStep ==
  ASSUME TypeOK, PositionOK, BuilderOK, BuiltOK, Next PROVE PositionOK'
<1>1. ASSUME NEW r \in Requests, NewReserve(r) PROVE PositionOK'
  BY <1>1 DEF NewReserve, TypeOK, RequestTypes, PositionOK, RestoreLabels,
     ObjectLabels, Goto, Finish, Arrive
<1>2. ASSUME NEW r \in Requests, NewCreate(r) PROVE PositionOK'
  BY <1>2 DEF NewCreate, TypeOK, RequestTypes, PositionOK, RestoreLabels,
     ObjectLabels, Goto, Finish, inputVars
<1>3. ASSUME NEW r \in Requests, Install(r) PROVE PositionOK'
  BY <1>3 DEF Install, TypeOK, RequestTypes, PositionOK, RestoreLabels,
     ObjectLabels, Goto, Finish, inputVars
<1>4. ASSUME NEW r \in Requests, ReleaseSlot(r) PROVE PositionOK'
  <2>1. kind[r] \in {"new", "restore"}
    BY <1>4 DEF ReleaseSlot, PositionOK
  <2>2. kind[r] = "restore" => obj[r] = r
    BY <1>4 DEF ReleaseSlot, BuilderOK, BuilderLabels
  <2>3. QED
    BY <1>4, <2>1, <2>2 DEF ReleaseSlot, Goto, PositionOK, RestoreLabels,
       ObjectLabels, inputVars
<1>5. ASSUME NEW r \in Requests, NewCommit(r) PROVE PositionOK'
  BY <1>5 DEF NewCommit, TypeOK, RequestTypes, PositionOK, RestoreLabels,
     ObjectLabels, Goto, Finish, inputVars
<1>6. ASSUME NEW r \in Requests, RestoreBegin(r) PROVE PositionOK'
  BY <1>6 DEF RestoreBegin, TypeOK, RequestTypes, PositionOK, RestoreLabels,
     ObjectLabels, Goto, Finish, Arrive
<1>7. ASSUME NEW r \in Requests, RestoreLookup(r) PROVE PositionOK'
  BY <1>7 DEF RestoreLookup, TypeOK, RequestTypes, AgentTypes, PositionOK,
     RestoreLabels, ObjectLabels, Goto, Finish, RestoreEnds, inputVars
<1>8. ASSUME NEW r \in Requests, RestoreGate(r) PROVE PositionOK'
  BY <1>8 DEF RestoreGate, TypeOK, RequestTypes, PositionOK, RestoreLabels,
     ObjectLabels, Goto, Finish, RestoreEnds, inputVars
<1>9. ASSUME NEW r \in Requests, RestoreCarrier(r) PROVE PositionOK'
  BY <1>9 DEF RestoreCarrier, TypeOK, RequestTypes, PositionOK, RestoreLabels,
     ObjectLabels, CloseLabels, Goto, Finish, RestoreEnds, inputVars
<1>10. ASSUME NEW r \in Requests, ActiveLoad(r) PROVE PositionOK'
  BY <1>10 DEF ActiveLoad, TypeOK, RequestTypes, PositionOK, RestoreLabels,
     ObjectLabels, Goto, Finish, RestoreEnds, inputVars
<1>11. ASSUME NEW r \in Requests, ActiveCommit(r) PROVE PositionOK'
  BY <1>11 DEF ActiveCommit, TypeOK, RequestTypes, PositionOK, RestoreLabels,
     ObjectLabels, Goto, Finish, RestoreEnds, CommitMirror, inputVars
<1>12. ASSUME NEW r \in Requests, RestoreLoad(r) PROVE PositionOK'
  BY <1>12 DEF RestoreLoad, TypeOK, RequestTypes, PositionOK, RestoreLabels,
     ObjectLabels, Goto, Finish, RestoreEnds, inputVars
<1>13. ASSUME NEW r \in Requests, RestoreReserve(r) PROVE PositionOK'
  BY <1>13 DEF RestoreReserve, TypeOK, RequestTypes, PositionOK,
     RestoreLabels, ObjectLabels, Goto, Finish, RestoreEnds, inputVars
<1>14. ASSUME NEW r \in Requests, Hydrate(r) PROVE PositionOK'
  BY <1>14 DEF Hydrate, TypeOK, RequestTypes, PositionOK, RestoreLabels,
     ObjectLabels, Goto, Finish, RestoreEnds, inputVars
<1>15. ASSUME NEW r \in Requests, RestoreCommit(r) PROVE PositionOK'
  BY <1>15 DEF RestoreCommit, TypeOK, RequestTypes, PositionOK, RestoreLabels,
     ObjectLabels, Goto, Finish, RestoreEnds, inputVars
<1>16. ASSUME NEW r \in Requests, Replay(r) PROVE PositionOK'
  BY <1>16 DEF Replay, TypeOK, RequestTypes, PositionOK, RestoreLabels,
     ObjectLabels, CloseLabels, Goto, Finish, RestoreEnds, inputVars
<1>17. ASSUME NEW r \in Requests, AddressSession(r) PROVE PositionOK'
  BY <1>17 DEF AddressSession, TypeOK, RequestTypes, PositionOK,
     RestoreLabels, ObjectLabels, Goto, Finish, Arrive
<1>18. ASSUME NEW r \in Requests, Lookup(r) PROVE PositionOK'
  BY <1>18 DEF Lookup, TypeOK, RequestTypes, AgentTypes, PositionOK,
     RestoreLabels, ObjectLabels, CloseLabels, Goto, Finish, inputVars
<1>19. ASSUME NEW r \in Requests, Admit(r) PROVE PositionOK'
  BY <1>19 DEF Admit, TypeOK, RequestTypes, PositionOK, RestoreLabels,
     ObjectLabels, CloseLabels, Goto, Finish, inputVars
<1>20. ASSUME NEW r \in Requests, AcquireGate(r) PROVE PositionOK'
  BY <1>20 DEF AcquireGate, TypeOK, RequestTypes, PositionOK, RestoreLabels,
     ObjectLabels, CloseLabels, Goto, Finish, inputVars
<1>21. ASSUME NEW r \in Requests, InstallTurn(r) PROVE PositionOK'
  BY <1>21 DEF InstallTurn, TypeOK, RequestTypes, PositionOK, RestoreLabels,
     ObjectLabels, CloseLabels, Goto, Finish, inputVars
<1>22. ASSUME NEW r \in Requests, TurnNotStarted(r) PROVE PositionOK'
  BY <1>22 DEF TurnNotStarted, PositionOK, RestoreLabels, ObjectLabels,
     Finish, inputVars
<1>23. ASSUME NEW r \in Requests, NativeExit(r) PROVE PositionOK'
  BY <1>23 DEF NativeExit, PositionOK, RestoreLabels, ObjectLabels,
     CloseLabels, Goto, inputVars
<1>24. ASSUME NEW r \in Requests, Settle(r) PROVE PositionOK'
  BY <1>24 DEF Settle, PositionOK, RestoreLabels, ObjectLabels, CloseLabels,
     Goto, inputVars
<1>25. ASSUME NEW r \in Requests, EndTurn(r) PROVE PositionOK'
  BY <1>25 DEF EndTurn, PositionOK, RestoreLabels, ObjectLabels, Finish,
     inputVars
<1>26. ASSUME NEW r \in Requests, ConfigCommit(r) PROVE PositionOK'
  BY <1>26 DEF ConfigCommit, TypeOK, RequestTypes, PositionOK, RestoreLabels,
     ObjectLabels, Finish, inputVars
<1>27. ASSUME NEW r \in Requests, CancelTurn(r) PROVE PositionOK'
  BY <1>27 DEF CancelTurn, PositionOK, RestoreLabels, ObjectLabels, Finish,
     inputVars
<1>28. ASSUME NEW r \in Requests, DeleteBegin(r) PROVE PositionOK'
  BY <1>28 DEF DeleteBegin, TypeOK, RequestTypes, PositionOK, RestoreLabels,
     ObjectLabels, Goto, Finish, Arrive
<1>29. ASSUME NEW r \in Requests, DeleteStore(r) PROVE PositionOK'
  BY <1>29 DEF DeleteStore, TypeOK, RequestTypes, PositionOK, RestoreLabels,
     ObjectLabels, CloseLabels, Goto, Finish, inputVars
<1>30. ASSUME NEW r \in Requests, DeleteMark(r) PROVE PositionOK'
  BY <1>30 DEF DeleteMark, TypeOK, RequestTypes, AgentTypes, PositionOK,
     RestoreLabels, ObjectLabels, CloseLabels, Goto, Finish, inputVars
<1>31. ASSUME NEW r \in Requests, ShutdownBegin(r) PROVE PositionOK'
  BY <1>31 DEF ShutdownBegin, TypeOK, RequestTypes, PositionOK, RestoreLabels,
     ObjectLabels, Goto, Finish, Arrive
<1>32. ASSUME NEW r \in Requests, ShutdownNext(r) PROVE PositionOK'
  BY <1>32 DEF ShutdownNext, TypeOK, RequestTypes, AgentTypes, PositionOK,
     RestoreLabels, ObjectLabels, CloseLabels, Goto, Finish, inputVars
<1>33. ASSUME NEW r \in Requests, CloseBegin(r) PROVE PositionOK'
  BY <1>33 DEF CloseBegin, TypeOK, RequestTypes, PositionOK, RestoreLabels,
     ObjectLabels, CloseLabels, Goto, inputVars
<1>34. ASSUME NEW r \in Requests, CloseGate(r) PROVE PositionOK'
  BY <1>34 DEF CloseGate, PositionOK, RestoreLabels, ObjectLabels,
     CloseLabels, Goto, inputVars
<1>35. ASSUME NEW r \in Requests, CloseCommit(r) PROVE PositionOK'
  BY <1>35 DEF CloseCommit, PositionOK, RestoreLabels, ObjectLabels,
     CloseLabels, Goto, inputVars
<1>36. ASSUME NEW r \in Requests, CloseRelease(r) PROVE PositionOK'
  BY <1>36 DEF CloseRelease, PositionOK, RestoreLabels, ObjectLabels,
     CloseLabels, Goto, inputVars
<1>37. ASSUME NEW r \in Requests, CloseWait(r) PROVE PositionOK'
  BY <1>37 DEF CloseWait, PositionOK, RestoreLabels, ObjectLabels,
     CloseLabels, Goto, inputVars
<1>38. ASSUME NEW r \in Requests, Detach(r) PROVE PositionOK'
  BY <1>38 DEF Detach, TypeOK, RequestTypes, PositionOK, RestoreLabels,
     ObjectLabels, Goto, Finish, inputVars
<1>39. CASE UNCHANGED vars
  BY <1>39 DEF PositionOK, vars, inputVars
<1>40. QED
  BY <1>1, <1>2, <1>3, <1>4, <1>5, <1>6, <1>7, <1>8, <1>9, <1>10, <1>11,
     <1>12, <1>13, <1>14, <1>15, <1>16, <1>17, <1>18, <1>19, <1>20, <1>21,
     <1>22, <1>23, <1>24, <1>25, <1>26, <1>27, <1>28, <1>29, <1>30, <1>31,
     <1>32, <1>33, <1>34, <1>35, <1>36, <1>37, <1>38, <1>39 DEF Next, Begin,
     Handle, TurnEnds, Quiescent

\* Every step keeps what is known of the object a session/new or a cold restore
\* builds: it is nobody's operand before it exists and its builder's afterwards.
LEMMA BuilderStep ==
  ASSUME TypeOK, PositionOK, BuilderOK, BuiltOK, Next PROVE BuilderOK'
<1>1. ASSUME NEW r \in Requests, NewReserve(r) PROVE BuilderOK'
  BY <1>1 DEF NewReserve, TypeOK, RequestTypes, BuilderOK, BuilderLabels,
     EmptyLabels, Goto, Finish, Arrive, flags
<1>2. ASSUME NEW r \in Requests, NewCreate(r) PROVE BuilderOK'
  BY <1>2 DEF NewCreate, TypeOK, ObjectTypes, RequestTypes, BuilderOK,
     BuilderLabels, EmptyLabels, PositionOK, Goto, Finish, inputVars
<1>3. ASSUME NEW r \in Requests, Install(r) PROVE BuilderOK'
  BY <1>3 DEF Install, TypeOK, ObjectTypes, RequestTypes, BuilderOK,
     BuilderLabels, EmptyLabels, Goto, Finish, inputVars
<1>4. ASSUME NEW r \in Requests, ReleaseSlot(r) PROVE BuilderOK'
  BY <1>4 DEF ReleaseSlot, BuilderOK, BuilderLabels, EmptyLabels, Goto,
     objVars, flags, inputVars
<1>5. ASSUME NEW r \in Requests, NewCommit(r) PROVE BuilderOK'
  BY <1>5 DEF NewCommit, TypeOK, RequestTypes, BuilderOK, BuilderLabels,
     EmptyLabels, Goto, Finish, flags, inputVars
<1>6. ASSUME NEW r \in Requests, RestoreBegin(r) PROVE BuilderOK'
  BY <1>6 DEF RestoreBegin, TypeOK, RequestTypes, BuilderOK, BuilderLabels,
     EmptyLabels, Goto, Finish, Arrive, objVars, flags
<1>7. ASSUME NEW r \in Requests, RestoreLookup(r) PROVE BuilderOK'
  BY <1>7, RequestsAssumption DEF RestoreLookup, TypeOK, RequestTypes,
     BuilderOK, BuilderLabels, EmptyLabels, Goto, Finish, RestoreEnds,
     objVars, flags, inputVars
<1>8. ASSUME NEW r \in Requests, RestoreGate(r) PROVE BuilderOK'
  BY <1>8 DEF RestoreGate, TypeOK, RequestTypes, BuilderOK, BuilderLabels,
     EmptyLabels, Goto, Finish, RestoreEnds, flags, inputVars
<1>9. ASSUME NEW r \in Requests, RestoreCarrier(r) PROVE BuilderOK'
  BY <1>9 DEF RestoreCarrier, TypeOK, RequestTypes, BuilderOK, BuilderLabels,
     EmptyLabels, Goto, Finish, RestoreEnds, flags, inputVars
<1>10. ASSUME NEW r \in Requests, ActiveLoad(r) PROVE BuilderOK'
  BY <1>10 DEF ActiveLoad, TypeOK, RequestTypes, BuilderOK, BuilderLabels,
     EmptyLabels, Goto, Finish, RestoreEnds, flags, inputVars
<1>11. ASSUME NEW r \in Requests, ActiveCommit(r) PROVE BuilderOK'
  BY <1>11 DEF ActiveCommit, TypeOK, RequestTypes, BuilderOK, BuilderLabels,
     EmptyLabels, Goto, Finish, RestoreEnds, CommitMirror, flags, inputVars
<1>12. ASSUME NEW r \in Requests, RestoreLoad(r) PROVE BuilderOK'
  BY <1>12 DEF RestoreLoad, TypeOK, RequestTypes, BuilderOK, BuilderLabels,
     EmptyLabels, Goto, Finish, RestoreEnds, objVars, flags, inputVars
<1>13. ASSUME NEW r \in Requests, RestoreReserve(r) PROVE BuilderOK'
  BY <1>13 DEF RestoreReserve, TypeOK, RequestTypes, BuilderOK, BuilderLabels,
     EmptyLabels, Goto, Finish, RestoreEnds, objVars, flags, inputVars
<1>14. ASSUME NEW r \in Requests, Hydrate(r) PROVE BuilderOK'
  BY <1>14 DEF Hydrate, TypeOK, ObjectTypes, RequestTypes, BuilderOK,
     BuilderLabels, EmptyLabels, Goto, Finish, RestoreEnds, inputVars
<1>15. ASSUME NEW r \in Requests, RestoreCommit(r) PROVE BuilderOK'
  BY <1>15 DEF RestoreCommit, TypeOK, ObjectTypes, RequestTypes, BuilderOK,
     BuilderLabels, EmptyLabels, Goto, Finish, RestoreEnds, inputVars
<1>16. ASSUME NEW r \in Requests, Replay(r) PROVE BuilderOK'
  BY <1>16 DEF Replay, TypeOK, RequestTypes, BuilderOK, BuilderLabels,
     EmptyLabels, Goto, Finish, RestoreEnds, flags, inputVars
<1>17. ASSUME NEW r \in Requests, AddressSession(r) PROVE BuilderOK'
  BY <1>17 DEF AddressSession, TypeOK, RequestTypes, BuilderOK, BuilderLabels,
     EmptyLabels, Goto, Finish, Arrive, objVars, flags
<1>18. ASSUME NEW r \in Requests, Lookup(r) PROVE BuilderOK'
  BY <1>18 DEF Lookup, TypeOK, RequestTypes, BuilderOK, BuilderLabels,
     EmptyLabels, PositionOK, RestoreLabels, CloseLabels, Goto, Finish,
     objVars, flags, inputVars
<1>19. ASSUME NEW r \in Requests, Admit(r) PROVE BuilderOK'
  BY <1>19 DEF Admit, TypeOK, RequestTypes, BuilderOK, BuilderLabels,
     EmptyLabels, Goto, Finish, objVars, flags, inputVars
<1>20. ASSUME NEW r \in Requests, AcquireGate(r) PROVE BuilderOK'
  BY <1>20 DEF AcquireGate, TypeOK, RequestTypes, BuilderOK, BuilderLabels,
     EmptyLabels, Goto, Finish, flags, inputVars
<1>21. ASSUME NEW r \in Requests, InstallTurn(r) PROVE BuilderOK'
  BY <1>21 DEF InstallTurn, TypeOK, RequestTypes, BuilderOK, BuilderLabels,
     EmptyLabels, Goto, Finish, inputVars
<1>22. ASSUME NEW r \in Requests, TurnNotStarted(r) PROVE BuilderOK'
  BY <1>22 DEF TurnNotStarted, BuilderOK, BuilderLabels, EmptyLabels, Finish,
     inputVars
<1>23. ASSUME NEW r \in Requests, NativeExit(r) PROVE BuilderOK'
  BY <1>23 DEF NativeExit, BuilderOK, BuilderLabels, EmptyLabels, Goto,
     inputVars
<1>24. ASSUME NEW r \in Requests, Settle(r) PROVE BuilderOK'
  BY <1>24 DEF Settle, BuilderOK, BuilderLabels, EmptyLabels, Goto, flags,
     inputVars
<1>25. ASSUME NEW r \in Requests, EndTurn(r) PROVE BuilderOK'
  BY <1>25 DEF EndTurn, BuilderOK, BuilderLabels, EmptyLabels, Finish,
     inputVars
<1>26. ASSUME NEW r \in Requests, ConfigCommit(r) PROVE BuilderOK'
  BY <1>26 DEF ConfigCommit, TypeOK, RequestTypes, BuilderOK, BuilderLabels,
     EmptyLabels, Finish, flags, inputVars
<1>27. ASSUME NEW r \in Requests, CancelTurn(r) PROVE BuilderOK'
  BY <1>27 DEF CancelTurn, BuilderOK, BuilderLabels, EmptyLabels, Finish,
     inputVars
<1>28. ASSUME NEW r \in Requests, DeleteBegin(r) PROVE BuilderOK'
  BY <1>28 DEF DeleteBegin, TypeOK, RequestTypes, BuilderOK, BuilderLabels,
     EmptyLabels, Goto, Finish, Arrive, objVars, flags
<1>29. ASSUME NEW r \in Requests, DeleteStore(r) PROVE BuilderOK'
  BY <1>29 DEF DeleteStore, TypeOK, RequestTypes, BuilderOK, BuilderLabels,
     EmptyLabels, Goto, Finish, objVars, flags, inputVars
<1>30. ASSUME NEW r \in Requests, DeleteMark(r) PROVE BuilderOK'
  BY <1>30 DEF DeleteMark, TypeOK, RequestTypes, BuilderOK, BuilderLabels,
     EmptyLabels, PositionOK, RestoreLabels, CloseLabels, Goto, Finish,
     objVars, flags, inputVars
<1>31. ASSUME NEW r \in Requests, ShutdownBegin(r) PROVE BuilderOK'
  BY <1>31 DEF ShutdownBegin, TypeOK, RequestTypes, BuilderOK, BuilderLabels,
     EmptyLabels, Goto, Finish, Arrive, objVars, flags
<1>32. ASSUME NEW r \in Requests, ShutdownNext(r) PROVE BuilderOK'
  BY <1>32 DEF ShutdownNext, TypeOK, RequestTypes, BuilderOK, BuilderLabels,
     EmptyLabels, PositionOK, RestoreLabels, CloseLabels, Goto, Finish,
     objVars, flags, inputVars
<1>33. ASSUME NEW r \in Requests, CloseBegin(r) PROVE BuilderOK'
  <2>1. obj[r] \in Requests /\ life[obj[r]] # "none"
    BY <1>33, RequestsAssumption DEF CloseBegin, PositionOK, ObjectLabels,
       BuiltOK
  <2>2. QED
    BY <1>33, <2>1 DEF CloseBegin, Goto, TypeOK, ObjectTypes, RequestTypes,
       BuilderOK, BuilderLabels, EmptyLabels, inputVars
<1>34. ASSUME NEW r \in Requests, CloseGate(r) PROVE BuilderOK'
  BY <1>34 DEF CloseGate, BuilderOK, BuilderLabels, EmptyLabels, Goto, flags,
     inputVars
<1>35. ASSUME NEW r \in Requests, CloseCommit(r) PROVE BuilderOK'
  <2>1. obj[r] \in Requests /\ life[obj[r]] # "none"
    BY <1>35, RequestsAssumption DEF CloseCommit, PositionOK, ObjectLabels,
       BuiltOK
  <2>2. QED
    BY <1>35, <2>1 DEF CloseCommit, Goto, BuilderOK, BuilderLabels,
       EmptyLabels, inputVars
<1>36. ASSUME NEW r \in Requests, CloseRelease(r) PROVE BuilderOK'
  BY <1>36 DEF CloseRelease, BuilderOK, BuilderLabels, EmptyLabels, Goto,
     flags, inputVars
<1>37. ASSUME NEW r \in Requests, CloseWait(r) PROVE BuilderOK'
  BY <1>37 DEF CloseWait, BuilderOK, BuilderLabels, EmptyLabels, Goto,
     objVars, flags, inputVars
<1>38. ASSUME NEW r \in Requests, Detach(r) PROVE BuilderOK'
  BY <1>38 DEF Detach, TypeOK, RequestTypes, BuilderOK, BuilderLabels,
     EmptyLabels, Goto, Finish, objVars, flags, inputVars
<1>39. CASE UNCHANGED vars
  BY <1>39 DEF BuilderOK, vars, objVars, flags, inputVars
<1>40. QED
  BY <1>1, <1>2, <1>3, <1>4, <1>5, <1>6, <1>7, <1>8, <1>9, <1>10, <1>11,
     <1>12, <1>13, <1>14, <1>15, <1>16, <1>17, <1>18, <1>19, <1>20, <1>21,
     <1>22, <1>23, <1>24, <1>25, <1>26, <1>27, <1>28, <1>29, <1>30, <1>31,
     <1>32, <1>33, <1>34, <1>35, <1>36, <1>37, <1>38, <1>39 DEF Next, Begin,
     Handle, TurnEnds, Quiescent

\* Every step keeps the registry, the requests and Agent.Close from referring to
\* an object that was never built, and every built object has an id.
LEMMA BuiltStep ==
  ASSUME TypeOK, PositionOK, BuilderOK, BuiltOK, Next PROVE BuiltOK'
<1>1. ASSUME NEW r \in Requests, NewReserve(r) PROVE BuiltOK'
  BY <1>1 DEF NewReserve, BuiltOK, flags
<1>2. ASSUME NEW r \in Requests, NewCreate(r) PROVE BuiltOK'
  BY <1>2 DEF NewCreate, TypeOK, ObjectTypes, RequestTypes, AgentTypes,
     BuiltOK
<1>3. ASSUME NEW r \in Requests, Install(r) PROVE BuiltOK'
  <2>1. life[r] # "none"
    BY <1>3 DEF Install, BuilderOK, BuilderLabels
  <2>2. QED
    BY <1>3, <2>1 DEF Install, TypeOK, AgentTypes, ObjectTypes, RequestTypes,
       BuiltOK, identity
<1>4. ASSUME NEW r \in Requests, ReleaseSlot(r) PROVE BuiltOK'
  BY <1>4 DEF ReleaseSlot, BuiltOK, objVars, identity, flags
<1>5. ASSUME NEW r \in Requests, NewCommit(r) PROVE BuiltOK'
  <2>1. life[r] # "none"
    BY <1>5 DEF NewCommit, BuilderOK, BuilderLabels
  <2>2. QED
    BY <1>5, <2>1 DEF NewCommit, TypeOK, RequestTypes, BuiltOK, identity,
       flags, agentVars
<1>6. ASSUME NEW r \in Requests, RestoreBegin(r) PROVE BuiltOK'
  BY <1>6 DEF RestoreBegin, BuiltOK, objVars, identity, flags
<1>7. ASSUME NEW r \in Requests, RestoreLookup(r) PROVE BuiltOK'
  BY <1>7 DEF RestoreLookup, TypeOK, RequestTypes, BuiltOK, PositionOK,
     RestoreLabels, objVars, identity, flags
<1>8. ASSUME NEW r \in Requests, RestoreGate(r) PROVE BuiltOK'
  BY <1>8 DEF RestoreGate, BuiltOK, identity, flags
<1>9. ASSUME NEW r \in Requests, RestoreCarrier(r) PROVE BuiltOK'
  BY <1>9 DEF RestoreCarrier, BuiltOK, identity, flags
<1>10. ASSUME NEW r \in Requests, ActiveLoad(r) PROVE BuiltOK'
  BY <1>10 DEF ActiveLoad, BuiltOK, identity, flags
<1>11. ASSUME NEW r \in Requests, ActiveCommit(r) PROVE BuiltOK'
  BY <1>11 DEF ActiveCommit, BuiltOK, identity, flags
<1>12. ASSUME NEW r \in Requests, RestoreLoad(r) PROVE BuiltOK'
  BY <1>12 DEF RestoreLoad, BuiltOK, objVars, identity, flags
<1>13. ASSUME NEW r \in Requests, RestoreReserve(r) PROVE BuiltOK'
  BY <1>13 DEF RestoreReserve, BuiltOK, objVars, identity, flags
<1>14. ASSUME NEW r \in Requests, Hydrate(r) PROVE BuiltOK'
  BY <1>14 DEF Hydrate, TypeOK, ObjectTypes, RequestTypes, AgentTypes,
     BuiltOK, PositionOK, RestoreLabels
<1>15. ASSUME NEW r \in Requests, RestoreCommit(r) PROVE BuiltOK'
  <2>1. life[r] # "none"
    BY <1>15 DEF RestoreCommit, BuilderOK, BuilderLabels
  <2>2. QED
    BY <1>15, <2>1 DEF RestoreCommit, TypeOK, AgentTypes, ObjectTypes,
       RequestTypes, BuiltOK, identity
<1>16. ASSUME NEW r \in Requests, Replay(r) PROVE BuiltOK'
  BY <1>16 DEF Replay, BuiltOK, identity, flags
<1>17. ASSUME NEW r \in Requests, AddressSession(r) PROVE BuiltOK'
  BY <1>17 DEF AddressSession, BuiltOK, agentVars, objVars, identity, flags
<1>18. ASSUME NEW r \in Requests, Lookup(r) PROVE BuiltOK'
  BY <1>18 DEF Lookup, TypeOK, RequestTypes, BuiltOK, PositionOK, agentVars,
     objVars, identity, flags
<1>19. ASSUME NEW r \in Requests, Admit(r) PROVE BuiltOK'
  BY <1>19 DEF Admit, BuiltOK, agentVars, objVars, identity, flags
<1>20. ASSUME NEW r \in Requests, AcquireGate(r) PROVE BuiltOK'
  BY <1>20 DEF AcquireGate, BuiltOK, agentVars, identity, flags
<1>21. ASSUME NEW r \in Requests, InstallTurn(r) PROVE BuiltOK'
  BY <1>21 DEF InstallTurn, BuiltOK, agentVars, identity
<1>22. ASSUME NEW r \in Requests, TurnNotStarted(r) PROVE BuiltOK'
  BY <1>22 DEF TurnNotStarted, BuiltOK, agentVars, identity
<1>23. ASSUME NEW r \in Requests, NativeExit(r) PROVE BuiltOK'
  BY <1>23 DEF NativeExit, BuiltOK, agentVars, identity
<1>24. ASSUME NEW r \in Requests, Settle(r) PROVE BuiltOK'
  BY <1>24 DEF Settle, BuiltOK, agentVars, identity, flags
<1>25. ASSUME NEW r \in Requests, EndTurn(r) PROVE BuiltOK'
  BY <1>25 DEF EndTurn, BuiltOK, agentVars, identity
<1>26. ASSUME NEW r \in Requests, ConfigCommit(r) PROVE BuiltOK'
  BY <1>26 DEF ConfigCommit, BuiltOK, agentVars, identity, flags
<1>27. ASSUME NEW r \in Requests, CancelTurn(r) PROVE BuiltOK'
  BY <1>27 DEF CancelTurn, BuiltOK, agentVars, identity
<1>28. ASSUME NEW r \in Requests, DeleteBegin(r) PROVE BuiltOK'
  BY <1>28 DEF DeleteBegin, BuiltOK, agentVars, objVars, identity, flags
<1>29. ASSUME NEW r \in Requests, DeleteStore(r) PROVE BuiltOK'
  BY <1>29 DEF DeleteStore, BuiltOK, agentVars, objVars, identity, flags
<1>30. ASSUME NEW r \in Requests, DeleteMark(r) PROVE BuiltOK'
  BY <1>30 DEF DeleteMark, BuiltOK, PositionOK, objVars, identity, flags
<1>31. ASSUME NEW r \in Requests, ShutdownBegin(r) PROVE BuiltOK'
  BY <1>31 DEF ShutdownBegin, BuiltOK, objVars, identity, flags, Active
<1>32. ASSUME NEW r \in Requests, ShutdownNext(r) PROVE BuiltOK'
  BY <1>32 DEF ShutdownNext, TypeOK, RequestTypes, BuiltOK, agentVars,
     objVars, identity, flags
<1>33. ASSUME NEW r \in Requests, CloseBegin(r) PROVE BuiltOK'
  <2>1. obj[r] \in Requests /\ sid[obj[r]] \in Ids
    BY <1>33, RequestsAssumption DEF CloseBegin, PositionOK, ObjectLabels,
       BuiltOK
  <2>2. QED
    BY <1>33, <2>1 DEF CloseBegin, TypeOK, ObjectTypes, RequestTypes,
       AgentTypes, BuiltOK, agentVars, identity
<1>34. ASSUME NEW r \in Requests, CloseGate(r) PROVE BuiltOK'
  BY <1>34 DEF CloseGate, BuiltOK, agentVars, identity, flags
<1>35. ASSUME NEW r \in Requests, CloseCommit(r) PROVE BuiltOK'
  <2>1. obj[r] \in Requests /\ sid[obj[r]] \in Ids
    BY <1>35, RequestsAssumption DEF CloseCommit, PositionOK, ObjectLabels,
       BuiltOK
  <2>2. QED
    BY <1>35, <2>1 DEF CloseCommit, BuiltOK, agentVars, identity
<1>36. ASSUME NEW r \in Requests, CloseRelease(r) PROVE BuiltOK'
  BY <1>36 DEF CloseRelease, BuiltOK, agentVars, identity, flags
<1>37. ASSUME NEW r \in Requests, CloseWait(r) PROVE BuiltOK'
  BY <1>37 DEF CloseWait, BuiltOK, agentVars, objVars, identity, flags
<1>38. ASSUME NEW r \in Requests, Detach(r) PROVE BuiltOK'
  BY <1>38 DEF Detach, BuiltOK, objVars, identity, flags, Detached
<1>39. CASE UNCHANGED vars
  BY <1>39 DEF BuiltOK, vars, agentVars, objVars, identity, flags
<1>40. QED
  BY <1>1, <1>2, <1>3, <1>4, <1>5, <1>6, <1>7, <1>8, <1>9, <1>10, <1>11,
     <1>12, <1>13, <1>14, <1>15, <1>16, <1>17, <1>18, <1>19, <1>20, <1>21,
     <1>22, <1>23, <1>24, <1>25, <1>26, <1>27, <1>28, <1>29, <1>30, <1>31,
     <1>32, <1>33, <1>34, <1>35, <1>36, <1>37, <1>38, <1>39 DEF Next, Begin,
     Handle, TurnEnds, Quiescent

\* Every step keeps foreground work exclusive: acquireGate and close fill an
\* empty gate, HoldSessionGate the gate of an object nobody else works on, and
\* only the holder empties one.
LEMMA GateStep ==
  ASSUME TypeOK, PositionOK, BuilderOK, BuiltOK, GateExclusive, Next PROVE GateExclusive'
<1>1. ASSUME NEW r \in Requests, NewReserve(r) PROVE GateExclusive'
  BY <1>1 DEF NewReserve, TypeOK, RequestTypes, GateExclusive, GateLabels,
     Holding, Goto, Finish
<1>2. ASSUME NEW r \in Requests, NewCreate(r) PROVE GateExclusive'
  <2>1. \A q \in Requests : q # r /\ pc[q] \in GateLabels => Holding(q) \in Requests \ {r}
    BY <1>2, RequestsAssumption DEF NewCreate, BuilderOK, BuiltOK, PositionOK,
       ObjectLabels, GateLabels, Holding
  <2>2. QED
    BY <1>2, <2>1 DEF NewCreate, Goto, Finish, TakeGate, TypeOK, ObjectTypes,
       RequestTypes, GateExclusive, GateLabels, Holding
<1>3. ASSUME NEW r \in Requests, Install(r) PROVE GateExclusive'
  BY <1>3 DEF Install, TypeOK, ObjectTypes, RequestTypes, PositionOK,
     ObjectLabels, GateExclusive, GateLabels, Holding, Goto, Finish,
     ReleaseGate
<1>4. ASSUME NEW r \in Requests, ReleaseSlot(r) PROVE GateExclusive'
  <2>1. kind[r] # "new" => obj[r] = r
    BY <1>4 DEF ReleaseSlot, PositionOK, BuilderOK, BuilderLabels
  <2>2. QED
    BY <1>4, <2>1 DEF ReleaseSlot, Goto, objVars, GateExclusive, GateLabels,
       Holding
<1>5. ASSUME NEW r \in Requests, NewCommit(r) PROVE GateExclusive'
  BY <1>5 DEF NewCommit, TypeOK, ObjectTypes, RequestTypes, PositionOK,
     ObjectLabels, GateExclusive, GateLabels, Holding, Goto, Finish,
     ReleaseGate
<1>6. ASSUME NEW r \in Requests, RestoreBegin(r) PROVE GateExclusive'
  BY <1>6 DEF RestoreBegin, TypeOK, RequestTypes, GateExclusive, GateLabels,
     Holding, Goto, Finish, objVars
<1>7. ASSUME NEW r \in Requests, RestoreLookup(r) PROVE GateExclusive'
  BY <1>7 DEF RestoreLookup, TypeOK, RequestTypes, GateExclusive, GateLabels,
     Holding, Goto, Finish, RestoreEnds, objVars
<1>8. ASSUME NEW r \in Requests, RestoreGate(r) PROVE GateExclusive'
  BY <1>8, RequestsAssumption DEF RestoreGate, TypeOK, ObjectTypes,
     RequestTypes, PositionOK, ObjectLabels, GateExclusive, GateLabels,
     Holding, Goto, Finish, RestoreEnds, TakeGate
<1>9. ASSUME NEW r \in Requests, RestoreCarrier(r) PROVE GateExclusive'
  BY <1>9 DEF RestoreCarrier, TypeOK, ObjectTypes, RequestTypes, PositionOK,
     ObjectLabels, GateExclusive, GateLabels, Holding, Goto, Finish,
     RestoreEnds, ReleaseGate
<1>10. ASSUME NEW r \in Requests, ActiveLoad(r) PROVE GateExclusive'
  BY <1>10 DEF ActiveLoad, TypeOK, ObjectTypes, RequestTypes, PositionOK,
     ObjectLabels, GateExclusive, GateLabels, Holding, Goto, Finish,
     RestoreEnds, ReleaseGate
<1>11. ASSUME NEW r \in Requests, ActiveCommit(r) PROVE GateExclusive'
  BY <1>11 DEF ActiveCommit, TypeOK, ObjectTypes, RequestTypes, PositionOK,
     ObjectLabels, GateExclusive, GateLabels, Holding, Goto, Finish,
     RestoreEnds, CommitMirror, ReleaseGate
<1>12. ASSUME NEW r \in Requests, RestoreLoad(r) PROVE GateExclusive'
  BY <1>12 DEF RestoreLoad, TypeOK, RequestTypes, GateExclusive, GateLabels,
     Holding, Goto, Finish, RestoreEnds, objVars
<1>13. ASSUME NEW r \in Requests, RestoreReserve(r) PROVE GateExclusive'
  BY <1>13 DEF RestoreReserve, TypeOK, RequestTypes, GateExclusive,
     GateLabels, Holding, Goto, Finish, RestoreEnds, objVars
<1>14. ASSUME NEW r \in Requests, Hydrate(r) PROVE GateExclusive'
  <2>1. \A q \in Requests : q # r /\ pc[q] \in GateLabels => Holding(q) \in Requests \ {r}
    BY <1>14, RequestsAssumption DEF Hydrate, BuilderOK, BuiltOK, EmptyLabels,
       PositionOK, ObjectLabels, RestoreLabels, GateLabels, Holding
  <2>2. QED
    BY <1>14, <2>1 DEF Hydrate, RestoreEnds, Goto, Finish, TakeGate, TypeOK,
       ObjectTypes, RequestTypes, GateExclusive, GateLabels, Holding
<1>15. ASSUME NEW r \in Requests, RestoreCommit(r) PROVE GateExclusive'
  BY <1>15 DEF RestoreCommit, TypeOK, ObjectTypes, RequestTypes, PositionOK,
     ObjectLabels, GateExclusive, GateLabels, Holding, Goto, Finish,
     RestoreEnds, ReleaseGate
<1>16. ASSUME NEW r \in Requests, Replay(r) PROVE GateExclusive'
  BY <1>16 DEF Replay, TypeOK, RequestTypes, GateExclusive, GateLabels,
     Holding, Goto, Finish, RestoreEnds, ReleaseGate
<1>17. ASSUME NEW r \in Requests, AddressSession(r) PROVE GateExclusive'
  BY <1>17 DEF AddressSession, TypeOK, RequestTypes, GateExclusive,
     GateLabels, Holding, Goto, Finish, objVars
<1>18. ASSUME NEW r \in Requests, Lookup(r) PROVE GateExclusive'
  BY <1>18 DEF Lookup, TypeOK, RequestTypes, GateExclusive, GateLabels,
     Holding, Goto, Finish, objVars
<1>19. ASSUME NEW r \in Requests, Admit(r) PROVE GateExclusive'
  BY <1>19 DEF Admit, TypeOK, RequestTypes, GateExclusive, GateLabels,
     Holding, Goto, Finish, objVars
<1>20. ASSUME NEW r \in Requests, AcquireGate(r) PROVE GateExclusive'
  BY <1>20, RequestsAssumption DEF AcquireGate, TypeOK, ObjectTypes,
     RequestTypes, PositionOK, ObjectLabels, GateExclusive, GateLabels,
     Holding, Goto, Finish, TakeGate
<1>21. ASSUME NEW r \in Requests, InstallTurn(r) PROVE GateExclusive'
  BY <1>21 DEF InstallTurn, TypeOK, ObjectTypes, RequestTypes, PositionOK,
     ObjectLabels, GateExclusive, GateLabels, Holding, Goto, Finish,
     ReleaseGate
<1>22. ASSUME NEW r \in Requests, TurnNotStarted(r) PROVE GateExclusive'
  BY <1>22 DEF TurnNotStarted, TypeOK, RequestTypes, GateExclusive,
     GateLabels, Holding, Finish, ReleaseGate
<1>23. ASSUME NEW r \in Requests, NativeExit(r) PROVE GateExclusive'
  BY <1>23 DEF NativeExit, GateExclusive, GateLabels, Holding, Goto
<1>24. ASSUME NEW r \in Requests, Settle(r) PROVE GateExclusive'
  BY <1>24 DEF Settle, GateExclusive, GateLabels, Holding, Goto
<1>25. ASSUME NEW r \in Requests, EndTurn(r) PROVE GateExclusive'
  BY <1>25 DEF EndTurn, TypeOK, RequestTypes, GateExclusive, GateLabels,
     Holding, Finish, ReleaseGate
<1>26. ASSUME NEW r \in Requests, ConfigCommit(r) PROVE GateExclusive'
  BY <1>26 DEF ConfigCommit, TypeOK, ObjectTypes, RequestTypes, PositionOK,
     ObjectLabels, GateExclusive, GateLabels, Holding, Finish, ReleaseGate
<1>27. ASSUME NEW r \in Requests, CancelTurn(r) PROVE GateExclusive'
  BY <1>27 DEF CancelTurn, GateExclusive, GateLabels, Holding, Finish
<1>28. ASSUME NEW r \in Requests, DeleteBegin(r) PROVE GateExclusive'
  BY <1>28 DEF DeleteBegin, TypeOK, RequestTypes, GateExclusive, GateLabels,
     Holding, Goto, Finish, objVars
<1>29. ASSUME NEW r \in Requests, DeleteStore(r) PROVE GateExclusive'
  BY <1>29 DEF DeleteStore, TypeOK, RequestTypes, GateExclusive, GateLabels,
     Holding, Goto, Finish, objVars
<1>30. ASSUME NEW r \in Requests, DeleteMark(r) PROVE GateExclusive'
  BY <1>30 DEF DeleteMark, TypeOK, RequestTypes, GateExclusive, GateLabels,
     Holding, Goto, Finish, objVars
<1>31. ASSUME NEW r \in Requests, ShutdownBegin(r) PROVE GateExclusive'
  BY <1>31 DEF ShutdownBegin, TypeOK, RequestTypes, GateExclusive, GateLabels,
     Holding, Goto, Finish, objVars
<1>32. ASSUME NEW r \in Requests, ShutdownNext(r) PROVE GateExclusive'
  BY <1>32 DEF ShutdownNext, TypeOK, RequestTypes, GateExclusive, GateLabels,
     Holding, Goto, Finish, objVars
<1>33. ASSUME NEW r \in Requests, CloseBegin(r) PROVE GateExclusive'
  BY <1>33 DEF CloseBegin, TypeOK, RequestTypes, GateExclusive, GateLabels,
     Holding, Goto
<1>34. ASSUME NEW r \in Requests, CloseGate(r) PROVE GateExclusive'
  BY <1>34, RequestsAssumption DEF CloseGate, TypeOK, ObjectTypes, PositionOK,
     ObjectLabels, GateExclusive, Holding, Goto, TakeGate
<1>35. ASSUME NEW r \in Requests, CloseCommit(r) PROVE GateExclusive'
  BY <1>35 DEF CloseCommit, GateExclusive, GateLabels, Holding, Goto
<1>36. ASSUME NEW r \in Requests, CloseRelease(r) PROVE GateExclusive'
  BY <1>36 DEF CloseRelease, TypeOK, RequestTypes, GateExclusive, GateLabels,
     Holding, Goto, ReleaseGate
<1>37. ASSUME NEW r \in Requests, CloseWait(r) PROVE GateExclusive'
  BY <1>37 DEF CloseWait, GateExclusive, GateLabels, Holding, Goto, objVars
<1>38. ASSUME NEW r \in Requests, Detach(r) PROVE GateExclusive'
  BY <1>38 DEF Detach, TypeOK, RequestTypes, GateExclusive, GateLabels,
     Holding, Goto, Finish, objVars
<1>39. CASE UNCHANGED vars
  BY <1>39 DEF GateExclusive, Holding, vars, objVars
<1>40. QED
  BY <1>1, <1>2, <1>3, <1>4, <1>5, <1>6, <1>7, <1>8, <1>9, <1>10, <1>11,
     <1>12, <1>13, <1>14, <1>15, <1>16, <1>17, <1>18, <1>19, <1>20, <1>21,
     <1>22, <1>23, <1>24, <1>25, <1>26, <1>27, <1>28, <1>29, <1>30, <1>31,
     <1>32, <1>33, <1>34, <1>35, <1>36, <1>37, <1>38, <1>39 DEF Next, Begin,
     Handle, TurnEnds, Quiescent

\* The inductive invariant holds of the agent NewAgent returns.
LEMMA IInvInit ==
  Init => IInv
<1>. SUFFICES ASSUME Init PROVE IInv
  OBVIOUS
<1>1. TypeOK
  <2>1. AgentTypes
    BY DEF Init, AgentTypes
  <2>2. ObjectTypes
    BY DEF Init, ObjectTypes, Lives, Turns
  <2>3. StoreTypes
    BY DEF Init, StoreTypes
  <2>4. RequestTypes
    BY DEF Init, RequestTypes, Labels, Results
  <2>5. BuiltOK /\ OperandsOK
    BY DEF Init, BuiltOK, OperandsOK, ObjectLabels
  <2>6. QED
    BY <2>1, <2>2, <2>3, <2>4, <2>5 DEF TypeOK
<1>2. PositionOK
  BY DEF Init, PositionOK, RestoreLabels, ObjectLabels
<1>3. BuilderOK
  BY RequestsAssumption DEF Init, BuilderOK, BuilderLabels
<1>4. GateExclusive
  BY DEF Init, GateExclusive, GateLabels
<1>5. QED
  BY <1>1, <1>2, <1>3, <1>4 DEF IInv

\* The inductive invariant is preserved by every handler step, whatever other
\* requests are in flight.
LEMMA IInvStep ==
  IInv /\ [Next]_vars => IInv'
<1>1. ASSUME IInv, Next PROVE IInv'
  <2>1. TypeOK /\ BuiltOK /\ PositionOK /\ BuilderOK /\ GateExclusive
    BY <1>1 DEF IInv, TypeOK
  <2>2. AgentTypes' /\ ObjectTypes' /\ StoreTypes' /\ RequestTypes'
    BY <1>1, <2>1, AgentTypesStep, ObjectTypesStep, StoreTypesStep,
       RequestTypesStep
  <2>3. PositionOK'
    BY <1>1, <2>1, PositionStep
  <2>4. BuilderOK'
    BY <1>1, <2>1, BuilderStep
  <2>5. BuiltOK'
    BY <1>1, <2>1, BuiltStep
  <2>6. OperandsOK'
    BY <2>3, RequestsAssumption DEF PositionOK, OperandsOK
  <2>7. TypeOK'
    BY <2>2, <2>5, <2>6 DEF TypeOK
  <2>8. GateExclusive'
    BY <1>1, <2>1, GateStep
  <2>9. QED
    BY <2>3, <2>4, <2>7, <2>8 DEF IInv
<1>2. ASSUME IInv, UNCHANGED vars PROVE IInv'
  BY <1>2 DEF IInv, TypeOK, AgentTypes, ObjectTypes, StoreTypes, RequestTypes,
     PositionOK, BuilderOK, BuiltOK, OperandsOK, GateExclusive, Holding, vars,
     agentVars, objVars, identity, flags, carrier, storeVars, inputVars
<1>3. QED
  BY <1>1, <1>2

\* Type correctness, for any requests, ids and slots: no interleaving of
\* handlers leaves the registry, a session object or the store ill-formed.
THEOREM TypeCorrect ==
  Spec => []TypeOK
<1>1. IInv => TypeOK
  BY DEF IInv
<1>2. QED
  BY IInvInit, IInvStep, <1>1, PTL DEF Spec

\* Mutual exclusion of foreground work (session.gate), for any number of
\* requests and sessions: between taking a session's gate and giving it back a
\* prompt, restore, config write, session/new or closer is its one holder.
THEOREM ForegroundExclusive ==
  Spec => []GateExclusive
<1>1. IInv => GateExclusive
  BY DEF IInv
<1>2. QED
  BY IInvInit, IInvStep, <1>1, PTL DEF Spec
============================================================================
