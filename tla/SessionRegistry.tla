-------------------------- MODULE SessionRegistry --------------------------
(***************************************************************************)
(* The agent's session registry and the requests that race on it.          *)
(*                                                                         *)
(* Every ACP request runs on a goroutine of its own, so a request is a     *)
(* process with a program counter and one action per critical section of   *)
(* its handler: Agent.mu guards the registry, session.mu a session's       *)
(* flags, and the one-slot channel session.gate admits one foreground      *)
(* operation at a time.  A session object is named by the session/new or   *)
(* restore request that built it, so one ACP id can have several objects   *)
(* over time.                                                              *)
(***************************************************************************)
EXTENDS Naturals, FiniteSets

CONSTANTS
  Requests,    \* the requests the host may send, each once
  Ids,         \* ACP session ids
  Kinds,       \* the methods the host uses in this instance
  Stored,      \* ids an earlier process left in the store
  Ephemeral,   \* the values of the ephemeral flag session/new may carry
  MaxActive,   \* ConcurrencyLimits.MaxActiveSessions
  None

AllKinds == {"new", "restore", "prompt", "config",
             "cancel", "close", "delete", "shutdown"}

ASSUME RequestsAssumption == IsFiniteSet(Requests) /\ None \notin Requests
ASSUME IdsAssumption == IsFiniteSet(Ids) /\ None \notin Ids /\ Stored \subseteq Ids
ASSUME InputsAssumption == Kinds \subseteq AllKinds /\ Ephemeral \subseteq BOOLEAN
ASSUME MaxActiveAssumption == MaxActive \in Nat

VARIABLES
  closed,      \* Agent.closed
  sessions,    \* Agent.sessions: the object an id resolves to
  deleted,     \* Agent.deleted
  ephemeral,   \* Agent.ephemeral
  starting,    \* the requests counted by Agent.starting
  restoring,   \* Agent.restores: the ids with a load or resume in flight
  sid,         \* an object's ACP id
  eph,         \* its ephemeral flag
  life,        \* how far it is from creation to closeDone
  turn,        \* session.turn with its cancelled and settling flags
  poison,      \* session.poison
  persisted,   \* session.persisted
  closeErr,    \* session.closeErr
  rows,        \* session.rows: the thread generation it captured last
  gate,        \* session.gate, with the request that fills the slot
  store,       \* the session store's verdict on an id
  durable,     \* the thread generation the store holds for an id
  thread,      \* the generation of the id's native thread on Amp's service
  pc, kind, target, obj, result,   \* the requests
  todo         \* the sessions Agent.Close has still to shut down

agentVars == <<closed, sessions, deleted, ephemeral, starting, restoring>>
identity == <<sid, eph>>
flags == <<life, turn, poison>>
carrier == <<persisted, closeErr, rows>>
objVars == <<identity, flags, carrier, gate>>
storeVars == <<store, durable>>
inputVars == <<kind, target>>
vars == <<agentVars, objVars, storeVars, thread, pc, inputVars, obj, result, todo>>

----------------------------------------------------------------------------
(***************************************************************************)
(* life folds closing and closeDone: an object is built by its request,     *)
(* live once installed, closing when session.close claimed it and closed   *)
(* once closeDone is closed; dropped means it was never installed.         *)
(***************************************************************************)
Lives == {"none", "built", "live", "closing", "closed", "dropped"}
Turns == {"none", "running", "cancelled", "settling"}

Labels == {"idle", "create", "install", "release_slot", "commit",
           "restore_lookup", "restore_gate", "restore_carrier", "active_load",
           "active_commit", "load", "restore_reserve", "hydrate",
           "restore_commit", "replay", "lookup", "admit", "gate", "turn", "run",
           "settle", "finish", "config_commit", "cancel", "delete_store",
           "delete_mark", "shutdown_next", "close_begin", "close_gate",
           "close_commit", "close_release", "close_wait", "detach", "done"}

Results == {"none", "ok", "refused", "failed"}

AgentTypes ==
  /\ closed \in BOOLEAN
  /\ sessions \in [Ids -> Requests \cup {None}]
  /\ deleted \subseteq Ids
  /\ ephemeral \subseteq Ids
  /\ starting \subseteq Requests
  /\ restoring \subseteq Ids
  /\ todo \subseteq Requests

ObjectTypes ==
  /\ sid \in [Requests -> Ids \cup {None}]
  /\ eph \in [Requests -> BOOLEAN]
  /\ life \in [Requests -> Lives]
  /\ turn \in [Requests -> Turns]
  /\ poison \in [Requests -> BOOLEAN]
  /\ persisted \in [Requests -> BOOLEAN]
  /\ closeErr \in [Requests -> BOOLEAN]
  /\ rows \in [Requests -> Nat]
  /\ gate \in [Requests -> Requests \cup {None}]

StoreTypes ==
  /\ store \in [Ids -> {"absent", "stored", "tombstone"}]
  /\ durable \in [Ids -> Nat]
  /\ thread \in [Ids -> Nat]

RequestTypes ==
  /\ pc \in [Requests -> Labels]
  /\ kind \in [Requests -> AllKinds \cup {"none"}]
  /\ target \in [Requests -> Ids \cup {None}]
  /\ obj \in [Requests -> Requests \cup {None}]
  /\ result \in [Requests -> Results]

\* Whatever the registry, a request or Agent.Close refers to has been built.
BuiltOK ==
  /\ \A r \in Requests : obj[r] # None => life[obj[r]] # "none"
  /\ \A i \in Ids : sessions[i] # None => life[sessions[i]] # "none"
  /\ \A o \in todo : life[o] # "none"
  /\ \A o \in Requests : life[o] # "none" => sid[o] \in Ids

\* Where a request works on its obj.
ObjectLabels == {"restore_gate", "restore_carrier", "active_load",
                 "active_commit", "restore_commit", "replay", "admit", "gate",
                 "turn", "run", "settle", "finish", "config_commit", "cancel",
                 "close_begin", "close_gate", "close_commit", "close_release",
                 "close_wait", "detach"}

\* A handler that works on a session has one, whatever was closed or deleted
\* since its id was looked up: none of them uses a nil session.
OperandsOK == \A r \in Requests : pc[r] \in ObjectLabels => obj[r] # None

\* Every variable has its type, and every reference leads to a session object
\* that a session/new or restore has built under an id.
TypeOK ==
  /\ AgentTypes /\ ObjectTypes /\ StoreTypes /\ RequestTypes
  /\ BuiltOK /\ OperandsOK

Init ==
  /\ closed = FALSE
  /\ sessions = [i \in Ids |-> None]
  /\ deleted = {} /\ ephemeral = {} /\ starting = {} /\ restoring = {}
  /\ sid = [r \in Requests |-> None]
  /\ eph = [r \in Requests |-> FALSE]
  /\ life = [r \in Requests |-> "none"]
  /\ turn = [r \in Requests |-> "none"]
  /\ poison = [r \in Requests |-> FALSE]
  /\ persisted = [r \in Requests |-> FALSE]
  /\ closeErr = [r \in Requests |-> FALSE]
  /\ rows = [r \in Requests |-> 0]
  /\ gate = [r \in Requests |-> None]
  /\ store = [i \in Ids |-> IF i \in Stored THEN "stored" ELSE "absent"]
  /\ durable = [i \in Ids |-> 0]
  /\ thread = [i \in Ids |-> IF i \in Stored THEN 1 ELSE 0]  \* ahead of the mirror
  /\ pc = [r \in Requests |-> "idle"]
  /\ kind = [r \in Requests |-> "none"]
  /\ target = [r \in Requests |-> None]
  /\ obj = [r \in Requests |-> None]
  /\ result = [r \in Requests |-> "none"]
  /\ todo = {}

----------------------------------------------------------------------------
(* Helpers.                                                                *)

Goto(r, l) == pc' = [pc EXCEPT ![r] = l] /\ UNCHANGED result

Finish(r, v) == pc' = [pc EXCEPT ![r] = "done"] /\ result' = [result EXCEPT ![r] = v]

\* The request arrives: the host picks its method and the id it names.
Arrive(r, k, i) ==
  /\ pc[r] = "idle"
  /\ k \in Kinds
  /\ kind' = [kind EXCEPT ![r] = k]
  /\ target' = [target EXCEPT ![r] = i]

\* A host can name an id it was given, saw listed, or finds in the store.
Known(i) == store[i] # "absent" \/ sessions[i] # None \/ i \in deleted

\* A native thread id is new to everyone when `threads new` returns it.
Fresh(i) ==
  /\ ~Known(i)
  /\ \A r \in Requests : sid[r] # i /\ target[r] # i

Active == {i \in Ids : sessions[i] # None}

\* Mutant: the limit forgets the requests still establishing a session.
SlotFreeIgnoringStarting == Cardinality(Active) < MaxActive

SlotFree == Cardinality(Active) + Cardinality(starting) < MaxActive

\* Mutants: install without the deleted check, or without the closed check.
MayInstallDeleted(i) == ~closed /\ sessions[i] = None
MayInstallClosed(i) == i \notin deleted /\ sessions[i] = None

\* install's verdict on an id.
MayInstall(i) == ~closed /\ i \notin deleted /\ sessions[i] = None

\* Mutant: restores of one id are not serialised.
MayRestoreTwice(i) == ~closed

\* restores.Acquire: one restore of an id at a time.
MayRestore(i) == ~closed /\ i \notin restoring

\* Mutant: the id is freed whatever object it names.
DetachedById(o) == [sessions EXCEPT ![sid[o]] = None]

\* The registry once object o is detached: only if its id still names it.
Detached(o) ==
  IF sessions[sid[o]] = o THEN [sessions EXCEPT ![sid[o]] = None] ELSE sessions

Closing(o) == life[o] \in {"closing", "closed"}

\* Mutant: the ephemeral check is missing.
CommitMirrorAlways(i, e, g) ==
  IF store[i] = "tombstone"
    THEN UNCHANGED storeVars
    ELSE /\ store' = [store EXCEPT ![i] = "stored"]
         /\ durable' = [durable EXCEPT ![i] = g]

\* commitMirror: an ephemeral session writes nothing; the store acknowledges a
\* write to a tombstoned id and keeps the tombstone.
CommitMirror(i, e, g) ==
  IF e \/ store[i] = "tombstone"
    THEN UNCHANGED storeVars
    ELSE /\ store' = [store EXCEPT ![i] = "stored"]
         /\ durable' = [durable EXCEPT ![i] = g]

TakeGate(o, r) == gate' = [gate EXCEPT ![o] = r]
ReleaseGate(o) == gate' = [gate EXCEPT ![o] = None]

\* restore returns: the restore claim on the id is given back.
RestoreClaims(r) == IF kind[r] = "restore" THEN restoring \ {target[r]} ELSE restoring

----------------------------------------------------------------------------
(* session/new.                                                            *)

\* reserveSlot counts active sessions and establishing requests together.
NewReserve(r) ==
  /\ Arrive(r, "new", None)
  /\ \/ /\ closed \/ ~SlotFree
        /\ Finish(r, "refused")
        /\ UNCHANGED <<starting, eph>>
     \/ /\ ~closed /\ SlotFree
        /\ starting' = starting \cup {r}
        /\ \E e \in Ephemeral : eph' = [eph EXCEPT ![r] = e]
        /\ Goto(r, "create")
  /\ UNCHANGED <<flags, carrier, sid, gate, closed, sessions, deleted,
                 ephemeral, restoring, storeVars, thread, obj, todo>>

\* createNative, then HoldSessionGate on the object nobody else can see yet.
NewCreate(r) ==
  /\ pc[r] = "create"
  /\ \/ /\ \E i \in Ids :
             /\ Fresh(i)
             /\ sid' = [sid EXCEPT ![r] = i]
             /\ life' = [life EXCEPT ![r] = "built"]
             /\ TakeGate(r, r)
        /\ Goto(r, "install")
        /\ UNCHANGED starting
     \/ /\ starting' = starting \ {r}
        /\ Finish(r, "failed")
        /\ UNCHANGED <<gate, life, sid>>
  /\ UNCHANGED <<carrier, eph, turn, poison, closed, sessions, deleted,
                 ephemeral, restoring, storeVars, thread, inputVars, obj,
                 todo>>

\* install publishes a new or restored object unless the agent closed, the id
\* was deleted or another object holds it.
Install(r) ==
  /\ pc[r] = "install"
  /\ LET i == sid[r] IN
     \/ /\ ~MayInstall(i)
        /\ life' = [life EXCEPT ![r] = "dropped"]
        /\ ReleaseGate(r)
        /\ starting' = starting \ {r}
        /\ restoring' = RestoreClaims(r)
        /\ Finish(r, "refused")
        /\ UNCHANGED <<sessions, ephemeral>>
     \/ /\ MayInstall(i)
        /\ sessions' = [sessions EXCEPT ![i] = r]
        /\ ephemeral' = IF eph[r] THEN ephemeral \cup {i} ELSE ephemeral
        /\ life' = [life EXCEPT ![r] = "live"]
        /\ Goto(r, "release_slot")
        /\ UNCHANGED <<starting, restoring, gate>>
  /\ UNCHANGED <<identity, carrier, turn, poison, closed, deleted, storeVars,
                 thread, inputVars, obj, todo>>

\* The slot is handed over only after the session counts as active.
ReleaseSlot(r) ==
  /\ pc[r] = "release_slot"
  /\ starting' = starting \ {r}
  /\ Goto(r, IF kind[r] = "new" THEN "commit" ELSE "replay")
  /\ UNCHANGED <<closed, sessions, deleted, ephemeral, restoring, objVars,
                 storeVars, thread, inputVars, obj, todo>>

\* The first commit of a new session; a failure releases the gate and closes it.
NewCommit(r) ==
  /\ pc[r] = "commit"
  /\ \/ /\ CommitMirror(sid[r], eph[r], rows[r])
        /\ persisted' = [persisted EXCEPT ![r] = ~eph[r]]
        /\ ReleaseGate(r)
        /\ Finish(r, "ok")
        /\ UNCHANGED obj
     \/ /\ ~eph[r]
        /\ ReleaseGate(r)
        /\ obj' = [obj EXCEPT ![r] = r]
        /\ Goto(r, "close_begin")
        /\ UNCHANGED <<storeVars, persisted>>
  /\ UNCHANGED <<identity, flags, closeErr, rows, agentVars, thread, inputVars,
                 todo>>

----------------------------------------------------------------------------
(* session/load and session/resume.                                        *)

RestoreBegin(r) ==
  /\ \E i \in Ids :
       /\ Known(i)
       /\ Arrive(r, "restore", i)
       /\ \/ /\ ~MayRestore(i)
             /\ Finish(r, "refused")
             /\ UNCHANGED restoring
          \/ /\ MayRestore(i)
             /\ restoring' = restoring \cup {i}
             /\ Goto(r, "restore_lookup")
  /\ UNCHANGED <<closed, sessions, deleted, ephemeral, starting, objVars,
                 storeVars, thread, obj, todo>>

\* A restore that ends without holding any session.
RestoreEnds(r, v) ==
  /\ restoring' = restoring \ {target[r]}
  /\ starting' = starting \ {r}
  /\ Finish(r, v)

RestoreLookup(r) ==
  /\ pc[r] = "restore_lookup"
  /\ LET i == target[r] IN
     \/ /\ i \in deleted
        /\ RestoreEnds(r, "refused")
        /\ UNCHANGED obj
     \/ /\ i \notin deleted
        /\ obj' = [obj EXCEPT ![r] = sessions[i]]
        /\ Goto(r, IF sessions[i] = None THEN "load" ELSE "restore_gate")
        /\ UNCHANGED <<restoring, starting>>
  /\ UNCHANGED <<closed, sessions, deleted, ephemeral, objVars, storeVars,
                 thread, inputVars, todo>>

\* The active session must be idle: its gate is taken without waiting.
RestoreGate(r) ==
  /\ pc[r] = "restore_gate"
  /\ LET o == obj[r] IN
     \/ /\ Closing(o) \/ gate[o] # None
        /\ RestoreEnds(r, "refused")
        /\ UNCHANGED gate
     \/ /\ ~Closing(o) /\ gate[o] = None
        /\ TakeGate(o, r)
        /\ Goto(r, "restore_carrier")
        /\ UNCHANGED <<restoring, starting>>
  /\ UNCHANGED <<identity, flags, carrier, closed, sessions, deleted,
                 ephemeral, storeVars, thread, inputVars, obj, todo>>

\* sameCarrier: an unchanged configuration reuses the session if it still
\* admits work; a changed one gives the gate back and closes it.
RestoreCarrier(r) ==
  /\ pc[r] = "restore_carrier"
  /\ LET o == obj[r] IN
     \/ /\ ~poison[o] /\ ~Closing(o)
        /\ Goto(r, "active_load")
        /\ UNCHANGED <<gate, restoring, starting>>
     \/ /\ poison[o] \/ Closing(o)
        /\ ReleaseGate(o)
        /\ RestoreEnds(r, "refused")
     \/ /\ ReleaseGate(o)
        /\ Goto(r, "close_begin")
        /\ UNCHANGED <<restoring, starting>>
  /\ UNCHANGED <<identity, flags, carrier, closed, sessions, deleted,
                 ephemeral, storeVars, thread, inputVars, obj, todo>>

\* restoreActive reads the store only to learn that the session is there.
ActiveLoad(r) ==
  /\ pc[r] = "active_load"
  /\ \/ /\ store[target[r]] = "stored"
        /\ Goto(r, "active_commit")
        /\ UNCHANGED <<gate, restoring, starting>>
     \/ /\ ReleaseGate(obj[r])
        /\ RestoreEnds(r, IF store[target[r]] = "stored" THEN "failed" ELSE "refused")
  /\ UNCHANGED <<identity, flags, carrier, closed, sessions, deleted,
                 ephemeral, storeVars, thread, inputVars, obj, todo>>

\* The candidate is hydrated from the native thread and committed before the
\* live object is rebound to it.
ActiveCommit(r) ==
  /\ pc[r] = "active_commit"
  /\ LET o == obj[r]
         i == target[r]
     IN \/ /\ CommitMirror(i, FALSE, thread[i])
           /\ rows' = [rows EXCEPT ![o] = thread[i]]
           /\ Goto(r, "replay")
           /\ UNCHANGED <<gate, restoring, starting>>
        \/ /\ ReleaseGate(o)
           /\ RestoreEnds(r, "failed")
           /\ UNCHANGED <<rows, storeVars>>
  /\ UNCHANGED <<identity, flags, persisted, closeErr, closed, sessions,
                 deleted, ephemeral, thread, inputVars, obj, todo>>

RestoreLoad(r) ==
  /\ pc[r] = "load"
  /\ \/ /\ store[target[r]] = "stored"
        /\ Goto(r, "restore_reserve")
        /\ UNCHANGED <<restoring, starting>>
     \/ RestoreEnds(r, IF store[target[r]] = "stored" THEN "failed" ELSE "refused")
  /\ UNCHANGED <<closed, sessions, deleted, ephemeral, objVars, storeVars,
                 thread, inputVars, obj, todo>>

RestoreReserve(r) ==
  /\ pc[r] = "restore_reserve"
  /\ \/ /\ closed \/ ~SlotFree
        /\ RestoreEnds(r, "refused")
     \/ /\ ~closed /\ SlotFree
        /\ starting' = starting \cup {r}
        /\ Goto(r, "hydrate")
        /\ UNCHANGED restoring
  /\ UNCHANGED <<closed, sessions, deleted, ephemeral, objVars, storeVars,
                 thread, inputVars, obj, todo>>

\* The restored object adopts the native thread; its gate is held from birth.
Hydrate(r) ==
  /\ pc[r] = "hydrate"
  /\ \/ /\ sid' = [sid EXCEPT ![r] = target[r]]
        /\ life' = [life EXCEPT ![r] = "built"]
        /\ TakeGate(r, r)
        /\ rows' = [rows EXCEPT ![r] = thread[target[r]]]
        /\ obj' = [obj EXCEPT ![r] = r]
        /\ Goto(r, "restore_commit")
        /\ UNCHANGED <<restoring, starting>>
     \/ /\ RestoreEnds(r, "failed")
        /\ UNCHANGED <<gate, life, rows, sid, obj>>
  /\ UNCHANGED <<eph, turn, poison, persisted, closeErr, closed, sessions,
                 deleted, ephemeral, storeVars, thread, inputVars, todo>>

RestoreCommit(r) ==
  /\ pc[r] = "restore_commit"
  /\ \/ /\ CommitMirror(sid[r], eph[r], rows[r])
        /\ persisted' = [persisted EXCEPT ![r] = TRUE]
        /\ Goto(r, "install")
        /\ UNCHANGED <<life, gate, restoring, starting>>
     \/ /\ life' = [life EXCEPT ![r] = "dropped"]
        /\ ReleaseGate(r)
        /\ RestoreEnds(r, "failed")
        /\ UNCHANGED <<persisted, storeVars>>
  /\ UNCHANGED <<identity, turn, poison, closeErr, rows, closed, sessions,
                 deleted, ephemeral, thread, inputVars, obj, todo>>

\* The gate is held through the replay and the response.  A failed replay
\* closes a session this request installed and leaves one it reused alone.
Replay(r) ==
  /\ pc[r] = "replay"
  /\ ReleaseGate(obj[r])
  /\ \/ RestoreEnds(r, "ok")
     \/ /\ obj[r] # r
        /\ RestoreEnds(r, "failed")
     \/ /\ obj[r] = r
        /\ Goto(r, "close_begin")
        /\ UNCHANGED <<restoring, starting>>
  /\ UNCHANGED <<identity, flags, carrier, closed, sessions, deleted,
                 ephemeral, storeVars, thread, inputVars, obj, todo>>

----------------------------------------------------------------------------
(* Requests addressed to a live session.                                   *)

\* Prompt refuses an id with a restore in flight before it looks it up.
AddressSession(r) ==
  /\ \E k \in {"prompt", "config", "cancel", "close"}, i \in Ids :
       /\ Known(i)
       /\ Arrive(r, k, i)
       /\ IF closed \/ (k = "prompt" /\ i \in restoring)
            THEN Finish(r, "refused")
            ELSE Goto(r, "lookup")
  /\ UNCHANGED <<agentVars, objVars, storeVars, thread, obj, todo>>

\* Mutant: a session that is known and not deleted is taken to be registered.
LookupUnchecked(r) ==
  /\ pc[r] = "lookup"
  /\ LET i == target[r] IN
     \/ /\ closed \/ i \in deleted
        /\ Finish(r, "refused")
        /\ UNCHANGED obj
     \/ /\ ~closed /\ i \notin deleted
        /\ obj' = [obj EXCEPT ![r] = sessions[i]]
        /\ Goto(r, CASE kind[r] = "cancel" -> "cancel"
                     [] kind[r] = "close"  -> "close_begin"
                     [] OTHER              -> "admit")
  /\ UNCHANGED <<agentVars, objVars, storeVars, thread, inputVars, todo>>

\* Agent.session.
Lookup(r) ==
  /\ pc[r] = "lookup"
  /\ LET i == target[r] IN
     \/ /\ closed \/ sessions[i] = None \/ i \in deleted
        /\ Finish(r, "refused")
        /\ UNCHANGED obj
     \/ /\ ~closed /\ sessions[i] # None /\ i \notin deleted
        /\ obj' = [obj EXCEPT ![r] = sessions[i]]
        /\ Goto(r, CASE kind[r] = "cancel" -> "cancel"
                     [] kind[r] = "close"  -> "close_begin"
                     [] OTHER              -> "admit")
  /\ UNCHANGED <<agentVars, objVars, storeVars, thread, inputVars, todo>>

\* admissionError, a critical section of its own before the gate is taken.
Admit(r) ==
  /\ pc[r] = "admit"
  /\ IF poison[obj[r]] \/ Closing(obj[r])
       THEN Finish(r, "refused")
       ELSE Goto(r, "gate")
  /\ UNCHANGED <<agentVars, objVars, storeVars, thread, inputVars, obj, todo>>

\* acquireGate never waits: a busy session answers backpressure.
AcquireGate(r) ==
  /\ pc[r] = "gate"
  /\ LET o == obj[r] IN
     \/ /\ Closing(o) \/ gate[o] # None
        /\ Finish(r, "refused")
        /\ UNCHANGED gate
     \/ /\ ~Closing(o) /\ gate[o] = None
        /\ TakeGate(o, r)
        /\ Goto(r, IF kind[r] = "prompt" THEN "turn" ELSE "config_commit")
  /\ UNCHANGED <<identity, flags, carrier, agentVars, storeVars, thread,
                 inputVars, obj, todo>>

\* Mutant: the turn is installed without looking at closing again.
InstallTurnUnfenced(r) ==
  /\ pc[r] = "turn"
  /\ turn' = [turn EXCEPT ![obj[r]] = "running"]
  /\ Goto(r, "run")
  /\ UNCHANGED <<identity, carrier, life, poison, gate, agentVars, storeVars,
                 thread, inputVars, obj, todo>>

\* The turn becomes visible to cancel and close, unless close came first.
InstallTurn(r) ==
  /\ pc[r] = "turn"
  /\ LET o == obj[r] IN
     \/ /\ Closing(o)
        /\ ReleaseGate(o)
        /\ Finish(r, "refused")
        /\ UNCHANGED turn
     \/ /\ ~Closing(o)
        /\ turn' = [turn EXCEPT ![o] = "running"]
        /\ Goto(r, "run")
        /\ UNCHANGED gate
  /\ UNCHANGED <<identity, carrier, life, poison, agentVars, storeVars, thread,
                 inputVars, obj, todo>>

\* Content mapping, the native request or the bridge failed or was cancelled.
TurnNotStarted(r) ==
  /\ pc[r] = "run"
  /\ turn' = [turn EXCEPT ![obj[r]] = "none"]
  /\ ReleaseGate(obj[r])
  /\ Finish(r, IF turn[obj[r]] = "cancelled" THEN "ok" ELSE "failed")
  /\ UNCHANGED <<identity, carrier, life, poison, agentVars, storeVars, thread,
                 inputVars, obj, todo>>

\* The native process is reaped: the thread may have advanced, and a frame of
\* another session poisons this one and skips the export and the commit.
NativeExit(r) ==
  /\ pc[r] = "run"
  /\ LET o == obj[r]
         i == sid[o]
     IN /\ \E g \in {thread[i], thread[i] + 1} : thread' = [thread EXCEPT ![i] = g]
        /\ \E drift \in BOOLEAN :
             /\ turn' = [turn EXCEPT ![o] = "settling"]
             /\ poison' = [poison EXCEPT ![o] = poison[o] \/ drift]
             /\ Goto(r, IF drift THEN "finish" ELSE "settle")
  /\ UNCHANGED <<identity, carrier, life, gate, agentVars, storeVars,
                 inputVars, obj, todo>>

\* settleExport, then commitMirror: either can fail, and a failed commit still
\* leaves the captured generation in memory.
Settle(r) ==
  /\ pc[r] = "settle"
  /\ LET o == obj[r]
         i == sid[o]
     IN \/ /\ CommitMirror(i, eph[o], thread[i])
           /\ rows' = [rows EXCEPT ![o] = thread[i]]
           /\ persisted' = [persisted EXCEPT ![o] = persisted[o] \/ ~eph[o]]
        \/ /\ \E g \in {rows[o], thread[i]} : rows' = [rows EXCEPT ![o] = g]
           /\ UNCHANGED <<persisted, storeVars>>
  /\ Goto(r, "finish")
  /\ UNCHANGED <<identity, flags, closeErr, gate, agentVars, thread, inputVars,
                 obj, todo>>

\* The deferred turn reset and gate release; TurnSettlement models the verdict.
EndTurn(r) ==
  /\ pc[r] = "finish"
  /\ turn' = [turn EXCEPT ![obj[r]] = "none"]
  /\ ReleaseGate(obj[r])
  /\ Finish(r, "ok")
  /\ UNCHANGED <<identity, carrier, life, poison, agentVars, storeVars, thread,
                 inputVars, obj, todo>>

\* setConfigOption commits the new mode with the rows in memory.
ConfigCommit(r) ==
  /\ pc[r] = "config_commit"
  /\ LET o == obj[r] IN
     \/ /\ CommitMirror(sid[o], eph[o], rows[o])
        /\ ReleaseGate(o)
        /\ persisted' = [persisted EXCEPT ![o] = persisted[o] \/ ~eph[o]]
        /\ Finish(r, "ok")
     \/ /\ ~eph[o]
        /\ ReleaseGate(o)
        /\ Finish(r, "failed")
        /\ UNCHANGED <<persisted, storeVars>>
  /\ UNCHANGED <<identity, flags, closeErr, rows, agentVars, thread, inputVars,
                 obj, todo>>

\* session.cancel: silent without a turn in flight or once it settles.
CancelTurn(r) ==
  /\ pc[r] = "cancel"
  /\ turn' = [turn EXCEPT ![obj[r]] = IF @ = "running" THEN "cancelled" ELSE @]
  /\ Finish(r, "ok")
  /\ UNCHANGED <<identity, carrier, life, poison, gate, agentVars, storeVars,
                 thread, inputVars, obj, todo>>

----------------------------------------------------------------------------
(* session/delete and Agent.Close.                                         *)

\* An ephemeral session was never written, so the store is left alone.
DeleteBegin(r) ==
  /\ \E i \in Ids :
       /\ Known(i)
       /\ Arrive(r, "delete", i)
       /\ IF closed
            THEN Finish(r, "refused")
            ELSE Goto(r, IF i \in ephemeral THEN "delete_mark" ELSE "delete_store")
  /\ UNCHANGED <<agentVars, objVars, storeVars, thread, obj, todo>>

DeleteStore(r) ==
  /\ pc[r] = "delete_store"
  /\ \/ /\ store' = [store EXCEPT ![target[r]] = "tombstone"]
        /\ Goto(r, "delete_mark")
     \/ /\ Finish(r, "failed")
        /\ UNCHANGED store
  /\ UNCHANGED <<agentVars, objVars, durable, thread, inputVars, obj, todo>>

\* One critical section marks the id deleted and reads the session to close.
DeleteMark(r) ==
  /\ pc[r] = "delete_mark"
  /\ LET i == target[r] IN
     /\ deleted' = deleted \cup {i}
     /\ ephemeral' = ephemeral \ {i}
     /\ obj' = [obj EXCEPT ![r] = sessions[i]]
     /\ IF sessions[i] = None THEN Finish(r, "ok") ELSE Goto(r, "close_begin")
  /\ UNCHANGED <<closed, sessions, starting, restoring, objVars, storeVars,
                 thread, inputVars, todo>>

\* Only the first Agent.Close collects the sessions; a later one returns at once.
ShutdownBegin(r) ==
  /\ Arrive(r, "shutdown", None)
  /\ \/ /\ closed
        /\ Finish(r, "refused")
        /\ UNCHANGED <<closed, todo>>
     \/ /\ ~closed
        /\ closed' = TRUE
        /\ todo' = {sessions[i] : i \in Active}
        /\ Goto(r, "shutdown_next")
  /\ UNCHANGED <<sessions, deleted, ephemeral, starting, restoring, objVars,
                 storeVars, thread, obj>>

ShutdownNext(r) ==
  /\ pc[r] = "shutdown_next"
  /\ \/ /\ todo = {}
        /\ Finish(r, "ok")
        /\ UNCHANGED <<obj, todo>>
     \/ \E o \in todo :
          /\ todo' = todo \ {o}
          /\ obj' = [obj EXCEPT ![r] = o]
          /\ Goto(r, "close_begin")
  /\ UNCHANGED <<agentVars, objVars, storeVars, thread, inputVars>>

----------------------------------------------------------------------------
(* session.close and detach, shared by every request that ends a session.  *)

\* The first closer fences admission and cancels an unsettled turn.
CloseBegin(r) ==
  /\ pc[r] = "close_begin"
  /\ LET o == obj[r] IN
     \/ /\ Closing(o)
        /\ Goto(r, "close_wait")
        /\ UNCHANGED <<life, turn>>
     \/ /\ ~Closing(o)
        /\ life' = [life EXCEPT ![o] = "closing"]
        /\ turn' = [turn EXCEPT ![o] = IF @ = "running" THEN "cancelled" ELSE @]
        /\ Goto(r, "close_gate")
  /\ UNCHANGED <<identity, carrier, poison, gate, agentVars, storeVars, thread,
                 inputVars, obj, todo>>

\* Mutant: close does not wait for the foreground operation.
CloseGateAtOnce(r) ==
  /\ pc[r] = "close_gate"
  /\ TakeGate(obj[r], r)
  /\ Goto(r, "close_commit")
  /\ UNCHANGED <<identity, flags, carrier, agentVars, storeVars, thread,
                 inputVars, obj, todo>>

\* Unlike every other operation, close waits for the gate.
CloseGate(r) ==
  /\ pc[r] = "close_gate"
  /\ gate[obj[r]] = None
  /\ TakeGate(obj[r], r)
  /\ Goto(r, "close_commit")
  /\ UNCHANGED <<identity, flags, carrier, agentVars, storeVars, thread,
                 inputVars, obj, todo>>

\* Mutant: close leaves the publication to the last turn.
CloseWithoutCommit(r) ==
  /\ pc[r] = "close_commit"
  /\ life' = [life EXCEPT ![obj[r]] = "closed"]
  /\ Goto(r, "close_release")
  /\ UNCHANGED <<identity, carrier, turn, poison, gate, agentVars, storeVars,
                 thread, inputVars, obj, todo>>

\* The final commit of a session the store holds, then closeDone.
CloseCommit(r) ==
  /\ pc[r] = "close_commit"
  /\ LET o == obj[r] IN
     \/ /\ IF persisted[o]
             THEN CommitMirror(sid[o], eph[o], rows[o])
             ELSE UNCHANGED storeVars
        /\ UNCHANGED closeErr
     \/ /\ persisted[o]
        /\ closeErr' = [closeErr EXCEPT ![o] = TRUE]
        /\ UNCHANGED storeVars
  /\ life' = [life EXCEPT ![obj[r]] = "closed"]
  /\ Goto(r, "close_release")
  /\ UNCHANGED <<identity, turn, poison, persisted, rows, gate, agentVars,
                 thread, inputVars, obj, todo>>

CloseRelease(r) ==
  /\ pc[r] = "close_release"
  /\ ReleaseGate(obj[r])
  /\ Goto(r, "detach")
  /\ UNCHANGED <<identity, flags, carrier, agentVars, storeVars, thread,
                 inputVars, obj, todo>>

\* Mutant: a later closer returns while the first one still flushes.
CloseWaitNot(r) ==
  /\ pc[r] = "close_wait"
  /\ Goto(r, "detach")
  /\ UNCHANGED <<agentVars, objVars, storeVars, thread, inputVars, obj, todo>>

\* A later closer waits for closeDone.
CloseWait(r) ==
  /\ pc[r] = "close_wait"
  /\ life[obj[r]] = "closed"
  /\ Goto(r, "detach")
  /\ UNCHANGED <<agentVars, objVars, storeVars, thread, inputVars, obj, todo>>

\* detach frees the id only while it still resolves to this very object, and
\* the request goes on: a changed-carrier restore loads, Agent.Close takes the
\* next session, the others answer.
Detach(r) ==
  /\ pc[r] = "detach"
  /\ LET o == obj[r]
         v == IF closeErr[o] THEN "failed" ELSE "ok"
     IN /\ sessions' = Detached(o)
        /\ \/ /\ kind[r] \in {"close", "delete"}
              /\ Finish(r, v)
              /\ UNCHANGED restoring
           \/ /\ kind[r] = "new"
              /\ Finish(r, "failed")
              /\ UNCHANGED restoring
           \/ /\ kind[r] = "shutdown"
              /\ Goto(r, "shutdown_next")
              /\ UNCHANGED restoring
           \/ /\ kind[r] = "restore"
              /\ o = r \/ closeErr[o]
              /\ restoring' = restoring \ {target[r]}
              /\ Finish(r, "failed")
           \/ /\ kind[r] = "restore"
              /\ o # r /\ ~closeErr[o]
              /\ Goto(r, "load")
              /\ UNCHANGED restoring
  /\ UNCHANGED <<closed, deleted, ephemeral, starting, objVars, storeVars,
                 thread, inputVars, obj, todo>>

----------------------------------------------------------------------------
(* The next-state relation.                                                *)

\* A step of a request that has arrived, other than the end of its turn.
Handle(r) ==
  \/ NewCreate(r) \/ Install(r) \/ ReleaseSlot(r) \/ NewCommit(r)
  \/ RestoreLookup(r) \/ RestoreGate(r) \/ RestoreCarrier(r) \/ ActiveLoad(r)
  \/ ActiveCommit(r) \/ RestoreLoad(r) \/ RestoreReserve(r) \/ Hydrate(r)
  \/ RestoreCommit(r) \/ Replay(r)
  \/ Lookup(r) \/ Admit(r) \/ AcquireGate(r) \/ InstallTurn(r) \/ Settle(r)
  \/ EndTurn(r) \/ ConfigCommit(r) \/ CancelTurn(r)
  \/ DeleteStore(r) \/ DeleteMark(r) \/ ShutdownNext(r)
  \/ CloseBegin(r) \/ CloseGate(r) \/ CloseCommit(r) \/ CloseRelease(r)
  \/ CloseWait(r) \/ Detach(r)

Begin(r) ==
  \/ NewReserve(r) \/ RestoreBegin(r) \/ AddressSession(r) \/ DeleteBegin(r)
  \/ ShutdownBegin(r)

TurnEnds(r) == TurnNotStarted(r) \/ NativeExit(r)

\* Every request that arrived has been answered.
Quiescent ==
  /\ \A r \in Requests : pc[r] \in {"idle", "done"}
  /\ UNCHANGED vars

Next == Quiescent \/ \E r \in Requests : Begin(r) \/ Handle(r) \/ TurnEnds(r)

Spec == Init /\ [][Next]_vars

\* Handlers make progress: native commands, exports and store calls have
\* deadlines.  A native turn ends on its own time, but a cancelled one ends.
CancelledTurnEnds(r) ==
  pc[r] = "run" /\ turn[obj[r]] = "cancelled" /\ TurnEnds(r)

Fairness ==
  \A r \in Requests : WF_vars(Handle(r)) /\ WF_vars(CancelledTurnEnds(r))

FairSpec == Spec /\ Fairness

----------------------------------------------------------------------------
(* Properties.                                                             *)

\* The object a request works on while it holds a foreground gate.
Holding(r) == IF pc[r] \in {"install", "release_slot", "commit", "restore_commit"}
                THEN r ELSE obj[r]

GateLabels == {"install", "release_slot", "commit", "restore_commit",
               "restore_carrier", "active_load", "active_commit", "replay",
               "turn", "run", "settle", "finish", "config_commit",
               "close_commit", "close_release"}

\* Mutual exclusion of foreground work: a request between taking a session's
\* gate and giving it back is the gate's one holder, however prompts, restores,
\* config writes and closers race (session.gate, acquireGate, close).
GateExclusive ==
  \A r \in Requests : pc[r] \in GateLabels => gate[Holding(r)] = r

\* Sessions that are active and requests that hold a slot for a session not yet
\* installed never exceed the limit: a slot is handed over without a gap
\* (reserveSlot, install, releaseSlot).
SlotsBounded ==
  Cardinality(Active)
    + Cardinality({r \in starting : life[r] \in {"none", "built"}}) <= MaxActive

\* No two objects ever work on one native thread at a time, the one a restore
\* still prepares and the one a close still flushes included.
OneObjectPerThread ==
  \A o, p \in Requests :
    /\ o # p
    /\ life[o] \in {"built", "live", "closing"}
    /\ life[p] \in {"built", "live", "closing"}
    => sid[o] # sid[p]

\* A session that was installed and that nobody closes stays reachable under its
\* id: a late closer of an earlier object never evicts its successor (detach).
LiveIsRegistered ==
  \A o \in Requests : life[o] = "live" => sessions[sid[o]] = o

\* Once a delete has succeeded the id has no session and the store does not
\* offer it again, whatever restore or commit was in flight.
DeleteWins ==
  \A r \in Requests :
    kind[r] = "delete" /\ result[r] = "ok" =>
      sessions[target[r]] = None /\ store[target[r]] # "stored"

\* When Agent.Close returns to its first caller, every session is shut down and
\* no establishing request can install another.
ShutdownLeavesNothing ==
  \A r \in Requests :
    kind[r] = "shutdown" /\ result[r] = "ok" =>
      /\ \A i \in Ids : sessions[i] = None
      /\ \A o \in Requests : life[o] \notin {"live", "closing"}

\* An ephemeral session is never in the store (Agent.ephemeral, commitMirror).
EphemeralNotStored ==
  \A o \in Requests :
    eph[o] /\ sid[o] # None => store[sid[o]] # "stored"

\* The store implements the abstract mirror: whatever closers, config writes and
\* restores race, it only moves to generations the thread really reached, never
\* back over a turn another request made durable, and a delete is final.
Mirror == INSTANCE DurableMirror WITH
  Ids <- Ids, Stored <- Stored, store <- store, durable <- durable, thread <- thread
ImplementsMirror == Mirror!Spec

\* A close that succeeds has published everything its session captured, the
\* generation an earlier failed commit left in memory included (README, Prompt
\* settlement).
CloseFlushes ==
  \A o \in Requests :
    life[o] = "closed" /\ persisted[o] /\ ~closeErr[o] /\ store[sid[o]] = "stored"
      => durable[sid[o]] >= rows[o]

\* Only a native turn nobody cancelled can hold a request up: every request that
\* arrived is answered or runs such a turn, and every closer gets the gate.
OnlyTurnsLinger ==
  \A r \in Requests :
    pc[r] \notin {"idle", "run", "done"} ~> pc[r] \in {"run", "done"}

\* session.go:305 says a poisoned session is fenced from every operation but
\* close and delete: no turn starts on one.
PoisonFence ==
  [][\A r \in Requests :
       pc[r] # "run" /\ pc'[r] = "run" => ~poison[obj[r]]]_vars

\* session_store_test.go:179 says a session/new that failed leaves nothing in
\* the store.
FailedNewNotStored ==
  \A r \in Requests :
    kind[r] = "new" /\ result[r] = "failed" /\ sid[r] # None
      => store[sid[r]] # "stored"
============================================================================
