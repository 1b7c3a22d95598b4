------------------------------ MODULE Recovery ------------------------------
(***************************************************************************)
(* The native binding of one stored session: reconciling a restore with    *)
(* its remote thread, recovering a missing thread into a private           *)
(* destination, and rebinding the session to it.                           *)
(*                                                                         *)
(* Restores of one id exclude each other (restores.Acquire), so one        *)
(* restore is in flight at a time; deletes, closes, crashes and whoever    *)
(* else owns the Amp account interleave with its steps.  Threads are       *)
(* numbered in the order Amp creates them.                                 *)
(***************************************************************************)
EXTENDS Naturals

CONSTANTS
  MaxThreads,  \* bound: native threads Amp creates
  Faults       \* what goes wrong besides refused calls

AllFaults == {"crash", "discard_fails", "delete", "close", "altered"}

ASSUME ThreadsAssumption == MaxThreads \in Nat \ {0}
ASSUME FaultsAssumption == Faults \subseteq AllFaults

Threads == 1 .. MaxThreads
NoThread == 0

VARIABLES
  native,      \* a thread on Amp's service
  bound,       \* the stored record's NativeSessionID; NoThread once tombstoned
  deleted,     \* Agent.deleted and, after it, the refusal of the store
  live,        \* nativeID of the installed session
  pc,          \* the restore in flight
  active,      \* it restores the installed session under its gate
  source,      \* the binding it started from: the record's NativeSessionID
  cand         \* the candidate's nativeID

vars == <<native, bound, deleted, live, pc, active, source, cand>>

\* A full thread holds the backup's messages; an altered one lost or changed some.
Contents == {"unborn", "empty", "full", "altered", "gone"}

TypeOK ==
  /\ native \in [Threads -> Contents]
  /\ bound \in 0 .. MaxThreads
  /\ deleted \in BOOLEAN
  /\ live \in 0 .. MaxThreads
  /\ pc \in {"idle", "attach", "missing", "create", "import", "verify",
             "commit", "bind", "discard"}
  /\ active \in BOOLEAN
  /\ source \in 0 .. MaxThreads /\ cand \in 0 .. MaxThreads
  /\ (pc = "idle" <=> cand = NoThread) /\ (pc = "idle" => ~active)

Init ==
  /\ native = [t \in Threads |-> IF t = 1 THEN "full" ELSE "unborn"]
  /\ bound = 1 /\ deleted = FALSE
  /\ live = NoThread
  /\ pc = "idle" /\ active = FALSE /\ source = NoThread /\ cand = NoThread

----------------------------------------------------------------------------
\* Mutant: the claim of the finished restore is kept.
RestoreEndsClaimed == pc' = "idle" /\ UNCHANGED <<cand, source, active>>

RestoreEnds ==
  pc' = "idle" /\ cand' = NoThread /\ source' = NoThread /\ active' = FALSE

\* loadStored; an active session is restored under its gate, from its own record.
RestoreBegin ==
  /\ pc = "idle" /\ ~deleted /\ bound # NoThread
  /\ active' = (live # NoThread)
  /\ source' = (IF live # NoThread THEN live ELSE bound)
  /\ cand' = source'
  /\ pc' = "attach"
  /\ UNCHANGED <<native, bound, deleted, live>>

\* hydrate: an observed thread must still extend the mirror; one that cannot be
\* observed, for whatever reason, is looked up.
Attach ==
  /\ pc = "attach"
  /\ \/ /\ native[cand] = "full"
        /\ pc' = "commit"
        /\ UNCHANGED <<cand, source, active>>
     \/ /\ native[cand] = "altered"
        /\ RestoreEnds
     \/ /\ pc' = "missing"
        /\ UNCHANGED <<cand, source, active>>
  /\ UNCHANGED <<native, bound, deleted, live>>

\* Mutant: a failed lookup authorizes the replacement.
MissingOnError ==
  /\ pc = "missing"
  /\ pc' = "create"
  /\ UNCHANGED <<native, bound, deleted, live, cand, source, active>>

\* Only the service's thread-not-found verdict authorizes a replacement, and
\* only of a history the importer accepts (Missing, PrepareImport).
Missing ==
  /\ pc = "missing"
  /\ \/ /\ native[cand] = "gone"
        /\ pc' = "create"
        /\ UNCHANGED <<cand, source, active>>
     \/ RestoreEnds
  /\ UNCHANGED <<native, bound, deleted, live>>

\* createNative: Amp may create the thread and the answer or its first export
\* still be unusable, which ends the restore.
Create ==
  /\ pc = "create"
  /\ \/ \E t \in Threads :
          /\ native[t] = "unborn"
          /\ \A u \in Threads : u < t => native[u] # "unborn"
          /\ native' = [native EXCEPT ![t] = "empty"]
          /\ \/ /\ cand' = t
                /\ pc' = "import"
                /\ UNCHANGED <<source, active>>
             \/ RestoreEnds
     \/ /\ RestoreEnds
        /\ UNCHANGED native
  /\ UNCHANGED <<bound, deleted, live>>

\* The import can be applied whether or not it is acknowledged, and can change
\* the history it was given.
Import ==
  /\ pc = "import"
  /\ \E content \in {"empty", "full", "altered"} :
       native' = [native EXCEPT ![cand] = content]
  /\ pc' \in {"verify", "discard"}
  /\ UNCHANGED <<bound, deleted, live, cand, source, active>>

\* VerifyImported: identities, order, roles and contents are the backup's.
VerifyImported == native[cand] = "full"

\* Mutant: the imported history is not compared with the backup.
VerifyCount ==
  /\ pc = "verify"
  /\ \/ /\ native[cand] # "empty"
        /\ pc' = "commit"
     \/ pc' = "discard"
  /\ UNCHANGED <<native, bound, deleted, live, cand, source, active>>

\* Mutant: the imported thread is polled without a deadline.
VerifyForever ==
  /\ pc = "verify"
  /\ \/ /\ VerifyImported
        /\ pc' = "commit"
     \/ /\ native[cand] = "altered"
        /\ pc' = "discard"
  /\ UNCHANGED <<native, bound, deleted, live, cand, source, active>>

\* observeImported polls until every message is there and verifiedExport until
\* the export shows them; the deadline ends both.
Verify ==
  /\ pc = "verify"
  /\ \/ /\ VerifyImported
        /\ pc' = "commit"
     \/ pc' = "discard"
  /\ UNCHANGED <<native, bound, deleted, live, cand, source, active>>

\* The candidate is published before anything else knows of it.  A tombstoned
\* id acknowledges the write and keeps the tombstone.
Commit ==
  /\ pc = "commit"
  /\ \/ /\ bound' = IF bound = NoThread THEN NoThread ELSE cand
        /\ pc' = "bind"
     \/ /\ pc' = "discard"
        /\ UNCHANGED bound
  /\ UNCHANGED <<native, deleted, live, cand, source, active>>

\* Mutant: the live session keeps the thread it had.
BindStored ==
  /\ pc = "bind"
  /\ live' = IF active THEN live ELSE IF deleted THEN NoThread ELSE cand
  /\ RestoreEnds
  /\ UNCHANGED <<native, bound, deleted>>

\* restoreActive moves the live binding, a cold restore installs its session
\* unless the id was deleted meanwhile; a failed replay is a close.
Bind ==
  /\ pc = "bind"
  /\ live' = IF ~active /\ deleted THEN NoThread ELSE cand
  /\ RestoreEnds
  /\ UNCHANGED <<native, bound, deleted>>

\* Mutant: whatever the candidate names is deleted.
DiscardAny ==
  /\ pc = "discard"
  /\ native' = [native EXCEPT ![cand] = "gone"]
  /\ RestoreEnds
  /\ UNCHANGED <<bound, deleted, live>>

\* discardUnbound: only a destination that differs from the binding the restore
\* started from is deleted, and the deletion itself may fail.
Discard ==
  /\ pc = "discard"
  /\ \/ /\ cand = source
        /\ UNCHANGED native
     \/ /\ cand # source
        /\ native' = [native EXCEPT ![cand] = "gone"]
     \/ /\ cand # source /\ "discard_fails" \in Faults
        /\ UNCHANGED native
  /\ RestoreEnds
  /\ UNCHANGED <<bound, deleted, live>>

----------------------------------------------------------------------------
(* Everything else that touches the binding.                               *)

\* A config write, a turn or a close commits the live session's record.
CommitLive ==
  /\ live # NoThread /\ pc = "idle"
  /\ bound' = IF bound = NoThread THEN NoThread ELSE live
  /\ UNCHANGED <<native, deleted, live, pc, active, source, cand>>

CloseSession ==
  /\ "close" \in Faults \/ deleted
  /\ live # NoThread /\ ~active
  /\ bound' = IF bound = NoThread THEN NoThread ELSE live
  /\ live' = NoThread
  /\ UNCHANGED <<native, deleted, pc, active, source, cand>>

\* session/delete tombstones the store, then marks the id; the session is
\* closed once its gate is free.
DeleteStore ==
  /\ "delete" \in Faults
  /\ bound # NoThread
  /\ bound' = NoThread
  /\ UNCHANGED <<native, deleted, live, pc, active, source, cand>>

DeleteMark ==
  /\ bound = NoThread /\ ~deleted
  /\ deleted' = TRUE
  /\ UNCHANGED <<native, bound, live, pc, active, source, cand>>

\* The adapter is killed: only the store and Amp's service remain.
Crash ==
  /\ "crash" \in Faults
  /\ live' = NoThread
  /\ deleted' = FALSE
  /\ RestoreEnds
  /\ UNCHANGED <<native, bound>>

\* Someone deletes the session's thread from the account, or edits it.
ThreadDeleted ==
  /\ bound # NoThread /\ native[bound] \in {"full", "altered"}
  /\ native' = [native EXCEPT ![bound] = "gone"]
  /\ UNCHANGED <<bound, deleted, live, pc, active, source, cand>>

ThreadAltered ==
  /\ "altered" \in Faults
  /\ bound # NoThread /\ native[bound] = "full"
  /\ native' = [native EXCEPT ![bound] = "altered"]
  /\ UNCHANGED <<bound, deleted, live, pc, active, source, cand>>

Restore ==
  Attach \/ Missing \/ Create \/ Import \/ Verify \/ Commit \/ Bind \/ Discard

Next ==
  \/ RestoreBegin \/ Restore
  \/ CommitLive \/ CloseSession \/ DeleteStore \/ DeleteMark \/ Crash
  \/ ThreadDeleted \/ ThreadAltered

Spec == Init /\ [][Next]_vars

\* Every call to Amp and to the store has a deadline.
FairSpec == Spec /\ WF_vars(Restore)

----------------------------------------------------------------------------
(* Properties.                                                             *)

\* Failing restores never cost the session its history: the thread the store
\* binds, or a live session uses, survives every discard (discardUnbound).
BoundSurvivesDiscard ==
  [][pc = "discard" /\ pc' = "idle" =>
       \A t \in {bound, live} \ {NoThread} : native'[t] = native[t]]_vars

\* A binding moves to a new thread only after Amp lost the old one: failed
\* lookups, refused attachments and altered threads never authorize it
\* (recoverNative).
ReplacesOnlyMissing == [][bound' > bound => native[bound] = "gone"]_vars

\* The store never binds a destination before it holds the whole history,
\* whatever import, poll or crash came first (importRecovered).
ReplacementIsComplete == [][bound' > bound => native[bound'] = "full"]_vars

\* The binding never returns to a thread that was replaced: no session writes a
\* record older than the one a restore published (restoreActive).
BindingAdvances == [][bound' # NoThread => bound' >= bound]_vars

\* Every restore is answered (the deadlines of recoverNative, verifiedExport).
RestoreReturns == pc # "idle" ~> pc = "idle"

\* session_recovery.go:96: the destination recovery created and never bound is
\* deleted when the restore fails.
NoOrphan ==
  pc = "idle" => \A t \in Threads \ {bound} : native[t] \in {"unborn", "gone"}
=============================================================================
