--------------------------- MODULE RecoveryProofs ---------------------------
(***************************************************************************)
(* For any number of threads and faults: what a binding may move to, and   *)
(* which threads a failed restore leaves alone.                            *)
(***************************************************************************)
EXTENDS Recovery, TLAPS

\* Amp creates threads in order, and a thread anyone names was created.
BornOK ==
  /\ \A t, u \in Threads : native[t] = "unborn" /\ t < u => native[u] = "unborn"
  /\ \A t \in {bound, live, source, cand} : t # NoThread => native[t] # "unborn"

\* Between restores the live session works on the thread the store binds.  During
\* one the store still binds the thread the restore started from, which is also
\* the live session's, until the candidate is published.
BindingOK ==
  /\ pc = "idle" /\ live # NoThread => bound \in {NoThread, live}
  /\ pc # "idle" => source # NoThread /\ live = IF active THEN source ELSE NoThread
  /\ pc \notin {"idle", "bind"} => bound \in {NoThread, source}
  /\ pc = "bind" => bound \in {NoThread, cand}

\* A candidate is the thread the restore started from or a later one that replaces
\* it, published only when it holds the whole history.
Replaces == cand > source /\ native[source] = "gone"

CandOK ==
  /\ pc \in {"attach", "missing", "create"} => cand = source
  /\ pc = "create" => native[source] = "gone"
  /\ pc \in {"import", "verify"} => Replaces
  /\ pc \in {"commit", "bind", "discard"} => cand = source \/ Replaces
  /\ pc = "commit" /\ cand # source => native[cand] = "full"

IInv == TypeOK /\ BornOK /\ BindingOK /\ CandOK

----------------------------------------------------------------------------
\* Types; a restore has a candidate from its first step to its last.
LEMMA TypeStep ==
  ASSUME IInv, [Next]_vars
  PROVE  TypeOK'
<1> USE ThreadsAssumption DEF IInv, TypeOK, Threads, NoThread, Contents, BindingOK, CandOK
<1>1. CASE RestoreBegin
  BY <1>1 DEF RestoreBegin
<1>2. CASE Attach
  <2>1. /\ native' \in [Threads -> Contents] /\ bound' \in 0 .. MaxThreads
        /\ deleted' \in BOOLEAN /\ live' \in 0 .. MaxThreads
        /\ pc' \in {"idle", "attach", "missing", "create", "import", "verify",
                   "commit", "bind", "discard"}
        /\ source' \in 0 .. MaxThreads /\ cand' \in 0 .. MaxThreads
        /\ pc' = "idle" <=> cand' = NoThread
    BY <1>2 DEF Attach, RestoreEnds
  <2>2. active' \in BOOLEAN /\ (pc' = "idle" => ~active')
    BY <1>2 DEF Attach, RestoreEnds
  <2>3. QED
    BY <2>1, <2>2
<1>3. CASE Missing
  <2>1. /\ native' \in [Threads -> Contents] /\ bound' \in 0 .. MaxThreads
        /\ deleted' \in BOOLEAN /\ live' \in 0 .. MaxThreads
        /\ pc' \in {"idle", "attach", "missing", "create", "import", "verify",
                   "commit", "bind", "discard"}
        /\ source' \in 0 .. MaxThreads /\ cand' \in 0 .. MaxThreads
        /\ pc' = "idle" <=> cand' = NoThread
    BY <1>3 DEF Missing, RestoreEnds
  <2>2. active' \in BOOLEAN /\ (pc' = "idle" => ~active')
    BY <1>3 DEF Missing, RestoreEnds
  <2>3. QED
    BY <2>1, <2>2
<1>4. CASE Create
  <2>1. /\ native' \in [Threads -> Contents] /\ bound' \in 0 .. MaxThreads
        /\ deleted' \in BOOLEAN /\ live' \in 0 .. MaxThreads
        /\ pc' \in {"idle", "attach", "missing", "create", "import", "verify",
                   "commit", "bind", "discard"}
        /\ source' \in 0 .. MaxThreads /\ cand' \in 0 .. MaxThreads
        /\ pc' = "idle" <=> cand' = NoThread
    BY <1>4 DEF Create, RestoreEnds
  <2>2. active' \in BOOLEAN /\ (pc' = "idle" => ~active')
    BY <1>4 DEF Create, RestoreEnds
  <2>3. QED
    BY <2>1, <2>2
<1>5. CASE Import
  BY <1>5 DEF Import
<1>6. CASE Verify
  BY <1>6 DEF Verify, VerifyImported
<1>7. CASE Commit
  BY <1>7 DEF Commit
<1>8. CASE Bind
  <2>1. /\ native' \in [Threads -> Contents] /\ bound' \in 0 .. MaxThreads
        /\ deleted' \in BOOLEAN /\ live' \in 0 .. MaxThreads
        /\ pc' \in {"idle", "attach", "missing", "create", "import", "verify",
                   "commit", "bind", "discard"}
        /\ source' \in 0 .. MaxThreads /\ cand' \in 0 .. MaxThreads
        /\ pc' = "idle" <=> cand' = NoThread
    BY <1>8 DEF Bind, RestoreEnds
  <2>2. active' \in BOOLEAN /\ (pc' = "idle" => ~active')
    BY <1>8 DEF Bind, RestoreEnds
  <2>3. QED
    BY <2>1, <2>2
<1>9. CASE Discard
  <2>1. /\ native' \in [Threads -> Contents] /\ bound' \in 0 .. MaxThreads
        /\ deleted' \in BOOLEAN /\ live' \in 0 .. MaxThreads
        /\ pc' \in {"idle", "attach", "missing", "create", "import", "verify",
                   "commit", "bind", "discard"}
        /\ source' \in 0 .. MaxThreads /\ cand' \in 0 .. MaxThreads
        /\ pc' = "idle" <=> cand' = NoThread
    BY <1>9 DEF Discard, RestoreEnds
  <2>2. active' \in BOOLEAN /\ (pc' = "idle" => ~active')
    BY <1>9 DEF Discard, RestoreEnds
  <2>3. QED
    BY <2>1, <2>2
<1>10. CASE CommitLive
  BY <1>10 DEF CommitLive
<1>11. CASE CloseSession
  BY <1>11 DEF CloseSession
<1>12. CASE DeleteStore
  BY <1>12 DEF DeleteStore
<1>13. CASE DeleteMark
  BY <1>13 DEF DeleteMark
<1>14. CASE Crash
  <2> USE <1>14 DEF Crash, RestoreEnds
  <2>1. /\ native' \in [Threads -> Contents] /\ bound' \in 0 .. MaxThreads
        /\ live' \in 0 .. MaxThreads
    OBVIOUS
  <2>2. /\ pc' = "idle" /\ cand' = NoThread /\ source' = NoThread
        /\ active' = FALSE /\ deleted' = FALSE
    OBVIOUS
  <2>3. source' \in 0 .. MaxThreads /\ cand' \in 0 .. MaxThreads
    BY <2>2
  <2>4. QED
    BY <2>1, <2>2, <2>3
<1>15. CASE ThreadDeleted
  BY <1>15 DEF ThreadDeleted
<1>16. CASE ThreadAltered
  BY <1>16 DEF ThreadAltered
<1>17. CASE UNCHANGED vars
  BY <1>17 DEF vars
<1>18. QED
  BY <1>1, <1>2, <1>3, <1>4, <1>5, <1>6, <1>7, <1>8, <1>9, <1>10, <1>11, <1>12, <1>13, <1>14, <1>15, <1>16, <1>17 DEF Next, Restore

\* Only Create makes a thread, the first unborn one, and no step unmakes one.
LEMMA BornStep ==
  ASSUME IInv, [Next]_vars
  PROVE  BornOK'
<1> USE ThreadsAssumption DEF IInv, TypeOK, Threads, NoThread, Contents, BornOK, BindingOK, CandOK
<1>1. CASE RestoreBegin
  BY <1>1 DEF RestoreBegin
<1>2. CASE Attach
  BY <1>2 DEF Attach, RestoreEnds
<1>3. CASE Missing
  BY <1>3 DEF Missing, RestoreEnds
<1>4. CASE Create
  BY <1>4 DEF Create, RestoreEnds
<1>5. CASE Import
  BY <1>5 DEF Import
<1>6. CASE Verify
  BY <1>6 DEF Verify, VerifyImported
<1>7. CASE Commit
  BY <1>7 DEF Commit
<1>8. CASE Bind
  BY <1>8 DEF Bind, RestoreEnds
<1>9. CASE Discard
  BY <1>9 DEF Discard, RestoreEnds
<1>10. CASE CommitLive
  BY <1>10 DEF CommitLive
<1>11. CASE CloseSession
  BY <1>11 DEF CloseSession
<1>12. CASE DeleteStore
  BY <1>12 DEF DeleteStore
<1>13. CASE DeleteMark
  BY <1>13 DEF DeleteMark
<1>14. CASE Crash
  BY <1>14 DEF Crash, RestoreEnds
<1>15. CASE ThreadDeleted
  BY <1>15 DEF ThreadDeleted
<1>16. CASE ThreadAltered
  BY <1>16 DEF ThreadAltered
<1>17. CASE UNCHANGED vars
  BY <1>17 DEF vars
<1>18. QED
  BY <1>1, <1>2, <1>3, <1>4, <1>5, <1>6, <1>7, <1>8, <1>9, <1>10, <1>11, <1>12, <1>13, <1>14, <1>15, <1>16, <1>17 DEF Next, Restore

\* A restore holds the session's gate or its claim on the id, so nothing else but a
\* delete moves the binding meanwhile.
LEMMA BindingStep ==
  ASSUME IInv, [Next]_vars
  PROVE  BindingOK'
<1> USE ThreadsAssumption DEF IInv, TypeOK, Threads, NoThread, Contents, BindingOK, CandOK
<1>1. CASE RestoreBegin
  BY <1>1 DEF RestoreBegin
<1>2. CASE Attach
  BY <1>2 DEF Attach, RestoreEnds
<1>3. CASE Missing
  BY <1>3 DEF Missing, RestoreEnds
<1>4. CASE Create
  BY <1>4 DEF Create, RestoreEnds
<1>5. CASE Import
  BY <1>5 DEF Import
<1>6. CASE Verify
  BY <1>6 DEF Verify, VerifyImported
<1>7. CASE Commit
  BY <1>7 DEF Commit
<1>8. CASE Bind
  BY <1>8 DEF Bind, RestoreEnds
<1>9. CASE Discard
  BY <1>9 DEF Discard, RestoreEnds
<1>10. CASE CommitLive
  BY <1>10 DEF CommitLive
<1>11. CASE CloseSession
  BY <1>11 DEF CloseSession
<1>12. CASE DeleteStore
  BY <1>12 DEF DeleteStore
<1>13. CASE DeleteMark
  BY <1>13 DEF DeleteMark
<1>14. CASE Crash
  BY <1>14 DEF Crash, RestoreEnds
<1>15. CASE ThreadDeleted
  BY <1>15 DEF ThreadDeleted
<1>16. CASE ThreadAltered
  BY <1>16 DEF ThreadAltered
<1>17. CASE UNCHANGED vars
  BY <1>17 DEF vars
<1>18. QED
  BY <1>1, <1>2, <1>3, <1>4, <1>5, <1>6, <1>7, <1>8, <1>9, <1>10, <1>11, <1>12, <1>13, <1>14, <1>15, <1>16, <1>17 DEF Next, Restore

\* A thread the service lost stays lost, and nobody else knows the candidate.
LEMMA CandStep ==
  ASSUME IInv, [Next]_vars
  PROVE  CandOK'
<1> USE ThreadsAssumption DEF IInv, TypeOK, Threads, NoThread, Contents, BornOK, BindingOK, CandOK, Replaces
<1>1. CASE RestoreBegin
  BY <1>1 DEF RestoreBegin
<1>2. CASE Attach
  BY <1>2 DEF Attach, RestoreEnds
<1>3. CASE Missing
  BY <1>3 DEF Missing, RestoreEnds
<1>4. CASE Create
  BY <1>4 DEF Create, RestoreEnds
<1>5. CASE Import
  BY <1>5 DEF Import
<1>6. CASE Verify
  BY <1>6 DEF Verify, VerifyImported
<1>7. CASE Commit
  BY <1>7 DEF Commit
<1>8. CASE Bind
  BY <1>8 DEF Bind, RestoreEnds
<1>9. CASE Discard
  BY <1>9 DEF Discard, RestoreEnds
<1>10. CASE CommitLive
  BY <1>10 DEF CommitLive
<1>11. CASE CloseSession
  BY <1>11 DEF CloseSession
<1>12. CASE DeleteStore
  BY <1>12 DEF DeleteStore
<1>13. CASE DeleteMark
  BY <1>13 DEF DeleteMark
<1>14. CASE Crash
  BY <1>14 DEF Crash, RestoreEnds
<1>15. CASE ThreadDeleted
  BY <1>15 DEF ThreadDeleted
<1>16. CASE ThreadAltered
  BY <1>16 DEF ThreadAltered
<1>17. CASE UNCHANGED vars
  BY <1>17 DEF vars
<1>18. QED
  BY <1>1, <1>2, <1>3, <1>4, <1>5, <1>6, <1>7, <1>8, <1>9, <1>10, <1>11, <1>12, <1>13, <1>14, <1>15, <1>16, <1>17 DEF Next, Restore

\* The session starts bound to the one thread there is.
LEMMA InitIInv == Init => IInv
<1> SUFFICES ASSUME Init PROVE IInv
  OBVIOUS
<1> USE ThreadsAssumption DEF Init, Threads, NoThread
<1>1. TypeOK
  <2>1. native \in [Threads -> Contents] /\ bound \in 0 .. MaxThreads
    BY DEF Contents
  <2>2. live \in 0 .. MaxThreads /\ source \in 0 .. MaxThreads /\ cand \in 0 .. MaxThreads
    OBVIOUS
  <2>3. deleted \in BOOLEAN /\ pc = "idle" /\ active = FALSE /\ cand = NoThread
    OBVIOUS
  <2>4. QED
    BY <2>1, <2>2, <2>3 DEF TypeOK
<1>2. BornOK /\ BindingOK /\ CandOK
  BY DEF BornOK, BindingOK, CandOK
<1>3. QED
  BY <1>1, <1>2 DEF IInv

\* The parts together are inductive.
LEMMA IInvStep == IInv /\ [Next]_vars => IInv'
BY TypeStep, BornStep, BindingStep, CandStep DEF IInv

\* So they hold in every reachable state.
LEMMA Inductive == Spec => []IInv
<1>1. QED
  BY InitIInv, IInvStep, PTL DEF Spec

\* A discard spares the thread the restore started from, which is the bound one and
\* the live session's.
LEMMA DiscardStep ==
  ASSUME IInv, [Next]_vars
  PROVE  (pc = "discard" /\ pc' = "idle" =>
             \A t \in {bound, live} \ {NoThread} : native'[t] = native[t])
<1> USE ThreadsAssumption DEF IInv, TypeOK, Threads, NoThread, Contents, BornOK, BindingOK, CandOK, Replaces
<1>1. CASE RestoreBegin
  BY <1>1 DEF RestoreBegin
<1>2. CASE Attach
  BY <1>2 DEF Attach, RestoreEnds
<1>3. CASE Missing
  BY <1>3 DEF Missing, RestoreEnds
<1>4. CASE Create
  BY <1>4 DEF Create, RestoreEnds
<1>5. CASE Import
  BY <1>5 DEF Import
<1>6. CASE Verify
  BY <1>6 DEF Verify, VerifyImported
<1>7. CASE Commit
  BY <1>7 DEF Commit
<1>8. CASE Bind
  BY <1>8 DEF Bind, RestoreEnds
<1>9. CASE Discard
  BY <1>9 DEF Discard, RestoreEnds
<1>10. CASE CommitLive
  BY <1>10 DEF CommitLive
<1>11. CASE CloseSession
  BY <1>11 DEF CloseSession
<1>12. CASE DeleteStore
  BY <1>12 DEF DeleteStore
<1>13. CASE DeleteMark
  BY <1>13 DEF DeleteMark
<1>14. CASE Crash
  BY <1>14 DEF Crash, RestoreEnds
<1>15. CASE ThreadDeleted
  BY <1>15 DEF ThreadDeleted
<1>16. CASE ThreadAltered
  BY <1>16 DEF ThreadAltered
<1>17. CASE UNCHANGED vars
  BY <1>17 DEF vars
<1>18. QED
  BY <1>1, <1>2, <1>3, <1>4, <1>5, <1>6, <1>7, <1>8, <1>9, <1>10, <1>11, <1>12, <1>13, <1>14, <1>15, <1>16, <1>17 DEF Next, Restore

\* Only Commit moves a binding forward, to a candidate that replaces it.
LEMMA ReplaceStep ==
  ASSUME IInv, [Next]_vars
  PROVE  (bound' > bound => native[bound] = "gone" /\ native[bound'] = "full")
<1> USE ThreadsAssumption DEF IInv, TypeOK, Threads, NoThread, Contents, BornOK, BindingOK, CandOK, Replaces
<1>1. CASE RestoreBegin
  BY <1>1 DEF RestoreBegin
<1>2. CASE Attach
  BY <1>2 DEF Attach, RestoreEnds
<1>3. CASE Missing
  BY <1>3 DEF Missing, RestoreEnds
<1>4. CASE Create
  BY <1>4 DEF Create, RestoreEnds
<1>5. CASE Import
  BY <1>5 DEF Import
<1>6. CASE Verify
  BY <1>6 DEF Verify, VerifyImported
<1>7. CASE Commit
  BY <1>7 DEF Commit
<1>8. CASE Bind
  BY <1>8 DEF Bind, RestoreEnds
<1>9. CASE Discard
  BY <1>9 DEF Discard, RestoreEnds
<1>10. CASE CommitLive
  BY <1>10 DEF CommitLive
<1>11. CASE CloseSession
  BY <1>11 DEF CloseSession
<1>12. CASE DeleteStore
  BY <1>12 DEF DeleteStore
<1>13. CASE DeleteMark
  BY <1>13 DEF DeleteMark
<1>14. CASE Crash
  BY <1>14 DEF Crash, RestoreEnds
<1>15. CASE ThreadDeleted
  BY <1>15 DEF ThreadDeleted
<1>16. CASE ThreadAltered
  BY <1>16 DEF ThreadAltered
<1>17. CASE UNCHANGED vars
  BY <1>17 DEF vars
<1>18. QED
  BY <1>1, <1>2, <1>3, <1>4, <1>5, <1>6, <1>7, <1>8, <1>9, <1>10, <1>11, <1>12, <1>13, <1>14, <1>15, <1>16, <1>17 DEF Next, Restore

\* A binding stays, ends, or moves to its replacement.
LEMMA AdvanceStep ==
  ASSUME IInv, [Next]_vars
  PROVE  (bound' # NoThread => bound' >= bound)
<1> USE ThreadsAssumption DEF IInv, TypeOK, Threads, NoThread, Contents, BornOK, BindingOK, CandOK, Replaces
<1>1. CASE RestoreBegin
  BY <1>1 DEF RestoreBegin
<1>2. CASE Attach
  BY <1>2 DEF Attach, RestoreEnds
<1>3. CASE Missing
  BY <1>3 DEF Missing, RestoreEnds
<1>4. CASE Create
  BY <1>4 DEF Create, RestoreEnds
<1>5. CASE Import
  BY <1>5 DEF Import
<1>6. CASE Verify
  BY <1>6 DEF Verify, VerifyImported
<1>7. CASE Commit
  BY <1>7 DEF Commit
<1>8. CASE Bind
  BY <1>8 DEF Bind, RestoreEnds
<1>9. CASE Discard
  BY <1>9 DEF Discard, RestoreEnds
<1>10. CASE CommitLive
  BY <1>10 DEF CommitLive
<1>11. CASE CloseSession
  BY <1>11 DEF CloseSession
<1>12. CASE DeleteStore
  BY <1>12 DEF DeleteStore
<1>13. CASE DeleteMark
  BY <1>13 DEF DeleteMark
<1>14. CASE Crash
  BY <1>14 DEF Crash, RestoreEnds
<1>15. CASE ThreadDeleted
  BY <1>15 DEF ThreadDeleted
<1>16. CASE ThreadAltered
  BY <1>16 DEF ThreadAltered
<1>17. CASE UNCHANGED vars
  BY <1>17 DEF vars
<1>18. QED
  BY <1>1, <1>2, <1>3, <1>4, <1>5, <1>6, <1>7, <1>8, <1>9, <1>10, <1>11, <1>12, <1>13, <1>14, <1>15, <1>16, <1>17 DEF Next, Restore

\* Every variable of the binding and of the restore in flight keeps its type.
THEOREM TypeCorrect == Spec => []TypeOK
<1>1. IInv => TypeOK
  BY DEF IInv
<1>2. QED
  BY <1>1, Inductive, PTL

\* No failing restore deletes the thread the store binds or a live session uses,
\* whatever was deleted, closed or lost meanwhile (discardUnbound).
THEOREM BoundThreadStays == Spec => BoundSurvivesDiscard
<1>1. IInv /\ [Next]_vars => (pc = "discard" /\ pc' = "idle" =>
                              \A t \in {bound, live} \ {NoThread} : native'[t] = native[t])
  BY DiscardStep
<1>2. QED
  BY <1>1, Inductive, PTL DEF Spec, BoundSurvivesDiscard

\* A binding is replaced only after the service lost its thread (recoverNative,
\* missing verdict).
THEOREM OnlyMissingReplaced == Spec => ReplacesOnlyMissing
<1>1. IInv /\ [Next]_vars => (bound' > bound => native[bound] = "gone")
  BY ReplaceStep
<1>2. QED
  BY <1>1, Inductive, PTL DEF Spec, ReplacesOnlyMissing

\* What replaces it holds the whole history (importRecovered, verifiedExport).
THEOREM CompleteReplacement == Spec => ReplacementIsComplete
<1>1. IInv /\ [Next]_vars => (bound' > bound => native[bound'] = "full")
  BY ReplaceStep
<1>2. QED
  BY <1>1, Inductive, PTL DEF Spec, ReplacementIsComplete

\* No commit of a live session or a restore brings back a thread that was replaced
\* (restoreActive, recoverNative).
THEOREM NeverBack == Spec => BindingAdvances
<1>1. IInv /\ [Next]_vars => (bound' # NoThread => bound' >= bound)
  BY AdvanceStep
<1>2. QED
  BY <1>1, Inductive, PTL DEF Spec, BindingAdvances

=============================================================================
