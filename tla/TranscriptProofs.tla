-------------------------- MODULE TranscriptProofs --------------------------
(***************************************************************************)
(* For threads, answers and tool results of any number: the verifications  *)
(* accept what only grew, but for texts that are JSON, overlook no         *)
(* comparable conflict, and what they commit is whole, finished and can be *)
(* imported again.                                                         *)
(***************************************************************************)
EXTENDS Transcript, SequenceTheorems, WellFoundedInduction, TLAPS

----------------------------------------------------------------------------
(* Induction over the numbers, as a statement about a set of them.         *)

LEMMA Induction ==
  ASSUME NEW S \in SUBSET Nat, 0 \in S, \A n \in S : n + 1 \in S
  PROVE  S = Nat
<1> DEFINE Less == {ss \in Nat \X Nat : ss[1] < ss[2]}
<1>1. IsWellFoundedOn(Less, Nat) BY NatLessThanWellFounded DEF OpToRel
<1> HIDE DEF Less
<1>2. SUFFICES ASSUME Nat \ S # {} PROVE FALSE OBVIOUS
<1>3. PICK m \in Nat \ S : \A n \in Nat \ S : <<n, m>> \notin Less
  BY <1>1, <1>2, WFMin
<1>4. m - 1 \in Nat \ S BY <1>3, m # 0
<1>5. <<m - 1, m>> \in Less BY <1>4 DEF Less
<1> QED BY <1>3, <1>4, <1>5

----------------------------------------------------------------------------
(* Picks: the recursive function exists, and lists what it should.         *)

Equation(f, I, n) ==
  \A i \in 0 .. n :
    f[i] = IF i = 0 THEN <<>> ELSE IF i \in I THEN Append(f[i - 1], i) ELSE f[i - 1]

LEMMA EquationUnique ==
  ASSUME NEW f, NEW g, NEW I, NEW m \in Nat, NEW n \in Nat, m <= n,
         Equation(f, I, m), Equation(g, I, n)
  PROVE  f[m] = g[m]
<1> DEFINE S == {k \in Nat : k <= m => f[k] = g[k]}
<1>1. 0 \in S BY DEF Equation
<1>2. ASSUME NEW k \in S PROVE k + 1 \in S
  <2> SUFFICES ASSUME k + 1 <= m PROVE f[k + 1] = g[k + 1] OBVIOUS
  <2>1. k + 1 \in 0 .. m /\ k + 1 \in 0 .. n /\ k + 1 # 0 /\ (k + 1) - 1 = k OBVIOUS
  <2>2. f[k] = g[k] OBVIOUS
  <2> QED BY <2>1, <2>2 DEF Equation
<1> HIDE DEF S
<1>3. S = Nat BY <1>1, <1>2, Induction DEF S
<1> QED BY <1>3 DEF S

LEMMA EquationSolvable ==
  ASSUME NEW I, NEW n \in Nat
  PROVE  \E f : Equation(f, I, n)
<1> DEFINE S == {k \in Nat : \E f : Equation(f, I, k)}
<1>1. 0 \in S
  <2>1. Equation([i \in {0} |-> <<>>], I, 0) BY DEF Equation
  <2> QED BY <2>1
<1>2. ASSUME NEW k \in S PROVE k + 1 \in S
  <2>1. PICK f : Equation(f, I, k) OBVIOUS
  <2> DEFINE g == [i \in 0 .. k + 1 |-> IF i <= k THEN f[i]
                     ELSE IF i \in I THEN Append(f[k], i) ELSE f[k]]
  <2>2. ASSUME NEW i \in 0 .. k + 1
        PROVE  g[i] = IF i = 0 THEN <<>> ELSE IF i \in I THEN Append(g[i - 1], i) ELSE g[i - 1]
    <3>1. CASE i <= k BY <3>1, <2>1 DEF Equation
    <3>2. CASE i = k + 1
      <4>1. i # 0 /\ i - 1 = k /\ g[k] = f[k] BY <3>2
      <4> QED BY <4>1, <3>2
    <3> QED BY <3>1, <3>2
  <2>3. Equation(g, I, k + 1) BY <2>2 DEF Equation
  <2> QED BY <2>3
<1> HIDE DEF S
<1>3. S = Nat BY <1>1, <1>2, Induction DEF S
<1> QED BY <1>3 DEF S

LEMMA PicksEquation ==
  ASSUME NEW I
  PROVE  /\ Picks(I)[0] = <<>>
         /\ \A n \in Nat :
              Picks(I)[n + 1] = IF n + 1 \in I THEN Append(Picks(I)[n], n + 1) ELSE Picks(I)[n]
<1> DEFINE Body(g) == [n \in Nat |->
             IF n = 0 THEN <<>> ELSE IF n \in I THEN Append(g[n - 1], n) ELSE g[n - 1]]
           solution(n) == CHOOSE f : Equation(f, I, n)
           h == [n \in Nat |-> solution(n)[n]]
<1>1. \A n \in Nat : Equation(solution(n), I, n) BY EquationSolvable
<1> HIDE DEF solution
<1>2. h = Body(h)
  <2>1. ASSUME NEW n \in Nat
        PROVE  h[n] = IF n = 0 THEN <<>> ELSE IF n \in I THEN Append(h[n - 1], n) ELSE h[n - 1]
    <3>1. CASE n = 0 BY <1>1, <3>1 DEF Equation
    <3>2. CASE n # 0
      <4>1. solution(n - 1)[n - 1] = solution(n)[n - 1]
        BY <1>1, <3>2, EquationUnique, n - 1 \in Nat, n - 1 <= n
      <4>2. solution(n)[n] = IF n \in I THEN Append(solution(n)[n - 1], n) ELSE solution(n)[n - 1]
        BY <1>1, <3>2, n \in 0 .. n DEF Equation
      <4> QED BY <4>1, <4>2, <3>2, n - 1 \in Nat
    <3> QED BY <3>1, <3>2
  <2> QED BY <2>1
<1> HIDE DEF h
<1>3. Picks(I) = CHOOSE g : g = Body(g) BY DEF Picks
<1>4. Picks(I) = Body(Picks(I)) BY <1>2, <1>3
<1> DEFINE p == Picks(I)
<1>5. p = Body(p) BY <1>4
<1> HIDE DEF p
<1>6. p[0] = <<>> BY <1>5
<1>7. ASSUME NEW n \in Nat
      PROVE  p[n + 1] = IF n + 1 \in I THEN Append(p[n], n + 1) ELSE p[n]
  <2>1. n + 1 \in Nat /\ n + 1 # 0 /\ (n + 1) - 1 = n OBVIOUS
  <2> QED BY <2>1, <1>5
<1> QED BY <1>6, <1>7 DEF p

\* p has the numbers of I from 1 to n, once each, and no others.
Lists(p, I, n) ==
  /\ p \in Seq(Nat)
  /\ \A k, l \in 1 .. Len(p) : p[k] = p[l] => k = l
  /\ \A k \in 1 .. Len(p) : p[k] \in I \cap (1 .. n)
  /\ \A i \in I \cap (1 .. n) : \E k \in 1 .. Len(p) : p[k] = i

LEMMA ListsAppend ==
  ASSUME NEW I, NEW n \in Nat, NEW p, Lists(p, I, n), n + 1 \in I
  PROVE  Lists(Append(p, n + 1), I, n + 1)
<1> DEFINE q == Append(p, n + 1)
<1>1. p \in Seq(Nat) /\ n + 1 \in Nat BY DEF Lists
<1>2. /\ q \in Seq(Nat)
      /\ Len(q) = Len(p) + 1
      /\ \A k \in 1 .. Len(p) : q[k] = p[k]
      /\ q[Len(p) + 1] = n + 1
  BY <1>1, AppendProperties
<1> HIDE DEF q
<1>3. ASSUME NEW k \in 1 .. Len(q) PROVE q[k] \in I \cap (1 .. n + 1)
  <2>1. CASE k \in 1 .. Len(p)
    <3>1. p[k] \in I \cap (1 .. n) BY <2>1 DEF Lists
    <3> QED BY <3>1, <2>1, <1>2
  <2>2. CASE k = Len(p) + 1 BY <2>2, <1>2
  <2> QED BY <2>1, <2>2, <1>1, <1>2
<1>4. ASSUME NEW i \in I \cap (1 .. n + 1) PROVE \E k \in 1 .. Len(q) : q[k] = i
  <2>1. CASE i = n + 1 BY <2>1, <1>1, <1>2, SMTT(30)
  <2>2. CASE i \in 1 .. n
    <3>1. PICK k \in 1 .. Len(p) : p[k] = i BY <2>2 DEF Lists
    <3> QED BY <3>1, <1>1, <1>2
  <2> QED BY <2>1, <2>2
<1>5. ASSUME NEW k \in 1 .. Len(q), NEW l \in 1 .. Len(q), q[k] = q[l] PROVE k = l
  <2>1. ASSUME NEW j \in 1 .. Len(p) PROVE q[j] # n + 1
    <3>1. p[j] \in 1 .. n BY DEF Lists
    <3> QED BY <3>1, <1>2
  <2>2. \A j \in 1 .. Len(q) : j \in 1 .. Len(p) \/ j = Len(p) + 1 BY <1>1, <1>2
  <2>3. CASE k \in 1 .. Len(p) /\ l \in 1 .. Len(p) BY <2>3, <1>2, <1>5 DEF Lists
  <2> QED BY <2>1, <2>2, <2>3, <1>2, <1>5
<1>6. Lists(q, I, n + 1) BY <1>2, <1>3, <1>4, <1>5 DEF Lists
<1> QED BY <1>6 DEF q

LEMMA PicksOK ==
  ASSUME NEW I, NEW n \in Nat
  PROVE  Lists(Picks(I)[n], I, n)
<1> DEFINE S == {m \in Nat : Lists(Picks(I)[m], I, m)}
<1>1. 0 \in S
  <2>1. Lists(<<>>, I, 0) BY DEF Lists
  <2> QED BY <2>1, PicksEquation
<1>2. ASSUME NEW m \in S PROVE m + 1 \in S
  <2>0. m \in Nat /\ Lists(Picks(I)[m], I, m) OBVIOUS
  <2>1. CASE m + 1 \in I
    <3>1. Picks(I)[m + 1] = Append(Picks(I)[m], m + 1) BY <2>0, <2>1, PicksEquation
    <3>2. Lists(Append(Picks(I)[m], m + 1), I, m + 1) BY <2>0, <2>1, ListsAppend
    <3>3. Lists(Picks(I)[m + 1], I, m + 1) BY <3>1, <3>2
    <3> QED BY <3>3, <2>0
  <2>2. CASE m + 1 \notin I
    <3>1. Picks(I)[m + 1] = Picks(I)[m] BY <2>0, <2>2, PicksEquation
    <3>2. I \cap (1 .. m + 1) = I \cap (1 .. m) BY <2>0, <2>2
    <3>3. Lists(Picks(I)[m + 1], I, m + 1) BY <3>1, <3>2, <2>0 DEF Lists
    <3> QED BY <3>3, <2>0
  <2> QED BY <2>1, <2>2
<1> HIDE DEF S
<1>3. S = Nat BY <1>1, <1>2, Induction DEF S
<1> QED BY <1>3 DEF S

\* What is picked from a prefix comes first.
LEMMA PicksPrefix ==
  ASSUME NEW I, NEW m \in Nat, NEW n \in Nat, m <= n
  PROVE  /\ Len(Picks(I)[m]) <= Len(Picks(I)[n])
         /\ \A k \in 1 .. Len(Picks(I)[m]) : Picks(I)[n][k] = Picks(I)[m][k]
<1> DEFINE Begins(p, q) == Len(p) <= Len(q) /\ \A k \in 1 .. Len(p) : q[k] = p[k]
           S == {l \in Nat : l >= m => Begins(Picks(I)[m], Picks(I)[l])}
<1>0. \A l \in Nat : Picks(I)[l] \in Seq(Nat) BY PicksOK DEF Lists
<1>1. 0 \in S BY <1>0
<1>2. ASSUME NEW l \in S PROVE l + 1 \in S
  <2> SUFFICES ASSUME l + 1 >= m PROVE Begins(Picks(I)[m], Picks(I)[l + 1]) OBVIOUS
  <2>1. CASE l + 1 = m BY <2>1, <1>0
  <2>2. CASE l >= m
    <3>1. l \in Nat /\ Begins(Picks(I)[m], Picks(I)[l]) BY <2>2
    <3>2. CASE l + 1 \notin I BY <3>1, <3>2, PicksEquation
    <3>3. CASE l + 1 \in I
      <4> DEFINE q == Picks(I)[l]
      <4>1. Picks(I)[l + 1] = Append(q, l + 1) BY <3>1, <3>3, PicksEquation
      <4>2. q \in Seq(Nat) /\ l + 1 \in Nat /\ Picks(I)[m] \in Seq(Nat) BY <3>1, <1>0
      <4> HIDE DEF q
      <4>3. Len(Append(q, l + 1)) = Len(q) + 1 /\ \A k \in 1 .. Len(q) : Append(q, l + 1)[k] = q[k]
        BY <4>2, AppendProperties
      <4>4. Begins(Picks(I)[m], q) BY <3>1 DEF q
      <4>5. Begins(Picks(I)[m], Append(q, l + 1)) BY <4>2, <4>3, <4>4
      <4> QED BY <4>1, <4>5
    <3> QED BY <3>2, <3>3
  <2> QED BY <2>1, <2>2
<1> HIDE DEF S
<1>3. S = Nat BY <1>1, <1>2, Induction DEF S
<1> QED BY <1>3 DEF S

\* Only what is picked matters, and nothing is added where nothing is picked.
LEMMA PicksAgree ==
  ASSUME NEW I, NEW J, NEW n \in Nat, I \cap (1 .. n) = J \cap (1 .. n)
  PROVE  Picks(I)[n] = Picks(J)[n]
<1> DEFINE S == {l \in Nat : l <= n => Picks(I)[l] = Picks(J)[l]}
<1>1. 0 \in S BY PicksEquation
<1>2. ASSUME NEW l \in S PROVE l + 1 \in S
  <2> SUFFICES ASSUME l + 1 <= n PROVE Picks(I)[l + 1] = Picks(J)[l + 1] OBVIOUS
  <2>1. l \in Nat /\ Picks(I)[l] = Picks(J)[l] OBVIOUS
  <2>2. l + 1 \in I <=> l + 1 \in J OBVIOUS
  <2> QED BY <2>1, <2>2, PicksEquation
<1> HIDE DEF S
<1>3. S = Nat BY <1>1, <1>2, Induction DEF S
<1> QED BY <1>3 DEF S

LEMMA PicksStop ==
  ASSUME NEW I, NEW m \in Nat, NEW n \in Nat, m <= n, I \cap (m + 1 .. n) = {}
  PROVE  Picks(I)[n] = Picks(I)[m]
<1> DEFINE S == {l \in Nat : m <= l /\ l <= n => Picks(I)[l] = Picks(I)[m]}
<1>1. 0 \in S OBVIOUS
<1>2. ASSUME NEW l \in S PROVE l + 1 \in S
  <2> SUFFICES ASSUME m <= l + 1, l + 1 <= n PROVE Picks(I)[l + 1] = Picks(I)[m] OBVIOUS
  <2>1. CASE l + 1 = m BY <2>1
  <2>2. CASE m <= l
    <3>1. l \in Nat /\ Picks(I)[l] = Picks(I)[m] BY <2>2
    <3>2. l + 1 \notin I BY <2>2
    <3> QED BY <3>1, <3>2, PicksEquation
  <2> QED BY <2>1, <2>2
<1> HIDE DEF S
<1>3. S = Nat BY <1>1, <1>2, Induction DEF S
<1> QED BY <1>3 DEF S

LEMMA PicksAll ==
  ASSUME NEW I, NEW n \in Nat, 1 .. n \subseteq I
  PROVE  Picks(I)[n] = [k \in 1 .. n |-> k]
<1> DEFINE S == {l \in Nat : l <= n => Picks(I)[l] = [k \in 1 .. l |-> k]}
<1>1. 0 \in S BY PicksEquation
<1>2. ASSUME NEW l \in S PROVE l + 1 \in S
  <2> SUFFICES ASSUME l + 1 <= n PROVE Picks(I)[l + 1] = [k \in 1 .. l + 1 |-> k] OBVIOUS
  <2>1. l \in Nat /\ Picks(I)[l] = [k \in 1 .. l |-> k] OBVIOUS
  <2>2. l + 1 \in I OBVIOUS
  <2>3. Picks(I)[l + 1] = Append(Picks(I)[l], l + 1) BY <2>1, <2>2, PicksEquation
  <2>4. Append([k \in 1 .. l |-> k], l + 1) = [k \in 1 .. l + 1 |-> k] BY <2>1
  <2> QED BY <2>1, <2>3, <2>4
<1> HIDE DEF S
<1>3. n \in S BY <1>1, <1>2, Induction DEF S
<1> QED BY <1>3 DEF S

----------------------------------------------------------------------------
(* Pick.                                                                   *)

Begins(s, t) == Len(s) <= Len(t) /\ \A k \in 1 .. Len(s) : s[k] = t[k]

LEMMA PickShape ==
  ASSUME NEW T, NEW s \in Seq(T), NEW I
  PROVE  LET p == Picks(I)[Len(s)]
         IN  /\ Pick(s, I) \in Seq(T)
             /\ Len(Pick(s, I)) = Len(p)
             /\ p \in Seq(Nat)
             /\ \A k \in 1 .. Len(p) : p[k] \in I \cap (1 .. Len(s)) /\ Pick(s, I)[k] = s[p[k]]
<1> DEFINE p == Picks(I)[Len(s)]
<1>1. Lists(p, I, Len(s)) BY PicksOK
<1>2. Pick(s, I) = [k \in DOMAIN p |-> s[p[k]]] BY DEF Pick
<1> HIDE DEF p
<1>3. /\ p \in Seq(Nat) /\ DOMAIN p = 1 .. Len(p)
      /\ \A k \in 1 .. Len(p) : p[k] \in I \cap (1 .. Len(s))
  BY <1>1 DEF Lists
<1>4. [k \in 1 .. Len(p) |-> s[p[k]]] \in Seq(T)
  BY <1>3, IsASeq, Len(p) \in Nat, \A k \in 1 .. Len(p) : s[p[k]] \in T
<1>5. Len([k \in 1 .. Len(p) |-> s[p[k]]]) = Len(p) BY <1>3
<1> QED BY <1>2, <1>3, <1>4, <1>5 DEF p

\* Everything picked comes from the sequence, and everything asked for is picked.
LEMMA PickElements ==
  ASSUME NEW T, NEW s \in Seq(T), NEW I
  PROVE  /\ \A k \in 1 .. Len(Pick(s, I)) : \E i \in I \cap (1 .. Len(s)) : Pick(s, I)[k] = s[i]
         /\ \A i \in I \cap (1 .. Len(s)) : \E k \in 1 .. Len(Pick(s, I)) : Pick(s, I)[k] = s[i]
<1> DEFINE p == Picks(I)[Len(s)]
<1>1. Lists(p, I, Len(s)) BY PicksOK
<1>2. /\ Len(Pick(s, I)) = Len(p)
      /\ \A k \in 1 .. Len(p) : p[k] \in I \cap (1 .. Len(s)) /\ Pick(s, I)[k] = s[p[k]]
  BY PickShape
<1> HIDE DEF p
<1>3. ASSUME NEW i \in I \cap (1 .. Len(s)) PROVE \E k \in 1 .. Len(Pick(s, I)) : Pick(s, I)[k] = s[i]
  <2>1. PICK k \in 1 .. Len(p) : p[k] = i BY <1>1 DEF Lists
  <2> QED BY <2>1, <1>2
<1> QED BY <1>2, <1>3

LEMMA PickFirst ==
  ASSUME NEW T, NEW s \in Seq(T), NEW n \in 0 .. Len(s), NEW I, I \cap (1 .. Len(s)) = 1 .. n
  PROVE  Pick(s, I) \in Seq(T) /\ Len(Pick(s, I)) = n /\ Begins(Pick(s, I), s)
<1> DEFINE p == Picks(I)[Len(s)]
<1>1. n \in Nat /\ Len(s) \in Nat /\ n <= Len(s) OBVIOUS
<1>2. Picks(I)[n] = [k \in 1 .. n |-> k] BY <1>1, PicksAll
<1>3. p = [k \in 1 .. n |-> k]
  <2>1. I \cap (n + 1 .. Len(s)) = {} BY <1>1
  <2> QED BY <2>1, <1>1, <1>2, PicksStop
<1>4. Len(p) = n BY <1>3, <1>1
<1>5. /\ Pick(s, I) \in Seq(T)
      /\ Len(Pick(s, I)) = Len(p)
      /\ \A k \in 1 .. Len(p) : Pick(s, I)[k] = s[p[k]]
  BY PickShape
<1> HIDE DEF p
<1>6. \A k \in 1 .. n : Pick(s, I)[k] = s[k] BY <1>3, <1>4, <1>5
<1> QED BY <1>1, <1>4, <1>5, <1>6 DEF Begins

LEMMA PickAll ==
  ASSUME NEW T, NEW s \in Seq(T), NEW I, 1 .. Len(s) \subseteq I
  PROVE  Pick(s, I) = s
<1>1. I \cap (1 .. Len(s)) = 1 .. Len(s) /\ Len(s) \in 0 .. Len(s) OBVIOUS
<1>2. Pick(s, I) \in Seq(T) /\ Len(Pick(s, I)) = Len(s) /\ Begins(Pick(s, I), s)
  BY <1>1, PickFirst
<1> QED BY <1>2, SeqEqual DEF Begins

LEMMA PickEmpty ==
  ASSUME NEW T, NEW s \in Seq(T), NEW I
  PROVE  Pick(s, I) = <<>> <=> I \cap (1 .. Len(s)) = {}
<1>1. Pick(s, I) \in Seq(T) BY PickShape
<1>2. Pick(s, I) = <<>> <=> Len(Pick(s, I)) = 0 BY <1>1
<1>3. Len(Pick(s, I)) # 0 => 1 \in 1 .. Len(Pick(s, I)) BY <1>1
<1> QED BY <1>2, <1>3, PickElements

\* Equal positions of two sequences are picked together.
LEMMA PickTogether ==
  ASSUME NEW T, NEW U, NEW s \in Seq(T), NEW t \in Seq(U), Len(s) = Len(t),
         NEW I, NEW J, I \cap (1 .. Len(s)) = J \cap (1 .. Len(s))
  PROVE  /\ Len(Pick(s, I)) = Len(Pick(t, J))
         /\ \A k \in 1 .. Len(Pick(s, I)) :
              \E i \in I \cap (1 .. Len(s)) : Pick(s, I)[k] = s[i] /\ Pick(t, J)[k] = t[i]
<1> DEFINE p == Picks(I)[Len(s)]
           q == Picks(J)[Len(t)]
<1>1. p = q
  <2>1. Len(s) \in Nat OBVIOUS
  <2>2. Picks(I)[Len(s)] = Picks(J)[Len(s)] BY <2>1, PicksAgree
  <2> QED BY <2>2
<1>2. /\ Len(Pick(s, I)) = Len(p)
      /\ \A k \in 1 .. Len(p) : p[k] \in I \cap (1 .. Len(s)) /\ Pick(s, I)[k] = s[p[k]]
  BY PickShape, SMTT(30)
<1>3. /\ Len(Pick(t, J)) = Len(q)
      /\ \A k \in 1 .. Len(q) : Pick(t, J)[k] = t[q[k]]
  BY PickShape, SMTT(30)
<1> HIDE DEF p, q
<1> QED BY <1>1, <1>2, <1>3

\* A prefix is picked first.
LEMMA PickBegins ==
  ASSUME NEW T, NEW s \in Seq(T), NEW t \in Seq(T), Begins(s, t),
         NEW I, NEW J, I \cap (1 .. Len(s)) = J \cap (1 .. Len(s))
  PROVE  Begins(Pick(s, I), Pick(t, J))
<1> DEFINE p == Picks(I)[Len(s)]
           q == Picks(J)[Len(t)]
<1>1. Len(s) \in Nat /\ Len(t) \in Nat /\ Len(s) <= Len(t) BY DEF Begins
<1>2. p = Picks(J)[Len(s)] BY <1>1, PicksAgree
<1>3. Len(p) <= Len(q) /\ \A k \in 1 .. Len(p) : q[k] = p[k] BY <1>1, <1>2, PicksPrefix
<1>4. /\ Len(Pick(s, I)) = Len(p) /\ p \in Seq(Nat)
      /\ \A k \in 1 .. Len(p) : p[k] \in I \cap (1 .. Len(s)) /\ Pick(s, I)[k] = s[p[k]]
  BY PickShape
<1>5. /\ Len(Pick(t, J)) = Len(q) /\ q \in Seq(Nat)
      /\ \A k \in 1 .. Len(q) : Pick(t, J)[k] = t[q[k]]
  BY PickShape
<1> HIDE DEF p, q
<1>6. ASSUME NEW k \in 1 .. Len(p) PROVE Pick(s, I)[k] = Pick(t, J)[k]
  <2>1. k \in 1 .. Len(q) BY <1>3, <1>4, <1>5
  <2>2. s[p[k]] = t[p[k]] BY <1>4 DEF Begins
  <2> QED BY <2>1, <2>2, <1>3, <1>4, <1>5
<1> QED BY <1>3, <1>4, <1>5, <1>6 DEF Begins

----------------------------------------------------------------------------
(* What a message, a part and a thread can be.                             *)

PartSet ==
  [type : {"text", "opaque", "tool_result"}, call : Nat,
   status : {"", "in-progress"} \cup Terminal,
   body : [kind : {"none", "structured", "text"}, value : {"", "old", "new"} \cup Json \cup Texts]]

MessageSet ==
  [id : Nat, role : {"user", "assistant", "info"},
   state : {"absent", "streaming", "complete", "error", "cancelled"}, parts : Seq(PartSet)]

\* A tool's result has a status and, once it ended, perhaps an output.
PartOK(part) ==
  IF IsResult(part)
  THEN part.status \in {"in-progress"} \cup Terminal /\ part.body \in {Absent} \cup Outputs
  ELSE part.status = "" /\ part.body.kind = "text"

\* Answers alone have a state, summaries have no results, and a message has one
\* result of each call.
MessageOK(message) ==
  /\ message \in MessageSet
  /\ message.role = "assistant" <=> message.state # "absent"
  /\ \A j \in DOMAIN message.parts :
       /\ PartOK(message.parts[j])
       /\ IsResult(message.parts[j]) => message.role # "info" /\ message.parts[j].call = j

ThreadOK(messages) ==
  messages \in Seq(MessageSet) /\ \A i \in DOMAIN messages : MessageOK(messages[i])

Finished(message) ==
  /\ message.state # "streaming"
  /\ \A j \in DOMAIN message.parts : message.parts[j].status # "in-progress"

----------------------------------------------------------------------------
(* The comparison of two spellings of a message.                           *)

Distinct(parts) ==
  \A j, k \in DOMAIN parts :
    IsResult(parts[j]) /\ IsResult(parts[k]) /\ parts[j].call = parts[k].call => j = k

\* What the adapter reads of a message: outputs decoded wherever they can be.
Read(message) == NormalizePluginContent(PluginContent(message.parts))

LegibleParts(parts) == \A j \in DOMAIN parts : ~JsonText(parts[j])

\* What is comparable of a message: its parts but the opaque ones.
LEMMA ContentOK ==
  ASSUME NEW message, MessageOK(message)
  PROVE  LET content == PluginContent(message.parts)
         IN  /\ content \in Seq(PartSet)
             /\ Distinct(content)
             /\ \A k \in DOMAIN content : PartOK(content[k]) /\ content[k].type # "opaque"
             /\ LegibleParts(content) <=> LegibleParts(message.parts)
<1> DEFINE parts == message.parts
           I == {i \in DOMAIN parts : parts[i].type # "opaque"}
           content == Pick(parts, I)
           p == Picks(I)[Len(parts)]
<1>1. parts \in Seq(PartSet) /\ DOMAIN parts = 1 .. Len(parts) BY DEF MessageOK, MessageSet
<1>2. \A j \in DOMAIN parts : PartOK(parts[j]) /\ (IsResult(parts[j]) => parts[j].call = j)
  BY DEF MessageOK
<1>3. PluginContent(message.parts) = content BY DEF PluginContent
<1>10. LegibleParts(message.parts) <=> LegibleParts(parts) OBVIOUS
<1>0. \A i \in DOMAIN parts : i \in I <=> parts[i].type # "opaque" OBVIOUS
<1> HIDE DEF parts, I
<1>9. /\ \A k \in 1 .. Len(content) : \E i \in I \cap (1 .. Len(parts)) : content[k] = parts[i]
      /\ \A i \in I \cap (1 .. Len(parts)) : \E k \in 1 .. Len(content) : content[k] = parts[i]
  BY <1>1, PickElements, SMTT(30)
<1>4. /\ content \in Seq(PartSet)
      /\ Len(content) = Len(p)
      /\ \A k \in 1 .. Len(p) : p[k] \in I \cap (1 .. Len(parts)) /\ content[k] = parts[p[k]]
  BY <1>1, PickShape, SMTT(30)
<1>8. \A k, l \in 1 .. Len(p) : p[k] = p[l] => k = l BY <1>1, PicksOK, Len(parts) \in Nat DEF Lists
<1> HIDE DEF content, p
<1>5. DOMAIN content = 1 .. Len(p) BY <1>4
<1>6. \A k \in DOMAIN content : PartOK(content[k]) /\ content[k].type # "opaque"
  <2> SUFFICES ASSUME NEW k \in DOMAIN content PROVE PartOK(content[k]) /\ content[k].type # "opaque"
    OBVIOUS
  <2>1. p[k] \in I \cap (1 .. Len(parts)) /\ content[k] = parts[p[k]] BY <1>4, <1>5
  <2> QED BY <2>1, <1>0, <1>1, <1>2
<1>7. ASSUME NEW j \in DOMAIN content, NEW k \in DOMAIN content,
             IsResult(content[j]), IsResult(content[k]), content[j].call = content[k].call
      PROVE  j = k
  <2>1. p[j] \in DOMAIN parts /\ p[k] \in DOMAIN parts BY <1>1, <1>4, <1>5
  <2>2. content[j] = parts[p[j]] /\ content[k] = parts[p[k]] BY <1>4, <1>5
  <2>3. p[j] = p[k] BY <2>1, <2>2, <1>2, <1>7
  <2> QED BY <2>3, <1>5, <1>8
<1>11. LegibleParts(content) <=> LegibleParts(parts)
  <2>1. ASSUME LegibleParts(content), NEW i \in DOMAIN parts PROVE ~JsonText(parts[i])
    <3>1. CASE parts[i].type = "opaque" BY <3>1 DEF JsonText, IsResult
    <3>2. CASE parts[i].type # "opaque"
      <4>1. i \in I \cap (1 .. Len(parts)) BY <3>2, <1>0, <1>1
      <4>2. PICK k \in 1 .. Len(content) : content[k] = parts[i] BY <4>1, <1>9
      <4>3. k \in DOMAIN content BY <1>4, <1>5
      <4> QED BY <2>1, <4>2, <4>3 DEF LegibleParts
    <3> QED BY <3>1, <3>2
  <2>2. ASSUME LegibleParts(parts), NEW k \in DOMAIN content PROVE ~JsonText(content[k])
    <3>1. PICK i \in DOMAIN parts : content[k] = parts[i] BY <1>1, <1>4, <1>5
    <3> QED BY <2>2, <3>1 DEF LegibleParts
  <2> QED BY <2>1, <2>2 DEF LegibleParts
<1> QED BY <1>3, <1>4, <1>6, <1>7, <1>10, <1>11 DEF Distinct

LEMMA ConcatParts ==
  ASSUME NEW s \in Seq(PartSet), NEW t \in Seq(PartSet)
  PROVE  /\ s \o t \in Seq(PartSet) /\ Len(s \o t) = Len(s) + Len(t)
         /\ \A k \in 1 .. Len(s) : (s \o t)[k] = s[k]
         /\ \A k \in Len(s) + 1 .. Len(s) + Len(t) : (s \o t)[k] = t[k - Len(s)]
BY ConcatProperties

\* Repeated results are dropped, whatever their number, and nothing else is.
LEMMA UniqueDropsRepeats ==
  ASSUME NEW parts \in Seq(PartSet), Distinct(parts), NEW again \in Seq(PartSet),
         \A k \in 1 .. Len(again) :
           IsResult(again[k]) /\ \E j \in 1 .. Len(parts) : again[k] = parts[j]
  PROVE  UniqueToolResults(parts \o again) = parts
<1> DEFINE s == parts \o again
           n == Len(parts)
           I == DOMAIN s \ Repeats(s)
<1>1. /\ s \in Seq(PartSet) /\ Len(s) = n + Len(again) /\ n \in Nat /\ Len(again) \in Nat
      /\ \A i \in 1 .. n : s[i] = parts[i]
      /\ \A i \in n + 1 .. n + Len(again) : s[i] = again[i - n]
  BY ConcatProperties
<1> HIDE DEF s
<1>2. DOMAIN s = 1 .. Len(s) BY <1>1
<1>3. ASSUME NEW i \in 1 .. n PROVE i \in I
  <2>1. i \in DOMAIN s BY <1>1, <1>2
  <2>2. ASSUME i \in Repeats(s) PROVE FALSE
    <3>1. PICK j \in 1 .. i - 1 : IsResult(s[i]) /\ s[j] = s[i] BY <2>2 DEF Repeats
    <3>2. j \in 1 .. n /\ j # i BY <1>1, <3>1
    <3>3. /\ parts[j] = parts[i]
          /\ IsResult(parts[j]) /\ IsResult(parts[i]) /\ parts[j].call = parts[i].call
      BY <1>1, <3>1, <3>2
    <3>4. i \in DOMAIN parts /\ j \in DOMAIN parts BY <3>2
    <3> QED BY <3>2, <3>3, <3>4 DEF Distinct
  <2> QED BY <2>1, <2>2
<1>4. ASSUME NEW i \in 1 .. Len(s), i \notin 1 .. n PROVE i \notin I
  <2>1. i \in n + 1 .. n + Len(again) /\ i - n \in 1 .. Len(again) BY <1>1, <1>4
  <2>2. IsResult(s[i]) BY <2>1, <1>1
  <2>3. PICK j \in 1 .. n : s[i] = parts[j] BY <2>1, <1>1
  <2>4. j \in 1 .. i - 1 /\ s[j] = s[i] BY <2>1, <2>3, <1>1
  <2>5. i \in Repeats(s) BY <2>2, <2>4, <1>2 DEF Repeats
  <2> QED BY <2>5
<1>5. I \cap (1 .. Len(s)) = 1 .. n /\ n \in 0 .. Len(s) BY <1>1, <1>3, <1>4
<1> HIDE DEF I
<1>6. Pick(s, I) \in Seq(PartSet) /\ Len(Pick(s, I)) = n /\ Begins(Pick(s, I), s)
  BY <1>1, <1>5, PickFirst
<1>7. \A i \in 1 .. n : Pick(s, I)[i] = parts[i] BY <1>1, <1>6 DEF Begins
<1>8. Pick(s, I) = parts BY <1>6, <1>7, SeqEqual
<1> QED BY <1>8 DEF UniqueToolResults, I, s

LEMMA UniqueOfDistinct ==
  ASSUME NEW parts \in Seq(PartSet), Distinct(parts)
  PROVE  UniqueToolResults(parts) = parts
<1> DEFINE none == <<>>
<1>1. none \in Seq(PartSet) /\ Len(none) = 0 /\ parts \o none = parts BY ConcatEmptySeq
<1>3. \A k \in 1 .. Len(none) :
        IsResult(none[k]) /\ \E j \in 1 .. Len(parts) : none[k] = parts[j]
  BY <1>1
<1> HIDE DEF none
<1>2. UniqueToolResults(parts \o none) = parts BY <1>1, <1>3, UniqueDropsRepeats
<1> QED BY <1>1, <1>2

\* What decoding makes of a part: a result stays a result of its call, nothing
\* is left to decode, and only a text that is JSON is changed.
LEMMA DecodedOK ==
  ASSUME NEW part \in PartSet, PartOK(part)
  PROVE  /\ Decoded(part) \in PartSet /\ ~JsonText(Decoded(part))
         /\ Decoded(part).type = part.type /\ Decoded(part).call = part.call
         /\ IsResult(Decoded(part)) <=> IsResult(part)
         /\ Decoded(part) = part <=> ~JsonText(part)
         /\ Decoded(Decoded(part)) = Decoded(part)
<1>1. /\ part.type \in {"text", "opaque", "tool_result"} /\ part.call \in Nat
      /\ part.status \in {"", "in-progress"} \cup Terminal
      /\ part.body.value \in {"", "old", "new"} \cup Json \cup Texts
      /\ part = [type |-> part.type, call |-> part.call, status |-> part.status, body |-> part.body]
  BY DEF PartSet
<1>2. CASE JsonText(part)
  <2> DEFINE body == Structured(part.body.value)
  <2>1. /\ body \in [kind : {"none", "structured", "text"}, value : {"", "old", "new"} \cup Json \cup Texts]
        /\ body.kind = "structured" /\ part.body.kind = "text"
    BY <1>1, <1>2 DEF Structured, JsonText
  <2>2. Decoded(part) = [part EXCEPT !.body = body] BY <1>2 DEF Decoded
  <2> HIDE DEF body
  <2>3. /\ Decoded(part) = [type |-> part.type, call |-> part.call, status |-> part.status, body |-> body]
    BY <1>1, <2>2
  <2>8. /\ Decoded(part).body = body
        /\ Decoded(part).type = part.type /\ Decoded(part).call = part.call
    BY <2>3
  <2>4. Decoded(part) \in PartSet
    <3>1. \A type \in {"text", "opaque", "tool_result"}, call \in Nat, status \in {"", "in-progress"} \cup Terminal :
          \A b \in [kind : {"none", "structured", "text"}, value : {"", "old", "new"} \cup Json \cup Texts] :
            [type |-> type, call |-> call, status |-> status, body |-> b] \in PartSet
      BY DEF PartSet
    <3>2. [type |-> part.type, call |-> part.call, status |-> part.status, body |-> body] \in PartSet
      <4>1. /\ part.type \in {"text", "opaque", "tool_result"} /\ part.call \in Nat
            /\ part.status \in {"", "in-progress"} \cup Terminal
        BY <1>1
      <4> QED BY <4>1, <2>1, <3>1, Zenon
    <3> QED BY <3>2, <2>3, Zenon
  <2>5. ~JsonText(Decoded(part))
    <3>1. Decoded(part).body.kind = "structured" BY <2>1, <2>8
    <3> QED BY <3>1 DEF JsonText
  <2>6. Decoded(part) # part
    <3>1. part.body # body BY <2>1
    <3> QED BY <3>1, <2>8
  <2>7. Decoded(Decoded(part)) = Decoded(part) BY <2>5 DEF Decoded
  <2> QED BY <1>2, <2>4, <2>5, <2>6, <2>7, <2>8 DEF IsResult
<1>3. CASE ~JsonText(part) BY <1>3 DEF Decoded
<1> QED BY <1>2, <1>3

\* Decoding cannot tell a structured output from the text the plugin shows of it.
LEMMA ShownDecodes ==
  ASSUME NEW part \in PartSet, PartOK(part)
  PROVE  /\ Decoded(Shown(part)) = Decoded(part)
         /\ Shown(part) \in PartSet
         /\ Shown(part).type = part.type
<1>1. /\ part.type \in {"text", "opaque", "tool_result"} /\ part.call \in Nat
      /\ part.status \in {"", "in-progress"} \cup Terminal
      /\ part.body.kind \in {"none", "structured", "text"}
      /\ part = [type |-> part.type, call |-> part.call, status |-> part.status, body |-> part.body]
  BY DEF PartSet
<1>2. CASE part.body.kind = "structured"
  <2>1. IsResult(part) BY <1>2 DEF PartOK
  <2>2. part.body \in {Absent} \cup Outputs BY <2>1 DEF PartOK
  <2>3. Absent.kind = "none" /\ \A v : Text(v).kind = "text" BY DEF Absent, Text
  <2>4. PICK v \in Json : part.body = Structured(v) BY <1>2, <2>2, <2>3 DEF Outputs
  <2>5. Shown(part) = [part EXCEPT !.body = Text(v)] BY <1>2, <2>4 DEF Shown, Structured
  <2>6. Text(v) \in [kind : {"none", "structured", "text"}, value : {"", "old", "new"} \cup Json \cup Texts]
        /\ Text(v).kind = "text" /\ Text(v).value = v
    BY DEF Text
  <2>7. IsResult(Shown(part)) /\ Shown(part).body = Text(v) BY <2>1, <2>5, <1>1 DEF IsResult
  <2>8. JsonText(Shown(part)) BY <2>6, <2>7 DEF JsonText
  <2>9. Decoded(Shown(part)) = [part EXCEPT !.body = Structured(v)]
    BY <2>5, <2>6, <2>7, <2>8, <1>1 DEF Decoded
  <2>10. Decoded(part) = part BY <1>2 DEF Decoded, JsonText
  <2> QED BY <1>1, <2>4, <2>5, <2>6, <2>9, <2>10 DEF PartSet
<1>3. CASE part.body.kind # "structured" BY <1>3 DEF Shown
<1> QED BY <1>2, <1>3

\* What is read of a message: a result of each call, nothing left to decode, and
\* the content itself unless a tool answered with a text that is JSON.
LEMMA ReadOK ==
  ASSUME NEW message, MessageOK(message)
  PROVE  LET content == PluginContent(message.parts)
         IN  /\ Read(message) \in Seq(PartSet) /\ Len(Read(message)) = Len(content)
             /\ \A k \in 1 .. Len(content) : Read(message)[k] = Decoded(content[k])
             /\ Distinct(Read(message))
             /\ LegibleParts(Read(message))
             /\ NormalizePluginContent(Read(message)) = Read(message)
             /\ Read(message) = content <=> LegibleParts(message.parts)
<1> DEFINE content == PluginContent(message.parts)
           read == Read(message)
<1>1. /\ content \in Seq(PartSet) /\ Distinct(content)
      /\ \A k \in DOMAIN content : PartOK(content[k])
      /\ LegibleParts(content) <=> LegibleParts(message.parts)
  BY ContentOK
<1>2. read = [k \in DOMAIN content |-> Decoded(content[k])]
  BY DEF Read, NormalizePluginContent
<1> HIDE DEF content, read
<1>3. Len(content) \in Nat /\ DOMAIN content = 1 .. Len(content) BY <1>1
<1>4. \A k \in 1 .. Len(content) :
        /\ Decoded(content[k]) \in PartSet /\ ~JsonText(Decoded(content[k]))
        /\ Decoded(content[k]).call = content[k].call
        /\ IsResult(Decoded(content[k])) <=> IsResult(content[k])
        /\ Decoded(content[k]) = content[k] <=> ~JsonText(content[k])
        /\ Decoded(Decoded(content[k])) = Decoded(content[k])
  BY <1>1, <1>3, DecodedOK
<1>5. /\ read \in Seq(PartSet) /\ Len(read) = Len(content) /\ DOMAIN read = 1 .. Len(content)
      /\ \A k \in 1 .. Len(content) : read[k] = Decoded(content[k])
  <2>1. read \in Seq(PartSet)
    <3>1. read = [k \in 1 .. Len(content) |-> Decoded(content[k])] BY <1>2, <1>3
    <3> QED BY <3>1, <1>3, <1>4, IsASeq
  <2> QED BY <2>1, <1>2, <1>3
<1>6. Distinct(read) BY <1>1, <1>3, <1>4, <1>5 DEF Distinct
<1>7. LegibleParts(read) BY <1>4, <1>5 DEF LegibleParts
<1>8. NormalizePluginContent(read) = read
  <2>1. NormalizePluginContent(read) = [k \in 1 .. Len(content) |-> Decoded(read[k])]
    BY <1>5 DEF NormalizePluginContent
  <2>2. \A k \in 1 .. Len(content) : Decoded(read[k]) = read[k] BY <1>4, <1>5
  <2>3. read = [k \in 1 .. Len(content) |-> read[k]] BY <1>5
  <2> QED BY <2>1, <2>2, <2>3
<1>9. read = content <=> LegibleParts(content)
  <2>1. ASSUME LegibleParts(content) PROVE read = content
    <3>1. \A k \in 1 .. Len(content) : read[k] = content[k]
      BY <2>1, <1>3, <1>4, <1>5 DEF LegibleParts
    <3> QED BY <3>1, <1>1, <1>5, SeqEqual
  <2> QED BY <2>1, <1>7
<1> QED BY <1>1, <1>5, <1>6, <1>7, <1>8, <1>9 DEF content, read

Same(message, original) ==
  /\ message.id = original.id /\ message.role = original.role
  /\ PluginContent(message.parts) = Read(original)

\* What the plugin shows of a message: nothing opaque, and something unless
\* there is nothing comparable.
LEMMA ViewParts ==
  ASSUME NEW original, MessageOK(original), NEW repeats \in BOOLEAN
  PROVE  LET content == PluginContent(original.parts)
             parts == ViewMessage(original, repeats).parts
         IN  /\ parts \in Seq(PartSet)
             /\ \A k \in 1 .. Len(parts) : parts[k].type # "opaque"
             /\ parts = <<>> <=> content = <<>>
             /\ UniqueToolResults(NormalizePluginContent(parts)) = Read(original)
<1> DEFINE content == PluginContent(original.parts)
           shown == [i \in DOMAIN content |-> Shown(content[i])]
           I == {i \in DOMAIN shown : IsResult(shown[i])}
           again == Pick(shown, I)
           results == [i \in 1 .. Len(again) |-> Decoded(again[i])]
           parts == ViewMessage(original, repeats).parts
           read == Read(original)
<1>0. /\ read \in Seq(PartSet) /\ Distinct(read) /\ Len(read) = Len(content)
      /\ \A k \in 1 .. Len(content) : read[k] = Decoded(content[k])
  BY ReadOK
<1>1. /\ content \in Seq(PartSet)
      /\ \A k \in DOMAIN content : PartOK(content[k]) /\ content[k].type # "opaque"
  BY ContentOK
<1>2. parts = IF repeats THEN shown \o again ELSE shown BY DEF ViewMessage
<1> HIDE DEF content, parts, read
<1>3. Len(content) \in Nat /\ DOMAIN content = 1 .. Len(content) BY <1>1
<1>4. \A k \in 1 .. Len(content) :
        /\ Decoded(Shown(content[k])) = read[k]
        /\ IsResult(read[k]) <=> IsResult(content[k])
        /\ Shown(content[k]) \in PartSet
        /\ Shown(content[k]).type = content[k].type
  BY <1>0, <1>1, <1>3, ShownDecodes, DecodedOK
<1>5. /\ shown \in Seq(PartSet) /\ Len(shown) = Len(content)
      /\ \A k \in 1 .. Len(content) : shown[k] = Shown(content[k])
  <2>1. shown = [i \in 1 .. Len(content) |-> Shown(content[i])] BY <1>3
  <2>2. shown \in Seq(PartSet) BY <2>1, <1>3, <1>4, IsASeq
  <2> QED BY <2>1, <2>2, <1>3
<1>6. \A i \in I : IsResult(shown[i]) OBVIOUS
<1> HIDE DEF shown, I
<1>7. /\ again \in Seq(PartSet)
      /\ \A k \in 1 .. Len(again) : \E i \in I \cap (1 .. Len(shown)) : again[k] = shown[i]
  BY <1>5, PickShape, PickElements
<1> HIDE DEF again
<1>8. ASSUME NEW k \in 1 .. Len(again)
      PROVE  \E i \in 1 .. Len(content) :
               /\ again[k] = shown[i] /\ Decoded(again[k]) = read[i]
               /\ IsResult(Decoded(again[k])) /\ Decoded(again[k]) \in PartSet
  <2>1. PICK i \in I \cap (1 .. Len(shown)) : again[k] = shown[i] BY <1>7
  <2>2. i \in 1 .. Len(content) /\ IsResult(shown[i]) BY <2>1, <1>5, <1>6
  <2>3. Decoded(again[k]) = read[i] BY <2>1, <2>2, <1>4, <1>5
  <2>4. IsResult(content[i]) BY <2>2, <1>4, <1>5 DEF IsResult
  <2> QED BY <2>1, <2>2, <2>3, <2>4, <1>0, <1>3, <1>4
<1>9. results \in Seq(PartSet) /\ Len(results) = Len(again)
  <2>1. Len(again) \in Nat BY <1>7
  <2> QED BY <2>1, <1>8, IsASeq
<1>10. UniqueToolResults(read \o results) = read
  <2>1. ASSUME NEW k \in 1 .. Len(results)
        PROVE  IsResult(results[k]) /\ \E j \in 1 .. Len(read) : results[k] = read[j]
    BY <1>0, <1>8, <1>9
  <2> HIDE DEF results
  <2> QED BY <2>1, <1>0, <1>9, UniqueDropsRepeats
<1>11. CASE repeats
  <2>1. parts = shown \o again BY <1>2, <1>11
  <2>2. /\ parts \in Seq(PartSet) /\ Len(parts) = Len(content) + Len(again)
        /\ Len(again) \in Nat
        /\ \A k \in 1 .. Len(content) : parts[k] = shown[k]
        /\ \A k \in Len(content) + 1 .. Len(content) + Len(again) : parts[k] = again[k - Len(content)]
    <3>1. /\ shown \o again \in Seq(PartSet) /\ Len(shown \o again) = Len(shown) + Len(again)
          /\ \A k \in 1 .. Len(shown) : (shown \o again)[k] = shown[k]
          /\ \A k \in Len(shown) + 1 .. Len(shown) + Len(again) :
               (shown \o again)[k] = again[k - Len(shown)]
      BY <1>5, <1>7, ConcatParts
    <3> QED BY <3>1, <2>1, <1>5, <1>7
  <2>3. ASSUME NEW k \in 1 .. Len(parts) PROVE parts[k].type # "opaque"
    <3>1. CASE k \in 1 .. Len(content) BY <3>1, <2>2, <1>1, <1>3, <1>4, <1>5
    <3>2. CASE k \in Len(content) + 1 .. Len(content) + Len(again)
      <4>1. k - Len(content) \in 1 .. Len(again) BY <3>2, <2>2, <1>3
      <4>2. PICK i \in 1 .. Len(content) : again[k - Len(content)] = shown[i] BY <4>1, <1>8
      <4> QED BY <4>2, <3>2, <2>2, <1>1, <1>3, <1>4, <1>5, SMTT(30)
    <3> QED BY <3>1, <3>2, <2>2, <1>3
  <2>4. Len(content) = 0 => Len(again) = 0
    <3> SUFFICES ASSUME Len(content) = 0, Len(again) # 0 PROVE FALSE OBVIOUS
    <3>1. 1 \in 1 .. Len(again) BY <2>2
    <3> QED BY <3>1, <1>8
  <2>5. parts = <<>> <=> content = <<>> BY <2>2, <2>4, <1>1, <1>3
  <2>6. NormalizePluginContent(parts) = read \o results
    <3>5. /\ read \o results \in Seq(PartSet) /\ Len(read \o results) = Len(read) + Len(results)
          /\ \A k \in 1 .. Len(read) : (read \o results)[k] = read[k]
          /\ \A k \in Len(read) + 1 .. Len(read) + Len(results) :
               (read \o results)[k] = results[k - Len(read)]
      <4> HIDE DEF results
      <4> QED BY <1>0, <1>9, ConcatParts
    <3>6. Len(read) = Len(content) /\ Len(results) = Len(again) BY <1>0, <1>9
    <3>1. /\ read \o results \in Seq(PartSet) /\ Len(read \o results) = Len(content) + Len(again)
          /\ \A k \in 1 .. Len(content) : (read \o results)[k] = read[k]
          /\ \A k \in Len(content) + 1 .. Len(content) + Len(again) :
               (read \o results)[k] = results[k - Len(content)]
      <4> HIDE DEF results
      <4> QED BY <3>5, <3>6
    <3>2. NormalizePluginContent(parts) = [k \in 1 .. Len(parts) |-> Decoded(parts[k])]
      BY <2>2 DEF NormalizePluginContent
    <3>3. ASSUME NEW k \in 1 .. Len(parts) PROVE Decoded(parts[k]) = (read \o results)[k]
      <4>1. CASE k \in 1 .. Len(content) BY <4>1, <3>1, <2>2, <1>4, <1>5
      <4>2. CASE k \in Len(content) + 1 .. Len(content) + Len(again)
        <5>1. k - Len(content) \in 1 .. Len(again) BY <4>2, <2>2, <1>3
        <5> QED BY <4>2, <5>1, <3>1, <2>2
      <4>3. k \in 1 .. Len(content) \/ k \in Len(content) + 1 .. Len(content) + Len(again)
        BY <2>2, <1>3
      <4> HIDE DEF results
      <4> QED BY <4>1, <4>2, <4>3
    <3>4. read \o results = [k \in 1 .. Len(parts) |-> (read \o results)[k]]
      BY <3>1, <2>2
    <3> HIDE DEF results
    <3> QED BY <3>2, <3>3, <3>4
  <2> QED BY <2>2, <2>3, <2>5, <2>6, <1>10 DEF content, parts, read
<1>12. CASE ~repeats
  <2>1. parts = shown BY <1>2, <1>12
  <2>2. \A k \in 1 .. Len(parts) : parts[k].type # "opaque" BY <2>1, <1>1, <1>3, <1>4, <1>5
  <2>3. parts = <<>> <=> content = <<>> BY <2>1, <1>1, <1>5
  <2>4. NormalizePluginContent(parts) = read
    <3>1. NormalizePluginContent(parts) = [k \in 1 .. Len(content) |-> Decoded(parts[k])]
      BY <2>1, <1>5 DEF NormalizePluginContent
    <3>2. read = [k \in 1 .. Len(content) |-> read[k]] BY <1>0
    <3> QED BY <3>1, <3>2, <2>1, <1>4, <1>5
  <2>5. UniqueToolResults(read) = read BY <1>0, UniqueOfDistinct
  <2> QED BY <2>1, <2>2, <2>3, <2>4, <2>5, <1>5 DEF content, parts, read
<1> QED BY <1>11, <1>12

\* matchesMessage sees through the plugin's spelling exactly what can be read.
LEMMA MatchesView ==
  ASSUME NEW message, MessageOK(message), NEW original, MessageOK(original),
         NEW repeats \in BOOLEAN
  PROVE  MatchesMessage(message, ViewMessage(original, repeats)) <=> Same(message, original)
<1>1. /\ ViewMessage(original, repeats).id = original.id
      /\ ViewMessage(original, repeats).role = original.role
  BY DEF ViewMessage
<1>2. UniqueToolResults(NormalizePluginContent(ViewMessage(original, repeats).parts))
        = Read(original)
  BY ViewParts
<1>3. UniqueToolResults(PluginContent(message.parts)) = PluginContent(message.parts)
  BY ContentOK, UniqueOfDistinct
<1> QED BY <1>1, <1>2, <1>3 DEF MatchesMessage, Same

LEMMA ViewUnexposed ==
  ASSUME NEW original, MessageOK(original), NEW repeats \in BOOLEAN
  PROVE  UnexposedInfo(ViewMessage(original, repeats)) <=> UnexposedInfo(original)
<1> DEFINE parts == ViewMessage(original, repeats).parts
           I == {i \in DOMAIN parts : parts[i].type # "opaque"}
<1>1. ViewMessage(original, repeats).role = original.role BY DEF ViewMessage
<1>2. /\ parts \in Seq(PartSet)
      /\ \A k \in 1 .. Len(parts) : parts[k].type # "opaque"
      /\ parts = <<>> <=> PluginContent(original.parts) = <<>>
  BY ViewParts
<1>3. PluginContent(parts) = Pick(parts, I) BY DEF PluginContent
<1> HIDE DEF parts
<1>4. 1 .. Len(parts) \subseteq I BY <1>2
<1> HIDE DEF I
<1>5. Pick(parts, I) = parts BY <1>2, <1>4, PickAll
<1> QED BY <1>1, <1>2, <1>3, <1>5 DEF UnexposedInfo, parts

----------------------------------------------------------------------------
(* The comparison of a thread, an export and a mirror.                     *)

LEMMA ConversationOK ==
  ASSUME NEW messages, ThreadOK(messages)
  PROVE  LET c == Conversation(messages)
         IN  /\ c \in Seq(MessageSet)
             /\ \A k \in 1 .. Len(c) : MessageOK(c[k]) /\ ~UnexposedInfo(c[k])
             /\ \A i \in DOMAIN messages :
                  ~UnexposedInfo(messages[i]) => \E k \in 1 .. Len(c) : c[k] = messages[i]
<1> DEFINE I == {i \in DOMAIN messages : ~UnexposedInfo(messages[i])}
           c == Pick(messages, I)
<1>1. /\ messages \in Seq(MessageSet) /\ DOMAIN messages = 1 .. Len(messages)
      /\ \A i \in 1 .. Len(messages) : MessageOK(messages[i])
  BY DEF ThreadOK
<1>2. Conversation(messages) = c BY DEF Conversation
<1>3. \A i \in DOMAIN messages : i \in I <=> ~UnexposedInfo(messages[i]) OBVIOUS
<1> HIDE DEF I
<1>4. c \in Seq(MessageSet) BY <1>1, PickShape
<1>6. /\ \A k \in 1 .. Len(c) : \E i \in I \cap (1 .. Len(messages)) : c[k] = messages[i]
      /\ \A i \in I \cap (1 .. Len(messages)) : \E k \in 1 .. Len(c) : c[k] = messages[i]
  BY <1>1, PickElements, SMTT(30)
<1> HIDE DEF c
<1>5. ASSUME NEW k \in 1 .. Len(c) PROVE MessageOK(c[k]) /\ ~UnexposedInfo(c[k])
  <2>1. PICK i \in I \cap (1 .. Len(messages)) : c[k] = messages[i] BY <1>6
  <2> QED BY <2>1, <1>1, <1>3
<1> QED BY <1>1, <1>2, <1>3, <1>4, <1>5, <1>6

\* A view has the thread's conversation, whether or not it lists the summaries.
LEMMA ConversationOfView ==
  ASSUME ThreadOK(thread), NEW repeats \in BOOLEAN, NEW listsInfo \in BOOLEAN
  PROVE  LET c == Conversation(thread)
             w == Conversation(View(repeats, listsInfo))
         IN  /\ Len(w) = Len(c)
             /\ \A k \in 1 .. Len(c) : w[k] = ViewMessage(c[k], repeats)
<1> DEFINE Shows == {ViewMessage(message, repeats) : message \in MessageSet}
           c == Conversation(thread)
           view == View(repeats, listsInfo)
           J == {i \in DOMAIN view : ~UnexposedInfo(view[i])}
<1>1. /\ thread \in Seq(MessageSet) /\ DOMAIN thread = 1 .. Len(thread) /\ Len(thread) \in Nat
      /\ \A i \in 1 .. Len(thread) : thread[i] \in MessageSet /\ MessageOK(thread[i])
  BY DEF ThreadOK
<1>2. /\ c \in Seq(MessageSet) /\ DOMAIN c = 1 .. Len(c) /\ Len(c) \in Nat
      /\ \A k \in 1 .. Len(c) : c[k] \in MessageSet /\ MessageOK(c[k]) /\ ~UnexposedInfo(c[k])
  BY ConversationOK
<1>3. Conversation(view) = Pick(view, J) BY DEF Conversation
<1>4. \A message \in MessageSet : ViewMessage(message, repeats) \in Shows OBVIOUS
<1> HIDE DEF Shows
<1>5. CASE listsInfo
  <2> DEFINE I == {i \in DOMAIN thread : ~UnexposedInfo(thread[i])}
  <2>1. view = [i \in 1 .. Len(thread) |-> ViewMessage(thread[i], repeats)]
    BY <1>1, <1>5 DEF View
  <2>2. view \in Seq(Shows) /\ Len(view) = Len(thread) /\ DOMAIN view = DOMAIN thread
    BY <2>1, <1>1, <1>4, IsASeq
  <2>3. \A i \in 1 .. Len(thread) : view[i] = ViewMessage(thread[i], repeats) BY <2>1
  <2> HIDE DEF view
  <2>4. I = J
    <3>1. \A i \in 1 .. Len(thread) : UnexposedInfo(view[i]) <=> UnexposedInfo(thread[i])
      BY <1>1, <2>3, ViewUnexposed
    <3> QED BY <3>1, <2>2, <1>1
  <2>5. c = Pick(thread, I) BY DEF Conversation
  <2> HIDE DEF I, J, c
  <2>6. /\ Len(Pick(thread, I)) = Len(Pick(view, J))
        /\ \A k \in 1 .. Len(Pick(thread, I)) :
             \E i \in I \cap (1 .. Len(thread)) :
               Pick(thread, I)[k] = thread[i] /\ Pick(view, J)[k] = view[i]
    BY <1>1, <2>2, <2>4, PickTogether, SMTT(30)
  <2> QED BY <2>3, <2>5, <2>6, <1>3 DEF c, view
<1>6. CASE ~listsInfo
  <2>1. view = [i \in 1 .. Len(c) |-> ViewMessage(c[i], repeats)] BY <1>2, <1>6 DEF View
  <2>2. view \in Seq(Shows) /\ Len(view) = Len(c) /\ DOMAIN view = 1 .. Len(c)
    BY <2>1, <1>2, <1>4, IsASeq
  <2>3. \A i \in 1 .. Len(c) : view[i] = ViewMessage(c[i], repeats) BY <2>1
  <2> HIDE DEF view
  <2>4. 1 .. Len(view) \subseteq J
    <3>1. \A i \in 1 .. Len(c) : ~UnexposedInfo(view[i]) BY <1>2, <2>3, ViewUnexposed
    <3> QED BY <3>1, <2>2
  <2> HIDE DEF J
  <2>5. Pick(view, J) = view BY <2>2, <2>4, PickAll
  <2> QED BY <2>2, <2>3, <2>5, <1>3 DEF c, view
<1> QED BY <1>5, <1>6

\* The conversations begin alike, message by message.
SameBeginning(messages, others) ==
  LET have == Conversation(messages)
      want == Conversation(others)
  IN  Len(have) <= Len(want) /\ \A k \in 1 .. Len(have) : Same(have[k], want[k])

LEMMA VerifyMirrorMeans ==
  ASSUME ThreadOK(thread), NEW messages, ThreadOK(messages), NEW view \in Views
  PROVE  VerifyMirror(messages, view) <=> SameBeginning(messages, thread)
<1>1. PICK repeats \in BOOLEAN, listsInfo \in BOOLEAN : view = View(repeats, listsInfo)
  BY DEF Views
<1> DEFINE have == Conversation(messages)
           c == Conversation(thread)
           want == Conversation(view)
<1>2. /\ Len(have) \in Nat /\ \A k \in 1 .. Len(have) : MessageOK(have[k])
      /\ Len(c) \in Nat /\ \A k \in 1 .. Len(c) : MessageOK(c[k])
  BY ConversationOK
<1>3. Len(want) = Len(c) /\ \A k \in 1 .. Len(c) : want[k] = ViewMessage(c[k], repeats)
  BY <1>1, ConversationOfView
<1>4. /\ VerifyMirror(messages, view) <=>
           Len(have) <= Len(want) /\ \A k \in 1 .. Len(have) : MatchesMessage(have[k], want[k])
      /\ SameBeginning(messages, thread) <=>
           Len(have) <= Len(c) /\ \A k \in 1 .. Len(have) : Same(have[k], c[k])
  BY DEF VerifyMirror, SameBeginning
<1> HIDE DEF have, c, want
<1>5. ASSUME Len(have) <= Len(c), NEW k \in 1 .. Len(have)
      PROVE  MatchesMessage(have[k], want[k]) <=> Same(have[k], c[k])
  <2>1. k \in 1 .. Len(c) BY <1>2, <1>5
  <2> QED BY <2>1, <1>2, <1>3, MatchesView
<1> QED BY <1>3, <1>4, <1>5

LEMMA VerifyExportMeans ==
  ASSUME ThreadOK(thread), NEW messages, ThreadOK(messages), NEW view \in Views
  PROVE  VerifyExport(messages, view) <=>
           /\ SameBeginning(messages, thread)
           /\ Len(Conversation(messages)) = Len(Conversation(thread))
           /\ \A k \in 1 .. Len(Conversation(messages)) : MessageComplete(Conversation(messages)[k])
<1>1. PICK repeats \in BOOLEAN, listsInfo \in BOOLEAN : view = View(repeats, listsInfo)
  BY DEF Views
<1> DEFINE have == Conversation(messages)
           c == Conversation(thread)
           want == Conversation(view)
<1>2. Len(have) \in Nat /\ Len(c) \in Nat /\ Len(want) = Len(c)
  BY <1>1, ConversationOK, ConversationOfView
<1>3. /\ VerifyExport(messages, view) <=>
           /\ Len(have) = Len(want)
           /\ \A k \in 1 .. Len(have) : MatchesMessage(have[k], want[k]) /\ MessageComplete(have[k])
      /\ VerifyMirror(messages, view) <=>
           Len(have) <= Len(want) /\ \A k \in 1 .. Len(have) : MatchesMessage(have[k], want[k])
  BY DEF VerifyExport, VerifyMirror
<1>4. VerifyMirror(messages, view) <=> SameBeginning(messages, thread) BY VerifyMirrorMeans
<1> HIDE DEF have, c, want
<1>5. VerifyExport(messages, view) <=>
        /\ SameBeginning(messages, thread)
        /\ Len(have) = Len(c)
        /\ \A k \in 1 .. Len(have) : MessageComplete(have[k])
  BY <1>2, <1>3, <1>4
<1> QED BY <1>5 DEF have, c

\* Exposed, the reference, and the comparison agree.
LEMMA ExposedMeans ==
  ASSUME NEW messages, ThreadOK(messages), NEW others, ThreadOK(others),
         SameBeginning(messages, others)
  PROVE  /\ IsPrefix(Exposed(messages), Exposed(others))
         /\ Len(Conversation(messages)) = Len(Conversation(others)) =>
              Exposed(messages) = Exposed(others)
<1> DEFINE have == Conversation(messages)
           want == Conversation(others)
           Record(message) == [id |-> message.id, role |-> message.role, parts |-> Read(message)]
           s == Exposed(messages)
           t == Exposed(others)
<1>1. /\ Len(have) \in Nat /\ DOMAIN have = 1 .. Len(have)
      /\ Len(want) \in Nat /\ DOMAIN want = 1 .. Len(want)
      /\ \A k \in 1 .. Len(want) : MessageOK(want[k])
  BY ConversationOK
<1>2. /\ s = [k \in 1 .. Len(have) |-> Record(have[k])]
      /\ t = [k \in 1 .. Len(want) |-> Record(want[k])]
  BY <1>1 DEF Exposed, Read
<1>3. ASSUME NEW m, NEW o, MessageOK(o), Same(m, o) PROVE Record(m) = Record(o)
  <2>1. Read(m) = NormalizePluginContent(Read(o)) BY <1>3 DEF Same, Read
  <2>2. Read(m) = Read(o) BY <2>1, <1>3, ReadOK
  <2> QED BY <2>2, <1>3 DEF Same
<1>4. Len(have) <= Len(want) /\ \A k \in 1 .. Len(have) : Same(have[k], want[k])
  BY DEF SameBeginning
<1>5. IsPrefix(s, t) <=> Len(s) <= Len(t) /\ SubSeq(s, 1, Len(s)) = SubSeq(t, 1, Len(s))
  BY DEF IsPrefix
<1> HIDE DEF have, want, Record, s, t
<1>6. /\ Len(s) = Len(have) /\ Len(t) = Len(want)
      /\ \A k \in 1 .. Len(have) : s[k] = Record(have[k])
      /\ \A k \in 1 .. Len(want) : t[k] = Record(want[k])
  BY <1>1, <1>2
<1>7. ASSUME NEW k \in 1 .. Len(have) PROVE s[k] = t[k]
  <2>1. k \in 1 .. Len(want) BY <1>1, <1>4
  <2> QED BY <2>1, <1>1, <1>3, <1>4, <1>6
<1>8. /\ SubSeq(s, 1, Len(s)) = [k \in 1 .. Len(have) |-> s[k]]
      /\ SubSeq(t, 1, Len(s)) = [k \in 1 .. Len(have) |-> t[k]]
  BY <1>1, <1>6
<1>9. IsPrefix(s, t) BY <1>4, <1>5, <1>6, <1>7, <1>8
<1>10. Len(have) = Len(want) => s = t
  <2> SUFFICES ASSUME Len(have) = Len(want) PROVE s = t OBVIOUS
  <2>1. s = [k \in 1 .. Len(have) |-> s[k]] /\ t = [k \in 1 .. Len(have) |-> t[k]] BY <1>2, <1>6
  <2> QED BY <2>1, <1>7
<1> QED BY <1>9, <1>10 DEF s, t, have, want

----------------------------------------------------------------------------
(* The inductive invariant.                                                *)

TypeInv ==
  /\ ThreadOK(thread) /\ ThreadOK(export) /\ ThreadOK(mirror)
  /\ rewritten \in BOOLEAN

\* An export may be old, but what it has finished stays as it is.
Lag ==
  ~rewritten =>
    /\ Len(export) <= Len(thread)
    /\ \A i \in 1 .. Len(export) : Finished(export[i]) => export[i] = thread[i]

MirrorFinished == \A i \in DOMAIN mirror : Finished(mirror[i])

\* An export with a text that is JSON is never accepted.
MirrorLegible == Legible(mirror)

MirrorBegins == ~rewritten => Begins(mirror, thread)

IInv == TypeInv /\ Lag /\ MirrorFinished /\ MirrorLegible /\ MirrorBegins

\* A step that appends to the thread or changes one unfinished message of it
\* disturbs neither the export's finished messages nor the mirror.
LEMMA GrowthKeeps ==
  ASSUME IInv, Grows, ThreadOK(thread'), Len(thread') >= Len(thread),
         \A i \in 1 .. Len(thread) : Finished(thread[i]) => thread'[i] = thread[i]
  PROVE  IInv'
<1>1. /\ Len(thread) \in Nat /\ Len(thread') \in Nat
      /\ Len(export) \in Nat /\ Len(mirror) \in Nat /\ DOMAIN mirror = 1 .. Len(mirror)
  BY DEF IInv, TypeInv, ThreadOK
<1>2. rewritten' = rewritten /\ export' = export /\ mirror' = mirror BY DEF Grows
<1>3. TypeInv' BY <1>2 DEF IInv, TypeInv
<1>4. Lag'
  <2> SUFFICES ASSUME ~rewritten
               PROVE  /\ Len(export) <= Len(thread')
                      /\ \A i \in 1 .. Len(export) : Finished(export[i]) => export[i] = thread'[i]
    BY <1>2 DEF Lag, Finished
  <2>1. /\ Len(export) <= Len(thread)
        /\ \A i \in 1 .. Len(export) : Finished(export[i]) => export[i] = thread[i]
    BY DEF IInv, Lag
  <2>2. ASSUME NEW i \in 1 .. Len(export), Finished(export[i]) PROVE export[i] = thread'[i]
    <3>1. export[i] = thread[i] /\ i \in 1 .. Len(thread) BY <1>1, <2>1, <2>2
    <3> QED BY <3>1, <2>2
  <2> QED BY <1>1, <2>1, <2>2
<1>5. MirrorFinished' /\ MirrorLegible'
  BY <1>2 DEF IInv, MirrorFinished, Finished, MirrorLegible, Legible
<1>6. MirrorBegins'
  <2> SUFFICES ASSUME ~rewritten PROVE Begins(mirror, thread') BY <1>2 DEF MirrorBegins, Begins
  <2>1. Len(mirror) <= Len(thread) /\ \A i \in 1 .. Len(mirror) : mirror[i] = thread[i]
    BY DEF IInv, MirrorBegins, Begins
  <2>2. ASSUME NEW i \in 1 .. Len(mirror) PROVE mirror[i] = thread'[i]
    <3>1. Finished(mirror[i]) BY <1>1 DEF IInv, MirrorFinished
    <3>2. i \in 1 .. Len(thread) BY <1>1, <2>1
    <3>3. mirror[i] = thread[i] BY <2>1
    <3> QED BY <3>1, <3>2, <3>3
  <2> QED BY <1>1, <2>1, <2>2 DEF Begins
<1> QED BY <1>3, <1>4, <1>5, <1>6 DEF IInv

LEMMA OldPartsOK ==
  \A part \in {TextPart("old"), OpaquePart("old")} :
    part \in PartSet /\ PartOK(part) /\ ~IsResult(part)
<1>1. /\ TextPart("old") \in PartSet /\ PartOK(TextPart("old")) /\ ~IsResult(TextPart("old"))
  BY DEF TextPart, Part, Text, PartSet, PartOK, IsResult
<1>2. /\ OpaquePart("old") \in PartSet /\ PartOK(OpaquePart("old")) /\ ~IsResult(OpaquePart("old"))
  BY DEF OpaquePart, Part, Text, PartSet, PartOK, IsResult
<1> QED BY <1>1, <1>2

\* The new messages are messages.
LEMMA MessagesOK ==
  ASSUME NEW id \in Nat, NEW message \in Messages(id)
  PROVE  MessageOK(message)
<1> DEFINE record(role, state, parts) == [id |-> id, role |-> role, state |-> state, parts |-> parts]
<1>0. /\ TextPart("old") \in PartSet /\ OpaquePart("old") \in PartSet
      /\ PartOK(TextPart("old")) /\ PartOK(OpaquePart("old"))
      /\ ~IsResult(TextPart("old")) /\ ~IsResult(OpaquePart("old"))
  BY OldPartsOK
<1>1. CASE message = record("user", "absent", <<TextPart("old"), OpaquePart("old")>>)
  <2>1. <<TextPart("old"), OpaquePart("old")>> \in Seq(PartSet) BY <1>0
  <2> QED BY <1>0, <1>1, <2>1 DEF MessageOK, MessageSet
<1>2. CASE message = record("assistant", "streaming", <<>>)
  BY <1>2 DEF MessageOK, MessageSet
<1>3. CASE message = record("info", "absent", <<OpaquePart("old")>>)
  <2>1. <<OpaquePart("old")>> \in Seq(PartSet) BY <1>0
  <2> QED BY <1>0, <1>3, <2>1 DEF MessageOK, MessageSet
<1>4. ASSUME NEW n \in 1 .. MaxCalls,
             message = record("user", "absent",
                              [call \in 1 .. n |-> ResultPart(call, "in-progress", Absent)])
      PROVE  MessageOK(message)
  <2> DEFINE tools == [call \in 1 .. n |-> ResultPart(call, "in-progress", Absent)]
  <2>1. n \in Nat BY BoundsAssumption
  <2>2. ASSUME NEW call \in 1 .. n
        PROVE  LET part == ResultPart(call, "in-progress", Absent)
               IN  part \in PartSet /\ PartOK(part) /\ IsResult(part) /\ part.call = call
    BY DEF ResultPart, Part, Absent, PartSet, PartOK, IsResult
  <2>3. tools \in Seq(PartSet) BY <2>1, <2>2, IsASeq
  <2>4. \A j \in DOMAIN tools : PartOK(tools[j]) /\ tools[j].call = j BY <2>2
  <2>5. message = record("user", "absent", tools) BY <1>4
  <2> HIDE DEF tools
  <2> QED BY <2>3, <2>4, <2>5 DEF MessageOK, MessageSet
<1> QED BY <1>1, <1>2, <1>3, <1>4 DEF Messages

\* One message, and one part of a message, may be replaced by another.
LEMMA ChangeMessage ==
  ASSUME NEW messages, ThreadOK(messages), NEW i \in DOMAIN messages,
         NEW message, MessageOK(message),
         NEW changed, changed = [messages EXCEPT ![i] = message]
  PROVE  ThreadOK(changed)
<1>1. messages \in Seq(MessageSet) /\ message \in MessageSet /\ i \in 1 .. Len(messages)
  BY DEF ThreadOK, MessageOK
<1>2. changed \in Seq(MessageSet) /\ Len(changed) = Len(messages) BY <1>1
<1>3. \A k \in 1 .. Len(messages) : changed[k] = IF k = i THEN message ELSE messages[k] BY <1>1
<1>4. DOMAIN changed = 1 .. Len(messages) BY <1>2
<1> QED BY <1>1, <1>2, <1>3, <1>4 DEF ThreadOK

LEMMA ChangePart ==
  ASSUME NEW message, MessageOK(message), NEW j \in DOMAIN message.parts,
         NEW part \in PartSet, PartOK(part), part.call = message.parts[j].call,
         IsResult(part) <=> IsResult(message.parts[j])
  PROVE  LET parts == [message.parts EXCEPT ![j] = part]
         IN  MessageOK([message EXCEPT !.parts = parts])
<1> DEFINE parts == [message.parts EXCEPT ![j] = part]
           changed == [message EXCEPT !.parts = parts]
<1>1. /\ message \in MessageSet /\ message.parts \in Seq(PartSet) /\ j \in 1 .. Len(message.parts)
      /\ DOMAIN message.parts = 1 .. Len(message.parts)
  BY DEF MessageOK, MessageSet
<1>2. parts \in Seq(PartSet) /\ DOMAIN parts = DOMAIN message.parts BY <1>1
<1>3. ASSUME NEW k \in DOMAIN message.parts
      PROVE  /\ PartOK(parts[k])
             /\ IsResult(parts[k]) => message.role # "info" /\ parts[k].call = k
  <2>1. parts[k] = IF k = j THEN part ELSE message.parts[k] BY <1>1
  <2>2. /\ PartOK(message.parts[k])
        /\ IsResult(message.parts[k]) => message.role # "info" /\ message.parts[k].call = k
    BY DEF MessageOK
  <2>3. CASE k = j BY <2>1, <2>2, <2>3
  <2>4. CASE k # j BY <2>1, <2>2, <2>4
  <2> QED BY <2>3, <2>4
<1> HIDE DEF parts
<1>4. /\ changed \in MessageSet /\ changed.role = message.role /\ changed.state = message.state
      /\ changed.parts = parts
  BY <1>1, <1>2 DEF MessageSet
<1>5. message.role = "assistant" <=> message.state # "absent" BY DEF MessageOK
<1> HIDE DEF changed
<1>6. MessageOK(changed) BY <1>2, <1>3, <1>4, <1>5 DEF MessageOK
<1> QED BY <1>6 DEF changed, parts

LEMMA NewMessageKeeps == IInv /\ NewMessage => IInv'
<1> SUFFICES ASSUME IInv, NewMessage PROVE IInv' OBVIOUS
<1>1. ThreadOK(thread) /\ thread \in Seq(MessageSet) /\ Len(thread) \in Nat
  BY DEF IInv, TypeInv, ThreadOK
<1>2. PICK message \in Messages(Len(thread) + 1) : thread' = Append(thread, message)
  BY DEF NewMessage
<1>3. MessageOK(message) /\ message \in MessageSet
  <2>1. Len(thread) + 1 \in Nat BY <1>1
  <2> QED BY <2>1, MessagesOK DEF MessageOK
<1>4. /\ thread' \in Seq(MessageSet) /\ Len(thread') = Len(thread) + 1
      /\ \A i \in 1 .. Len(thread) : thread'[i] = thread[i]
      /\ thread'[Len(thread) + 1] = message
  BY <1>1, <1>2, <1>3, AppendProperties
<1>5. DOMAIN thread' = 1 .. Len(thread) + 1 /\ DOMAIN thread = 1 .. Len(thread) BY <1>1, <1>4
<1>6. ThreadOK(thread')
  <2>1. ASSUME NEW i \in DOMAIN thread' PROVE MessageOK(thread'[i])
    <3>1. CASE i \in 1 .. Len(thread) BY <3>1, <1>1, <1>4, <1>5 DEF ThreadOK
    <3>2. CASE i = Len(thread) + 1 BY <3>2, <1>3, <1>4
    <3> QED BY <3>1, <3>2, <1>1, <1>5
  <2> QED BY <2>1, <1>4 DEF ThreadOK
<1> QED BY <1>1, <1>4, <1>6, GrowthKeeps DEF NewMessage

\* The other steps of a growing thread change one unfinished message.
LEMMA UnfinishedChanges ==
  ASSUME IInv, Grows, NEW i \in DOMAIN thread, ~Finished(thread[i]),
         NEW message, MessageOK(message), thread' = [thread EXCEPT ![i] = message]
  PROVE  IInv'
<1>1. ThreadOK(thread) /\ thread \in Seq(MessageSet) /\ message \in MessageSet
  BY DEF IInv, TypeInv, ThreadOK, MessageOK
<1>2. /\ Len(thread') = Len(thread) /\ Len(thread) \in Nat
      /\ \A k \in 1 .. Len(thread) : k # i => thread'[k] = thread[k]
  BY <1>1
<1>3. \A k \in 1 .. Len(thread) : Finished(thread[k]) => thread'[k] = thread[k] BY <1>2
<1>4. \A changed : changed = [thread EXCEPT ![i] = message] => ThreadOK(changed)
  BY <1>1, ChangeMessage
<1>5. ThreadOK(thread') BY <1>4
<1>6. Len(thread') >= Len(thread) BY <1>2
<1> QED BY <1>3, <1>5, <1>6, GrowthKeeps

LEMMA NewPartKeeps == IInv /\ NewPart => IInv'
<1> SUFFICES ASSUME IInv, NewPart PROVE IInv' OBVIOUS
<1> DEFINE n == Len(thread)
<1>1. /\ ThreadOK(thread) /\ thread \in Seq(MessageSet) /\ DOMAIN thread = 1 .. n /\ n \in 1 .. n
      /\ thread[n].state = "streaming" /\ Grows
  BY DEF IInv, TypeInv, ThreadOK, NewPart, Last
<1>2. PICK part \in {TextPart("old"), OpaquePart("old")} :
        thread' = [thread EXCEPT ![n].parts = Append(@, part)]
  BY DEF NewPart
<1> HIDE DEF n
<1>3. part \in PartSet /\ PartOK(part) /\ ~IsResult(part)
  BY OldPartsOK
<1> DEFINE parts == Append(thread[n].parts, part)
           message == [thread[n] EXCEPT !.parts = parts]
<1>4. MessageOK(thread[n]) /\ thread[n] \in MessageSet /\ thread[n].parts \in Seq(PartSet)
  BY <1>1 DEF ThreadOK, MessageOK, MessageSet
<1>5. /\ parts \in Seq(PartSet) /\ Len(parts) = Len(thread[n].parts) + 1
      /\ \A j \in 1 .. Len(thread[n].parts) : parts[j] = thread[n].parts[j]
      /\ parts[Len(thread[n].parts) + 1] = part
  BY <1>3, <1>4, AppendProperties
<1>6. thread' = [thread EXCEPT ![n] = message] BY <1>2
<1> HIDE DEF parts
<1>7. /\ message \in MessageSet /\ message.role = thread[n].role /\ message.state = thread[n].state
      /\ message.parts = parts
  BY <1>4, <1>5 DEF MessageSet
<1>8. ASSUME NEW j \in DOMAIN parts
      PROVE  PartOK(parts[j]) /\ (IsResult(parts[j]) => thread[n].role # "info" /\ parts[j].call = j)
  <2>1. DOMAIN parts = 1 .. Len(thread[n].parts) + 1 /\ Len(thread[n].parts) \in Nat BY <1>4, <1>5
  <2>2. CASE j \in 1 .. Len(thread[n].parts)
    <3>1. parts[j] = thread[n].parts[j] /\ j \in DOMAIN thread[n].parts BY <2>2, <1>4, <1>5
    <3> QED BY <3>1, <1>4 DEF MessageOK
  <2>3. CASE j = Len(thread[n].parts) + 1 BY <2>3, <1>3, <1>5
  <2> QED BY <2>1, <2>2, <2>3
<1>9. thread[n].role = "assistant" <=> thread[n].state # "absent" BY <1>4 DEF MessageOK
<1> HIDE DEF message
<1>10. MessageOK(message) BY <1>7, <1>8, <1>9 DEF MessageOK
<1>11. ~Finished(thread[n]) BY <1>1 DEF Finished
<1> QED BY <1>1, <1>6, <1>10, <1>11, UnfinishedChanges

LEMMA EndsOK ==
  ASSUME NEW end \in Ends, NEW call \in Nat
  PROVE  LET part == ResultPart(call, end[1], end[2])
         IN  part \in PartSet /\ PartOK(part) /\ IsResult(part) /\ part.call = call
<1>1. end[1] \in {"done", "cancelled"} /\ end[2] \in {Absent} \cup Outputs BY DEF Ends
<1> DEFINE Bodies == [kind : {"none", "structured", "text"}, value : {"", "old", "new"} \cup Json \cup Texts]
<1>2. {Absent} \cup Outputs \subseteq Bodies
  <2>1. Absent \in Bodies BY DEF Absent
  <2>2. \A v \in Json : Structured(v) \in Bodies BY DEF Structured
  <2>3. \A v \in Texts : Text(v) \in Bodies BY DEF Text
  <2> QED BY <2>1, <2>2, <2>3 DEF Outputs
<1> QED BY <1>1, <1>2 DEF ResultPart, Part, PartSet, PartOK, IsResult, Terminal

LEMMA ToolEndsKeeps == IInv /\ ToolEnds => IInv'
<1> SUFFICES ASSUME IInv, ToolEnds PROVE IInv' OBVIOUS
<1>0. PICK i \in DOMAIN thread :
        \E j \in DOMAIN thread[i].parts :
          /\ thread[i].parts[j].status = "in-progress"
          /\ \E end \in Ends :
               thread' = [thread EXCEPT ![i].parts[j] = ResultPart(@.call, end[1], end[2])]
  BY DEF ToolEnds
<1>1. PICK j \in DOMAIN thread[i].parts, end \in Ends :
        /\ thread[i].parts[j].status = "in-progress"
        /\ thread' = [thread EXCEPT ![i].parts[j] = ResultPart(@.call, end[1], end[2])]
  BY <1>0
<1> DEFINE part == ResultPart(thread[i].parts[j].call, end[1], end[2])
<1>2. MessageOK(thread[i]) BY DEF IInv, TypeInv, ThreadOK
<1>3. /\ PartOK(thread[i].parts[j]) /\ IsResult(thread[i].parts[j])
      /\ thread[i].parts[j].call = j /\ j \in Nat
  <2>1. PartOK(thread[i].parts[j]) BY <1>2 DEF MessageOK
  <2>2. IsResult(thread[i].parts[j]) BY <2>1, <1>1 DEF PartOK
  <2>3. thread[i].parts \in Seq(PartSet) BY <1>2 DEF MessageOK, MessageSet
  <2>4. j \in Nat BY <2>3
  <2> QED BY <2>1, <2>2, <2>4, <1>2 DEF MessageOK
<1>4. part \in PartSet /\ PartOK(part) /\ IsResult(part) /\ part.call = thread[i].parts[j].call
  BY <1>3, EndsOK
<1> DEFINE parts == [thread[i].parts EXCEPT ![j] = part]
           message == [thread[i] EXCEPT !.parts = parts]
<1>5. thread' = [thread EXCEPT ![i] = message] BY <1>1
<1> HIDE DEF part
<1>6. MessageOK(message) BY <1>2, <1>3, <1>4, ChangePart
<1> HIDE DEF message
<1>7. ~Finished(thread[i]) BY <1>1 DEF Finished
<1> QED BY <1>5, <1>6, <1>7, UnfinishedChanges DEF ToolEnds

LEMMA AnswerEndsKeeps == IInv /\ AnswerEnds => IInv'
<1> SUFFICES ASSUME IInv, AnswerEnds PROVE IInv' OBVIOUS
<1>1. PICK i \in DOMAIN thread, state \in {"complete", "error", "cancelled"} :
        /\ thread[i].state = "streaming"
        /\ thread' = [thread EXCEPT ![i].state = state]
  BY DEF AnswerEnds
<1> DEFINE message == [thread[i] EXCEPT !.state = state]
<1>2. MessageOK(thread[i]) BY DEF IInv, TypeInv, ThreadOK
<1>3. /\ message \in MessageSet /\ message.role = thread[i].role /\ message.state = state
      /\ message.parts = thread[i].parts
  BY <1>2 DEF MessageOK, MessageSet
<1>4. thread' = [thread EXCEPT ![i] = message] BY <1>1
<1> HIDE DEF message
<1>5. MessageOK(message) BY <1>1, <1>2, <1>3 DEF MessageOK
<1>6. ~Finished(thread[i]) BY <1>1 DEF Finished
<1> QED BY <1>4, <1>5, <1>6, UnfinishedChanges DEF AnswerEnds

\* Other clients may change a text or an image of any message, and drop the last one.
LEMMA RewriteKeeps == IInv /\ Rewrite => IInv'
<1> SUFFICES ASSUME IInv, Rewrite PROVE IInv' OBVIOUS
<1>1. rewritten' = TRUE /\ export' = export /\ mirror' = mirror BY DEF Rewrite
<1>2. ThreadOK(thread) /\ thread \in Seq(MessageSet) /\ thread # <<>>
  BY DEF IInv, TypeInv, ThreadOK, Rewrite
<1>3. ASSUME thread' = Front(thread) PROVE ThreadOK(thread')
  <2>1. /\ thread' \in Seq(MessageSet) /\ Len(thread') = Len(thread) - 1
        /\ \A i \in 1 .. Len(thread) - 1 : thread'[i] = thread[i]
    <3>1. thread' = [i \in 1 .. Len(thread) - 1 |-> thread[i]]
      BY <1>2, <1>3 DEF Front
    <3>2. Len(thread) - 1 \in Nat /\ \A i \in 1 .. Len(thread) - 1 : thread[i] \in MessageSet
      BY <1>2
    <3> QED BY <3>1, <3>2, IsASeq
  <2>2. DOMAIN thread' = 1 .. Len(thread) - 1 /\ DOMAIN thread = 1 .. Len(thread)
        /\ Len(thread) \in Nat
    BY <2>1, <1>2
  <2> QED BY <2>1, <2>2, <1>2 DEF ThreadOK
<1>4. ASSUME NEW i \in DOMAIN thread, NEW j \in DOMAIN thread[i].parts,
             thread[i].parts[j].type \in {"text", "opaque"},
             thread' = [thread EXCEPT ![i].parts[j].body = Text("new")]
      PROVE  ThreadOK(thread')
  <2> DEFINE part == [thread[i].parts[j] EXCEPT !.body = Text("new")]
             parts == [thread[i].parts EXCEPT ![j] = part]
             message == [thread[i] EXCEPT !.parts = parts]
  <2>1. MessageOK(thread[i]) BY <1>2 DEF ThreadOK
  <2>2. thread[i].parts[j] \in PartSet /\ PartOK(thread[i].parts[j])
    BY <2>1 DEF MessageOK, MessageSet
  <2>3. ~IsResult(thread[i].parts[j]) BY <1>4 DEF IsResult
  <2>4. /\ part \in PartSet /\ part.type = thread[i].parts[j].type
        /\ part.call = thread[i].parts[j].call /\ part.status = thread[i].parts[j].status
        /\ part.body = Text("new")
    <3>1. Text("new") \in [kind : {"none", "structured", "text"},
                           value : {"", "old", "new"} \cup Json \cup Texts]
      BY DEF Text
    <3> QED BY <2>2, <3>1 DEF PartSet
  <2>5. thread' = [thread EXCEPT ![i] = message] BY <1>4
  <2> HIDE DEF part
  <2>6. ~IsResult(part) /\ PartOK(part)
    <3>1. ~IsResult(part) BY <2>3, <2>4 DEF IsResult
    <3>2. thread[i].parts[j].status = "" BY <2>2, <2>3 DEF PartOK
    <3>3. Text("new").kind = "text" BY DEF Text
    <3> QED BY <3>1, <3>2, <3>3, <2>4 DEF PartOK
  <2>7. MessageOK(message) BY <2>1, <2>3, <2>4, <2>6, ChangePart
  <2> HIDE DEF message
  <2>8. \A changed : changed = [thread EXCEPT ![i] = message] => ThreadOK(changed)
    BY <1>2, <2>7, ChangeMessage
  <2> QED BY <2>5, <2>8
<1>5. ThreadOK(thread') BY <1>3, <1>4 DEF Rewrite
<1>6. TypeInv' BY <1>1, <1>5 DEF IInv, TypeInv
<1>7. MirrorFinished' /\ MirrorLegible'
  BY <1>1 DEF IInv, MirrorFinished, Finished, MirrorLegible, Legible
<1> QED BY <1>1, <1>6, <1>7 DEF IInv, Lag, MirrorBegins

LEMMA ExportThreadKeeps == IInv /\ ExportThread => IInv'
<1> SUFFICES ASSUME IInv, ExportThread PROVE IInv' OBVIOUS
<1>1. export' = thread /\ thread' = thread /\ rewritten' = rewritten /\ mirror' = mirror
  BY DEF ExportThread
<1>2. TypeInv' BY <1>1 DEF IInv, TypeInv
<1>3. Lag'
  <2>1. Len(thread) \in Nat BY DEF IInv, TypeInv, ThreadOK
  <2> QED BY <2>1, <1>1 DEF Lag
<1>4. MirrorFinished' /\ MirrorLegible'
  BY <1>1 DEF IInv, MirrorFinished, Finished, MirrorLegible, Legible
<1>5. MirrorBegins' BY <1>1 DEF IInv, MirrorBegins, Begins
<1> QED BY <1>2, <1>3, <1>4, <1>5 DEF IInv

\* An export that reaches the view is finished: what is comparable of it by
\* snapshotMessageComplete, and a summary has nothing that could be unfinished.
LEMMA VerifiedIsFinished ==
  ASSUME ThreadOK(thread), NEW messages, ThreadOK(messages), NEW view \in Views,
         VerifyExport(messages, view), NEW i \in DOMAIN messages
  PROVE  Finished(messages[i])
<1>1. MessageOK(messages[i]) BY DEF ThreadOK
<1>2. ASSUME NEW j \in DOMAIN messages[i].parts
      PROVE  /\ ~IsResult(messages[i].parts[j]) => messages[i].parts[j].status = ""
             /\ IsResult(messages[i].parts[j]) => messages[i].role # "info"
  BY <1>1 DEF MessageOK, PartOK
<1>3. messages[i].role # "assistant" => messages[i].state = "absent" BY <1>1 DEF MessageOK
<1>4. CASE UnexposedInfo(messages[i])
  <2>1. messages[i].role = "info" BY <1>4 DEF UnexposedInfo
  <2> QED BY <2>1, <1>2, <1>3 DEF Finished
<1>5. CASE ~UnexposedInfo(messages[i])
  <2>1. PICK k \in 1 .. Len(Conversation(messages)) : Conversation(messages)[k] = messages[i]
    BY <1>5, ConversationOK
  <2>2. MessageComplete(messages[i]) BY <2>1, VerifyExportMeans
  <2>3. \A j \in DOMAIN messages[i].parts :
          IsResult(messages[i].parts[j]) => messages[i].parts[j].status # "in-progress"
    BY <2>2 DEF MessageComplete, Terminal
  <2>4. messages[i].state # "streaming" BY <2>2, <1>3 DEF MessageComplete
  <2> QED BY <2>3, <2>4, <1>2 DEF Finished
<1> QED BY <1>4, <1>5

\* A message of the thread that is as the plugin shows it has no text that is
\* JSON, for what is shown of such a text is decoded (normalizePluginContent).
LEMMA SameIsLegible ==
  ASSUME NEW message, MessageOK(message), NEW original, MessageOK(original)
  PROVE  /\ Same(message, original) => LegibleParts(message.parts)
         /\ Same(message, message) <=> LegibleParts(message.parts)
<1>1. PluginContent(message.parts) = Read(message) <=> LegibleParts(message.parts) BY ReadOK
<1>2. LegibleParts(PluginContent(message.parts)) <=> LegibleParts(message.parts) BY ContentOK
<1>3. LegibleParts(Read(original)) BY ReadOK
<1> QED BY <1>1, <1>2, <1>3 DEF Same

\* A summary has no output to decode.
LEMMA SummaryIsLegible ==
  ASSUME NEW message, MessageOK(message), UnexposedInfo(message)
  PROVE  LegibleParts(message.parts)
<1>1. message.role = "info" BY DEF UnexposedInfo
<1>2. \A j \in DOMAIN message.parts : ~IsResult(message.parts[j]) BY <1>1 DEF MessageOK
<1> QED BY <1>2 DEF LegibleParts, JsonText

\* Whatever reaches the view has no text that is JSON.
LEMMA VerifiedIsLegible ==
  ASSUME ThreadOK(thread), NEW messages, ThreadOK(messages), SameBeginning(messages, thread)
  PROVE  Legible(messages)
<1> DEFINE c == Conversation(messages)
           w == Conversation(thread)
<1>1. /\ \A k \in 1 .. Len(c) : MessageOK(c[k]) /\ Len(c) \in Nat
      /\ \A i \in DOMAIN messages : ~UnexposedInfo(messages[i]) => \E k \in 1 .. Len(c) : c[k] = messages[i]
      /\ \A k \in 1 .. Len(w) : MessageOK(w[k]) /\ Len(w) \in Nat
  BY ConversationOK
<1>2. Len(c) <= Len(w) /\ \A k \in 1 .. Len(c) : Same(c[k], w[k]) BY DEF SameBeginning
<1>3. \A i \in DOMAIN messages : MessageOK(messages[i]) BY DEF ThreadOK
<1>4. Len(c) \in Nat /\ Len(w) \in Nat BY ConversationOK
<1> HIDE DEF c, w
<1>5. ASSUME NEW i \in DOMAIN messages PROVE LegibleParts(messages[i].parts)
  <2>1. CASE UnexposedInfo(messages[i]) BY <2>1, <1>3, SummaryIsLegible
  <2>2. CASE ~UnexposedInfo(messages[i])
    <3>1. PICK k \in 1 .. Len(c) : c[k] = messages[i] BY <2>2, <1>1
    <3>2. k \in 1 .. Len(w) BY <3>1, <1>2, <1>4
    <3>3. MessageOK(c[k]) /\ MessageOK(w[k]) /\ Same(c[k], w[k]) BY <3>1, <3>2, <1>1, <1>2
    <3>4. LegibleParts(c[k].parts) BY <3>3, SameIsLegible
    <3> QED BY <3>1, <3>4
  <2> QED BY <2>1, <2>2
<1> QED BY <1>5 DEF Legible, LegibleParts

\* A legible thread is the same as it is shown.
LEMMA LegibleIsSame ==
  ASSUME NEW messages, ThreadOK(messages), Legible(messages)
  PROVE  \A k \in 1 .. Len(Conversation(messages)) :
           Same(Conversation(messages)[k], Conversation(messages)[k])
<1> DEFINE I == {i \in DOMAIN messages : ~UnexposedInfo(messages[i])}
           c == Conversation(messages)
<1>1. /\ messages \in Seq(MessageSet) /\ DOMAIN messages = 1 .. Len(messages)
      /\ \A i \in DOMAIN messages : MessageOK(messages[i])
  BY DEF ThreadOK
<1>2. c = Pick(messages, I) BY DEF Conversation
<1> HIDE DEF I, c
<1>3. ASSUME NEW k \in 1 .. Len(c) PROVE Same(c[k], c[k])
  <2>1. PICK i \in 1 .. Len(messages) : c[k] = messages[i]
    <3>1. messages \in Seq(MessageSet) BY <1>1
    <3>2. \A j \in 1 .. Len(Pick(messages, I)) :
            \E i \in I \cap (1 .. Len(messages)) : Pick(messages, I)[j] = messages[i]
      BY <3>1, PickElements
    <3> QED BY <3>2, <1>2
  <2>2. LegibleParts(messages[i].parts) /\ MessageOK(messages[i])
    BY <1>1, <2>1 DEF Legible, LegibleParts
  <2>3. Same(messages[i], messages[i]) BY <2>2, SameIsLegible
  <2> QED BY <2>1, <2>3
<1> QED BY <1>3 DEF c

LEMMA CommitKeeps == IInv /\ Commit => IInv'
<1> SUFFICES ASSUME IInv, Commit PROVE IInv' OBVIOUS
<1>1. mirror' = export /\ thread' = thread /\ rewritten' = rewritten /\ export' = export
  BY DEF Commit
<1>2. /\ ThreadOK(thread) /\ ThreadOK(export)
      /\ DOMAIN export = 1 .. Len(export)
  BY DEF IInv, TypeInv, ThreadOK
<1>3. PICK view \in Views : VerifyExport(export, view) BY DEF Commit
<1>4. \A i \in DOMAIN export : Finished(export[i]) BY <1>2, <1>3, VerifiedIsFinished
<1>5. TypeInv' BY <1>1 DEF IInv, TypeInv
<1>6. Lag' BY <1>1 DEF IInv, Lag, Finished
<1>7. MirrorFinished' BY <1>1, <1>4 DEF MirrorFinished, Finished
<1>8. MirrorBegins' BY <1>1, <1>2, <1>4 DEF IInv, Lag, MirrorBegins, Begins
<1>9. SameBeginning(export, thread) BY <1>2, <1>3, VerifyExportMeans
<1>10. Legible(export) BY <1>2, <1>9, VerifiedIsLegible
<1>11. MirrorLegible' BY <1>1, <1>10 DEF MirrorLegible, Legible
<1> QED BY <1>5, <1>6, <1>7, <1>8, <1>11 DEF IInv

LEMMA Invariant == Spec => []IInv
<1>1. Init => IInv
  <2>1. <<>> \in Seq(MessageSet) /\ Len(<<>>) = 0 /\ DOMAIN <<>> = {} OBVIOUS
  <2>2. ThreadOK(<<>>) BY <2>1 DEF ThreadOK
  <2> SUFFICES ASSUME Init PROVE IInv OBVIOUS
  <2>3. thread = <<>> /\ export = <<>> /\ mirror = <<>> /\ rewritten = FALSE BY DEF Init
  <2>4. TypeInv BY <2>2, <2>3 DEF TypeInv
  <2>5. Lag BY <2>1, <2>3 DEF Lag
  <2>6. MirrorFinished BY <2>1, <2>3 DEF MirrorFinished
  <2>7. MirrorBegins BY <2>1, <2>3 DEF MirrorBegins, Begins
  <2>8. MirrorLegible BY <2>1, <2>3 DEF MirrorLegible, Legible
  <2> QED BY <2>4, <2>5, <2>6, <2>7, <2>8 DEF IInv
<1>2. IInv /\ [Next]_vars => IInv'
  <2> SUFFICES ASSUME IInv, [Next]_vars PROVE IInv' OBVIOUS
  <2>1. CASE NewMessage BY <2>1, NewMessageKeeps
  <2>2. CASE NewPart BY <2>2, NewPartKeeps
  <2>3. CASE ToolEnds BY <2>3, ToolEndsKeeps
  <2>4. CASE AnswerEnds BY <2>4, AnswerEndsKeeps
  <2>5. CASE Rewrite BY <2>5, RewriteKeeps
  <2>6. CASE ExportThread BY <2>6, ExportThreadKeeps
  <2>7. CASE Commit BY <2>7, CommitKeeps
  <2>8. CASE UNCHANGED vars
    BY <2>8 DEF vars, IInv, TypeInv, Lag, MirrorFinished, MirrorLegible, Legible, MirrorBegins, Begins, Finished
  <2> QED BY <2>1, <2>2, <2>3, <2>4, <2>5, <2>6, <2>7, <2>8 DEF Next
<1> QED BY <1>1, <1>2, PTL DEF Spec

----------------------------------------------------------------------------
(* The properties.                                                         *)

\* Whatever the plugin's way of showing the thread, verifyMirror accepts a view
\* only if the thread begins with everything comparable in the mirror: a prompt
\* never goes ahead on a thread that somebody changed under the adapter.
THEOREM AgreementHolds == Spec => []AgreementIsReal
<1>1. IInv => AgreementIsReal
  <2> SUFFICES ASSUME IInv, NEW view \in Views, VerifyMirror(mirror, view)
               PROVE  IsPrefix(Exposed(mirror), Exposed(thread))
    BY DEF AgreementIsReal
  <2>1. ThreadOK(thread) /\ ThreadOK(mirror) BY DEF IInv, TypeInv
  <2>2. SameBeginning(mirror, thread) BY <2>1, VerifyMirrorMeans
  <2> QED BY <2>1, <2>2, ExposedMeans
<1> QED BY <1>1, Invariant, PTL

\* A prompt on a thread that only grew is never refused: at rest, every view of it
\* verifies the mirror (verifyMirror), and its export continues the mirror and
\* verifies against every view exactly if no tool answered with a text that is JSON.
THEOREM GrownThreadHolds == Spec => []GrownThreadAccepted
<1>1. IInv => GrownThreadAccepted
  <2> SUFFICES ASSUME IInv, AtRest, ~rewritten, NEW view \in Views
               PROVE  /\ VerifyMirror(mirror, view)
                      /\ Reconciles(mirror, thread)
                      /\ VerifyExport(thread, view) <=> Legible(thread)
    BY DEF GrownThreadAccepted
  <2>1. /\ ThreadOK(thread) /\ ThreadOK(mirror) /\ Legible(mirror)
        /\ thread \in Seq(MessageSet) /\ mirror \in Seq(MessageSet)
    BY DEF IInv, TypeInv, ThreadOK, MirrorLegible
  <2>2. Begins(mirror, thread) BY DEF IInv, MirrorBegins
  <2>3. Reconciles(mirror, thread) BY <2>2 DEF Reconciles, Begins
  <2>4. VerifyMirror(mirror, view)
    <3> DEFINE I == {i \in DOMAIN mirror : ~UnexposedInfo(mirror[i])}
               J == {i \in DOMAIN thread : ~UnexposedInfo(thread[i])}
    <3>1. I \cap (1 .. Len(mirror)) = J \cap (1 .. Len(mirror)) BY <2>1, <2>2 DEF Begins
    <3>2. Conversation(mirror) = Pick(mirror, I) /\ Conversation(thread) = Pick(thread, J)
      BY DEF Conversation
    <3> HIDE DEF I, J
    <3>3. Begins(Conversation(mirror), Conversation(thread))
      BY <3>1, <3>2, <2>1, <2>2, PickBegins
    <3>4. \A k \in 1 .. Len(Conversation(mirror)) : Same(Conversation(mirror)[k], Conversation(mirror)[k])
      BY <2>1, LegibleIsSame
    <3>5. SameBeginning(mirror, thread) BY <3>3, <3>4 DEF Begins, SameBeginning
    <3> QED BY <3>5, <2>1, VerifyMirrorMeans
  <2>5. VerifyExport(thread, view) <=> Legible(thread)
    <3> DEFINE c == Conversation(thread)
    <3>1. Len(c) \in Nat BY <2>1, ConversationOK
    <3>2. SameBeginning(thread, thread) <=> Legible(thread)
      <4>1. SameBeginning(thread, thread) => Legible(thread) BY <2>1, VerifiedIsLegible
      <4>2. Legible(thread) => \A k \in 1 .. Len(c) : Same(c[k], c[k]) BY <2>1, LegibleIsSame
      <4> QED BY <4>1, <4>2, <3>1 DEF SameBeginning
    <3>3. ASSUME NEW k \in 1 .. Len(c) PROVE MessageComplete(c[k])
      <4> DEFINE I == {i \in DOMAIN thread : ~UnexposedInfo(thread[i])}
      <4>1. PICK i \in DOMAIN thread : c[k] = thread[i]
        <5>1. c = Pick(thread, I) BY DEF Conversation
        <5> HIDE DEF I, c
        <5>2. PICK i \in 1 .. Len(thread) : c[k] = thread[i] BY <5>1, <2>1, PickElements
        <5>3. i \in DOMAIN thread BY <5>2, <2>1
        <5> QED BY <5>2, <5>3
      <4>2. MessageOK(thread[i]) BY <2>1 DEF ThreadOK
      <4>3. thread[i].role = "assistant" => thread[i].state \in {"complete", "error", "cancelled"}
        BY <4>2 DEF AtRest, MessageOK, MessageSet
      <4>4. \A j \in DOMAIN thread[i].parts :
              IsResult(thread[i].parts[j]) => thread[i].parts[j].status \in Terminal
        BY <4>2 DEF AtRest, MessageOK, PartOK
      <4> QED BY <4>1, <4>3, <4>4 DEF MessageComplete
    <3> QED BY <3>2, <3>3, <2>1, VerifyExportMeans
  <2> QED BY <2>3, <2>4, <2>5
<1> QED BY <1>1, Invariant, PTL

\* What Commit stores is the whole of the observed thread as far as it is comparable, and
\* nothing in it is unfinished: an export that lags behind is never taken for it.
THEOREM CommittedHolds == Spec => CommittedIsWhole
<1>1. IInv /\ [Next]_vars =>
        [mirror' # mirror =>
           /\ Exposed(mirror') = Exposed(thread)
           /\ \A i \in DOMAIN mirror' :
                /\ mirror'[i].state # "streaming"
                /\ \A j \in DOMAIN mirror'[i].parts : mirror'[i].parts[j].status # "in-progress"]_vars
  <2> SUFFICES ASSUME IInv, Next, mirror' # mirror
               PROVE  /\ Exposed(mirror') = Exposed(thread)
                      /\ \A i \in DOMAIN mirror' : Finished(mirror'[i])
    BY DEF Finished, vars
  <2>1. Commit
    BY DEF Next, NewMessage, NewPart, ToolEnds, AnswerEnds, Grows, Rewrite, ExportThread
  <2>2. mirror' = export /\ ThreadOK(thread) /\ ThreadOK(export)
    BY <2>1 DEF Commit, IInv, TypeInv
  <2>3. PICK view \in Views : VerifyExport(export, view) BY <2>1 DEF Commit
  <2>4. Exposed(export) = Exposed(thread)
    BY <2>2, <2>3, VerifyExportMeans, ExposedMeans
  <2>5. \A i \in DOMAIN export : Finished(export[i]) BY <2>2, <2>3, VerifiedIsFinished
  <2> QED BY <2>2, <2>4, <2>5
<1> QED BY <1>1, Invariant, PTL DEF Spec, CommittedIsWhole

\* Every mirror without a summary and without a failed answer can be imported
\* into a new thread: the service rebuilds each message as the mirror holds it.
THEOREM HistoryHolds == Spec => []HistoryRecoverable
<1>1. IInv => HistoryRecoverable
  <2> SUFFICES ASSUME IInv, Importable(mirror), \A i \in DOMAIN mirror : mirror[i].state # "error"
               PROVE  VerifyImported(mirror, Imported(PrepareImport(mirror)))
    BY DEF HistoryRecoverable
  <2> DEFINE prepared == PrepareImport(mirror)
             restored == Imported(prepared)
  <2>1. mirror \in Seq(MessageSet) /\ DOMAIN mirror = 1 .. Len(mirror) /\ Len(mirror) \in Nat
    BY DEF IInv, TypeInv, ThreadOK
  <2>2. prepared = [i \in 1 .. Len(mirror) |->
          [mirror[i] EXCEPT !.state =
             IF mirror[i].role = "assistant" /\ mirror[i].state = "cancelled"
             THEN mirror[i].state ELSE "absent"]]
    BY <2>1 DEF PrepareImport
  <2>3. restored = [i \in 1 .. Len(mirror) |->
          [prepared[i] EXCEPT !.state =
             IF prepared[i].role = "assistant" /\ prepared[i].state = "absent"
             THEN "complete" ELSE prepared[i].state]]
    BY <2>1, <2>2 DEF Imported
  <2> HIDE DEF prepared, restored
  <2>4. ASSUME NEW i \in 1 .. Len(mirror) PROVE mirror[i] = restored[i]
    <3>1. MessageOK(mirror[i]) /\ Finished(mirror[i]) /\ mirror[i].role # "info" /\ mirror[i].state # "error"
      BY <2>1 DEF IInv, TypeInv, ThreadOK, MirrorFinished, Importable
    <3>2. mirror[i] \in MessageSet BY <3>1 DEF MessageOK
    <3>3. mirror[i].role = "assistant" <=> mirror[i].state # "absent" BY <3>1 DEF MessageOK
    <3>4. mirror[i].state # "streaming" BY <3>1 DEF Finished
    <3> QED BY <2>2, <2>3, <3>1, <3>2, <3>3, <3>4 DEF MessageSet
  <2>5. Len(restored) = Len(mirror) BY <2>1, <2>3
  <2> QED BY <2>4, <2>5 DEF VerifyImported, restored, prepared
<1> QED BY <1>1, Invariant, PTL
=============================================================================
