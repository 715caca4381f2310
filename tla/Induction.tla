------------------------------ MODULE Induction ------------------------------
(***************************************************************************)
(* What the proofs about the recursive functions of the models rest on:    *)
(* induction on the natural numbers with a set for the predicate, the      *)
(* existence of the functions that the recursive definitions choose, and   *)
(* division.                                                               *)
(***************************************************************************)
EXTENDS Integers, Sequences, FiniteSetTheorems, WellFoundedInduction, TLAPS

(* Every nonempty set of natural numbers has a least element: among the    *)
(* initial segments that its elements close, one is smallest.              *)
LEMMA LeastNatural ==
  ASSUME NEW T \in SUBSET Nat, T # {}
  PROVE  \E m \in T : \A n \in T : m <= n
  <1>1. PICK a \in T : TRUE
    OBVIOUS
  <1> DEFINE F == {U \in SUBSET (0 .. a) : \E m \in T : m <= a /\ U = 0 .. m}
  <1>2. a \in Nat /\ IsFiniteSet(0 .. a)
    BY <1>1, FS_Interval
  <1>3. F \subseteq FiniteSubsetsOf(0 .. a) /\ 0 .. a \in F
    BY <1>1, <1>2, FS_Subset DEF FiniteSubsetsOf
  <1>4. IsWellFoundedOn(StrictSubsetOrdering(0 .. a), FiniteSubsetsOf(0 .. a))
    BY <1>2, FS_StrictSubsetOrderingWellFounded
  <1>5. PICK U \in F : \A V \in F : <<V, U>> \notin StrictSubsetOrdering(0 .. a)
    <2> HIDE DEF F
    <2>. QED
      BY <1>3, <1>4, WFMin
  <1>6. PICK m \in T : m <= a /\ U = 0 .. m
    BY <1>5
  <1>7. ASSUME NEW n \in T, n < m
        PROVE  FALSE
    <2>1. 0 .. n \in F /\ n \in Nat /\ m \in Nat
      BY <1>2, <1>6, <1>7
    <2>2. 0 .. n \subseteq U /\ 0 .. n # U
      BY <1>6, <1>7, <2>1
    <2>3. <<0 .. n, U>> \in StrictSubsetOrdering(0 .. a)
      BY <1>5, <2>1, <2>2 DEF StrictSubsetOrdering
    <2>. QED
      BY <1>5, <2>1, <2>3
  <1>. QED
    BY <1>6, <1>7

(* Induction: a set with 0 that is closed under the successor, up to n.    *)
LEMMA UpTo ==
  ASSUME NEW n \in Nat, NEW S, 0 \in S, \A k \in 0 .. n - 1 : k \in S => k + 1 \in S
  PROVE  0 .. n \subseteq S
  <1> DEFINE T == {k \in 0 .. n : k \notin S}
  <1>1. ASSUME T # {}
        PROVE  FALSE
    <2>0. T \in SUBSET Nat
      OBVIOUS
    <2>1. PICK m \in T : \A k \in T : m <= k
      <3> HIDE DEF T
      <3>. QED
        BY <1>1, <2>0, LeastNatural
    <2>2. m \in 1 .. n /\ m \notin S
      BY <2>1
    <2>3. m - 1 \in 0 .. n - 1 /\ m - 1 \notin T
      BY <2>1, <2>2
    <2>4. m - 1 \in S
      BY <2>3
    <2>5. (m - 1) + 1 \in S
      BY <2>3, <2>4
    <2>. QED
      BY <2>2, <2>5
  <1>. QED
    BY <1>1

(* Induction: a set with 0 that is closed under the successor.             *)
LEMMA AllNaturals ==
  ASSUME NEW S, 0 \in S, \A k \in Nat : k \in S => k + 1 \in S
  PROVE  Nat \subseteq S
  <1>1. ASSUME NEW n \in Nat
        PROVE  n \in S
    <2>1. 0 .. n \subseteq S
      BY UpTo
    <2>. QED
      BY <2>1
  <1>. QED
    BY <1>1

(* A function of the counter of a loop: the value at 0, and the value at k *)
(* from the one at k - 1 by step[k].                                       *)
Loop(f, n, base, step) ==
  f = [k \in 0 .. n |-> IF k = 0 THEN base ELSE step[k][f[k - 1]]]

(* Such a function exists.                                                 *)
LEMMA LoopExists ==
  ASSUME NEW n \in Nat, NEW S, NEW base \in S, NEW step \in [1 .. n -> [S -> S]]
  PROVE  \E f \in [0 .. n -> S] : Loop(f, n, base, step)
  <1> DEFINE Good == {m \in 0 .. n : \E f \in [0 .. m -> S] : Loop(f, m, base, step)}
  <1>1. 0 \in Good
    <2>1. [k \in 0 .. 0 |-> base] \in [0 .. 0 -> S]
      OBVIOUS
    <2>2. Loop([k \in 0 .. 0 |-> base], 0, base, step)
      BY DEF Loop
    <2>. QED
      BY <2>1, <2>2
  <1>2. ASSUME NEW m \in 0 .. n - 1, m \in Good
        PROVE  m + 1 \in Good
    <2>1. PICK f \in [0 .. m -> S] : Loop(f, m, base, step)
      BY <1>2
    <2> DEFINE g == [k \in 0 .. m + 1 |-> IF k = m + 1 THEN step[m + 1][f[m]] ELSE f[k]]
    <2>2. step[m + 1][f[m]] \in S
      OBVIOUS
    <2>3. g \in [0 .. m + 1 -> S]
      BY <2>2
    <2>4. \A k \in 0 .. m : f[k] = IF k = 0 THEN base ELSE step[k][f[k - 1]]
      BY <2>1 DEF Loop
    <2>5. \A k \in 0 .. m + 1 : g[k] = IF k = 0 THEN base ELSE step[k][g[k - 1]]
      <3>1. ASSUME NEW k \in 0 .. m
            PROVE  g[k] = IF k = 0 THEN base ELSE step[k][g[k - 1]]
        <4>1. g[k] = f[k] /\ (k # 0 => g[k - 1] = f[k - 1])
          OBVIOUS
        <4>. QED
          BY <2>4, <4>1
      <3>2. g[m + 1] = step[m + 1][g[(m + 1) - 1]]
        OBVIOUS
      <3>3. \A k \in 0 .. m + 1 : k \in 0 .. m \/ k = m + 1
        OBVIOUS
      <3> HIDE DEF g
      <3>4. ASSUME NEW k \in 0 .. m + 1
            PROVE  g[k] = IF k = 0 THEN base ELSE step[k][g[k - 1]]
        <4>1. CASE k \in 0 .. m
          BY <3>1, <4>1
        <4>2. CASE k = m + 1
          BY <3>2, <4>2
        <4>. QED
          BY <3>3, <4>1, <4>2
      <3>. QED
        BY <3>4
    <2>6. Loop(g, m + 1, base, step)
      BY <2>3, <2>5 DEF Loop
    <2>7. m + 1 \in 0 .. n
      OBVIOUS
    <2>. QED
      BY <2>3, <2>6, <2>7
  <1>3. 0 .. n \subseteq Good
    <2> HIDE DEF Good
    <2>. QED
      BY <1>1, <1>2, UpTo
  <1>. QED
    BY <1>3

-----------------------------------------------------------------------------
(* Division *)

(* Quotient and remainder of natural numbers.                              *)
LEMMA Division ==
  ASSUME NEW n \in Nat, NEW B \in Nat \ {0}
  PROVE  /\ n \div B \in Nat /\ (n \div B) * B <= n /\ n < (n \div B) * B + B
         /\ n % B \in 0 .. B - 1 /\ n = (n \div B) * B + (n % B)
  OBVIOUS

(* Multiples of a larger number are larger by a factor at least.           *)
LEMMA Multiples ==
  ASSUME NEW a \in Nat, NEW b \in Nat, NEW B \in Nat
  PROVE  a * B \in Nat /\ (a + b) * B = a * B + b * B /\ (a < b => a * B + B <= b * B)
  <1>1. a * B \in Nat /\ (a + b) * B = a * B + b * B
    OBVIOUS
  <1>2. ASSUME a < b
        PROVE  a * B + B <= b * B
    <2>1. PICK d \in Nat : b = a + 1 + d
      <3>1. b - a - 1 \in Nat /\ b = a + 1 + (b - a - 1)
        BY <1>2
      <3>. QED
        BY <3>1
    <2>2. b * B = a * B + B + d * B
      BY <2>1
    <2>3. d * B >= 0
      OBVIOUS
    <2>. QED
      BY <2>2, <2>3
  <1>. QED
    BY <1>1, <1>2

(* The quotient is the only one with such a remainder.                     *)
LEMMA Quotient ==
  ASSUME NEW n \in Nat, NEW B \in Nat \ {0}, NEW q \in Nat, q * B <= n, n < q * B + B
  PROVE  n \div B = q
  <1>1. PICK p \in Nat : p = n \div B /\ p * B <= n /\ n < p * B + B
    BY Division
  <1>2. (p < q => p * B + B <= q * B) /\ (q < p => q * B + B <= p * B)
    BY Multiples
  <1>3. ~(p < q) /\ ~(q < p)
    <2>1. p * B \in Nat /\ q * B \in Nat
      OBVIOUS
    <2>. QED
      BY <1>1, <1>2, <2>1
  <1>. QED
    BY <1>1, <1>3

(* A multiple leaves no remainder.                                         *)
LEMMA Remainder ==
  ASSUME NEW q \in Nat, NEW B \in Nat \ {0}
  PROVE  (q * B) % B = 0
  <1>1. q * B \in Nat /\ q * B <= q * B /\ q * B < q * B + B
    OBVIOUS
  <1>2. (q * B) \div B = q
    BY <1>1, Quotient
  <1>. QED
    BY <1>1, <1>2, Division
=============================================================================
