-------------------------- MODULE ImportOrderProofs --------------------------
(***************************************************************************)
(* The sort of the import graph, for every finite set of files.            *)
(***************************************************************************)
EXTENDS ImportOrder, SequenceTheorems, FiniteSetTheorems, TLAPS

Sorting == phase = "sorting"

(* The queue and the result hold each file at most once between them.      *)
Distinct ==
  /\ IsInjective(queue) /\ IsInjective(result)
  /\ Sorting => Range(queue) \intersect Range(result) = {}

(* The bookkeeping of the sort: what is left, and how many of those import *)
(* a file; a file without such importers is queued or has been taken.      *)
Bookkeeping ==
  Sorting =>
    /\ remaining = Files \ Range(result)
    /\ \A f \in Files : degree[f] = Cardinality(Importers(f) \intersect remaining)
    /\ \A f \in Files : degree[f] = 0 <=> f \in Range(queue) \union Range(result)

(* All the importers of a file that was taken were taken before it.        *)
ImportersTaken ==
  Sorting \/ ~warned =>
    \A i \in DOMAIN result : \A g \in Importers(result[i]) : \E k \in 1 .. i - 1 : result[k] = g

IInv == TypeOK /\ Distinct /\ Bookkeeping /\ ImportersTaken /\ EachFileOnce

-----------------------------------------------------------------------------
(* Facts about sequences without repetition                                *)

(* An ordering of a finite set enumerates it.                              *)
LEMMA OrderingOfSet ==
  ASSUME NEW S, IsFiniteSet(S), NEW s \in SetToSeqs(S)
  PROVE  s \in Seq(S) /\ Len(s) = Cardinality(S) /\ IsInjective(s) /\ Range(s) = S
  <1> DEFINE D == 1 .. Cardinality(S)
  <1>1. Cardinality(S) \in Nat
    BY FS_CardinalityType
  <1>2. s \in [D -> S] /\ \A i, j \in D : i # j => s[i] # s[j]
    BY DEF SetToSeqs
  <1>3. s \in Seq(S) /\ Len(s) = Cardinality(S) /\ DOMAIN s = D
    BY <1>1, <1>2
  <1>4. IsInjective(s)
    BY <1>2, <1>3 DEF IsInjective
  <1>5. s \in Injection(D, S)
    BY <1>2, <1>4 DEF Injection
  <1>6. IsFiniteSet(D) /\ Cardinality(D) = Cardinality(S)
    BY <1>1, FS_Interval
  <1>7. s \in Surjection(D, S)
    BY <1>5, <1>6, FS_Injection
  <1>8. Range(s) = S
    BY <1>2, <1>7 DEF Surjection, Range
  <1>. QED
    BY <1>3, <1>4, <1>8

(* Concatenating two sequences without a common element.                   *)
LEMMA ConcatDistinct ==
  ASSUME NEW S, NEW s \in Seq(S), NEW t \in Seq(S)
  PROVE  /\ s \o t \in Seq(S) /\ Range(s \o t) = Range(s) \union Range(t)
         /\ IsInjective(s) /\ IsInjective(t) /\ Range(s) \intersect Range(t) = {}
              => IsInjective(s \o t)
  <1> DEFINE u == s \o t
  <1>1. /\ u \in Seq(S) /\ Len(u) = Len(s) + Len(t) /\ Len(s) \in Nat /\ Len(t) \in Nat
        /\ \A i \in 1 .. Len(u) : u[i] = IF i <= Len(s) THEN s[i] ELSE t[i - Len(s)]
    BY ConcatProperties, LenProperties
  <1>2. DOMAIN u = 1 .. Len(u) /\ DOMAIN s = 1 .. Len(s) /\ DOMAIN t = 1 .. Len(t)
    BY <1>1, LenProperties
  <1> HIDE DEF u
  <1>3. \A i \in 1 .. Len(s) : i \in 1 .. Len(u) /\ u[i] = s[i]
    BY <1>1
  <1>4. \A i \in 1 .. Len(t) : i + Len(s) \in 1 .. Len(u) /\ u[i + Len(s)] = t[i]
    <2>1. TAKE i \in 1 .. Len(t)
    <2>2. i + Len(s) \in 1 .. Len(u) /\ ~(i + Len(s) <= Len(s)) /\ i + Len(s) - Len(s) = i
      BY <1>1
    <2>. QED
      BY <1>1, <2>2
  <1>5. \A i \in 1 .. Len(u) :
          \/ i \in 1 .. Len(s) /\ u[i] = s[i]
          \/ i - Len(s) \in 1 .. Len(t) /\ u[i] = t[i - Len(s)]
    BY <1>1
  <1>6. Range(u) = Range(s) \union Range(t)
    <2>1. ASSUME NEW x \in Range(u)
          PROVE  x \in Range(s) \union Range(t)
      BY <1>2, <1>5 DEF Range
    <2>2. ASSUME NEW x \in Range(s)
          PROVE  x \in Range(u)
      BY <1>2, <1>3 DEF Range
    <2>3. ASSUME NEW x \in Range(t)
          PROVE  x \in Range(u)
      BY <1>2, <1>4 DEF Range
    <2>. QED
      BY <2>1, <2>2, <2>3
  <1>7. ASSUME IsInjective(s), IsInjective(t), Range(s) \intersect Range(t) = {}
        PROVE  IsInjective(u)
    <2>1. SUFFICES ASSUME NEW a \in 1 .. Len(u), NEW b \in 1 .. Len(u), u[a] = u[b]
                   PROVE  a = b
      BY <1>2 DEF IsInjective
    <2>2. \A i \in 1 .. Len(s), j \in 1 .. Len(t) : s[i] # t[j]
      BY <1>2, <1>7 DEF Range
    <2>3. \A i, j \in 1 .. Len(s) : s[i] = s[j] => i = j
      BY <1>2, <1>7 DEF IsInjective
    <2>4. \A i, j \in 1 .. Len(t) : t[i] = t[j] => i = j
      BY <1>2, <1>7 DEF IsInjective
    <2>5. Len(s) \in Nat
      BY <1>1
    <2>6. CASE a \in 1 .. Len(s) /\ u[a] = s[a]
      <3>1. ~(b - Len(s) \in 1 .. Len(t) /\ u[b] = t[b - Len(s)])
        BY <2>1, <2>2, <2>6
      <3>2. b \in 1 .. Len(s) /\ u[b] = s[b]
        BY <1>5, <3>1
      <3>. QED
        BY <2>1, <2>3, <2>6, <3>2
    <2>7. CASE a - Len(s) \in 1 .. Len(t) /\ u[a] = t[a - Len(s)]
      <3>1. ~(b \in 1 .. Len(s) /\ u[b] = s[b])
        BY <2>1, <2>2, <2>7
      <3>2. b - Len(s) \in 1 .. Len(t) /\ u[b] = t[b - Len(s)]
        BY <1>5, <3>1
      <3>3. a - Len(s) = b - Len(s)
        BY <2>1, <2>4, <2>7, <3>2
      <3>. QED
        BY <2>5, <3>3
    <2>. QED
      BY <1>5, <2>6, <2>7
  <1>. QED
    BY <1>1, <1>6, <1>7 DEF u

(* Taking the head of a queue without repetition.                          *)
LEMMA TailDistinct ==
  ASSUME NEW S, NEW s \in Seq(S), s # <<>>, IsInjective(s)
  PROVE  /\ Head(s) \in S /\ Head(s) \in Range(s) /\ Tail(s) \in Seq(S)
         /\ IsInjective(Tail(s)) /\ Range(Tail(s)) = Range(s) \ {Head(s)}
  <1> DEFINE t == Tail(s)
  <1>1. /\ Head(s) = s[1] /\ Head(s) \in S /\ t \in Seq(S)
        /\ Len(s) \in Nat \ {0} /\ Len(t) = Len(s) - 1
        /\ \A i \in 1 .. Len(t) : t[i] = s[i + 1]
    BY HeadTailProperties, EmptySeq, LenProperties
  <1>2. DOMAIN s = 1 .. Len(s) /\ DOMAIN t = 1 .. Len(t)
    BY <1>1, LenProperties
  <1> HIDE DEF t
  <1>3. \A i, j \in 1 .. Len(s) : s[i] = s[j] => i = j
    BY <1>2 DEF IsInjective
  <1>4. Head(s) \in Range(s)
    <2>1. 1 \in DOMAIN s
      BY <1>1, <1>2
    <2>. QED
      BY <1>1, <2>1 DEF Range
  <1>5. IsInjective(t)
    <2>1. SUFFICES ASSUME NEW a \in 1 .. Len(t), NEW b \in 1 .. Len(t), t[a] = t[b]
                   PROVE  a = b
      BY <1>2 DEF IsInjective
    <2>2. a + 1 \in 1 .. Len(s) /\ b + 1 \in 1 .. Len(s)
      BY <1>1
    <2>3. a + 1 = b + 1
      BY <1>1, <1>3, <2>1, <2>2
    <2>. QED
      BY <2>3
  <1>6. Range(t) = Range(s) \ {Head(s)}
    <2>1. ASSUME NEW x \in Range(t)
          PROVE  x \in Range(s) /\ x # Head(s)
      <3>1. PICK i \in 1 .. Len(t) : x = s[i + 1]
        BY <1>1, <1>2, <2>1 DEF Range
      <3>2. i + 1 \in 1 .. Len(s) /\ 1 \in 1 .. Len(s) /\ i + 1 # 1
        BY <1>1
      <3>. QED
        BY <1>1, <1>2, <1>3, <3>1, <3>2 DEF Range
    <2>2. ASSUME NEW x \in Range(s), x # Head(s)
          PROVE  x \in Range(t)
      <3>1. PICK i \in 1 .. Len(s) : x = s[i]
        BY <1>2, <2>2 DEF Range
      <3>2. i - 1 \in 1 .. Len(t) /\ (i - 1) + 1 = i
        BY <1>1, <2>2, <3>1
      <3>3. t[i - 1] = x
        BY <1>1, <3>1, <3>2
      <3>. QED
        BY <1>2, <3>2, <3>3 DEF Range
    <2>. QED
      BY <2>1, <2>2
  <1>. QED
    BY <1>1, <1>4, <1>5, <1>6 DEF t

(* A sequence without repetition is as long as the set it ranges over.     *)
LEMMA LenOfDistinct ==
  ASSUME NEW S, IsFiniteSet(S), NEW s \in Seq(S), IsInjective(s), Range(s) = S
  PROVE  Len(s) = Cardinality(S)
  <1>1. Len(s) \in Nat /\ s \in [1 .. Len(s) -> S] /\ DOMAIN s = 1 .. Len(s)
    BY LenProperties
  <1>2. s \in Injection(1 .. Len(s), S)
    BY <1>1 DEF Injection
  <1>3. s \in Surjection(1 .. Len(s), S)
    BY <1>1 DEF Surjection, Range
  <1>4. Cardinality(1 .. Len(s)) = Len(s)
    BY <1>1, FS_Interval
  <1>. QED
    BY <1>2, <1>3, <1>4, FS_Injection

(* Appending an element that is not there yet.                             *)
LEMMA AppendDistinct ==
  ASSUME NEW S, NEW s \in Seq(S), NEW e \in S, IsInjective(s), e \notin Range(s)
  PROVE  /\ Append(s, e) \in Seq(S) /\ IsInjective(Append(s, e))
         /\ Range(Append(s, e)) = Range(s) \union {e}
         /\ \A i \in DOMAIN Append(s, e) :
              \/ i \in DOMAIN s /\ Append(s, e)[i] = s[i]
              \/ i = Len(s) + 1 /\ Append(s, e)[i] = e
         /\ \A i \in DOMAIN s : Append(s, e)[i] = s[i]
  <1> DEFINE u == Append(s, e)
  <1>1. /\ u \in Seq(S) /\ Len(u) = Len(s) + 1 /\ Len(s) \in Nat
        /\ \A i \in 1 .. Len(s) : u[i] = s[i]
        /\ u[Len(s) + 1] = e
    BY AppendProperties, LenProperties
  <1>2. DOMAIN u = 1 .. Len(u) /\ DOMAIN s = 1 .. Len(s)
    BY <1>1, LenProperties
  <1> HIDE DEF u
  <1>3. \A i \in 1 .. Len(u) :
          \/ i \in 1 .. Len(s) /\ u[i] = s[i]
          \/ i = Len(s) + 1 /\ u[i] = e
    <2>1. TAKE i \in 1 .. Len(u)
    <2>2. i \in 1 .. Len(s) \/ i = Len(s) + 1
      BY <1>1
    <2>. QED
      BY <1>1, <2>2
  <1>4. Range(u) = Range(s) \union {e}
    <2>1. Len(s) + 1 \in DOMAIN u /\ \A i \in DOMAIN s : i \in DOMAIN u
      BY <1>1, <1>2
    <2>. QED
      BY <1>1, <1>2, <1>3, <2>1 DEF Range
  <1>5. IsInjective(u)
    <2>1. SUFFICES ASSUME NEW a \in 1 .. Len(u), NEW b \in 1 .. Len(u), u[a] = u[b]
                   PROVE  a = b
      BY <1>2 DEF IsInjective
    <2>2. \A i \in 1 .. Len(s) : s[i] # e
      BY <1>2 DEF Range
    <2>3. \A i, j \in 1 .. Len(s) : s[i] = s[j] => i = j
      BY <1>2 DEF IsInjective
    <2>. QED
      BY <1>3, <2>1, <2>2, <2>3
  <1>. QED
    BY <1>1, <1>2, <1>3, <1>4, <1>5 DEF u

-----------------------------------------------------------------------------
(* The invariant                                                           *)

LEMMA InitInv == Init => IInv
  <1> SUFFICES ASSUME Init
               PROVE  IInv
    OBVIOUS
  <1> USE ImportOrderAssumption DEF Init
  <1> DEFINE ready == {f \in Files : degree[f] = 0}
  <1>1. imports \in [Files -> SUBSET Files]
    OBVIOUS
  <1>2. \A f \in Files : Importers(f) \subseteq Files /\ Cardinality(Importers(f)) \in Nat
    BY FS_Subset, FS_CardinalityType DEF Importers
  <1>3. degree \in [Files -> Int]
    BY <1>2
  <1>4. IsFiniteSet(ready)
    BY FS_Subset
  <1>5. queue \in Seq(ready) /\ IsInjective(queue) /\ Range(queue) = ready
    BY <1>4, OrderingOfSet
  <1>6. queue \in Seq(Files)
    BY <1>5
  <1>7. /\ result \in Seq(Files) /\ IsInjective(result) /\ Range(result) = {} /\ DOMAIN result = {}
    BY DEF IsInjective, Range
  <1>8. TypeOK
    BY <1>1, <1>3, <1>6, <1>7 DEF TypeOK
  <1>9. Distinct
    BY <1>5, <1>7 DEF Distinct
  <1>10. Bookkeeping
    <2>1. \A f \in Files : Importers(f) \intersect remaining = Importers(f)
      BY <1>2
    <2>. QED
      BY <1>5, <1>7, <2>1 DEF Bookkeeping
  <1>. QED
    BY <1>7, <1>8, <1>9, <1>10 DEF IInv, ImportersTaken, EachFileOnce, Sorted

LEMMA TakeInv == IInv /\ Take => IInv'
  <1> SUFFICES ASSUME IInv, Take
               PROVE  IInv'
    OBVIOUS
  <1> DEFINE file == Head(queue)
             ready == {f \in imports[file] : Ready(f)}
  <1>1. Sorting /\ Sorting' /\ imports' = imports /\ warned' = warned
    BY DEF Take, Sorting
  <1>2. /\ TypeOK /\ IsInjective(queue) /\ IsInjective(result)
        /\ Range(queue) \intersect Range(result) = {}
        /\ remaining = Files \ Range(result)
        /\ \A f \in Files : degree[f] = Cardinality(Importers(f) \intersect remaining)
        /\ \A f \in Files : degree[f] = 0 <=> f \in Range(queue) \union Range(result)
    BY <1>1 DEF IInv, Distinct, Bookkeeping
  <1>3. /\ file \in Files /\ file \in Range(queue) /\ Tail(queue) \in Seq(Files)
        /\ IsInjective(Tail(queue)) /\ Range(Tail(queue)) = Range(queue) \ {file}
    BY <1>2, TailDistinct DEF Take, TypeOK
  <1>4. file \in remaining /\ file \notin Range(result)
    BY <1>2, <1>3
  <1>5. /\ result' = Append(result, file) /\ remaining' = remaining \ {file}
        /\ degree' = [f \in Files |-> degree[f] - (IF f \in imports[file] THEN 1 ELSE 0)]
    BY DEF Take, Removed
  <1>6. imports[file] \subseteq Files /\ IsFiniteSet(ready) /\ ready \subseteq Files
    BY <1>2, <1>3, FS_Subset, ImportOrderAssumption DEF TypeOK
  <1>7. PICK added \in SetToSeqs(ready) : queue' = Tail(queue) \o added
    BY DEF Take
  <1> HIDE DEF file
  <1>8. added \in Seq(ready) /\ added \in Seq(Files) /\ IsInjective(added) /\ Range(added) = ready
    BY <1>6, <1>7, OrderingOfSet
  <1>9. \A f \in imports[file] : degree[f] >= 1 /\ f \notin Range(queue) \union Range(result)
    <2>1. SUFFICES ASSUME NEW f \in imports[file]
                   PROVE  degree[f] >= 1 /\ f \notin Range(queue) \union Range(result)
      OBVIOUS
    <2> DEFINE left == Importers(f) \intersect remaining
    <2>2. f \in Files /\ file \in left /\ IsFiniteSet(left)
      BY <1>3, <1>4, <1>6, <2>1, FS_Subset, ImportOrderAssumption DEF Importers
    <2>3. Cardinality(left) \in Nat /\ Cardinality(left) # 0
      BY <2>2, FS_CardinalityType, FS_EmptySet
    <2>. QED
      BY <1>2, <2>2, <2>3
  <1>10. /\ queue' \in Seq(Files) /\ IsInjective(queue')
         /\ Range(queue') = (Range(queue) \ {file}) \union ready
    <2>1. Range(Tail(queue)) \intersect Range(added) = {}
      BY <1>3, <1>8, <1>9
    <2> DEFINE u == Tail(queue) \o added
    <2>2. /\ u \in Seq(Files) /\ Range(u) = Range(Tail(queue)) \union Range(added)
          /\ IsInjective(u)
      <3> HIDE DEF ready
      <3>1. Tail(queue) \in Seq(Files) /\ added \in Seq(Files)
        BY <1>3, <1>8
      <3>2. u \in Seq(Files) /\ Range(u) = Range(Tail(queue)) \union Range(added)
        BY <3>1, ConcatDistinct, ZenonT(60)
      <3>3. IsInjective(Tail(queue)) /\ IsInjective(added)
        BY <1>3, <1>8
      <3>4. IsInjective(u)
        BY <2>1, <3>1, <3>3, ConcatDistinct, Zenon
      <3>. QED
        BY <3>2, <3>4
    <2>3. queue' = u
      BY <1>7
    <2> HIDE DEF u, ready
    <2>4. Range(u) = (Range(queue) \ {file}) \union ready
      BY <1>3, <1>8, <2>2
    <2>. QED
      BY <2>2, <2>3, <2>4
  <1>11. /\ result' \in Seq(Files) /\ IsInjective(result')
         /\ Range(result') = Range(result) \union {file}
         /\ \A i \in DOMAIN result' :
              \/ i \in DOMAIN result /\ result'[i] = result[i]
              \/ i = Len(result) + 1 /\ result'[i] = file
         /\ \A i \in DOMAIN result : result'[i] = result[i]
    BY <1>2, <1>3, <1>4, <1>5, AppendDistinct DEF TypeOK
  <1>12. TypeOK'
    <2>1. degree' \in [Files -> Int]
      BY <1>2, <1>5 DEF TypeOK
    <2>. QED
      BY <1>1, <1>2, <1>5, <1>10, <1>11, <2>1 DEF TypeOK, Take
  <1>13. Distinct'
    <2>1. Range(queue') \intersect Range(result') = {}
      <3>1. file \notin ready
        BY <1>3, <1>9
      <3>. QED
        BY <1>2, <1>9, <1>10, <1>11, <3>1
    <2>. QED
      BY <1>10, <1>11, <2>1 DEF Distinct
  <1>14. Bookkeeping'
    <2>1. remaining' = Files \ Range(result')
      BY <1>2, <1>5, <1>11
    <2>2. ASSUME NEW f \in Files
          PROVE  degree'[f] = Cardinality(Importers(f)' \intersect remaining')
      <3> DEFINE left == Importers(f) \intersect remaining
      <3>1. Importers(f)' \intersect remaining' = left \ {file} /\ IsFiniteSet(left)
        BY <1>1, <1>5, FS_Subset, ImportOrderAssumption DEF Importers
      <3>2. file \in left <=> f \in imports[file]
        BY <1>3, <1>4 DEF Importers
      <3>3. CASE f \in imports[file]
        <4>1. Cardinality(left \ {file}) = Cardinality(left) - 1
          BY <3>1, <3>2, <3>3, FS_RemoveElement
        <4>2. degree[f] = Cardinality(left)
          BY <1>2
        <4>3. degree'[f] = degree[f] - 1
          BY <1>5, <3>3
        <4>. QED
          BY <3>1, <4>1, <4>2, <4>3
      <3>4. CASE f \notin imports[file]
        <4>1. left \ {file} = left /\ degree'[f] = degree[f]
          BY <1>2, <1>5, <3>2, <3>4 DEF TypeOK
        <4>. QED
          BY <1>2, <3>1, <4>1
      <3>. QED
        BY <3>3, <3>4
    <2>3. ASSUME NEW f \in Files
          PROVE  degree'[f] = 0 <=> f \in Range(queue') \union Range(result')
      <3>1. CASE f \in imports[file]
        <4>1. degree'[f] = degree[f] - 1 /\ f \notin Range(queue) \union Range(result) /\ f # file
          BY <1>3, <1>5, <1>9, <3>1
        <4>2. degree'[f] = 0 <=> f \in ready
          BY <3>1, <4>1 DEF Ready
        <4>. QED
          BY <1>10, <1>11, <4>1, <4>2
      <3>2. CASE f \notin imports[file]
        <4>1. degree'[f] = degree[f] /\ f \notin ready
          BY <1>2, <1>5, <3>2 DEF TypeOK
        <4>. QED
          BY <1>2, <1>3, <1>10, <1>11, <4>1
      <3>. QED
        BY <3>1, <3>2
    <2>. QED
      BY <2>1, <2>2, <2>3 DEF Bookkeeping
  <1>15. ImportersTaken'
    <2>1. SUFFICES ASSUME NEW i \in DOMAIN result',
                          NEW g \in Files, result'[i] \in imports'[g]
                   PROVE  \E k \in 1 .. i - 1 : result'[k] = g
      BY DEF ImportersTaken, Importers
    <2>2. g \in Importers(result'[i])
      BY <1>1, <2>1 DEF Importers
    <2>3. Len(result) \in Nat /\ DOMAIN result = 1 .. Len(result)
      BY <1>2, LenProperties DEF TypeOK
    <2>4. CASE i \in DOMAIN result /\ result'[i] = result[i]
      <3>1. PICK k \in 1 .. i - 1 : result[k] = g
        BY <1>1, <2>2, <2>4 DEF IInv, ImportersTaken
      <3>2. k \in DOMAIN result
        BY <2>3, <2>4
      <3>. QED
        BY <1>11, <3>1, <3>2
    <2>5. CASE i = Len(result) + 1 /\ result'[i] = file
      <3>1. Cardinality(Importers(file) \intersect remaining) = 0
        BY <1>2, <1>3
      <3>2. Importers(file) \intersect remaining = {}
        BY <1>4, <3>1, FS_Subset, FS_EmptySet, ImportOrderAssumption DEF Importers
      <3>3. g \in Range(result)
        BY <1>2, <2>2, <2>5, <3>2 DEF Importers
      <3>4. PICK k \in DOMAIN result : result[k] = g
        BY <3>3 DEF Range
      <3>5. k \in 1 .. i - 1
        BY <2>3, <2>5
      <3>. QED
        BY <1>11, <3>4, <3>5
    <2>. QED
      BY <1>11, <2>1, <2>4, <2>5
  <1>16. EachFileOnce'
    BY <1>1 DEF EachFileOnce, Sorted, Sorting
  <1>. QED
    BY <1>12, <1>13, <1>14, <1>15, <1>16 DEF IInv

LEMMA FinishInv == IInv /\ Finish => IInv'
  <1> SUFFICES ASSUME IInv, Finish
               PROVE  IInv'
    OBVIOUS
  <1>1. /\ Sorting /\ ~Sorting' /\ imports' = imports /\ warned' = (remaining # {})
        /\ UNCHANGED <<degree, queue, remaining>> /\ phase' = "done"
    BY DEF Finish, Sorting, Warn
  <1>2. /\ TypeOK /\ IsInjective(queue) /\ IsInjective(result) /\ remaining = Files \ Range(result)
    BY <1>1 DEF IInv, Distinct, Bookkeeping
  <1>3. PICK rest \in SetToSeqs(remaining) : result' = result \o rest
    BY DEF Finish
  <1>4. /\ rest \in Seq(remaining) /\ rest \in Seq(Files) /\ IsInjective(rest)
        /\ Range(rest) = remaining /\ Len(rest) = Cardinality(remaining)
    <2>1. IsFiniteSet(remaining)
      BY <1>2, FS_Subset, ImportOrderAssumption
    <2>2. rest \in Seq(remaining) /\ IsInjective(rest) /\ Range(rest) = remaining /\ Len(rest) = Cardinality(remaining)
      BY <2>1, OrderingOfSet
    <2>. QED
      BY <1>2, <2>2
  <1>5. /\ result' \in Seq(Files) /\ Range(result') = Range(result) \union remaining
        /\ IsInjective(result')
    BY <1>2, <1>3, <1>4, ConcatDistinct DEF TypeOK
  <1>6. TypeOK'
    BY <1>1, <1>2, <1>5 DEF TypeOK
  <1>7. Range(result') = Files
    <2>1. Range(result) \subseteq Files
      BY <1>2, RangeOfSeq DEF TypeOK
    <2>. QED
      BY <1>2, <1>5, <2>1
  <1>8. EachFileOnce'
    BY <1>5, <1>7, LenOfDistinct, ImportOrderAssumption DEF EachFileOnce
  <1>9. ImportersTaken'
    <2>1. SUFFICES ASSUME ~warned'
                   PROVE  ImportersTaken'
      BY <1>1 DEF ImportersTaken
    <2>2. remaining = {}
      BY <1>1, <2>1
    <2>3. result' = result
      <3>1. rest = <<>>
        BY <1>4, <2>2, EmptySeq
      <3>. QED
        BY <1>2, <1>3, <3>1, ConcatEmptySeq DEF TypeOK
    <2>. QED
      BY <1>1, <2>3 DEF ImportersTaken, IInv, Importers
  <1>. QED
    BY <1>1, <1>2, <1>5, <1>6, <1>8, <1>9 DEF IInv, Distinct, Bookkeeping

LEMMA Inductive == Spec => []IInv
  <1>1. IInv /\ UNCHANGED vars => IInv'
    BY DEF vars, IInv, TypeOK, Distinct, Bookkeeping, ImportersTaken, EachFileOnce, Sorting, Sorted, Importers
  <1>2. IInv /\ [Next]_vars => IInv'
    BY <1>1, TakeInv, FinishInv DEF Next
  <1>. QED
    BY InitInv, <1>2, PTL DEF Spec

(* Every file is handed to the compiler exactly once, cycles or not        *)
(* (topological_sort).                                                     *)
THEOREM SortIsPermutation == Spec => []EachFileOnce
  <1>1. IInv => EachFileOnce
    BY DEF IInv
  <1>. QED
    BY Inductive, <1>1, PTL

(* Files in the order of their importers.                                  *)
LEMMA InvariantOrders == IInv => ImportersFirst
  <1>1. SUFFICES ASSUME IInv, Sorted, ~warned,
                        NEW f \in Files, NEW g \in imports[f],
                        NEW i \in DOMAIN result, NEW j \in DOMAIN result,
                        result[i] = f, result[j] = g
                 PROVE  i < j
    BY DEF ImportersFirst, Before
  <1>2. DOMAIN result = 1 .. Len(result) /\ Len(result) \in Nat /\ IsInjective(result)
    BY <1>1, LenProperties DEF IInv, TypeOK, Distinct
  <1>3. f \in Importers(result[j])
    BY <1>1 DEF Importers
  <1>4. PICK k \in 1 .. j - 1 : result[k] = f
    BY <1>1, <1>3 DEF IInv, ImportersTaken
  <1>5. k \in DOMAIN result /\ k < j
    BY <1>2
  <1>6. k = i
    BY <1>1, <1>2, <1>4, <1>5 DEF IsInjective
  <1>. QED
    BY <1>5, <1>6

(* Unless the sort reports a cycle, a file comes before all the files that *)
(* it imports from (do_kahn_sort starts with the files nobody imports).    *)
THEOREM OrderIsTopological == Spec => []ImportersFirst
  BY Inductive, InvariantOrders, PTL

-----------------------------------------------------------------------------
(* Cycles                                                                  *)

(* A finite set each of whose elements has a predecessor in it has a part  *)
(* each of whose elements has a successor in it: its smallest such part.   *)
LEMMA TurnAround ==
  ASSUME NEW S, IsFiniteSet(S), S # {}, NEW R,
         \A f \in S : \E g \in S : <<g, f>> \in R
  PROVE  \E U \in (SUBSET S) \ {{}} : \A f \in U : \E g \in U : <<f, g>> \in R
  <1> DEFINE Entered(U) == U # {} /\ \A f \in U : \E g \in U : <<g, f>> \in R
             T == {U \in SUBSET S : Entered(U)}
  <1>1. T \subseteq FiniteSubsetsOf(S)
    BY FS_Subset DEF FiniteSubsetsOf
  <1>2. S \in T
    OBVIOUS
  <1>3. IsWellFoundedOn(StrictSubsetOrdering(S), FiniteSubsetsOf(S))
    BY FS_StrictSubsetOrderingWellFounded
  <1>4. PICK U \in T : \A V \in T : <<V, U>> \notin StrictSubsetOrdering(S)
    <2> HIDE DEF T
    <2>. QED
      BY <1>1, <1>2, <1>3, WFMin
  <1>5. \A V \in T : V \subseteq U => V = U
    BY <1>4 DEF StrictSubsetOrdering
  <1>6. ASSUME NEW f \in U, \A g \in U : <<f, g>> \notin R
        PROVE  FALSE
    <2>1. U \in SUBSET S /\ \A h \in U : \E g \in U : <<g, h>> \in R
      BY <1>4
    <2>2. \A h \in U \ {f} : \E g \in U \ {f} : <<g, h>> \in R
      BY <1>6, <2>1
    <2>3. U \ {f} # {}
      <3>1. PICK g \in U : <<g, f>> \in R
        BY <2>1
      <3>2. g # f
        BY <1>6, <3>1
      <3>. QED
        BY <3>2
    <2>4. U \ {f} \in T
      BY <2>1, <2>2, <2>3
    <2>5. f \in U /\ U \ {f} \subseteq U /\ U \ {f} # U
      BY <1>6
    <2>. QED
      BY <1>5, <2>4, <2>5
  <1>7. U \in (SUBSET S) \ {{}}
    BY <1>4
  <1>. QED
    BY <1>6, <1>7

(* Files each of which is imported by another of them, or by itself.       *)
Circular(S) == \A f \in S : Importers(f) \intersect S # {}

LEMMA AcyclicHasNoCircle ==
  ASSUME TypeOK
  PROVE  Acyclic <=> \A S \in (SUBSET Files) \ {{}} : ~Circular(S)
  <1> DEFINE R == {e \in Files \X Files : e[2] \in imports[e[1]]}
             Inverse1 == {e \in Files \X Files : e[1] \in imports[e[2]]}
  <1>1. ASSUME NEW S \in (SUBSET Files) \ {{}}, Circular(S)
        PROVE  ~Acyclic
    <2>1. IsFiniteSet(S) /\ \A f \in S : \E g \in S : <<g, f>> \in R
      BY <1>1, FS_Subset, ImportOrderAssumption DEF Circular, Importers
    <2>2. PICK U \in (SUBSET S) \ {{}} : \A f \in U : \E g \in U : <<f, g>> \in R
      <3> HIDE DEF R
      <3>. QED
        BY <2>1, TurnAround
    <2>3. U \in (SUBSET Files) \ {{}} /\ \A f \in U : imports[f] \intersect U # {}
      BY <2>2
    <2>. QED
      BY <2>3 DEF Acyclic
  <1>2. ASSUME NEW S \in (SUBSET Files) \ {{}}, \A f \in S : imports[f] \intersect S # {}
        PROVE  \E U \in (SUBSET Files) \ {{}} : Circular(U)
    <2>1. IsFiniteSet(S) /\ \A f \in S : \E g \in S : <<g, f>> \in Inverse1
      BY <1>2, FS_Subset, ImportOrderAssumption
    <2>2. PICK U \in (SUBSET S) \ {{}} : \A f \in U : \E g \in U : <<f, g>> \in Inverse1
      <3> HIDE DEF Inverse1
      <3>. QED
        BY <2>1, TurnAround
    <2>3. Circular(U)
      BY <2>2 DEF Circular, Importers
    <2>. QED
      BY <2>2, <2>3
  <1>. QED
    BY <1>1, <1>2 DEF Acyclic

(* No file of a circle is ever taken: one of its importers remains.        *)
CirclesRemain == Sorting => \A S \in SUBSET Files : Circular(S) => S \subseteq remaining

CInv == IInv /\ CirclesRemain /\ CyclesReported

LEMMA TakeCycles == CInv /\ Take => CirclesRemain' /\ CyclesReported'
  <1> SUFFICES ASSUME CInv, Take
               PROVE  CirclesRemain' /\ CyclesReported'
    OBVIOUS
  <1> DEFINE file == Head(queue)
  <1>1. Sorting /\ ~Sorted' /\ imports' = imports /\ remaining' = remaining \ {file}
    BY DEF Take, Sorting, Sorted, Removed
  <1>2. file \in Files /\ file \in Range(queue)
    BY <1>1, TailDistinct DEF Take, CInv, IInv, TypeOK, Distinct
  <1>3. Importers(file) \intersect remaining = {}
    <2>1. degree[file] = 0 /\ degree[file] = Cardinality(Importers(file) \intersect remaining)
      BY <1>1, <1>2 DEF CInv, IInv, Bookkeeping
    <2>2. IsFiniteSet(Importers(file) \intersect remaining)
      BY FS_Subset, ImportOrderAssumption DEF Importers
    <2>. QED
      BY <2>1, <2>2, FS_EmptySet
  <1>4. ASSUME NEW S \in SUBSET Files, Circular(S)'
        PROVE  S \subseteq remaining'
    <2>1. Circular(S)
      BY <1>1, <1>4 DEF Circular, Importers
    <2>2. S \subseteq remaining
      BY <1>1, <2>1 DEF CInv, CirclesRemain
    <2>3. file \notin S
      BY <1>3, <2>1, <2>2 DEF Circular
    <2>. QED
      BY <1>1, <2>2, <2>3
  <1>. QED
    BY <1>1, <1>4 DEF CirclesRemain, CyclesReported

(* What is left when the queue is empty is a circle, if anything is left.  *)
LEMMA FinishCycles == CInv /\ Finish => CirclesRemain' /\ CyclesReported'
  <1> SUFFICES ASSUME CInv, Finish
               PROVE  CirclesRemain' /\ CyclesReported'
    OBVIOUS
  <1>1. /\ Sorting /\ ~Sorting' /\ imports' = imports /\ queue = <<>>
        /\ warned' = (remaining # {})
    BY DEF Finish, Sorting, Warn, Drained
  <1>2. TypeOK /\ remaining \in SUBSET Files
    BY DEF CInv, IInv, TypeOK
  <1>3. Circular(remaining)
    <2>1. SUFFICES ASSUME NEW f \in remaining
                   PROVE  Importers(f) \intersect remaining # {}
      BY DEF Circular
    <2>2. f \notin Range(queue) \union Range(result)
      BY <1>1, <2>1 DEF CInv, IInv, Bookkeeping, Range
    <2>3. degree[f] # 0 /\ degree[f] = Cardinality(Importers(f) \intersect remaining)
      BY <1>1, <1>2, <2>2 DEF CInv, IInv, Bookkeeping
    <2>. QED
      BY <2>3, FS_EmptySet
  <1>4. remaining # {} <=> ~Acyclic
    BY <1>1, <1>2, <1>3, AcyclicHasNoCircle DEF CInv, CirclesRemain
  <1>5. Acyclic' <=> Acyclic
    BY <1>1 DEF Acyclic
  <1>. QED
    BY <1>1, <1>4, <1>5 DEF CirclesRemain, CyclesReported

(* The invariant holds initially.                                          *)
LEMMA CyclesInit == Init => CInv
  BY InitInv DEF Init, CInv, CirclesRemain, CyclesReported, Sorted

(* Every step preserves it.                                                *)
LEMMA CyclesStep == CInv /\ [Next]_vars => CInv'
  <1>1. IInv /\ UNCHANGED vars => IInv'
    BY DEF vars, IInv, TypeOK, Distinct, Bookkeeping, ImportersTaken, EachFileOnce, Sorting, Sorted, Importers
  <1>2. CirclesRemain /\ UNCHANGED vars => CirclesRemain'
    <2>1. UNCHANGED vars => \A S : Circular(S)' <=> Circular(S)
      BY DEF vars, Circular, Importers
    <2>. QED
      BY <2>1 DEF vars, CirclesRemain, Sorting
  <1>3. CyclesReported /\ UNCHANGED vars => CyclesReported'
    <2>1. UNCHANGED vars => (Acyclic' <=> Acyclic)
      BY DEF vars, Acyclic
    <2>. QED
      BY <2>1 DEF vars, CyclesReported, Sorted
  <1>. QED
    BY <1>1, <1>2, <1>3, TakeInv, FinishInv, TakeCycles, FinishCycles DEF Next, CInv

(* The warning "Cycle detected in module dependencies" is printed for the  *)
(* graphs with a cycle and for no others (do_kahn_sort).                   *)
THEOREM WarnsOfCycles == Spec => []CyclesReported
  <1>1. CInv => CyclesReported
    BY DEF CInv
  <1>. QED
    BY <1>1, CyclesInit, CyclesStep, PTL DEF Spec
-----------------------------------------------------------------------------
(* The sort ends *)

(* Every step of do_kahn_sort takes one of the files that remain, which is *)
(* then no longer there to be taken, or ends the sort: whatever the        *)
(* cycles, at most one step more than there are files.                     *)
THEOREM SortAdvances ==
  Spec => /\ [](Cardinality(remaining) \in Nat)
          /\ [][Sorted' \/ Cardinality(remaining') = Cardinality(remaining) - 1]_vars
  <1>1. ASSUME IInv
        PROVE  IsFiniteSet(remaining) /\ Cardinality(remaining) \in Nat
    BY <1>1, ImportOrderAssumption, FS_Subset, FS_CardinalityType DEF IInv, TypeOK
  <1>2. ASSUME IInv, Take
        PROVE  Cardinality(remaining') = Cardinality(remaining) - 1
    <2>1. Sorting /\ queue # <<>> /\ remaining' = remaining \ {Head(queue)}
      BY <1>2 DEF Take, Removed, Sorting
    <2>2. Head(queue) \in Range(queue) /\ Head(queue) \in Files
      BY <1>2, <2>1, TailDistinct DEF IInv, TypeOK, Distinct
    <2>3. Head(queue) \in remaining
      BY <1>2, <2>1, <2>2 DEF IInv, Distinct, Bookkeeping
    <2>. QED
      BY <1>1, <1>2, <2>1, <2>3, FS_RemoveElement
  <1>3. Finish => Sorted'
    BY DEF Finish, Sorted
  <1>4. IInv /\ [Next]_vars => [Sorted' \/ Cardinality(remaining') = Cardinality(remaining) - 1]_vars
    BY <1>2, <1>3 DEF Next
  <1>. QED
    BY Inductive, <1>1, <1>4, PTL DEF Spec
=============================================================================
