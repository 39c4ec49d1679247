----------------------------- MODULE DataLemmas -----------------------------
(***************************************************************************)
(* Facts about numbers, sequences and folds that the proofs about the      *)
(* components rest on, for any data.                                       *)
(***************************************************************************)
EXTENDS Integers, SequencesExt, FiniteSetTheorems, SequenceTheorems,
        NaturalsInduction, TLAPS

-----------------------------------------------------------------------------
(* Numbers *)

(* A set of numbers that has 0 and with every number the next one has them *)
(* all.                                                                    *)
LEMMA EveryNumber ==
    ASSUME NEW S \in SUBSET Nat, 0 \in S, \A k \in S : k + 1 \in S
    PROVE  \A k \in Nat : k \in S
<1> DEFINE Missing == Nat \ S
           Less == {x \in Nat \X Nat : x[1] < x[2]}
<1>1. IsWellFoundedOn(Less, Nat)
  BY NatLessThanWellFounded DEF OpToRel
<1> SUFFICES ASSUME Missing # {}
             PROVE  FALSE
  OBVIOUS
<1>2. Missing \subseteq Nat
  OBVIOUS
<1> HIDE DEF Missing, Less
<1>3. PICK k \in Missing : \A j \in Missing : ~(<<j, k>> \in Less)
  BY <1>1, <1>2, WFMin
<1>4. k \in Nat /\ k # 0
  BY <1>3 DEF Missing
<1>5. k - 1 \in Nat /\ <<k - 1, k>> \in Less
  BY <1>4 DEF Less
<1>6. k - 1 \in S
  BY <1>3, <1>5 DEF Missing
<1>7. (k - 1) + 1 = k
  BY <1>4
<1> QED  BY <1>3, <1>6, <1>7 DEF Missing

(* A set of numbers up to n that is not empty has a largest one. *)
LEMMA MaxOfBounded ==
    ASSUME NEW n \in Nat, NEW T \in SUBSET (1 .. n), T # {}
    PROVE  Max(T) \in T /\ \A y \in T : y <= Max(T)
<1> DEFINE S == {k \in Nat : \A V \in SUBSET (1 .. k) : V # {} =>
                              \E x \in V : \A y \in V : x >= y}
<1>1. 0 \in S
  <2> SUFFICES ASSUME NEW V \in SUBSET (1 .. 0), V # {}
               PROVE  FALSE
    OBVIOUS
  <2>1. PICK x \in V : x \in 1 .. 0
    OBVIOUS
  <2> QED  BY <2>1
<1>2. ASSUME NEW k \in S
      PROVE  k + 1 \in S
  <2> SUFFICES ASSUME NEW V \in SUBSET (1 .. k + 1), V # {}
               PROVE  \E x \in V : \A y \in V : x >= y
    OBVIOUS
  <2>1. CASE k + 1 \in V
    <3>1. \A y \in V : k + 1 >= y
      OBVIOUS
    <3> QED  BY <2>1, <3>1
  <2>2. CASE k + 1 \notin V
    <3>1. V \in SUBSET (1 .. k)
      BY <2>2
    <3> QED  BY <3>1
  <2> QED  BY <2>1, <2>2
<1>3. S \in SUBSET Nat
  OBVIOUS
<1>4. n \in S
  <2> HIDE DEF S
  <2> QED  BY <1>1, <1>2, <1>3, EveryNumber
<1>5. \E x \in T : \A y \in T : x >= y
  BY <1>4
<1>6. Max(T) \in T /\ \A y \in T : Max(T) >= y
  BY <1>5 DEF Max
<1> HIDE DEF S
<1> DEFINE m == Max(T)
<1>7. m \in T /\ \A y \in T : m >= y
  BY <1>6
<1> HIDE DEF m
<1>8. ASSUME NEW y \in T
      PROVE  y <= m
  <2>1. y \in 1 .. n /\ m \in 1 .. n /\ m >= y
    BY <1>7
  <2> QED  BY <2>1
<1> QED  BY <1>7, <1>8 DEF m

(* Min of a set of numbers that is not empty. *)
LEMMA MinOfNumbers ==
    ASSUME NEW T \in SUBSET Nat, T # {}
    PROVE  Min(T) \in T /\ \A y \in T : Min(T) <= y
<1> DEFINE Less == {x \in Nat \X Nat : x[1] < x[2]}
<1>1. IsWellFoundedOn(Less, Nat)
  BY NatLessThanWellFounded DEF OpToRel
<1> HIDE DEF Less
<1>2. PICK k \in T : \A j \in T : ~(<<j, k>> \in Less)
  BY <1>1, WFMin
<1>3. ASSUME NEW j \in T
      PROVE  k <= j
  <2>1. j \in Nat /\ k \in Nat /\ ~(<<j, k>> \in Less)
    BY <1>2
  <2> QED  BY <2>1 DEF Less
<1> QED  BY <1>3 DEF Min

-----------------------------------------------------------------------------
(* Folds: FoldLeft over a sequence of length n is defined by recursion over *)
(* the subsets of 1 .. n, with the last position taken away first.          *)

IsStep(step, A, n) == step \in [A \X (1 .. n) -> A]
IsFold(f, A, b, n, step) ==
    /\ f \in [SUBSET (1 .. n) -> A]
    /\ \A T \in SUBSET (1 .. n) :
           f[T] = IF T = {} THEN b ELSE step[<<f[T \ {Max(T)}], Max(T)>>]
(* Its values on the first positions, one after the other. *)
ArePrefixes(g, A, b, n, step, last) ==
    /\ g \in [0 .. n -> A]
    /\ g[0] = b /\ g[n] = last
    /\ \A k \in 1 .. n : g[k] = step[<<g[k - 1], k>>]

(* There is such a function. *)
LEMMA FoldExists ==
    ASSUME NEW A, NEW b \in A, NEW n \in Nat, NEW step, IsStep(step, A, n)
    PROVE  \E f : IsFold(f, A, b, n, step)
<1> USE DEF IsStep
<1> DEFINE Fold(f, k) ==
               \A T \in SUBSET (1 .. k) :
                   f[T] = IF T = {} THEN b ELSE step[<<f[T \ {Max(T)}], Max(T)>>]
           S == {k \in Nat : k <= n => \E f \in [SUBSET (1 .. k) -> A] : Fold(f, k)}
<1>1. 0 \in S
  <2> DEFINE f == [T \in SUBSET (1 .. 0) |-> b]
  <2>1. f \in [SUBSET (1 .. 0) -> A] /\ Fold(f, 0)
    OBVIOUS
  <2> QED  BY <2>1
<1>2. ASSUME NEW k \in S
      PROVE  k + 1 \in S
  <2>0. k \in Nat /\ k + 1 \in Nat
    OBVIOUS
  <2> DEFINE Found(j) == \E f \in [SUBSET (1 .. j) -> A] : Fold(f, j)
  <2> SUFFICES ASSUME k + 1 <= n
               PROVE  Found(k + 1)
    <3> HIDE DEF Found
    <3>1. S = {j \in Nat : j <= n => Found(j)}
      BY DEF Found
    <3> HIDE DEF S
    <3> QED  BY <2>0, <3>1
  <2>1. k \in Nat /\ k <= n /\ k + 1 \in 1 .. n
    BY <2>0
  <2>2. PICK f \in [SUBSET (1 .. k) -> A] : Fold(f, k)
    BY <2>1
  <2> HIDE DEF Fold, S
  <2> DEFINE g == [T \in SUBSET (1 .. k + 1) |->
                     IF k + 1 \in T THEN step[<<f[T \ {k + 1}], k + 1>>] ELSE f[T]]
  <2>3. ASSUME NEW T \in SUBSET (1 .. k + 1)
        PROVE  /\ T \ {k + 1} \in SUBSET (1 .. k)
               /\ k + 1 \notin T => T \in SUBSET (1 .. k)
               /\ k + 1 \in T => T # {} /\ Max(T) = k + 1
    <3>1. T \ {k + 1} \in SUBSET (1 .. k) /\ (k + 1 \notin T => T \in SUBSET (1 .. k))
      BY <2>1
    <3>2. ASSUME k + 1 \in T
          PROVE  T # {} /\ Max(T) = k + 1
      <4>1. k + 1 \in Nat /\ T # {}
        BY <2>1, <3>2
      <4>2. Max(T) \in T /\ \A y \in T : y <= Max(T)
        BY <4>1, MaxOfBounded
      <4>3. Max(T) \in 1 .. k + 1 /\ k + 1 <= Max(T)
        BY <4>2, <3>2
      <4> QED  BY <4>1, <4>3, <2>1
    <3> QED  BY <3>1, <3>2
  <2>4. ASSUME NEW T \in SUBSET (1 .. k + 1)
        PROVE  g[T] \in A
    <3>1. CASE k + 1 \in T
      <4>1. f[T \ {k + 1}] \in A /\ k + 1 \in 1 .. n
        BY <2>1, <2>2, <2>3
      <4> QED  BY <3>1, <4>1
    <3>2. CASE k + 1 \notin T
      BY <3>2, <2>2, <2>3
    <3> QED  BY <3>1, <3>2
  <2>5. g \in [SUBSET (1 .. k + 1) -> A]
    BY <2>4
  <2>6. ASSUME NEW T \in SUBSET (1 .. k + 1)
        PROVE  g[T] = IF T = {} THEN b ELSE step[<<g[T \ {Max(T)}], Max(T)>>]
    <3>1. CASE k + 1 \in T
      <4>1. T \ {k + 1} \in SUBSET (1 .. k + 1) /\ k + 1 \notin T \ {k + 1}
        OBVIOUS
      <4>2. g[T \ {k + 1}] = f[T \ {k + 1}]
        BY <4>1
      <4>3. g[T] = step[<<f[T \ {k + 1}], k + 1>>]
        BY <3>1
      <4> QED  BY <3>1, <4>2, <4>3, <2>3
    <3>2. CASE k + 1 \notin T /\ T # {}
      <4>1. T \in SUBSET (1 .. k) /\ Max(T) \in T
        BY <3>2, <2>1, <2>3, MaxOfBounded
      <4>2. T \ {Max(T)} \in SUBSET (1 .. k + 1) /\ k + 1 \notin T \ {Max(T)}
        BY <3>2
      <4>3. g[T] = f[T] /\ g[T \ {Max(T)}] = f[T \ {Max(T)}]
        BY <3>2, <4>2
      <4> QED  BY <3>2, <4>1, <4>3, <2>2 DEF Fold
    <3>3. CASE T = {}
      <4>1. T \in SUBSET (1 .. k) /\ g[T] = f[T]
        BY <3>3
      <4> QED  BY <3>3, <4>1, <2>2 DEF Fold
    <3> QED  BY <3>1, <3>2, <3>3
  <2> HIDE DEF g
  <2>7. Fold(g, k + 1)
    BY <2>6 DEF Fold
  <2> QED  BY <2>5, <2>7
<1>3. S \in SUBSET Nat
  OBVIOUS
<1>4. n \in S
  <2> HIDE DEF S
  <2> QED  BY <1>1, <1>2, <1>3, EveryNumber
<1>5. n <= n
  OBVIOUS
<1>6. \E f \in [SUBSET (1 .. n) -> A] : Fold(f, n)
  <2> HIDE DEF Fold
  <2> QED  BY <1>4, <1>5
<1> QED  BY <1>6 DEF IsFold

LEMMA FoldPrefixes ==
    ASSUME NEW A, NEW b \in A, NEW n \in Nat, NEW step, IsStep(step, A, n),
           NEW f, f[{}] = b,
           \A k \in 1 .. n : f[1 .. k - 1] \in A => f[1 .. k] = step[<<f[1 .. k - 1], k>>]
    PROVE  \E g : ArePrefixes(g, A, b, n, step, f[1 .. n])
<1> USE DEF IsStep
<1> DEFINE S == {k \in Nat : k <= n => f[1 .. k] \in A}
           g == [k \in 0 .. n |-> f[1 .. k]]
<1>0. 1 .. 0 = {}
  OBVIOUS
<1>1. 0 \in S
  BY <1>0
<1>2. ASSUME NEW k \in S
      PROVE  k + 1 \in S
  <2> SUFFICES ASSUME k + 1 <= n
               PROVE  f[1 .. k + 1] \in A
    OBVIOUS
  <2>1. k + 1 \in 1 .. n /\ (k + 1) - 1 = k /\ f[1 .. k] \in A
    OBVIOUS
  <2>2. f[1 .. k + 1] = step[<<f[1 .. k], k + 1>>]
    BY <2>1
  <2> QED  BY <2>1, <2>2
<1>3. S \in SUBSET Nat
  OBVIOUS
<1>4. \A k \in Nat : k \in S
  <2> HIDE DEF S
  <2> QED  BY <1>1, <1>2, <1>3, EveryNumber
<1>5. \A k \in 0 .. n : f[1 .. k] \in A
  BY <1>4
<1> HIDE DEF S
<1>6. g \in [0 .. n -> A]
  BY <1>5
<1>7. \A k \in 1 .. n : g[k] = step[<<g[k - 1], k>>]
  BY <1>5
<1>8. g[0] = b /\ g[n] = f[1 .. n]
  BY <1>0
<1> QED  BY <1>6, <1>7, <1>8 DEF ArePrefixes

(* The same from the equation of the recursion itself. *)
LEMMA FoldSteps ==
    ASSUME NEW A, NEW b \in A, NEW n \in Nat, NEW step, IsStep(step, A, n),
           NEW it, it[{}] = b,
           \A T \in SUBSET (1 .. n) : T # {} /\ it[T \ {Max(T)}] \in A =>
               it[T] = step[<<it[T \ {Max(T)}], Max(T)>>]
    PROVE  \E g : ArePrefixes(g, A, b, n, step, it[1 .. n])
<1>1. ASSUME NEW k \in 1 .. n, it[1 .. k - 1] \in A
      PROVE  it[1 .. k] = step[<<it[1 .. k - 1], k>>]
  <2>1. 1 .. k \in SUBSET (1 .. n) /\ 1 .. k # {} /\ k \in 1 .. k /\ k \in Nat
    <3>1. k \in Nat /\ k \in 1 .. k /\ \A i \in 1 .. k : i \in 1 .. n
      OBVIOUS
    <3> QED  BY <3>1
  <2>2. Max(1 .. k) \in 1 .. k /\ \A y \in 1 .. k : y <= Max(1 .. k)
    BY <2>1, MaxOfBounded
  <2>3. Max(1 .. k) = k
    <3>1. Max(1 .. k) \in 1 .. k /\ k <= Max(1 .. k)
      BY <2>1, <2>2
    <3> QED  BY <3>1, <2>1
  <2>4. (1 .. k) \ {k} = 1 .. k - 1
    BY <2>1
  <2> QED  BY <1>1, <2>1, <2>3, <2>4
<1> QED  BY <1>1, FoldPrefixes

-----------------------------------------------------------------------------
(* Sequences *)

LEMMA FunctionIsSeq ==
    ASSUME NEW S, NEW n \in Nat, NEW f \in [1 .. n -> S]
    PROVE  f \in Seq(S) /\ Len(f) = n
  OBVIOUS

LEMMA RemoveAtProperties ==
    ASSUME NEW S, NEW s \in Seq(S), NEW i \in 1 .. Len(s)
    PROVE  /\ RemoveAt(s, i) \in Seq(S)
           /\ Len(RemoveAt(s, i)) = Len(s) - 1
           /\ \A j \in 1 .. Len(s) - 1 :
                  RemoveAt(s, i)[j] = IF j < i THEN s[j] ELSE s[j + 1]
<1> DEFINE n == Len(s)
           before == SubSeq(s, 1, i - 1)
           after == SubSeq(s, i + 1, n)
<1>1. n \in Nat /\ i \in 1 .. n /\ \A j \in 1 .. n : s[j] \in S
  BY LenProperties
<1>2. RemoveAt(s, i) = before \o after
  BY DEF RemoveAt
<1> HIDE DEF n
<1>3. /\ before \in Seq(S) /\ Len(before) = i - 1
      /\ \A j \in 1 .. i - 1 : before[j] = s[j]
  <2>1. 1 \in Int /\ i - 1 \in Int /\ \A j \in 1 .. i - 1 : s[j] \in S
    BY <1>1
  <2>2. /\ before \in Seq(S)
        /\ Len(before) = IF 1 <= i - 1 THEN (i - 1) - 1 + 1 ELSE 0
        /\ \A j \in 1 .. (i - 1) - 1 + 1 : before[j] = s[1 + j - 1]
    BY <2>1, SubSeqProperties
  <2> QED  BY <2>2, <1>1
<1>4. /\ after \in Seq(S) /\ Len(after) = n - i
      /\ \A j \in 1 .. n - i : after[j] = s[i + j]
  <2>1. i + 1 \in Int /\ n \in Int /\ \A j \in i + 1 .. n : s[j] \in S
    BY <1>1
  <2>2. /\ after \in Seq(S)
        /\ Len(after) = IF i + 1 <= n THEN n - (i + 1) + 1 ELSE 0
        /\ \A j \in 1 .. n - (i + 1) + 1 : after[j] = s[(i + 1) + j - 1]
    BY <2>1, SubSeqProperties
  <2>3. n - (i + 1) + 1 = n - i /\ \A j \in Int : (i + 1) + j - 1 = i + j
    BY <1>1
  <2> QED  BY <2>2, <2>3, <1>1
<1> HIDE DEF before, after
<1>5. /\ before \o after \in Seq(S)
      /\ Len(before \o after) = (i - 1) + (n - i)
      /\ \A j \in 1 .. (i - 1) + (n - i) :
             (before \o after)[j] = IF j <= i - 1 THEN before[j] ELSE after[j - (i - 1)]
  <2>1. /\ before \o after \in Seq(S)
        /\ Len(before \o after) = Len(before) + Len(after)
        /\ \A j \in 1 .. Len(before) + Len(after) :
               (before \o after)[j] = IF j <= Len(before) THEN before[j]
                                      ELSE after[j - Len(before)]
    BY <1>3, <1>4, ConcatProperties
  <2>2. Len(before) = i - 1 /\ Len(after) = n - i
    BY <1>3, <1>4
  <2> QED  BY <2>1, <2>2
<1>6. ASSUME NEW j \in 1 .. n - 1
      PROVE  (before \o after)[j] = IF j < i THEN s[j] ELSE s[j + 1]
  <2>1. j \in 1 .. (i - 1) + (n - i)
    BY <1>1
  <2>2. CASE j < i
    BY <2>1, <2>2, <1>1, <1>3, <1>5
  <2>3. CASE ~(j < i)
    <3>1. j - (i - 1) \in 1 .. n - i /\ i + (j - (i - 1)) = j + 1 /\ ~(j <= i - 1)
      BY <2>3, <1>1
    <3>2. after[j - (i - 1)] = s[j + 1]
      BY <3>1, <1>4
    <3> QED  BY <2>1, <2>3, <3>1, <3>2, <1>5
  <2> QED  BY <2>2, <2>3
<1>7. (i - 1) + (n - i) = n - 1
  BY <1>1
<1> QED  BY <1>2, <1>5, <1>6, <1>7 DEF n
-----------------------------------------------------------------------------
(* The numbers of a set in their order, and a set as a sequence *)

IsOrder(order, S) ==
    /\ order \in [1 .. Cardinality(S) -> S]
    /\ \A i, j \in 1 .. Cardinality(S) : i < j => order[i] < order[j]

LEMMA OrderExists ==
    ASSUME NEW n \in Nat, NEW S \in SUBSET (1 .. n)
    PROVE  /\ IsFiniteSet(S) /\ Cardinality(S) \in Nat
           /\ \E order : IsOrder(order, S)
<1> DEFINE Ordered(k) == \A T \in SUBSET (1 .. k) : \E order : IsOrder(order, T)
           K == {k \in Nat : Ordered(k)}
<1>0. ASSUME NEW k \in Nat, NEW T \in SUBSET (1 .. k)
      PROVE  IsFiniteSet(T) /\ Cardinality(T) \in Nat
  <2>1. IsFiniteSet(1 .. k)
    BY FS_Interval
  <2> QED  BY <2>1, FS_Subset, FS_CardinalityType
<1>1. 0 \in K
  <2> SUFFICES ASSUME NEW T \in SUBSET (1 .. 0)
               PROVE  \E order : IsOrder(order, T)
    OBVIOUS
  <2>1. T = {}
    OBVIOUS
  <2> HIDE DEF K
  <2>2. Cardinality(T) = 0
    BY <2>1, FS_EmptySet
  <2>3. IsOrder([i \in 1 .. 0 |-> 0], T)
    BY <2>2 DEF IsOrder
  <2> QED  BY <2>3
<1>2. ASSUME NEW k \in K
      PROVE  k + 1 \in K
  <2>0. k \in Nat /\ k + 1 \in Nat /\ Ordered(k)
    OBVIOUS
  <2> HIDE DEF K
  <2> SUFFICES ASSUME NEW T \in SUBSET (1 .. k + 1)
               PROVE  \E order : IsOrder(order, T)
    <3>1. Ordered(k + 1)
      OBVIOUS
    <3> HIDE DEF Ordered
    <3> QED  BY <2>0, <3>1 DEF K
  <2>1. CASE k + 1 \notin T
    <3>1. T \in SUBSET (1 .. k)
      BY <2>0, <2>1
    <3> QED  BY <2>0, <3>1
  <2>2. CASE k + 1 \in T
    <3> DEFINE U == T \ {k + 1}
               m == Cardinality(U)
    <3>1. U \in SUBSET (1 .. k)
      BY <2>0
    <3>2. IsFiniteSet(U) /\ m \in Nat
      BY <2>0, <3>1, <1>0
    <3>3. T = U \cup {k + 1} /\ k + 1 \notin U
      BY <2>2
    <3>4. Cardinality(U \cup {k + 1}) = m + 1
      BY <3>2, <3>3, FS_AddElement
    <3>5. PICK o : IsOrder(o, U)
      BY <2>0, <3>1
    <3> HIDE DEF U, m, Ordered
    <3> DEFINE new == [i \in 1 .. m + 1 |-> IF i = m + 1 THEN k + 1 ELSE o[i]]
    <3>6. o \in [1 .. m -> U] /\ \A i, j \in 1 .. m : i < j => o[i] < o[j]
      BY <3>5 DEF IsOrder, m
    <3>7. ASSUME NEW i \in 1 .. m + 1
          PROVE  /\ i # m + 1 => i \in 1 .. m /\ new[i] = o[i] /\ o[i] \in 1 .. k
                 /\ i = m + 1 => new[i] = k + 1
                 /\ new[i] \in T
      BY <3>1, <3>2, <3>3, <3>6
    <3> HIDE DEF new
    <3>8. ASSUME NEW i \in 1 .. m + 1, NEW j \in 1 .. m + 1, i < j
          PROVE  new[i] < new[j]
      <4>1. i \in 1 .. m /\ new[i] = o[i] /\ o[i] \in 1 .. k
        BY <3>2, <3>7, <3>8
      <4>2. CASE j = m + 1
        <5>1. new[j] = k + 1
          BY <3>7, <4>2
        <5> QED  BY <2>0, <4>1, <5>1
      <4>3. CASE j # m + 1
        <5>1. j \in 1 .. m /\ new[j] = o[j]
          BY <3>7, <4>3
        <5> QED  BY <3>6, <3>8, <4>1, <5>1
      <4> QED  BY <4>2, <4>3
    <3>9. new \in [1 .. m + 1 -> T]
      BY <3>7 DEF new
    <3>10. Cardinality(T) = m + 1
      BY <3>3, <3>4
    <3> QED  BY <3>8, <3>9, <3>10 DEF IsOrder
  <2> QED  BY <2>1, <2>2
<1>3. K \in SUBSET Nat
  OBVIOUS
<1>4. n \in K
  <2> HIDE DEF K
  <2> QED  BY <1>1, <1>2, <1>3, EveryNumber
<1> QED  BY <1>0, <1>4

LEMMA SetToSeqProperties ==
    ASSUME NEW S, IsFiniteSet(S)
    PROVE  /\ SetToSeq(S) \in Seq(S)
           /\ Len(SetToSeq(S)) = Cardinality(S)
           /\ Cardinality(S) \in Nat
           /\ \A i, j \in 1 .. Cardinality(S) :
                  SetToSeq(S)[i] = SetToSeq(S)[j] => i = j
           /\ \A x \in S : \E i \in 1 .. Cardinality(S) : SetToSeq(S)[i] = x
<1> DEFINE n == Cardinality(S)
           Inj(f) == \A a, b \in DOMAIN f : f[a] = f[b] => a = b
<1>1. n \in Nat /\ ExistsBijection(1 .. n, S)
  BY FS_CardinalityType
<1>2. \E f \in [1 .. n -> S] : IsInjective(f)
  <2>1. PICK f : f \in Bijection(1 .. n, S)
    BY <1>1 DEF ExistsBijection
  <2>2. f \in [1 .. n -> S] /\ IsInjective(f)
    BY <2>1 DEF Bijection, Injection
  <2> QED  BY <2>2
<1> DEFINE s == SetToSeq(S)
<1>3. s \in [1 .. n -> S] /\ IsInjective(s)
  BY <1>2 DEF SetToSeq
<1>4. IsFiniteSet(1 .. n) /\ Cardinality(1 .. n) = n
  BY <1>1, FS_Interval
<1> HIDE DEF s
<1>5. s \in Injection(1 .. n, S)
  BY <1>3 DEF Injection
<1>6. s \in Surjection(1 .. n, S)
  BY <1>4, <1>5, FS_Injection
<1>7. \A x \in S : \E i \in 1 .. n : s[i] = x
  BY <1>6 DEF Surjection
<1>8. \A i, j \in 1 .. n : s[i] = s[j] => i = j
  BY <1>3 DEF IsInjective
<1>9. s \in Seq(S) /\ Len(s) = n
  BY <1>1, <1>3, FunctionIsSeq
<1> QED  BY <1>1, <1>7, <1>8, <1>9 DEF s

-----------------------------------------------------------------------------
(* How many elements of a sequence are in a set *)

Hits(s, H) == {i \in 1 .. Len(s) : s[i] \in H}
HitsOf(s, H) == Cardinality(Hits(s, H))

LEMMA HitsFinite ==
    ASSUME NEW S, NEW s \in Seq(S), NEW H
    PROVE  /\ IsFiniteSet(Hits(s, H)) /\ HitsOf(s, H) \in Nat
           /\ HitsOf(s, H) = 0 <=> Hits(s, H) = {}
<1>1. Len(s) \in Nat /\ Hits(s, H) \in SUBSET (1 .. Len(s))
  BY LenProperties DEF Hits
<1>2. IsFiniteSet(1 .. Len(s))
  BY <1>1, FS_Interval
<1>3. IsFiniteSet(Hits(s, H))
  BY <1>1, <1>2, FS_Subset
<1> QED  BY <1>3, FS_CardinalityType, FS_EmptySet DEF HitsOf

LEMMA Shifted ==
    ASSUME NEW A \in SUBSET Int, IsFiniteSet(A), NEW k \in Int
    PROVE  /\ IsFiniteSet({k + j : j \in A})
           /\ Cardinality({k + j : j \in A}) = Cardinality(A)
<1> DEFINE f == [j \in A |-> k + j]
           B == {k + j : j \in A}
<1>1. f \in [A -> B]
  OBVIOUS
<1>2. \A i, j \in A : f[i] = f[j] => i = j
  OBVIOUS
<1>3. \A x \in B : \E j \in A : f[j] = x
  OBVIOUS
<1> HIDE DEF f
<1>4. f \in Bijection(A, B)
  BY <1>1, <1>2, <1>3 DEF Bijection, Injection, Surjection, IsInjective
<1> HIDE DEF B
<1>5. ExistsBijection(A, B)
  BY <1>4 DEF ExistsBijection
<1>6. IsFiniteSet(B) /\ Cardinality(B) = Cardinality(A)
  BY <1>5, FS_Bijection
<1> QED  BY <1>6 DEF B

LEMMA HitsOfEmpty ==
    ASSUME NEW H
    PROVE  Hits(<<>>, H) = {} /\ HitsOf(<<>>, H) = 0
<1>1. Hits(<<>>, H) = {}
  BY DEF Hits
<1> QED  BY <1>1, FS_EmptySet DEF HitsOf

LEMMA HitsOfAppend ==
    ASSUME NEW S, NEW s \in Seq(S), NEW e \in S, NEW H
    PROVE  HitsOf(Append(s, e), H) = HitsOf(s, H) + (IF e \in H THEN 1 ELSE 0)
<1> DEFINE n == Len(s)
<1>1. /\ n \in Nat /\ Len(Append(s, e)) = n + 1 /\ Append(s, e)[n + 1] = e
      /\ \A i \in 1 .. n : Append(s, e)[i] = s[i]
  BY LenProperties, AppendProperties
<1>2. IsFiniteSet(Hits(s, H)) /\ HitsOf(s, H) \in Nat
  BY HitsFinite
<1>3. n + 1 \notin Hits(s, H)
  BY <1>1 DEF Hits
<1>4. CASE e \in H
  <2>1. Hits(Append(s, e), H) = Hits(s, H) \cup {n + 1}
    BY <1>1, <1>4 DEF Hits
  <2> QED  BY <1>2, <1>3, <1>4, <2>1, FS_AddElement DEF HitsOf
<1>5. CASE e \notin H
  <2>1. Hits(Append(s, e), H) = Hits(s, H)
    BY <1>1, <1>5 DEF Hits
  <2> QED  BY <1>2, <1>5, <2>1 DEF HitsOf
<1> QED  BY <1>4, <1>5

LEMMA HitsOfTail ==
    ASSUME NEW S, NEW s \in Seq(S), s # <<>>, NEW H
    PROVE  HitsOf(Tail(s), H) = HitsOf(s, H) - (IF Head(s) \in H THEN 1 ELSE 0)
<1> DEFINE n == Len(s)
           later == {1 + j : j \in Hits(Tail(s), H)}
<1>1. /\ n \in Nat /\ n >= 1 /\ Tail(s) \in Seq(S) /\ Len(Tail(s)) = n - 1
      /\ Head(s) = s[1] /\ \A j \in 1 .. n - 1 : Tail(s)[j] = s[1 + j]
  <2>1. n \in Nat /\ n # 0
    BY LenProperties, EmptySeq
  <2>2. Head(s) = s[1]
    BY HeadTailProperties
  <2>3. Tail(s) \in Seq(S) /\ Len(Tail(s)) = n - 1 /\ \A j \in 1 .. n - 1 : Tail(s)[j] = s[j + 1]
    BY HeadTailProperties
  <2> QED  BY <2>1, <2>2, <2>3
<1> HIDE DEF n
<1>2. /\ IsFiniteSet(Hits(Tail(s), H)) /\ HitsOf(Tail(s), H) \in Nat
      /\ Hits(Tail(s), H) \in SUBSET Int
  <2>1. Tail(s) \in Seq(S)
    BY <1>1
  <2>2. IsFiniteSet(Hits(Tail(s), H)) /\ HitsOf(Tail(s), H) \in Nat
    BY <2>1, HitsFinite
  <2>3. Hits(Tail(s), H) \subseteq 1 .. n - 1
    BY <1>1 DEF Hits
  <2> QED  BY ONLY <1>1, <2>2, <2>3
<1>3. IsFiniteSet(later) /\ Cardinality(later) = HitsOf(Tail(s), H)
  <2>1. 1 \in Int
    OBVIOUS
  <2> HIDE DEF later
  <2>2. later = {1 + j : j \in Hits(Tail(s), H)}
    BY DEF later
  <2> QED  BY <1>2, <2>1, <2>2, Shifted DEF HitsOf
<1>4. 1 \notin later
  BY <1>2 DEF Hits
<1>5. ASSUME NEW i \in 1 .. n, i # 1
      PROVE  i \in later <=> s[i] \in H
  <2>1. i - 1 \in 1 .. n - 1 /\ 1 + (i - 1) = i
    BY <1>1, <1>5
  <2>2. Tail(s)[i - 1] = s[i]
    BY <1>1, <2>1
  <2>3. i \in later <=> i - 1 \in Hits(Tail(s), H)
    BY <1>2, <2>1
  <2> QED  BY <1>1, <2>1, <2>2, <2>3 DEF Hits
<1>6. later \subseteq 2 .. n
  BY <1>1 DEF Hits
<1> HIDE DEF later
<1>7. CASE Head(s) \in H
  <2>1. Hits(s, H) = later \cup {1}
    <3>1. \A i \in 1 .. n : i \in Hits(s, H) <=> i \in later \cup {1}
      BY <1>1, <1>5, <1>7, <1>4 DEF Hits, n
    <3>2. Hits(s, H) \subseteq 1 .. n
      BY DEF Hits, n
    <3>3. later \cup {1} \subseteq 1 .. n
      BY <1>1, <1>6
    <3> QED  BY <3>1, <3>2, <3>3
  <2>2. Cardinality(later \cup {1}) = Cardinality(later) + 1
    BY <1>3, <1>4, FS_AddElement
  <2> QED  BY <1>2, <1>3, <1>7, <2>1, <2>2 DEF HitsOf
<1>8. CASE Head(s) \notin H
  <2>1. Hits(s, H) = later
    <3>1. \A i \in 1 .. n : i \in Hits(s, H) <=> i \in later
      BY <1>1, <1>5, <1>8, <1>4 DEF Hits, n
    <3>2. Hits(s, H) \subseteq 1 .. n
      BY DEF Hits, n
    <3>3. later \subseteq 1 .. n
      BY <1>1, <1>6
    <3> QED  BY <3>1, <3>2, <3>3
  <2> QED  BY <1>2, <1>3, <1>8, <2>1 DEF HitsOf
<1> QED  BY <1>7, <1>8

LEMMA HitsOfConcat ==
    ASSUME NEW S, NEW s \in Seq(S), NEW t \in Seq(S), NEW H
    PROVE  HitsOf(s \o t, H) = HitsOf(s, H) + HitsOf(t, H)
<1> DEFINE n == Len(s)
           m == Len(t)
           later == {n + j : j \in Hits(t, H)}
<1>1. /\ n \in Nat /\ m \in Nat /\ Len(s \o t) = n + m
      /\ \A i \in 1 .. n + m : (s \o t)[i] = IF i <= n THEN s[i] ELSE t[i - n]
  BY LenProperties, ConcatProperties
<1> HIDE DEF n, m
<1>2. /\ IsFiniteSet(Hits(t, H)) /\ HitsOf(t, H) \in Nat
      /\ IsFiniteSet(Hits(s, H)) /\ HitsOf(s, H) \in Nat
      /\ Hits(t, H) \subseteq 1 .. m /\ Hits(s, H) \subseteq 1 .. n
  BY HitsFinite DEF Hits, n, m
<1>3. IsFiniteSet(later) /\ Cardinality(later) = HitsOf(t, H)
  <2>1. Hits(t, H) \in SUBSET Int /\ n \in Int
    BY <1>1, <1>2
  <2> QED  BY <1>2, <2>1, Shifted DEF HitsOf
<1>4. later \subseteq n + 1 .. n + m
  BY <1>1, <1>2
<1>5. ASSUME NEW i \in n + 1 .. n + m
      PROVE  i \in later <=> (s \o t)[i] \in H
  <2>1. i - n \in 1 .. m /\ n + (i - n) = i /\ i \in 1 .. n + m /\ ~(i <= n)
    BY <1>1
  <2>2. (s \o t)[i] = t[i - n]
    BY <1>1, <2>1
  <2>3. i \in later <=> i - n \in Hits(t, H)
    <3>1. \A j \in Hits(t, H) : n + j = i => j = i - n
      <4>1. n \in Nat /\ i \in Int /\ \A j \in Hits(t, H) : j \in 1 .. m
        BY <1>1, <1>2
      <4>2. \A j \in Hits(t, H) : j \in Int
        BY <1>1, <4>1
      <4> QED  BY ONLY <4>1, <4>2
    <3>2. n + (i - n) = i
      BY <2>1
    <3> QED  BY ONLY <3>1, <3>2 DEF later
  <2> QED  BY <2>1, <2>2, <2>3 DEF Hits, m
<1> HIDE DEF later
<1>6. Hits(s \o t, H) = Hits(s, H) \cup later
  <2>1. ASSUME NEW i \in 1 .. n + m
        PROVE  i \in Hits(s \o t, H) <=> i \in Hits(s, H) \cup later
    <3>1. CASE i <= n
      <4>1. i \in 1 .. n /\ i \notin later /\ (s \o t)[i] = s[i]
        BY <1>1, <1>4, <3>1
      <4> QED  BY <1>1, <4>1 DEF Hits, n
    <3>2. CASE ~(i <= n)
      <4>1. i \in n + 1 .. n + m /\ i \notin Hits(s, H)
        BY <1>1, <1>2, <3>2
      <4> QED  BY <1>1, <1>5, <4>1 DEF Hits
    <3> QED  BY <3>1, <3>2
  <2>2. Hits(s \o t, H) \subseteq 1 .. n + m
    BY <1>1 DEF Hits
  <2>3. Hits(s, H) \cup later \subseteq 1 .. n + m
    <3>1. \A i \in 1 .. n : i \in 1 .. n + m
      BY ONLY <1>1
    <3>2. \A i \in n + 1 .. n + m : i \in 1 .. n + m
      BY ONLY <1>1
    <3> QED  BY <1>2, <1>4, <3>1, <3>2
  <2> QED  BY <2>1, <2>2, <2>3
<1>7. Hits(s, H) \cap later = {}
  BY <1>1, <1>2, <1>4
<1>8. Cardinality(Hits(s, H) \cup later) =
          Cardinality(Hits(s, H)) + Cardinality(later) - Cardinality({})
  BY <1>2, <1>3, <1>7, FS_Union
<1>9. Cardinality({}) = 0
  BY FS_EmptySet
<1> QED  BY <1>2, <1>3, <1>6, <1>8, <1>9 DEF HitsOf

(* A set as a sequence has each of its elements once.                      *)
LEMMA HitsOfSet ==
    ASSUME NEW S, IsFiniteSet(S), NEW H, NEW x, S \cap H \subseteq {x}
    PROVE  HitsOf(SetToSeq(S), H) = IF x \in S \cap H THEN 1 ELSE 0
<1> DEFINE s == SetToSeq(S)
<1>1. /\ s \in Seq(S) /\ Len(s) \in Nat
      /\ \A i, j \in 1 .. Len(s) : s[i] = s[j] => i = j
      /\ \A y \in S : \E i \in 1 .. Len(s) : s[i] = y
      /\ \A i \in 1 .. Len(s) : s[i] \in S
  <2>1. s \in Seq(S)
    BY SetToSeqProperties
  <2>2. \A i \in 1 .. Len(s) : s[i] \in S
    BY <2>1, ElementOfSeq
  <2> QED  BY <2>2, SetToSeqProperties
<1> HIDE DEF s
<1>2. CASE x \in S \cap H
  <2>1. PICK k \in 1 .. Len(s) : s[k] = x
    BY <1>1, <1>2
  <2>2. Hits(s, H) = {k}
    <3>1. \A i \in Hits(s, H) : i \in 1 .. Len(s) /\ s[i] = x
      BY <1>1 DEF Hits
    <3>2. \A i \in Hits(s, H) : i = k
      BY <1>1, <2>1, <3>1
    <3>3. k \in Hits(s, H)
      BY <1>2, <2>1 DEF Hits
    <3> QED  BY <3>2, <3>3
  <2> QED  BY <1>2, <2>2, FS_Singleton DEF HitsOf, s
<1>3. CASE x \notin S \cap H
  <2>1. Hits(s, H) = {}
    BY <1>1, <1>3 DEF Hits
  <2> QED  BY <1>3, <2>1, FS_EmptySet DEF HitsOf, s
<1> QED  BY <1>2, <1>3
=============================================================================
