---------------------------- MODULE QueueLemmas ----------------------------
(***************************************************************************)
(* Facts about the queues of the models (backlogs, message queues, tables  *)
(* filled from the front) in terms of the set of what stands in them.      *)
(***************************************************************************)
EXTENDS Integers, Sequences, FiniteSets, SequenceTheorems, FiniteSetTheorems, TLAPS

(* What stands in a queue, and that nothing stands in it twice.            *)
Items(q) == {q[i] : i \in DOMAIN q}
Distinct(q) == \A i, j \in DOMAIN q : q[i] = q[j] => i = j

(* The queue without its i-th element, as msgrcv leaves it.                *)
Removed(q, i) == SubSeq(q, 1, i - 1) \o SubSeq(q, i + 1, Len(q))

(* A queue holds elements of its type and is empty when it holds none.     *)
LEMMA ItemsOf ==
  ASSUME NEW S, NEW q \in Seq(S)
  PROVE  Items(q) \subseteq S /\ (q = <<>> <=> Items(q) = {})
<1>1. DOMAIN q = 1 .. Len(q) /\ Len(q) \in Nat
  BY LenProperties
<1>2. Items(q) \subseteq S
  BY <1>1, ElementOfSeq DEF Items
<1>3. q # <<>> => 1 \in DOMAIN q
  BY <1>1, EmptySeq
<1>4. q = <<>> => DOMAIN q = {}
  BY <1>1, EmptySeq
<1> QED
  BY <1>2, <1>3, <1>4 DEF Items

(* Nothing stands in the empty queue.                                      *)
LEMMA ItemsEmpty == Items(<<>>) = {} /\ Distinct(<<>>)
  BY DOMAIN <<>> = {} DEF Items, Distinct

(* Appending adds one element; a new one keeps the queue distinct.         *)
LEMMA ItemsAppend ==
  ASSUME NEW S, NEW q \in Seq(S), NEW e \in S
  PROVE  /\ Items(Append(q, e)) = Items(q) \cup {e}
         /\ Distinct(q) /\ e \notin Items(q) => Distinct(Append(q, e))
<1>1. /\ DOMAIN q = 1 .. Len(q) /\ Len(q) \in Nat
      /\ DOMAIN Append(q, e) = 1 .. Len(q) + 1
      /\ \A i \in 1 .. Len(q) : Append(q, e)[i] = q[i]
      /\ Append(q, e)[Len(q) + 1] = e
  BY LenProperties, AppendProperties
<1>2. /\ \A i \in DOMAIN Append(q, e) : i \in DOMAIN q \/ i = Len(q) + 1
      /\ \A i \in DOMAIN q : i \in DOMAIN Append(q, e)
      /\ Len(q) + 1 \in DOMAIN Append(q, e)
  BY <1>1
<1>3. Items(Append(q, e)) = Items(q) \cup {e}
  BY <1>1, <1>2 DEF Items
<1>4. ASSUME Distinct(q), e \notin Items(q) PROVE Distinct(Append(q, e))
  BY <1>1, <1>2, <1>4 DEF Items, Distinct
<1> QED
  BY <1>3, <1>4

(* Taking the head removes at most that element, and exactly it when the   *)
(* queue is distinct.                                                      *)
LEMMA ItemsTail ==
  ASSUME NEW S, NEW q \in Seq(S), q # <<>>
  PROVE  /\ Head(q) \in Items(q) /\ Items(Tail(q)) \subseteq Items(q)
         /\ Items(q) = Items(Tail(q)) \cup {Head(q)}
         /\ Distinct(q) => /\ Distinct(Tail(q))
                           /\ Items(Tail(q)) = Items(q) \ {Head(q)}
<1>1. /\ DOMAIN q = 1 .. Len(q) /\ Len(q) \in Nat \ {0}
      /\ DOMAIN Tail(q) = 1 .. Len(q) - 1
      /\ \A i \in 1 .. Len(q) - 1 : Tail(q)[i] = q[i + 1]
      /\ Head(q) = q[1]
  BY LenProperties, EmptySeq, HeadTailProperties
<1>2. /\ \A i \in DOMAIN Tail(q) : /\ i + 1 \in DOMAIN q /\ i + 1 # 1
                                   /\ Tail(q)[i] = q[i + 1]
      /\ 1 \in DOMAIN q
  BY <1>1
<1>3. \A i \in DOMAIN q : i # 1 => i - 1 \in DOMAIN Tail(q) /\ Tail(q)[i - 1] = q[i]
  BY <1>1
<1>4. Items(q) = Items(Tail(q)) \cup {Head(q)}
  BY <1>1, <1>2, <1>3 DEF Items
<1>5. ASSUME Distinct(q) PROVE Distinct(Tail(q)) /\ Head(q) \notin Items(Tail(q))
  <2>1. \A i, j \in DOMAIN Tail(q) : Tail(q)[i] = Tail(q)[j] => i + 1 = j + 1
    BY <1>2, <1>5 DEF Distinct
  <2>2. Distinct(Tail(q))
    BY <1>1, <2>1 DEF Distinct
  <2> QED
    BY <1>1, <1>2, <1>5, <2>2 DEF Items, Distinct
<1> QED
  BY <1>1, <1>2, <1>4, <1>5 DEF Items

(* Removing the i-th element shifts those behind it.                       *)
LEMMA RemovedProperties ==
  ASSUME NEW S, NEW q \in Seq(S), NEW i \in DOMAIN q
  PROVE  /\ Removed(q, i) \in Seq(S)
         /\ Len(Removed(q, i)) = Len(q) - 1
         /\ \A j \in 1 .. Len(q) - 1 :
              Removed(q, i)[j] = IF j < i THEN q[j] ELSE q[j + 1]
<1>1. DOMAIN q = 1 .. Len(q) /\ Len(q) \in Nat /\ i \in 1 .. Len(q)
  BY LenProperties
<1>a. PICK a : a = SubSeq(q, 1, i - 1)
  OBVIOUS
<1>b. PICK b : b = SubSeq(q, i + 1, Len(q))
  OBVIOUS
<1>2. /\ a \in Seq(S) /\ Len(a) = i - 1
      /\ \A j \in 1 .. i - 1 : a[j] = q[j]
  BY <1>1, <1>a, SubSeqProperties, ElementOfSeq
<1>3. /\ b \in Seq(S) /\ Len(b) = Len(q) - i
      /\ \A j \in 1 .. Len(q) - i : b[j] = q[i + j]
  BY <1>1, <1>b, SubSeqProperties, ElementOfSeq
<1>4. /\ a \o b \in Seq(S) /\ Len(a \o b) = Len(a) + Len(b)
      /\ \A j \in 1 .. Len(a) + Len(b) :
           (a \o b)[j] = IF j <= Len(a) THEN a[j] ELSE b[j - Len(a)]
  BY <1>2, <1>3, ConcatProperties
<1>5. ASSUME NEW j \in 1 .. Len(q) - 1
      PROVE  (a \o b)[j] = IF j < i THEN q[j] ELSE q[j + 1]
  <2>1. CASE j < i
    BY <1>1, <1>2, <1>3, <1>4, <2>1
  <2>2. CASE ~(j < i)
    <3>a. Len(a) = i - 1 /\ j \in 1 .. Len(a) + Len(b) /\ ~(j <= Len(a))
      <4>1. Len(a) = i - 1 /\ Len(b) = Len(q) - i
        BY <1>2, <1>3
      <4>2. i \in Nat /\ j \in Nat /\ 1 <= j /\ j <= Len(q) - 1 /\ i <= j
        BY <1>1, <2>2
      <4> QED
        BY <1>1, <4>1, <4>2
    <3>b. (a \o b)[j] = b[j - Len(a)]
      BY <1>4, <3>a, Zenon
    <3>1. (a \o b)[j] = b[j - (i - 1)]
      BY <3>a, <3>b
    <3>2. j - (i - 1) \in 1 .. Len(q) - i /\ i + (j - (i - 1)) = j + 1
      BY <1>1, <2>2
    <3> QED
      BY <1>1, <1>3, <2>2, <3>1, <3>2
  <2> QED
    BY <2>1, <2>2
<1>6. Len(a) + Len(b) = Len(q) - 1
  BY <1>1, <1>2, <1>3
<1>7. Removed(q, i) = a \o b
  BY <1>a, <1>b DEF Removed
<1> QED
  BY <1>4, <1>5, <1>6, <1>7

(* The indices of an appended queue.                                       *)
LEMMA AppendIndices ==
  ASSUME NEW S, NEW q \in Seq(S), NEW e \in S
  PROVE  /\ Append(q, e) \in Seq(S) /\ Len(Append(q, e)) = Len(q) + 1
         /\ \A i \in DOMAIN q : i \in DOMAIN Append(q, e) /\ Append(q, e)[i] = q[i]
         /\ Len(q) + 1 \in DOMAIN Append(q, e) /\ Append(q, e)[Len(q) + 1] = e
         /\ \A i \in DOMAIN Append(q, e) : i \in DOMAIN q \/ i = Len(q) + 1
         /\ \A i \in DOMAIN q : i < Len(q) + 1
<1>1. /\ DOMAIN q = 1 .. Len(q) /\ Len(q) \in Nat
      /\ Append(q, e) \in Seq(S) /\ Len(Append(q, e)) = Len(q) + 1
      /\ DOMAIN Append(q, e) = 1 .. Len(q) + 1
      /\ \A i \in 1 .. Len(q) : Append(q, e)[i] = q[i]
      /\ Append(q, e)[Len(q) + 1] = e
  BY LenProperties, AppendProperties
<1> QED
  BY <1>1

(* An index of a queue without its i-th element was Behind(i, j) before;   *)
(* Ahead(i, k) is where k is now.                                          *)
Behind(i, j)  == IF j < i THEN j ELSE j + 1
Ahead(i, k) == IF k < i THEN k ELSE k - 1

(* Removing is a bijection between the other indices and the new ones.     *)
LEMMA RemovedIndices ==
  ASSUME NEW S, NEW q \in Seq(S), NEW i \in DOMAIN q
  PROVE  /\ Removed(q, i) \in Seq(S) /\ Len(Removed(q, i)) = Len(q) - 1
         /\ \A j \in DOMAIN Removed(q, i) :
              Behind(i, j) \in DOMAIN q \ {i} /\ Removed(q, i)[j] = q[Behind(i, j)]
         /\ \A k \in DOMAIN q \ {i} :
              /\ Ahead(i, k) \in DOMAIN Removed(q, i)
              /\ Removed(q, i)[Ahead(i, k)] = q[k]
              /\ Behind(i, Ahead(i, k)) = k
         /\ \A j, k \in DOMAIN q \ {i} : j < k => Ahead(i, j) < Ahead(i, k)
         /\ \A j \in DOMAIN Removed(q, i) : Ahead(i, Behind(i, j)) = j
<1>1. /\ DOMAIN q = 1 .. Len(q) /\ Len(q) \in Nat /\ i \in 1 .. Len(q)
      /\ Removed(q, i) \in Seq(S) /\ Len(Removed(q, i)) = Len(q) - 1
      /\ \A j \in 1 .. Len(q) - 1 :
           Removed(q, i)[j] = IF j < i THEN q[j] ELSE q[j + 1]
  BY LenProperties, RemovedProperties
<1>2. DOMAIN Removed(q, i) = 1 .. Len(q) - 1
  BY <1>1, LenProperties
<1> QED
  BY <1>1, <1>2 DEF Behind, Ahead

(* How many of a queue's elements are in T.                                *)
IndicesOf(q, T) == {i \in DOMAIN q : q[i] \in T}
HowMany(q, T) == Cardinality(IndicesOf(q, T))

(* It is a number, zero for the empty queue, and at most the length.       *)
LEMMA CountType ==
  ASSUME NEW S, NEW q \in Seq(S), NEW T
  PROVE  /\ IsFiniteSet(IndicesOf(q, T)) /\ HowMany(q, T) \in Nat /\ HowMany(q, T) <= Len(q)
         /\ q = <<>> => HowMany(q, T) = 0
<1>1. DOMAIN q = 1 .. Len(q) /\ Len(q) \in Nat
  BY LenProperties
<1>2. IsFiniteSet(1 .. Len(q)) /\ Cardinality(1 .. Len(q)) = Len(q)
  BY <1>1, FS_Interval
<1>3. IndicesOf(q, T) \subseteq 1 .. Len(q)
  BY <1>1 DEF IndicesOf
<1>4. IsFiniteSet(IndicesOf(q, T)) /\ HowMany(q, T) <= Len(q)
  BY <1>2, <1>3, FS_Subset DEF HowMany
<1>5. HowMany(q, T) \in Nat
  BY <1>4, FS_CardinalityType DEF HowMany
<1>6. q = <<>> => Len(q) = 0
  BY EmptySeq
<1> QED
  BY <1>1, <1>4, <1>5, <1>6

(* Appending an element of T raises it by one, any other leaves it.        *)
LEMMA CountAppend ==
  ASSUME NEW S, NEW q \in Seq(S), NEW e \in S, NEW T
  PROVE  HowMany(Append(q, e), T) = HowMany(q, T) + (IF e \in T THEN 1 ELSE 0)
<1>1. Len(q) + 1 \notin IndicesOf(q, T)
  BY LenProperties DEF IndicesOf
<1>2. IndicesOf(Append(q, e), T) = IF e \in T THEN IndicesOf(q, T) \cup {Len(q) + 1} ELSE IndicesOf(q, T)
  BY AppendIndices DEF IndicesOf
<1>3. IsFiniteSet(IndicesOf(q, T)) /\ HowMany(q, T) \in Nat
  BY CountType
<1>4. Cardinality(IndicesOf(q, T) \cup {Len(q) + 1}) = Cardinality(IndicesOf(q, T)) + 1
  BY <1>1, <1>3, FS_AddElement
<1> QED
  BY <1>2, <1>3, <1>4 DEF HowMany

(* Removing one of T lowers it by one.                                     *)
LEMMA CountRemoved ==
  ASSUME NEW S, NEW q \in Seq(S), NEW i \in DOMAIN q, NEW T
  PROVE  HowMany(Removed(q, i), T) = HowMany(q, T) - (IF q[i] \in T THEN 1 ELSE 0)
<1> DEFINE f == [j \in IndicesOf(Removed(q, i), T) |-> Behind(i, j)]
           X == IndicesOf(Removed(q, i), T)
           Y == IndicesOf(q, T) \ {i}
<1>0. /\ \A j \in DOMAIN Removed(q, i) :
           Behind(i, j) \in DOMAIN q \ {i} /\ Removed(q, i)[j] = q[Behind(i, j)]
      /\ \A k \in DOMAIN q \ {i} :
           /\ Ahead(i, k) \in DOMAIN Removed(q, i)
           /\ Removed(q, i)[Ahead(i, k)] = q[k] /\ Behind(i, Ahead(i, k)) = k
  BY RemovedIndices
<1>1. /\ \A j \in X : f[j] \in Y
      /\ \A k \in Y : Ahead(i, k) \in X /\ f[Ahead(i, k)] = k
  BY <1>0 DEF IndicesOf
<1>2. \A j, k \in X : f[j] = f[k] => j = k
  <2> SUFFICES ASSUME NEW j \in X, NEW k \in X, f[j] = f[k] PROVE j = k
    OBVIOUS
  <2>1. Ahead(i, Behind(i, j)) = j /\ Ahead(i, Behind(i, k)) = k
    BY RemovedIndices DEF IndicesOf
  <2> QED
    BY <2>1
<1>3. f \in Bijection(X, Y)
  BY <1>1, <1>2 DEF Bijection, Injection, Surjection, IsInjective
<1>4. ExistsBijection(X, Y)
  BY <1>3 DEF ExistsBijection
<1>5. IsFiniteSet(X) /\ IsFiniteSet(IndicesOf(q, T)) /\ HowMany(q, T) \in Nat
  BY CountType, RemovedProperties
<1>6. Cardinality(Y) = Cardinality(X)
  BY <1>4, <1>5, FS_Bijection
<1>7. Cardinality(Y) = IF i \in IndicesOf(q, T) THEN HowMany(q, T) - 1 ELSE HowMany(q, T)
  BY <1>5, FS_RemoveElement DEF HowMany
<1>8. HowMany(Removed(q, i), T) = Cardinality(X) /\ (i \in IndicesOf(q, T) <=> q[i] \in T)
  BY DEF HowMany, IndicesOf
<1> QED
  BY <1>5, <1>6, <1>7, <1>8

(* A queue in which nothing stands twice is as long as the set of what     *)
(* stands in it.                                                           *)
LEMMA DistinctCardinality ==
  ASSUME NEW S, NEW q \in Seq(S), Distinct(q)
  PROVE  IsFiniteSet(Items(q)) /\ Cardinality(Items(q)) = Len(q)
<1>1. DOMAIN q = 1 .. Len(q) /\ Len(q) \in Nat /\ q \in [1 .. Len(q) -> S]
  BY LenProperties
<1>2. q \in [1 .. Len(q) -> Items(q)]
  BY <1>1 DEF Items
<1>3. q \in Bijection(1 .. Len(q), Items(q))
  BY <1>1, <1>2 DEF Bijection, Injection, Surjection, IsInjective, Items, Distinct
<1>4. ExistsBijection(1 .. Len(q), Items(q))
  BY <1>3 DEF ExistsBijection
<1>5. IsFiniteSet(Items(q))
  BY <1>1, <1>4, FS_NatBijection
<1>6. Cardinality(Items(q)) = Len(q)
  BY <1>1, <1>4, FS_CountingElements
<1> QED
  BY <1>5, <1>6

(* Two queues one behind the other hold what each of them holds.           *)
LEMMA CountConcat ==
  ASSUME NEW S, NEW a \in Seq(S), NEW b \in Seq(S), NEW T
  PROVE  a \o b \in Seq(S) /\ HowMany(a \o b, T) = HowMany(a, T) + HowMany(b, T)
<1> DEFINE X == IndicesOf(b, T)
           Y == {i \in IndicesOf(a \o b, T) : i > Len(a)}
           f == [i \in X |-> Len(a) + i]
<1>1. /\ DOMAIN a = 1 .. Len(a) /\ Len(a) \in Nat
      /\ DOMAIN b = 1 .. Len(b) /\ Len(b) \in Nat
      /\ a \o b \in Seq(S)
  BY LenProperties, ConcatProperties
<1>2. /\ DOMAIN (a \o b) = 1 .. Len(a) + Len(b)
      /\ \A i \in 1 .. Len(a) + Len(b) : (a \o b)[i] = IF i <= Len(a) THEN a[i] ELSE b[i - Len(a)]
  BY <1>1, ConcatProperties, LenProperties
<1>3. IndicesOf(a \o b, T) = IndicesOf(a, T) \cup Y /\ IndicesOf(a, T) \cap Y = {}
  BY <1>1, <1>2 DEF IndicesOf
<1>4. /\ \A i \in X : i \in Nat /\ f[i] \in Y
      /\ \A k \in Y : k - Len(a) \in X /\ f[k - Len(a)] = k
  <2>1. ASSUME NEW i \in X PROVE i \in Nat /\ Len(a) + i \in Y
    <3>1. i \in 1 .. Len(b) /\ b[i] \in T
      BY <1>1 DEF IndicesOf
    <3>k. PICK k : k = Len(a) + i
      OBVIOUS
    <3>2. k \in 1 .. Len(a) + Len(b) /\ ~(k <= Len(a)) /\ k - Len(a) = i /\ k > Len(a)
      BY <1>1, <3>1, <3>k
    <3>3. (a \o b)[k] = b[i]
      BY <1>2, <3>2
    <3>4. k \in Y
      BY <1>2, <3>1, <3>2, <3>3 DEF IndicesOf
    <3> QED
      BY <3>1, <3>4, <3>k
  <2>2. ASSUME NEW k \in Y PROVE k - Len(a) \in X /\ Len(a) + (k - Len(a)) = k
    <3>1. k \in 1 .. Len(a) + Len(b) /\ (a \o b)[k] \in T /\ k > Len(a)
      BY <1>2 DEF IndicesOf
    <3>2. k - Len(a) \in 1 .. Len(b) /\ ~(k <= Len(a)) /\ Len(a) + (k - Len(a)) = k
      BY <1>1, <3>1
    <3>3. b[k - Len(a)] \in T
      BY <1>2, <3>1, <3>2
    <3> QED
      BY <1>1, <3>2, <3>3 DEF IndicesOf
  <2> QED
    BY <2>1, <2>2
<1>5. \A i, j \in X : f[i] = f[j] => i = j
  BY <1>1, <1>4
<1>6. ExistsBijection(X, Y)
  <2>1. f \in Bijection(X, Y)
    BY <1>4, <1>5 DEF Bijection, Injection, Surjection, IsInjective
  <2> QED
    BY <2>1 DEF ExistsBijection
<1>7. IsFiniteSet(X) /\ IsFiniteSet(IndicesOf(a, T)) /\ HowMany(a, T) \in Nat /\ HowMany(b, T) \in Nat
  BY CountType
<1>8. IsFiniteSet(Y) /\ Cardinality(Y) = HowMany(b, T)
  BY <1>6, <1>7, FS_Bijection DEF HowMany
<1> HIDE DEF X, Y, f
<1>9. Cardinality(IndicesOf(a, T) \cup Y) =
        Cardinality(IndicesOf(a, T)) + Cardinality(Y) - Cardinality(IndicesOf(a, T) \cap Y)
  BY <1>7, <1>8, FS_Union
<1>10. Cardinality(IndicesOf(a, T) \cap Y) = 0
  BY <1>3, FS_EmptySet
<1> QED
  BY <1>1, <1>3, <1>7, <1>8, <1>9, <1>10 DEF HowMany

(* Taking the head is removing the first.                                  *)
LEMMA CountTail ==
  ASSUME NEW S, NEW q \in Seq(S), q # <<>>, NEW T
  PROVE  HowMany(Tail(q), T) = HowMany(q, T) - (IF Head(q) \in T THEN 1 ELSE 0)
<1>1. Len(q) \in Nat \ {0} /\ 1 \in DOMAIN q /\ Head(q) = q[1]
  BY EmptySeq, LenProperties
<1>2. SubSeq(q, 1, 1 - 1) = <<>> /\ Tail(q) = SubSeq(q, 1 + 1, Len(q)) /\ Tail(q) \in Seq(S)
  <2>1. 1 - 1 < 1 /\ 1 \in Int /\ 1 - 1 \in Int /\ 1 + 1 = 2
    OBVIOUS
  <2>2. SubSeq(q, 1, 1 - 1) = <<>>
    BY <2>1, SubSeqEmpty
  <2> QED
    BY <2>1, <2>2, TailIsSubSeq, HeadTailProperties
<1>3. Removed(q, 1) = Tail(q)
  BY <1>2, ConcatEmptySeq DEF Removed
<1>4. HowMany(Removed(q, 1), T) = HowMany(q, T) - (IF q[1] \in T THEN 1 ELSE 0)
  BY <1>1, CountRemoved
<1> QED
  BY <1>1, <1>3, <1>4

(* One element, and none at all.                                           *)
LEMMA CountOne ==
  ASSUME NEW S, NEW e \in S, NEW T
  PROVE  <<e>> \in Seq(S) /\ HowMany(<<e>>, T) = IF e \in T THEN 1 ELSE 0
<1>1. <<>> \in Seq(S) /\ HowMany(<<>>, T) = 0
  BY EmptySeq, CountType
<1>2. Append(<<>>, e) = <<e>> /\ Append(<<>>, e) \in Seq(S)
  BY <1>1, AppendProperties
<1>3. HowMany(Append(<<>>, e), T) = HowMany(<<>>, T) + (IF e \in T THEN 1 ELSE 0)
  BY <1>1, CountAppend
<1> QED
  BY <1>1, <1>2, <1>3
=============================================================================
