----------------------------- MODULE ListProofs -----------------------------
(***************************************************************************)
(* Lemmas about lists that the proofs of several components share: lists   *)
(* that grow and shrink, lists filtered by their places, and lines of      *)
(* records in which each goroutine's keep their order.                     *)
(***************************************************************************)
EXTENDS Lists, Integers, Functions, FiniteSetTheorems, SequenceTheorems, TLAPS

(* The elements of an appended sequence.                                   *)
LEMMA AppendedElements ==
  ASSUME NEW S, NEW s \in Seq(S), NEW e \in S
  PROVE  /\ Append(s, e) \in Seq(S)
         /\ Len(s) \in Nat
         /\ Len(Append(s, e)) = Len(s) + 1
         /\ \A i \in 1..Len(s) : Append(s, e)[i] = s[i]
         /\ Append(s, e)[Len(s) + 1] = e
OBVIOUS

(* The elements of a sequence.                                             *)
LEMMA SequenceElements ==
  ASSUME NEW S, NEW s \in Seq(S)
  PROVE  \A i \in 1..Len(s) : s[i] \in S
OBVIOUS

(* The elements of a tail.                                                 *)
LEMMA TailOfSequence ==
  ASSUME NEW S, NEW s \in Seq(S), s # <<>>
  PROVE  /\ Tail(s) \in Seq(S)
         /\ Len(s) \in Nat /\ Len(s) >= 1
         /\ Len(Tail(s)) = Len(s) - 1
         /\ \A i \in 1..Len(Tail(s)) : Tail(s)[i] = s[i + 1]
         /\ Head(s) = s[1] /\ Head(s) \in S
OBVIOUS

(* How many numbers there are up to n.                                     *)
LEMMA FirstNumbers ==
  ASSUME NEW n \in Nat
  PROVE  IsFiniteSet(1..n) /\ Cardinality(1..n) = n
<1>1. 1 \in Int /\ n \in Int
  OBVIOUS
<1>2. IsFiniteSet(1..n) /\ Cardinality(1..n) = IF 1 > n THEN 0 ELSE n - 1 + 1
  BY <1>1, FS_Interval
<1>3. (IF 1 > n THEN 0 ELSE n - 1 + 1) = n
  OBVIOUS
<1> QED BY <1>2, <1>3

(* What a sequence has at its places.                                      *)
LEMMA ElementsOf ==
  ASSUME NEW T, NEW s \in Seq(T)
  PROVE  /\ Len(s) \in Nat /\ DOMAIN s = 1..Len(s) /\ Range(s) \subseteq T
         /\ \A i \in 1..Len(s) : s[i] \in T /\ s[i] \in Range(s)
         /\ \A x \in Range(s) : \E i \in 1..Len(s) : s[i] = x
<1>1. Len(s) \in Nat /\ DOMAIN s = 1..Len(s) /\ \A i \in 1..Len(s) : s[i] \in T
  BY LenProperties, ElementOfSeq
<1>2. Range(s) = {s[i] : i \in 1..Len(s)}
  BY <1>1 DEF Range
<1> QED BY <1>1, <1>2

LEMMA RangeOfNothing == Range(<<>>) = {}
BY DEF Range

LEMMA RangeOfAppend ==
  ASSUME NEW T, NEW s \in Seq(T), NEW e \in T
  PROVE  Range(Append(s, e)) = Range(s) \cup {e}
<1> DEFINE new == Append(s, e)
<1>1. /\ new \in Seq(T) /\ Len(s) \in Nat /\ Len(new) = Len(s) + 1
      /\ \A i \in 1..Len(s) : new[i] = s[i]
      /\ new[Len(s) + 1] = e
  BY AppendedElements
<1> HIDE DEF new
<1>2. \A i \in 1..Len(new) : i \in 1..Len(s) \/ i = Len(s) + 1
  BY <1>1
<1>3. Len(s) + 1 \in 1..Len(new) /\ 1..Len(s) \subseteq 1..Len(new)
  BY <1>1
<1>4. /\ \A i \in 1..Len(s) : s[i] \in Range(s)
      /\ \A x \in Range(s) : \E i \in 1..Len(s) : s[i] = x
  BY ElementsOf
<1>5. /\ \A i \in 1..Len(new) : new[i] \in Range(new)
      /\ \A x \in Range(new) : \E i \in 1..Len(new) : new[i] = x
  BY <1>1, ElementsOf
<1>6. \A x \in Range(new) : x \in Range(s) \/ x = e
  BY <1>1, <1>2, <1>4, <1>5
<1>7. \A x \in Range(s) : x \in Range(new)
  BY <1>1, <1>3, <1>4, <1>5
<1>8. e \in Range(new)
  BY <1>1, <1>3, <1>5
<1> QED BY <1>6, <1>7, <1>8 DEF new

LEMMA RangeOfTail ==
  ASSUME NEW T, NEW s \in Seq(T), s # <<>>
  PROVE  Range(s) = {Head(s)} \cup Range(Tail(s))
<1> DEFINE rest == Tail(s)
<1>1. /\ rest \in Seq(T) /\ Len(s) \in Nat /\ Len(s) >= 1 /\ Len(rest) = Len(s) - 1
      /\ \A i \in 1..Len(rest) : rest[i] = s[i + 1]
      /\ Head(s) = s[1]
  BY TailOfSequence
<1> HIDE DEF rest
<1>2. /\ \A i \in 1..Len(s) : s[i] \in Range(s)
      /\ \A x \in Range(s) : \E i \in 1..Len(s) : s[i] = x
  BY ElementsOf
<1>3. /\ \A i \in 1..Len(rest) : rest[i] \in Range(rest)
      /\ \A x \in Range(rest) : \E i \in 1..Len(rest) : rest[i] = x
  BY <1>1, ElementsOf
<1>4. \A i \in 1..Len(s) : i = 1 \/ (i - 1 \in 1..Len(rest) /\ (i - 1) + 1 = i)
  BY <1>1
<1>5. \A i \in 1..Len(rest) : i + 1 \in 1..Len(s)
  BY <1>1
<1>6. \A i \in 1..Len(s) : i = 1 \/ s[i] \in Range(rest)
  BY <1>1, <1>3, <1>4
<1>7. \A x \in Range(rest) : x \in Range(s)
  BY <1>1, <1>2, <1>3, <1>5
<1>8. 1 \in 1..Len(s)
  BY <1>1
<1> QED BY <1>1, <1>2, <1>6, <1>7, <1>8 DEF rest

LEMMA WiderElements ==
  ASSUME NEW S, NEW T, S \subseteq T, NEW s \in Seq(S)
  PROVE  s \in Seq(T)
<1>1. Len(s) \in Nat /\ s \in [1..Len(s) -> S]
  BY LenProperties
<1>2. s \in [1..Len(s) -> T]
  BY <1>1
<1> QED BY <1>1, <1>2

LEMMA PrefixOfSequence ==
  ASSUME NEW T, NEW s \in Seq(T), NEW n \in 0..Len(s)
  PROVE  /\ SubSeq(s, 1, n) \in Seq(T) /\ Len(SubSeq(s, 1, n)) = n
         /\ \A i \in 1..n : SubSeq(s, 1, n)[i] = s[i]
<1>1. Len(s) \in Nat /\ \A i \in 1..Len(s) : s[i] \in T
  BY ElementsOf
<1>2. n \in Nat /\ 1 \in Int /\ n \in Int /\ \A i \in 1..n : s[i] \in T
  BY <1>1
<1>3. /\ SubSeq(s, 1, n) \in Seq(T)
      /\ Len(SubSeq(s, 1, n)) = (IF 1 <= n THEN n - 1 + 1 ELSE 0)
      /\ \A i \in 1..(n - 1 + 1) : SubSeq(s, 1, n)[i] = s[1 + i - 1]
  BY <1>2, SubSeqProperties
<1>4. (IF 1 <= n THEN n - 1 + 1 ELSE 0) = n /\ n - 1 + 1 = n /\ \A i \in 1..n : 1 + i - 1 = i
  BY <1>2
<1> QED BY <1>3, <1>4
-----------------------------------------------------------------------------
(* The places of a finite set of numbers run from 1 to its cardinality.    *)
LEMMA PlacesCount ==
  ASSUME NEW S, S \subseteq Nat, IsFiniteSet(S)
  PROVE  /\ Cardinality(S) \in Nat
         /\ \A n \in S : Place(S, n) \in 1..Cardinality(S)
         /\ \A m, n \in S : m < n => Place(S, m) < Place(S, n)
<1> DEFINE N == Cardinality(S)
           Upto(n) == {m \in S : m <= n}
<1>0. N \in Nat
  BY FS_CardinalityType
<1>1. ASSUME NEW n \in S
      PROVE  /\ IsFiniteSet(Upto(n)) /\ Cardinality(Upto(n)) \in Nat
             /\ Cardinality(Upto(n)) \in 1..N
  <2>1. Upto(n) \subseteq S /\ n \in Upto(n)
    OBVIOUS
  <2> HIDE DEF Upto
  <2>2. IsFiniteSet(Upto(n)) /\ Cardinality(Upto(n)) <= N /\ Cardinality(Upto(n)) \in Nat
    BY <2>1, FS_Subset, FS_CardinalityType
  <2>3. Cardinality(Upto(n)) # 0
    BY <2>1, <2>2, FS_EmptySet
  <2> QED BY <2>2, <2>3, <1>0
<1>2. ASSUME NEW m \in S, NEW n \in S, m < n
      PROVE  Cardinality(Upto(m)) < Cardinality(Upto(n))
  <2>0. m \in Nat /\ n \in Nat /\ \A x \in S : x \in Nat
    OBVIOUS
  <2>1. \A x \in S : x <= m => x <= n
    BY <1>2, <2>0
  <2>2. Upto(m) \subseteq Upto(n)
    BY <2>1
  <2>3. n \in Upto(n) /\ n \notin Upto(m)
    BY <1>2, <2>0
  <2> HIDE DEF Upto
  <2>4. Upto(m) # Upto(n)
    BY <2>3
  <2> QED BY <1>1, <2>2, <2>4, FS_Subset
<1> QED BY <1>0, <1>1, <1>2 DEF Place

(* InOrder lists every member once, the k-th of them at k.                 *)
LEMMA InOrderLists ==
  ASSUME NEW S, S \subseteq Nat, IsFiniteSet(S)
  PROVE  /\ InOrder(S) \in [1..Cardinality(S) -> S]
         /\ \A k \in 1..Cardinality(S) : Place(S, InOrder(S)[k]) = k
         /\ \A n \in S : InOrder(S)[Place(S, n)] = n
<1> DEFINE N == Cardinality(S)
           f == [n \in S |-> Place(S, n)]
<1>0. N \in Nat
  BY PlacesCount
<1>1. f \in [S -> 1..N]
  BY PlacesCount
<1>2. ASSUME NEW m \in S, NEW n \in S, Place(S, m) = Place(S, n)
      PROVE  m = n
  <2>1. m \in Nat /\ n \in Nat
    OBVIOUS
  <2>2. Place(S, m) \in 1..N
    BY PlacesCount
  <2>3. ~(Place(S, m) < Place(S, n)) /\ ~(Place(S, n) < Place(S, m))
    BY <1>0, <1>2, <2>2
  <2>4. ~(m < n) /\ ~(n < m)
    BY <2>3, PlacesCount
  <2> QED BY <2>1, <2>4
<1>3. f \in Injection(S, 1..N)
  BY <1>1, <1>2 DEF Injection, IsInjective
<1>4. IsFiniteSet(1..N) /\ Cardinality(1..N) = N
  BY <1>0, FS_Interval
<1>5. f \in Surjection(S, 1..N)
  BY <1>3, <1>4, FS_Injection
<1>6. ASSUME NEW k \in 1..N
      PROVE  InOrder(S)[k] \in S /\ Place(S, InOrder(S)[k]) = k
  <2>1. \E n \in S : Place(S, n) = k
    BY <1>5 DEF Surjection
  <2> QED BY <2>1 DEF InOrder
<1>7. ASSUME NEW n \in S
      PROVE  InOrder(S)[Place(S, n)] = n
  <2>1. Place(S, n) \in 1..N
    BY PlacesCount
  <2> QED BY <1>2, <1>6, <2>1
<1>8. InOrder(S) \in [1..N -> S]
  <2>1. InOrder(S) = [k \in 1..N |-> InOrder(S)[k]]
    BY DEF InOrder
  <2> HIDE DEF N
  <2> QED BY <1>6, <2>1
<1> QED BY <1>6, <1>7, <1>8

(* AtPlaces has the members of a list at some of its places, each place    *)
(* once.                                                                   *)
Picks(list, S, a) ==
  /\ Len(a) = Cardinality(S)
  /\ \A k \in 1..Len(a) : InOrder(S)[k] \in S /\ a[k] = list[InOrder(S)[k]]
  /\ \A k, l \in 1..Len(a) : k # l => InOrder(S)[k] # InOrder(S)[l]
  /\ \A i \in S : list[i] \in Range(a)
  /\ \A x \in Range(a) : \E i \in S : x = list[i]

LEMMA AtPlacesLists ==
  ASSUME NEW T, NEW list \in Seq(T), NEW S, S \subseteq 1..Len(list)
  PROVE  AtPlaces(list, S) \in Seq(T) /\ Picks(list, S, AtPlaces(list, S))
<1> DEFINE N == Cardinality(S)
           a == AtPlaces(list, S)
           o == InOrder(S)
<1>0. Len(list) \in Nat /\ \A i \in 1..Len(list) : list[i] \in T
  BY ElementOfSeq, LenProperties
<1>1. S \subseteq Nat /\ IsFiniteSet(S)
  <2>1. IsFiniteSet(1..Len(list))
    BY <1>0, FS_Interval
  <2>2. IsFiniteSet(S)
    BY <2>1, FS_Subset
  <2> QED BY <2>2, <1>0
<1>2. /\ o \in [1..N -> S]
      /\ \A k \in 1..N : Place(S, o[k]) = k
      /\ \A n \in S : o[Place(S, n)] = n
  BY <1>1, InOrderLists
<1>3. N \in Nat /\ \A n \in S : Place(S, n) \in 1..N
  BY <1>1, PlacesCount
<1>4. a = [k \in 1..N |-> list[o[k]]]
  BY DEF AtPlaces
<1> HIDE DEF N, a, o
<1>5. \A k \in 1..N : o[k] \in S /\ a[k] = list[o[k]] /\ a[k] \in T
  BY <1>0, <1>2, <1>4
<1>6. a \in Seq(T) /\ Len(a) = N /\ DOMAIN a = 1..N
  <2>1. a \in [1..N -> T]
    BY <1>4, <1>5
  <2> QED BY <2>1, <1>3, <1>4, IsASeq, LenProperties
<1>7. \A k, l \in 1..N : k # l => o[k] # o[l]
  BY <1>2
<1>8. (\A i \in S : list[i] \in Range(a)) /\ (\A x \in Range(a) : \E i \in S : x = list[i])
  <2>1. \A n \in S : \E k \in 1..N : o[k] = n
    BY <1>2, <1>3
  <2>2. Range(a) = {a[k] : k \in 1..N}
    BY <1>6 DEF Range
  <2>3. ASSUME NEW i \in S PROVE list[i] \in Range(a)
    BY <2>1, <2>2, <1>5
  <2>4. ASSUME NEW x \in Range(a) PROVE \E i \in S : x = list[i]
    <3>1. PICK k \in 1..N : x = a[k]
      BY <2>2
    <3> QED BY <3>1, <1>5
  <2> QED BY <2>3, <2>4
<1>9. Picks(list, S, a)
  BY <1>5, <1>6, <1>7, <1>8 DEF Picks, N, o
<1> QED BY <1>6, <1>9 DEF a

(* A list is in the order of time if its numbers rise.                     *)
InTime(list) == \A i, j \in 1..Len(list) : i < j => list[i] < list[j]

(* The places are listed in their order,                                   *)
LEMMA InOrderRises ==
  ASSUME NEW S, S \subseteq Nat, IsFiniteSet(S),
         NEW k \in 1..Cardinality(S), NEW l \in 1..Cardinality(S), k < l
  PROVE  InOrder(S)[k] < InOrder(S)[l]
<1> DEFINE o == InOrder(S)
<1>1. /\ o[k] \in S /\ o[l] \in S /\ Place(S, o[k]) = k /\ Place(S, o[l]) = l
      /\ \A m, n \in S : m < n => Place(S, m) < Place(S, n)
      /\ Cardinality(S) \in Nat
  BY InOrderLists, PlacesCount
<1> HIDE DEF o
<1>2. o[l] < o[k] => l < k
  BY <1>1
<1>3. o[k] # o[l] /\ ~(l < k) /\ o[k] \in Nat /\ o[l] \in Nat
  <2>1. k # l /\ ~(l < k)
    BY <1>1
  <2> QED BY <1>1, <2>1
<1>4. o[k] < o[l]
  BY <1>2, <1>3
<1> QED BY <1>4 DEF o

(* so that the members of a list at some places keep the order of time.    *)
LEMMA PickedInTime ==
  ASSUME NEW T, NEW list \in Seq(T), NEW S, S \subseteq 1..Len(list)
  PROVE  /\ AtPlaces(list, S) \in Seq(T)
         /\ Range(AtPlaces(list, S)) = {list[i] : i \in S}
         /\ InTime(list) => InTime(AtPlaces(list, S))
<1> DEFINE a == AtPlaces(list, S)
           N == Len(a)
           o == InOrder(S)
<1>0. a \in Seq(T) /\ Picks(list, S, a)
  BY AtPlacesLists
<1>1. /\ N = Cardinality(S)
      /\ \A k \in 1..N : o[k] \in S /\ a[k] = list[o[k]]
      /\ Range(a) = {list[i] : i \in S}
  <2> HIDE DEF a
  <2> QED BY <1>0 DEF Picks
<1>2. S \subseteq Nat /\ IsFiniteSet(S)
  <2>1. Len(list) \in Nat
    BY ElementsOf
  <2>2. IsFiniteSet(1..Len(list)) /\ 1..Len(list) \subseteq Nat
    BY <2>1, FirstNumbers
  <2> QED BY <2>2, FS_Subset
<1>3. ASSUME NEW k \in 1..N, NEW l \in 1..N, k < l PROVE o[k] < o[l]
  <2> HIDE DEF a
  <2> QED BY <1>1, <1>2, <1>3, InOrderRises
<1> HIDE DEF N, o, a
<1>4. ASSUME InTime(list) PROVE InTime(a)
  <2>1. ASSUME NEW k \in 1..N, NEW l \in 1..N, k < l PROVE a[k] < a[l]
    <3>1. o[k] \in 1..Len(list) /\ o[l] \in 1..Len(list) /\ o[k] < o[l]
      BY <1>1, <1>3, <2>1
    <3> QED BY <1>1, <1>4, <2>1, <3>1 DEF InTime
  <2> QED BY <2>1 DEF InTime, N
<1> QED BY <1>0, <1>1, <1>4 DEF a

(* A list has as many numbers at some places as there are places.          *)
LEMMA NumbersAtPlaces ==
  ASSUME NEW list \in Seq(Nat), InTime(list), NEW S, S \subseteq 1..Len(list)
  PROVE  /\ IsFiniteSet({list[i] : i \in S})
         /\ Cardinality({list[i] : i \in S}) = Cardinality(S)
<1> DEFINE T == {list[i] : i \in S}
           f == [i \in S |-> list[i]]
<1>1. Len(list) \in Nat /\ \A i \in 1..Len(list) : list[i] \in Nat
  BY ElementsOf
<1>2. IsFiniteSet(S)
  BY <1>1, FirstNumbers, FS_Subset
<1>3. ASSUME NEW i \in S, NEW j \in S, list[i] = list[j] PROVE i = j
  <2>1. i \in 1..Len(list) /\ j \in 1..Len(list)
    OBVIOUS
  <2>2. ~(list[i] < list[j]) /\ ~(list[j] < list[i])
    BY <1>1, <1>3, <2>1
  <2>3. ~(i < j) /\ ~(j < i)
    BY <2>1, <2>2 DEF InTime
  <2> QED BY <1>1, <2>1, <2>3
<1>4. f \in Bijection(S, T)
  <2>1. f \in [S -> T] /\ \A i \in S : f[i] = list[i]
    OBVIOUS
  <2>2. \A i, j \in S : f[i] = f[j] => i = j
    BY <1>3, <2>1
  <2>3. \A t \in T : \E i \in S : f[i] = t
    BY <2>1
  <2> HIDE DEF f, T
  <2> QED BY <2>1, <2>2, <2>3 DEF Bijection, Injection, Surjection, IsInjective
<1>5. ExistsBijection(S, T)
  BY <1>4 DEF ExistsBijection
<1> HIDE DEF T, f
<1>6. IsFiniteSet(T) /\ Cardinality(T) = Cardinality(S)
  BY <1>2, <1>5, FS_Bijection
<1> QED BY <1>6 DEF T

(* All but the first d members.                                            *)
LEMMA AllButFirst ==
  ASSUME NEW S, S \subseteq Nat, IsFiniteSet(S), NEW d \in Nat, d <= Cardinality(S)
  PROVE  Cardinality({n \in S : Place(S, n) > d}) = Cardinality(S) - d
<1> DEFINE N == Cardinality(S)
           first == {n \in S : Place(S, n) <= d}
           g == [k \in 1..d |-> InOrder(S)[k]]
<1>1. N \in Nat /\ \A n \in S : Place(S, n) \in 1..N
  BY PlacesCount
<1>2. /\ InOrder(S) \in [1..N -> S]
      /\ \A k \in 1..N : Place(S, InOrder(S)[k]) = k
      /\ \A n \in S : InOrder(S)[Place(S, n)] = n
  BY InOrderLists
<1>3. 1..d \subseteq 1..N
  BY <1>1
<1>4. g \in [1..d -> first]
  <2>1. ASSUME NEW k \in 1..d PROVE InOrder(S)[k] \in first
    <3>1. InOrder(S)[k] \in S /\ Place(S, InOrder(S)[k]) = k /\ k <= d
      BY <1>2, <1>3
    <3> QED BY <3>1
  <2> HIDE DEF first
  <2> QED BY <2>1
<1>5. g \in Bijection(1..d, first)
  <2>1. \A k, l \in 1..d : g[k] = g[l] => k = l
    BY <1>2, <1>3
  <2>2. ASSUME NEW n \in first
        PROVE  \E k \in 1..d : g[k] = n
    <3>1. Place(S, n) \in 1..d
      BY <1>1
    <3> QED BY <3>1, <1>2
  <2> HIDE DEF g, first
  <2> QED BY <1>4, <2>1, <2>2 DEF Bijection, Injection, Surjection, IsInjective
<1>6. Cardinality(first) = d
  BY <1>5, FS_CountingElements DEF ExistsBijection
<1>7. {n \in S : Place(S, n) > d} = S \ first
  <2>1. \A n \in S : Place(S, n) > d <=> ~(Place(S, n) <= d)
    BY <1>1
  <2> QED BY <2>1
<1>8. S \cap first = first /\ IsFiniteSet(S \cap first)
  <2>1. first \subseteq S
    OBVIOUS
  <2> HIDE DEF first
  <2> QED BY <2>1, FS_Subset
<1> HIDE DEF first
<1>9. Cardinality(S \ first) = Cardinality(S) - Cardinality(S \cap first)
  BY FS_Difference
<1> QED BY <1>6, <1>7, <1>8, <1>9

(* Those after a member.                                                   *)
After(S, i) == {j \in S : j > i}

LEMMA Followers ==
  ASSUME NEW S, S \subseteq Nat, IsFiniteSet(S), NEW i \in S
  PROVE  Cardinality(After(S, i)) = Cardinality(S) - Place(S, i)
<1>1. /\ Cardinality(S) \in Nat /\ \A j \in S : Place(S, j) \in 1..Cardinality(S)
      /\ \A j, k \in S : j < k => Place(S, j) < Place(S, k)
  BY PlacesCount
<1> DEFINE d == Place(S, i)
<1>2. d \in Nat /\ d <= Cardinality(S)
  BY <1>1
<1>3. ASSUME NEW j \in S PROVE j > i <=> Place(S, j) > d
  <2>1. j \in Nat /\ i \in Nat /\ Place(S, j) \in Nat
    BY <1>1
  <2>2. j < i => Place(S, j) < d
    BY <1>1
  <2>3. i < j => d < Place(S, j)
    BY <1>1
  <2>4. i = j \/ i < j \/ j < i
    BY <2>1
  <2> HIDE DEF d
  <2>5. i = j => Place(S, j) = d
    BY DEF d
  <2> QED BY <1>2, <2>1, <2>2, <2>3, <2>4, <2>5
<1> HIDE DEF d
<1>4. {j \in S : j > i} = {j \in S : Place(S, j) > d}
  BY <1>3
<1>5. Cardinality({j \in S : Place(S, j) > d}) = Cardinality(S) - d
  BY <1>2, AllButFirst
<1> QED BY <1>4, <1>5 DEF d, After

(* Where there are some number of members after one, the last members, of  *)
(* that number, are after it.                                              *)
LEMMA LastOfMany ==
  ASSUME NEW S, S \subseteq Nat, IsFiniteSet(S), NEW cap \in Nat, NEW i \in S,
         Cardinality(After(S, i)) >= cap
  PROVE  \E last \in SUBSET S :
           /\ Cardinality(last) = cap
           /\ \A j \in last : j > i /\ Cardinality(After(S, j)) < cap
<1> DEFINE N == Cardinality(S)
           d == N - cap
           last == {j \in S : Place(S, j) > d}
<1>1. N \in Nat /\ \A j \in S : Place(S, j) \in 1..N
  BY PlacesCount
<1>2. \A j \in S : Cardinality(After(S, j)) = N - Place(S, j)
  BY Followers
<1>3. N - Place(S, i) >= cap
  BY <1>2
<1>4. d \in Nat /\ d <= N /\ N - d = cap /\ Place(S, i) <= d
  <2> HIDE DEF N
  <2> QED BY <1>1, <1>3
<1>5. Cardinality(last) = cap
  <2>1. Cardinality(last) = N - d
    <3> HIDE DEF d
    <3> QED BY <1>4, AllButFirst
  <2> HIDE DEF last, N
  <2> QED BY <1>4, <2>1
<1>6. ASSUME NEW j \in last
      PROVE  j > i /\ Cardinality(After(S, j)) < cap
  <2>1. j \in S /\ Place(S, j) > d
    OBVIOUS
  <2>2. j \in Nat /\ i \in Nat /\ Place(S, j) \in Nat /\ Place(S, i) \in Nat
    BY <1>1, <2>1
  <2> HIDE DEF d, N, last
  <2>3. ~(Place(S, j) <= Place(S, i))
    BY <1>4, <2>1, <2>2
  <2>4. ~(j < i) /\ j # i
    <3>1. j < i => Place(S, j) < Place(S, i)
      BY <2>1, PlacesCount
    <3>2. Place(S, j) # Place(S, i)
      BY <2>2, <2>3
    <3> QED BY <2>2, <2>3, <3>1, <3>2
  <2>5. N - Place(S, j) < cap
    BY <1>1, <1>4, <2>1, <2>2
  <2> QED BY <1>2, <2>1, <2>2, <2>4, <2>5
<1> HIDE DEF last
<1>7. last \in SUBSET S
  BY DEF last
<1> QED BY <1>5, <1>6, <1>7
-----------------------------------------------------------------------------
(* A set of naturals that is not empty has a least member.                 *)
LEMMA LeastOf ==
  ASSUME NEW S, S \subseteq Nat, S # {}
  PROVE  \E n \in S : \A m \in S : n <= m
<1>1. PICK top \in S : TRUE
  OBVIOUS
<1> DEFINE low == {m \in S : m <= top}
           least == InOrder(low)[1]
<1>2. low \subseteq Nat /\ IsFiniteSet(low)
  <2>1. \A m \in low : m \in Nat /\ m \in 0..top
    <3>1. \A m \in S : m \in Nat
      OBVIOUS
    <3>2. \A m \in low : m \in S /\ m <= top
      OBVIOUS
    <3> QED BY <3>1, <3>2
  <2>2. top \in Int /\ 0 \in Int
    OBVIOUS
  <2>3. IsFiniteSet(0..top)
    BY <2>2, FS_Interval
  <2> HIDE DEF low
  <2> QED BY <2>1, <2>3, FS_Subset
<1>3. top \in low
  OBVIOUS
<1>4. /\ Cardinality(low) \in Nat
      /\ \A n \in low : Place(low, n) \in 1..Cardinality(low)
      /\ \A m, n \in low : m < n => Place(low, m) < Place(low, n)
  <2> HIDE DEF low
  <2> QED BY <1>2, PlacesCount
<1>5. 1 \in 1..Cardinality(low)
  <2> HIDE DEF low
  <2> QED BY <1>3, <1>4
<1>6. least \in low /\ Place(low, least) = 1
  <2> HIDE DEF low
  <2> QED BY <1>2, <1>5, InOrderLists
<1> HIDE DEF least
<1>7. \A m \in low : ~(m < least)
  <2>1. \A m \in low : ~(Place(low, m) < 1)
    <3> HIDE DEF low
    <3> QED BY <1>4
  <2> HIDE DEF low
  <2> QED BY <1>4, <1>6, <2>1
<1>8. least \in S /\ least <= top /\ \A m \in S : m <= top \/ top <= m
  BY <1>6
<1> QED BY <1>7, <1>8

(* What holds at first and of a step after it held before holds always:    *)
(* induction over numbers, of which a set holds those that are good.       *)
LEMMA StepByStep ==
  ASSUME NEW n \in Nat, NEW Good, 0 \in Good, \A k \in 1..n : k - 1 \in Good => k \in Good
  PROVE  \A k \in 0..n : k \in Good
<1> DEFINE bad == (0..n) \ Good
<1>1. bad = {}
  <2> SUFFICES ASSUME bad # {} PROVE FALSE
    OBVIOUS
  <2>1. bad \subseteq Nat
    OBVIOUS
  <2>2. PICK k \in bad : \A m \in bad : k <= m
    <3> HIDE DEF bad
    <3> QED BY <2>1, LeastOf
  <2>3. k \in 1..n /\ k - 1 \in 0..n /\ ~(k <= k - 1)
    BY <2>2
  <2>4. k - 1 \notin bad
    BY <2>2, <2>3
  <2> QED BY <2>3, <2>4
<1> QED BY <1>1
-----------------------------------------------------------------------------
(* The records that left (out), the one in hand and the waiting ones, in   *)
(* this order, form one line in which no record occurs twice and the       *)
(* records of a goroutine keep their order.                                *)
InLine(records, out, hand, waiting) ==
  /\ \A i \in 1..Len(out) : out[i].record \in 1..Len(records)
  /\ hand \in 0..Len(records)
  /\ \A i \in 1..Len(waiting) : waiting[i] \in 1..Len(records)
  /\ \A i, j \in 1..Len(out) : i < j => Before(records, out[i].record, out[j].record)
  /\ hand # 0 => \A i \in 1..Len(out) : Before(records, out[i].record, hand)
  /\ \A i \in 1..Len(out) : \A j \in 1..Len(waiting) : Before(records, out[i].record, waiting[j])
  /\ hand # 0 => \A j \in 1..Len(waiting) : Before(records, hand, waiting[j])
  /\ \A i, j \in 1..Len(waiting) : i < j => Before(records, waiting[i], waiting[j])

(* Record n may join the line at its end.                                  *)
MayFollow(records, out, hand, waiting, n) ==
  /\ n \in 1..Len(records)
  /\ \A i \in 1..Len(out) : Before(records, out[i].record, n)
  /\ hand # 0 => Before(records, hand, n)
  /\ \A j \in 1..Len(waiting) : Before(records, waiting[j], n)

Departures == [record : Nat, link : Nat]
Numbers == Nat \ {0}

(* Taking the head of the queue moves nothing in the line.                 *)
LEMMA TakeKeepsLine ==
  ASSUME NEW T, NEW records \in Seq(T), NEW out, NEW waiting \in Seq(Numbers),
         waiting # <<>>, InLine(records, out, 0, waiting)
  PROVE  InLine(records, out, Head(waiting), Tail(waiting))
<1> DEFINE hand == Head(waiting)  rest == Tail(waiting)
<1>1. /\ Len(waiting) \in Nat /\ Len(waiting) >= 1 /\ Len(rest) = Len(waiting) - 1
      /\ \A i \in 1..Len(rest) : rest[i] = waiting[i + 1]
      /\ hand = waiting[1]
  BY TailOfSequence
<1>2. \A i \in 1..Len(rest) : i + 1 \in 1..Len(waiting) /\ 1 < i + 1 /\ rest[i] = waiting[i + 1]
  BY <1>1
<1>3. 1 \in 1..Len(waiting) /\ hand = waiting[1]
  BY <1>1
<1>4. hand \in 0..Len(records)
  BY <1>3 DEF InLine
<1>5. \A i \in 1..Len(rest) : rest[i] \in 1..Len(records)
  BY <1>2 DEF InLine
<1>6. \A i \in 1..Len(out) : Before(records, out[i].record, hand)
  BY <1>3 DEF InLine
<1>7. \A i \in 1..Len(out) : \A j \in 1..Len(rest) : Before(records, out[i].record, rest[j])
  BY <1>2 DEF InLine
<1>8. \A j \in 1..Len(rest) : Before(records, hand, rest[j])
  BY <1>2, <1>3 DEF InLine
<1>9. \A i, j \in 1..Len(rest) : i < j => Before(records, rest[i], rest[j])
  <2> SUFFICES ASSUME NEW i \in 1..Len(rest), NEW j \in 1..Len(rest), i < j
               PROVE  Before(records, rest[i], rest[j])
    OBVIOUS
  <2>1. i + 1 < j + 1
    BY <1>1
  <2> QED BY <2>1, <1>2 DEF InLine
<1> HIDE DEF hand, rest
<1>10. InLine(records, out, hand, rest)
  BY <1>4, <1>5, <1>6, <1>7, <1>8, <1>9 DEF InLine
<1> QED BY <1>10 DEF hand, rest

(* Neither does giving up the record in hand.                              *)
LEMMA DropKeepsLine ==
  ASSUME NEW T, NEW records \in Seq(T), NEW out, NEW hand, NEW waiting,
         InLine(records, out, hand, waiting)
  PROVE  InLine(records, out, 0, waiting)
<1>1. 0 \in 0..Len(records)
  OBVIOUS
<1> QED BY <1>1 DEF InLine

(* Nor does the departure of the record in hand.                           *)
LEMMA LeaveKeepsLine ==
  ASSUME NEW T, NEW records \in Seq(T), NEW out \in Seq(Departures), NEW hand \in Nat, hand # 0,
         NEW waiting, NEW l \in Nat, InLine(records, out, hand, waiting)
  PROVE  InLine(records, Append(out, [record |-> hand, link |-> l]), 0, waiting)
<1> DEFINE new == Append(out, [record |-> hand, link |-> l])
<1>1. [record |-> hand, link |-> l] \in Departures
  BY DEF Departures
<1>2. /\ Len(out) \in Nat /\ Len(new) = Len(out) + 1
      /\ \A i \in 1..Len(out) : new[i] = out[i]
      /\ new[Len(out) + 1] = [record |-> hand, link |-> l]
  BY <1>1, AppendedElements
<1> HIDE DEF new
<1>3. \A i \in 1..Len(new) :
        \/ i \in 1..Len(out) /\ new[i].record = out[i].record
        \/ i = Len(out) + 1 /\ new[i].record = hand
  BY <1>2
<1>4. hand \in 1..Len(records) /\ 0 \in 0..Len(records)
  BY DEF InLine
<1>5. \A i \in 1..Len(new) : new[i].record \in 1..Len(records)
  BY <1>3, <1>4 DEF InLine
<1>6. \A i, j \in 1..Len(new) : i < j => Before(records, new[i].record, new[j].record)
  <2> SUFFICES ASSUME NEW i \in 1..Len(new), NEW j \in 1..Len(new), i < j
               PROVE  Before(records, new[i].record, new[j].record)
    OBVIOUS
  <2>1. i # Len(out) + 1
    BY <1>2
  <2>2. i \in 1..Len(out) /\ new[i].record = out[i].record
    BY <2>1, <1>3
  <2>3. CASE j \in 1..Len(out) /\ new[j].record = out[j].record
    BY <2>2, <2>3 DEF InLine
  <2>4. CASE new[j].record = hand
    BY <2>2, <2>4, <1>4 DEF InLine
  <2> QED BY <1>3, <2>3, <2>4
<1>7. \A i \in 1..Len(new) : \A j \in 1..Len(waiting) : Before(records, new[i].record, waiting[j])
  BY <1>3, <1>4 DEF InLine
<1>8. InLine(records, new, 0, waiting)
  BY <1>4, <1>5, <1>6, <1>7 DEF InLine
<1> QED BY <1>8 DEF new

(* The line stays one when the log grows.                                  *)
LEMMA LogKeepsLine ==
  ASSUME NEW T, NEW records \in Seq(T), NEW r \in T, NEW out, NEW hand, NEW waiting,
         InLine(records, out, hand, waiting)
  PROVE  InLine(Append(records, r), out, hand, waiting)
<1> DEFINE more == Append(records, r)
<1>1. /\ Len(records) \in Nat /\ Len(more) = Len(records) + 1
      /\ \A n \in 1..Len(records) : more[n] = records[n]
  BY AppendedElements
<1> HIDE DEF more
<1>2. \A m, n \in 1..Len(records) : Before(records, m, n) => Before(more, m, n)
  BY <1>1 DEF Before
<1>3. /\ \A i \in 1..Len(out) : out[i].record \in 1..Len(records)
      /\ hand # 0 => hand \in 1..Len(records)
      /\ \A i \in 1..Len(waiting) : waiting[i] \in 1..Len(records)
  BY <1>1 DEF InLine
<1>4. \A n \in 1..Len(records) : n \in 1..Len(more)
  BY <1>1
<1>5. hand \in 0..Len(more)
  BY <1>1 DEF InLine
<1>6. \A i, j \in 1..Len(out) : i < j => Before(more, out[i].record, out[j].record)
  BY <1>2, <1>3 DEF InLine
<1>7. hand # 0 => \A i \in 1..Len(out) : Before(more, out[i].record, hand)
  BY <1>2, <1>3 DEF InLine
<1>8. \A i \in 1..Len(out) : \A j \in 1..Len(waiting) : Before(more, out[i].record, waiting[j])
  BY <1>2, <1>3 DEF InLine
<1>9. hand # 0 => \A j \in 1..Len(waiting) : Before(more, hand, waiting[j])
  BY <1>2, <1>3 DEF InLine
<1>10. \A i, j \in 1..Len(waiting) : i < j => Before(more, waiting[i], waiting[j])
  BY <1>2, <1>3 DEF InLine
<1>11. InLine(more, out, hand, waiting)
  BY <1>3, <1>4, <1>5, <1>6, <1>7, <1>8, <1>9, <1>10 DEF InLine
<1> QED BY <1>11 DEF more

(* The newest record of the log may follow everything in line.             *)
LEMMA NewestFollows ==
  ASSUME NEW T, NEW records \in Seq(T), NEW r \in T, NEW out, NEW hand, NEW waiting,
         InLine(records, out, hand, waiting)
  PROVE  MayFollow(Append(records, r), out, hand, waiting, Len(records) + 1)
<1>1. Len(records) \in Nat /\ Len(Append(records, r)) = Len(records) + 1
  BY AppendedElements
<1>2. \A m \in 1..Len(records) : Before(Append(records, r), m, Len(records) + 1)
  BY <1>1 DEF Before
<1>3. hand # 0 => hand \in 1..Len(records)
  BY <1>1 DEF InLine
<1>4. Len(records) + 1 \in 1..Len(Append(records, r))
  BY <1>1
<1> QED BY <1>2, <1>3, <1>4 DEF InLine, MayFollow

(* A record that may follow the line joins it at the end.                  *)
LEMMA JoinKeepsLine ==
  ASSUME NEW T, NEW records \in Seq(T), NEW out, NEW hand, NEW waiting \in Seq(Numbers), NEW n,
         InLine(records, out, hand, waiting), MayFollow(records, out, hand, waiting, n)
  PROVE  InLine(records, out, hand, Append(waiting, n))
<1> DEFINE new == Append(waiting, n)
<1>1. n \in Numbers
  BY DEF MayFollow, Numbers
<1>2. /\ Len(waiting) \in Nat /\ Len(new) = Len(waiting) + 1
      /\ \A i \in 1..Len(waiting) : new[i] = waiting[i]
      /\ new[Len(waiting) + 1] = n
  BY <1>1, AppendedElements
<1> HIDE DEF new
<1>3. \A i \in 1..Len(new) :
        \/ i \in 1..Len(waiting) /\ new[i] = waiting[i]
        \/ i = Len(waiting) + 1 /\ new[i] = n
  BY <1>2
<1>4. \A i \in 1..Len(new) : new[i] \in 1..Len(records)
  BY <1>3 DEF InLine, MayFollow
<1>5. \A i \in 1..Len(out) : \A j \in 1..Len(new) : Before(records, out[i].record, new[j])
  BY <1>3 DEF InLine, MayFollow
<1>6. hand # 0 => \A j \in 1..Len(new) : Before(records, hand, new[j])
  BY <1>3 DEF InLine, MayFollow
<1>7. \A i, j \in 1..Len(new) : i < j => Before(records, new[i], new[j])
  <2> SUFFICES ASSUME NEW i \in 1..Len(new), NEW j \in 1..Len(new), i < j
               PROVE  Before(records, new[i], new[j])
    OBVIOUS
  <2>1. i # Len(waiting) + 1
    BY <1>2
  <2>2. i \in 1..Len(waiting) /\ new[i] = waiting[i]
    BY <2>1, <1>3
  <2>3. CASE j \in 1..Len(waiting) /\ new[j] = waiting[j]
    BY <2>2, <2>3 DEF InLine
  <2>4. CASE new[j] = n
    BY <2>2, <2>4 DEF MayFollow
  <2> QED BY <1>3, <2>3, <2>4
<1>8. InLine(records, out, hand, new)
  BY <1>4, <1>5, <1>6, <1>7 DEF InLine
<1> QED BY <1>8 DEF new
=============================================================================
