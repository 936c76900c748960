--------------------------- MODULE RingArrayProofs ---------------------------
(***************************************************************************)
(* The loops over the ring slice compute the sets that the other modules   *)
(* take the ring for: proved for any number of records, sources, filters   *)
(* and limits.                                                             *)
(***************************************************************************)
EXTENDS RingArray, ListProofs

(* The turns of a loop that compacts a slice in place, where the records   *)
(* at the places K are copied.                                             *)
Copies(f, slice, K) ==
  /\ f[0].slice = slice /\ f[0].write = 0
  /\ \A i \in 1..Len(slice) :
       IF i \in K
       THEN /\ f[i].slice = [f[i - 1].slice EXCEPT ![f[i - 1].write + 1] = f[i - 1].slice[i]]
            /\ f[i].write = f[i - 1].write + 1
       ELSE f[i].slice = f[i - 1].slice /\ f[i].write = f[i - 1].write

(* After k turns: what was copied stands at the front in the order of      *)
(* time, and what is still to be read is as it was.                        *)
Copied(acc, slice, K, k) ==
  /\ acc.write \in 0..k
  /\ acc.slice \in Seq(Nat) /\ Len(acc.slice) = Len(slice)
  /\ \A j \in (k + 1)..Len(slice) : acc.slice[j] = slice[j]
  /\ \A j \in 1..acc.write : \E i \in K \cap 1..k : acc.slice[j] = slice[i]
  /\ \A i \in K \cap 1..k : \E j \in 1..acc.write : acc.slice[j] = slice[i]
  /\ \A i, j \in 1..acc.write : i < j => acc.slice[i] < acc.slice[j]

LEMMA ReplacedElement ==
  ASSUME NEW s \in Seq(Nat), NEW i \in 1..Len(s), NEW v \in Nat
  PROVE  /\ [s EXCEPT ![i] = v] \in Seq(Nat) /\ Len([s EXCEPT ![i] = v]) = Len(s)
         /\ [s EXCEPT ![i] = v][i] = v
         /\ \A j \in 1..Len(s) : j # i => [s EXCEPT ![i] = v][j] = s[j]
OBVIOUS

LEMMA TurnCopies ==
  ASSUME NEW slice \in Seq(Nat), InTime(slice), NEW K, NEW f, Copies(f, slice, K),
         NEW k \in 1..Len(slice), Copied(f[k - 1], slice, K, k - 1)
  PROVE  Copied(f[k], slice, K, k) /\ f[k - 1].slice[k] = slice[k]
<1> DEFINE old == f[k - 1].slice
           w == f[k - 1].write
           new == f[k].slice
           n == Len(slice)
<1>0. /\ n \in Nat /\ k \in 1..n /\ k \in Nat /\ k - 1 \in Nat /\ (k - 1) + 1 = k
      /\ \A i \in 1..n : slice[i] \in Nat
      /\ \A i, j \in 1..n : i < j => slice[i] < slice[j]
  BY ElementsOf DEF InTime
<1>1. /\ w \in 0..(k - 1) /\ old \in Seq(Nat) /\ Len(old) = n
      /\ \A j \in k..n : old[j] = slice[j]
      /\ \A j \in 1..w : \E i \in K \cap 1..(k - 1) : old[j] = slice[i]
      /\ \A i \in K \cap 1..(k - 1) : \E j \in 1..w : old[j] = slice[i]
      /\ \A i, j \in 1..w : i < j => old[i] < old[j]
  BY <1>0 DEF Copied
<1>2. IF k \in K THEN new = [old EXCEPT ![w + 1] = old[k]] /\ f[k].write = w + 1
      ELSE new = old /\ f[k].write = w
  BY DEF Copies
<1>3. old[k] = slice[k] /\ slice[k] \in Nat /\ k \in k..n
  BY <1>0, <1>1
<1>4. (k + 1)..n \subseteq k..n /\ 1..(k - 1) \subseteq 1..k /\ 1..k \subseteq 1..n
  BY <1>0
<1> HIDE DEF old, w, new, n
<1>5. CASE k \notin K
  <2>1. K \cap 1..k = K \cap 1..(k - 1)
    <3>1. \A i \in 1..k : i = k \/ i \in 1..(k - 1)
      BY <1>0
    <3> QED BY <1>4, <1>5, <3>1
  <2>2. new = old /\ f[k].write = w /\ w \in 0..k
    BY <1>0, <1>1, <1>2, <1>5
  <2>3. Copied(f[k], slice, K, k)
    BY <1>1, <1>4, <2>1, <2>2 DEF Copied, new, n
  <2> QED BY <1>3, <2>3 DEF old
<1>6. CASE k \in K
  <2>0. w \in Nat /\ w + 1 <= k /\ k <= n /\ k \in 1..k
    BY <1>0, <1>1
  <2>1. /\ w + 1 \in 1..n /\ w + 1 \in 0..k /\ w + 1 \in 1..(w + 1)
        /\ 1..w \subseteq 1..n /\ 1..w \subseteq 1..(w + 1)
        /\ \A j \in 1..(w + 1) : j = w + 1 \/ j \in 1..w
        /\ \A j \in 1..w : j # w + 1
    BY <1>0, <2>0
  <2>9. /\ \A j \in (k + 1)..n : j \in 1..n /\ j # w + 1
        /\ \A i \in 1..k : i = k \/ i \in 1..(k - 1)
        /\ \A i \in 1..(k - 1) : i < k /\ i \in 1..n
    BY <1>0, <2>0
  <2>10. ASSUME NEW i \in 1..(w + 1), NEW j \in 1..(w + 1), i < j PROVE i \in 1..w
    BY <2>0, <2>10
  <2>2. /\ new \in Seq(Nat) /\ Len(new) = n /\ new[w + 1] = slice[k] /\ f[k].write = w + 1
        /\ \A j \in 1..n : j # w + 1 => new[j] = old[j]
    <3>1. new = [old EXCEPT ![w + 1] = slice[k]]
      BY <1>2, <1>3, <1>6
    <3> QED BY <1>1, <1>2, <1>3, <1>6, <2>1, <3>1, ReplacedElement
  <2>3. \A j \in 1..w : new[j] = old[j]
    BY <2>1, <2>2
  <2>4. \A j \in (k + 1)..n : new[j] = slice[j]
    BY <1>1, <1>4, <2>2, <2>9
  <2>5. ASSUME NEW j \in 1..(w + 1) PROVE \E i \in K \cap 1..k : new[j] = slice[i]
    <3>1. CASE j = w + 1
      BY <1>6, <2>0, <2>2, <3>1
    <3>2. CASE j \in 1..w
      BY <1>1, <1>4, <2>3, <3>2
    <3> QED BY <2>1, <3>1, <3>2
  <2>6. ASSUME NEW i \in K \cap 1..k PROVE \E j \in 1..(w + 1) : new[j] = slice[i]
    <3>1. CASE i = k
      BY <2>1, <2>2, <3>1
    <3>2. CASE i \in 1..(k - 1)
      <4>1. PICK j \in 1..w : old[j] = slice[i]
        BY <1>1, <3>2
      <4> QED BY <2>1, <2>3, <4>1
    <3> QED BY <2>9, <3>1, <3>2
  <2>7. ASSUME NEW i \in 1..(w + 1), NEW j \in 1..(w + 1), i < j PROVE new[i] < new[j]
    <3>1. i \in 1..w
      BY <2>7, <2>10
    <3>2. CASE j = w + 1
      <4>1. PICK m \in K \cap 1..(k - 1) : old[i] = slice[m]
        BY <1>1, <3>1
      <4>2. slice[m] < slice[k]
        BY <1>0, <2>9, <4>1
      <4> QED BY <2>2, <2>3, <3>1, <3>2, <4>1, <4>2
    <3>3. CASE j \in 1..w
      BY <1>1, <2>3, <2>7, <3>1, <3>3
    <3> QED BY <2>1, <3>2, <3>3
  <2>8. Copied(f[k], slice, K, k)
    BY <2>1, <2>2, <2>4, <2>5, <2>6, <2>7 DEF Copied, new, n
  <2> QED BY <1>3, <2>8 DEF old
<1> QED BY <1>5, <1>6

(* What a compaction leaves: the copied records, once and in order.        *)
LEMMA CompactedList ==
  ASSUME NEW slice \in Seq(Nat), InTime(slice), NEW K, K \subseteq 1..Len(slice),
         NEW f, Copies(f, slice, K)
  PROVE  /\ \A k \in 1..Len(slice) : f[k - 1].slice[k] = slice[k]
         /\ Compacted(f[Len(slice)]) \in Seq(Nat) /\ InTime(Compacted(f[Len(slice)]))
         /\ Range(Compacted(f[Len(slice)])) = {slice[i] : i \in K}
<1> DEFINE n == Len(slice)
           good == {k \in 0..n : Copied(f[k], slice, K, k)}
           r == Compacted(f[n])
<1>0. n \in Nat
  BY ElementsOf
<1>1. 0 \in good
  <2>1. f[0].slice = slice /\ f[0].write = 0 /\ 0 \in 0..0 /\ 0 + 1 = 1 /\ 0 \in 0..n
    BY <1>0 DEF Copies
  <2>2. \A i \in 1..0 : FALSE
    OBVIOUS
  <2> QED BY <2>1, <2>2 DEF Copied
<1>2. ASSUME NEW k \in 1..n, k - 1 \in good PROVE k \in good /\ f[k - 1].slice[k] = slice[k]
  <2>1. k \in 0..n
    BY <1>0
  <2> QED BY <1>2, <2>1, TurnCopies
<1>3. \A k \in 0..n : k \in good
  <2> HIDE DEF good, n
  <2> QED BY <1>0, <1>1, <1>2, StepByStep
<1>4. \A k \in 1..n : f[k - 1].slice[k] = slice[k]
  <2> SUFFICES ASSUME NEW k \in 1..n PROVE f[k - 1].slice[k] = slice[k]
    OBVIOUS
  <2>1. k - 1 \in 0..n
    BY <1>0
  <2> QED BY <1>2, <1>3, <2>1
<1> DEFINE w == f[n].write
           s == f[n].slice
<1>5. /\ w \in 0..n /\ s \in Seq(Nat) /\ Len(s) = n
      /\ \A j \in 1..w : \E i \in K \cap 1..n : s[j] = slice[i]
      /\ \A i \in K \cap 1..n : \E j \in 1..w : s[j] = slice[i]
      /\ \A i, j \in 1..w : i < j => s[i] < s[j]
  <2>1. Copied(f[n], slice, K, n)
    BY <1>0, <1>3
  <2> QED BY <2>1 DEF Copied
<1>6. r = [i \in 1..w |-> s[i]]
  BY DEF Compacted
<1> HIDE DEF w, s, r, good
<1>7. w \in Nat /\ \A i \in 1..w : s[i] \in Nat
  <2>1. w \in Nat /\ 1..w \subseteq 1..n
    BY <1>0, <1>5
  <2> QED BY <1>5, <2>1, ElementsOf
<1>8. r \in Seq(Nat) /\ Len(r) = w /\ \A i \in 1..w : r[i] = s[i]
  <2>1. r \in [1..w -> Nat]
    BY <1>6, <1>7
  <2>2. r \in Seq(Nat)
    BY <1>7, <2>1, IsASeq
  <2>3. Len(r) = w
    BY <1>7, <2>1, <2>2, LenProperties
  <2> QED BY <1>6, <2>2, <2>3
<1>9. InTime(r)
  BY <1>5, <1>8 DEF InTime
<1>10. Range(r) = {slice[i] : i \in K}
  <2>1. K \cap 1..n = K
    OBVIOUS
  <2>2. Range(r) = {s[i] : i \in 1..w}
    BY <1>6 DEF Range
  <2>3. \A j \in 1..w : \E i \in K : s[j] = slice[i]
    BY <1>5, <2>1
  <2>4. \A i \in K : \E j \in 1..w : s[j] = slice[i]
    BY <1>5, <2>1
  <2>5. ASSUME NEW x \in Range(r) PROVE \E i \in K : x = slice[i]
    BY <2>2, <2>3
  <2>6. ASSUME NEW i \in K PROVE slice[i] \in Range(r)
    BY <2>2, <2>4
  <2> QED BY <2>5, <2>6
<1> QED BY <1>4, <1>8, <1>9, <1>10 DEF r
-----------------------------------------------------------------------------
(* The turns of the loops.  A loop is a function of the number of    *)
(* turns, of which each takes up where the last one ended.                 *)
Turn(loop, a, b, c, acc, i) ==
  IF loop = "drop" THEN DropOrCopy(a, b, acc, i)
  ELSE IF loop = "count" THEN CountOrCopy(a, b, acc, i)
  ELSE IF loop = "mark" THEN Mark(a, b, c, acc, Len(b) + 1 - i)
  ELSE CopyMarked(a, acc, i)

Runs(f, loop, a, b, c, start, n) ==
  f = [i \in 0..n |-> IF i = 0 THEN start ELSE Turn(loop, a, b, c, f[i - 1], i)]

LEMMA LoopRuns ==
  ASSUME NEW loop, NEW a, NEW b, NEW c, NEW start, NEW n \in Nat
  PROVE  \E f : Runs(f, loop, a, b, c, start, n)
<1> DEFINE Is(f, m) == Runs(f, loop, a, b, c, start, m)
           with == {m \in Nat : \E f : Is(f, m)}
<1>1. 0 \in with
  <2>1. Is([i \in 0..0 |-> start], 0)
    BY DEF Runs
  <2> QED BY <2>1
<1>2. ASSUME NEW m \in Nat, NEW f, Is(f, m) PROVE m + 1 \in with
  <2> DEFINE g == [i \in 0..(m + 1) |-> IF i = m + 1 THEN Turn(loop, a, b, c, f[m], m + 1) ELSE f[i]]
  <2>1. ASSUME NEW i \in 0..(m + 1)
        PROVE  g[i] = IF i = 0 THEN start ELSE Turn(loop, a, b, c, g[i - 1], i)
    <3>1. CASE i = m + 1
      <4>1. i - 1 = m /\ m \in 0..(m + 1) /\ m # m + 1 /\ i # 0
        BY <3>1
      <4> QED BY <3>1, <4>1
    <3>2. CASE i # m + 1
      <4>1. i \in 0..m /\ (i # 0 => i - 1 \in 0..m /\ i - 1 \in 0..(m + 1) /\ i - 1 # m + 1)
        BY <3>2
      <4>2. f[i] = IF i = 0 THEN start ELSE Turn(loop, a, b, c, f[i - 1], i)
        BY <1>2, <4>1 DEF Runs
      <4> QED BY <3>2, <4>1, <4>2
    <3> QED BY <3>1, <3>2
  <2>2. Is(g, m + 1)
    BY <2>1 DEF Runs
  <2>3. m + 1 \in Nat
    OBVIOUS
  <2> HIDE DEF g, Is
  <2> QED BY <2>2, <2>3
<1>3. \A m \in 1..n : m - 1 \in with => m \in with
  <2> SUFFICES ASSUME NEW m \in 1..n, m - 1 \in with PROVE m \in with
    OBVIOUS
  <2>1. m - 1 \in Nat /\ (m - 1) + 1 = m
    OBVIOUS
  <2>2. PICK f : Is(f, m - 1)
    OBVIOUS
  <2> HIDE DEF Is, with
  <2> QED BY <1>2, <2>1, <2>2
<1>4. n \in with
  <2> HIDE DEF with
  <2>1. \A m \in 0..n : m \in with
    BY <1>1, <1>3, StepByStep
  <2> QED BY <2>1
<1> QED BY <1>4

(* The turns of pruneSourceLocked,                                         *)
DropTurns(f, records, slice, source, count) ==
  /\ f[0] = Unread(slice, count)
  /\ \A i \in 1..Len(slice) : f[i] = DropOrCopy(records, source, f[i - 1], i)
  /\ WithoutFirst(records, slice, source, count) = Compacted(f[Len(slice)])

LEMMA DropLoop ==
  ASSUME NEW records, NEW slice \in Seq(Nat), NEW source, NEW count, ~(count <= 0)
  PROVE  \E f : DropTurns(f, records, slice, source, count)
<1> DEFINE Is(f) == f = [i \in 0..Len(slice) |->
                           IF i = 0 THEN Unread(slice, count)
                           ELSE DropOrCopy(records, source, f[i - 1], i)]
<1>0. Len(slice) \in Nat
  BY ElementsOf
<1>1. \E f : Is(f)
  <2>1. PICK f : Runs(f, "drop", records, source, 0, Unread(slice, count), Len(slice))
    BY <1>0, LoopRuns
  <2>2. Is(f)
    BY <2>1 DEF Runs, Turn
  <2> HIDE DEF Is
  <2> QED BY <2>2
<1> DEFINE F == CHOOSE f : Is(f)
<1>2. WithoutFirst(records, slice, source, count) = Compacted(F[Len(slice)])
  BY DEF WithoutFirst
<1>3. Is(F)
  <2> HIDE DEF Is
  <2> QED BY <1>1
<1> HIDE DEF F
<1>4. F[0] = Unread(slice, count)
  BY <1>0, <1>3
<1>5. \A i \in 1..Len(slice) : F[i] = DropOrCopy(records, source, F[i - 1], i)
  BY <1>0, <1>3
<1> HIDE DEF Is
<1>6. DropTurns(F, records, slice, source, count)
  BY <1>2, <1>4, <1>5 DEF DropTurns
<1> QED BY <1>6

(* of expunge,                                                             *)
CountTurns(f, records, slice, source) ==
  /\ f[0] = Unread(slice, 0)
  /\ \A i \in 1..Len(slice) : f[i] = CountOrCopy(records, source, f[i - 1], i)
  /\ ExpungeLoop(records, slice, source) = f[Len(slice)]

LEMMA CountLoop ==
  ASSUME NEW records, NEW slice \in Seq(Nat), NEW source
  PROVE  \E f : CountTurns(f, records, slice, source)
<1> DEFINE Is(f) == f = [i \in 0..Len(slice) |->
                           IF i = 0 THEN Unread(slice, 0)
                           ELSE CountOrCopy(records, source, f[i - 1], i)]
<1>0. Len(slice) \in Nat
  BY ElementsOf
<1>1. \E f : Is(f)
  <2>1. PICK f : Runs(f, "count", records, source, 0, Unread(slice, 0), Len(slice))
    BY <1>0, LoopRuns
  <2>2. Is(f)
    BY <2>1 DEF Runs, Turn
  <2> HIDE DEF Is
  <2> QED BY <2>2
<1> DEFINE F == CHOOSE f : Is(f)
<1>2. ExpungeLoop(records, slice, source) = F[Len(slice)]
  BY DEF ExpungeLoop
<1>3. Is(F)
  <2> HIDE DEF Is
  <2> QED BY <1>1
<1> HIDE DEF F
<1>4. F[0] = Unread(slice, 0)
  BY <1>0, <1>3
<1>5. \A i \in 1..Len(slice) : F[i] = CountOrCopy(records, source, F[i - 1], i)
  BY <1>0, <1>3
<1> HIDE DEF Is
<1>6. CountTurns(F, records, slice, source)
  BY <1>2, <1>4, <1>5 DEF CountTurns
<1> QED BY <1>6

(* and the two loops of limitReplayPerSource.                              *)
MarkTurns(f, records, slice, limit) ==
  /\ f[0] = Unmarked
  /\ \A k \in 1..Len(slice) :
       f[k] = Mark(records, slice, limit, f[k - 1], Len(slice) + 1 - k)
  /\ Marked(records, slice, limit) = f[Len(slice)].include

LEMMA MarkLoop ==
  ASSUME NEW records, NEW slice \in Seq(Nat), NEW limit
  PROVE  \E f : MarkTurns(f, records, slice, limit)
<1> DEFINE Is(f) == f = [k \in 0..Len(slice) |->
                           IF k = 0 THEN Unmarked
                           ELSE Mark(records, slice, limit, f[k - 1], Len(slice) + 1 - k)]
<1>0. Len(slice) \in Nat
  BY ElementsOf
<1>1. \E f : Is(f)
  <2>1. PICK f : Runs(f, "mark", records, slice, limit, Unmarked, Len(slice))
    BY <1>0, LoopRuns
  <2>2. Is(f)
    BY <2>1 DEF Runs, Turn
  <2> HIDE DEF Is
  <2> QED BY <2>2
<1> DEFINE F == CHOOSE f : Is(f)
<1>2. Marked(records, slice, limit) = F[Len(slice)].include
  BY DEF Marked
<1>3. Is(F)
  <2> HIDE DEF Is
  <2> QED BY <1>1
<1> HIDE DEF F
<1>4. F[0] = Unmarked
  BY <1>0, <1>3
<1>5. ASSUME NEW k \in 1..Len(slice)
      PROVE  F[k] = Mark(records, slice, limit, F[k - 1], Len(slice) + 1 - k)
  <2>1. k \in 0..Len(slice) /\ k # 0
    BY <1>0
  <2>2. F[k] = IF k = 0 THEN Unmarked
               ELSE Mark(records, slice, limit, F[k - 1], Len(slice) + 1 - k)
    BY <1>3, <2>1
  <2> QED BY <2>1, <2>2
<1> HIDE DEF Is
<1>6. MarkTurns(F, records, slice, limit)
  BY <1>2, <1>4, <1>5 DEF MarkTurns
<1> QED BY <1>6

CopyTurns(f, records, slice, limit) ==
  /\ f[0] = Unread(slice, 0)
  /\ \A i \in 1..Len(slice) : f[i] = CopyMarked(Marked(records, slice, limit), f[i - 1], i)
  /\ LimitSlicePerSource(records, slice, limit) = Compacted(f[Len(slice)])

LEMMA CopyLoop ==
  ASSUME NEW records, NEW slice \in Seq(Nat), NEW limit
  PROVE  \E f : CopyTurns(f, records, slice, limit)
<1> DEFINE marked == Marked(records, slice, limit)
           Is(f) == f = [i \in 0..Len(slice) |->
                           IF i = 0 THEN Unread(slice, 0) ELSE CopyMarked(marked, f[i - 1], i)]
<1>0. Len(slice) \in Nat
  BY ElementsOf
<1>1. \E f : Is(f)
  <2>1. PICK f : Runs(f, "copy", marked, 0, 0, Unread(slice, 0), Len(slice))
    BY <1>0, LoopRuns
  <2>2. Is(f)
    BY <2>1 DEF Runs, Turn
  <2> HIDE DEF Is
  <2> QED BY <2>2
<1> DEFINE F == CHOOSE f : Is(f)
<1>2. LimitSlicePerSource(records, slice, limit) = Compacted(F[Len(slice)])
  BY DEF LimitSlicePerSource
<1>3. Is(F)
  <2> HIDE DEF Is
  <2> QED BY <1>1
<1> HIDE DEF F, marked
<1>4. F[0] = Unread(slice, 0)
  BY <1>0, <1>3
<1>5. \A i \in 1..Len(slice) : F[i] = CopyMarked(marked, F[i - 1], i)
  BY <1>0, <1>3
<1> HIDE DEF Is
<1>6. CopyTurns(F, records, slice, limit)
  BY <1>2, <1>4, <1>5 DEF marked, CopyTurns
<1> QED BY <1>6

-----------------------------------------------------------------------------
(* What a turn of a compaction changes.                                    *)
LEMMA TurnOfCompaction ==
  ASSUME NEW acc, NEW i, NEW records, NEW source
  PROVE  /\ CopyDown(acc, i).slice = [acc.slice EXCEPT ![acc.write + 1] = acc.slice[i]]
         /\ CopyDown(acc, i).write = acc.write + 1 /\ CopyDown(acc, i).count = acc.count
BY DEF CopyDown

DropTurn(records, source, acc, i, new) ==
  IF records[acc.slice[i]].source = source /\ acc.count > 0
  THEN new.slice = acc.slice /\ new.write = acc.write /\ new.count = acc.count - 1
  ELSE /\ new.slice = [acc.slice EXCEPT ![acc.write + 1] = acc.slice[i]]
       /\ new.write = acc.write + 1 /\ new.count = acc.count

LEMMA TurnOfDrop ==
  ASSUME NEW records, NEW source, NEW acc, NEW i
  PROVE  DropTurn(records, source, acc, i, DropOrCopy(records, source, acc, i))
<1>1. CASE records[acc.slice[i]].source = source /\ acc.count > 0
  BY <1>1 DEF DropOrCopy, DropTurn
<1>2. CASE ~(records[acc.slice[i]].source = source /\ acc.count > 0)
  <2>1. DropOrCopy(records, source, acc, i) = CopyDown(acc, i)
    BY <1>2 DEF DropOrCopy
  <2>2. /\ CopyDown(acc, i).slice = [acc.slice EXCEPT ![acc.write + 1] = acc.slice[i]]
        /\ CopyDown(acc, i).write = acc.write + 1 /\ CopyDown(acc, i).count = acc.count
    BY TurnOfCompaction
  <2> QED BY <1>2, <2>1, <2>2 DEF DropTurn
<1> QED BY <1>1, <1>2

CountTurn(records, source, acc, i, new) ==
  IF records[acc.slice[i]].source = source
  THEN new.slice = acc.slice /\ new.write = acc.write /\ new.count = acc.count + 1
  ELSE /\ new.slice = [acc.slice EXCEPT ![acc.write + 1] = acc.slice[i]]
       /\ new.write = acc.write + 1 /\ new.count = acc.count

LEMMA TurnOfCount ==
  ASSUME NEW records, NEW source, NEW acc, NEW i
  PROVE  CountTurn(records, source, acc, i, CountOrCopy(records, source, acc, i))
<1>1. CASE records[acc.slice[i]].source = source
  BY <1>1 DEF CountOrCopy, CountTurn
<1>2. CASE records[acc.slice[i]].source # source
  <2>1. CountOrCopy(records, source, acc, i) = CopyDown(acc, i)
    BY <1>2 DEF CountOrCopy
  <2>2. /\ CopyDown(acc, i).slice = [acc.slice EXCEPT ![acc.write + 1] = acc.slice[i]]
        /\ CopyDown(acc, i).write = acc.write + 1 /\ CopyDown(acc, i).count = acc.count
    BY TurnOfCompaction
  <2> QED BY <1>2, <2>1, <2>2 DEF CountTurn
<1> QED BY <1>1, <1>2

(* The places up to one, and from one on, among some.                      *)
CountsOf(M, n) ==
  /\ IsFiniteSet(M) /\ Cardinality(M) \in 0..n
  /\ \A i \in Nat : /\ Cardinality(NotAfter(M, i)) \in Nat
                    /\ Cardinality(NotBefore(M, i)) \in Nat
  /\ Cardinality(NotAfter(M, 0)) = 0 /\ Cardinality(NotBefore(M, n + 1)) = 0
  /\ \A i \in 1..n :
       /\ Cardinality(NotAfter(M, i)) =
            Cardinality(NotAfter(M, i - 1)) + IF i \in M THEN 1 ELSE 0
       /\ Cardinality(NotBefore(M, i)) =
            Cardinality(NotBefore(M, i + 1)) + IF i \in M THEN 1 ELSE 0

LEMMA PlacesUpto ==
  ASSUME NEW n \in Nat, NEW M, M \subseteq 1..n
  PROVE  CountsOf(M, n)
<1>1. IsFiniteSet(1..n) /\ Cardinality(1..n) = n /\ 1..n \subseteq Nat
  BY FirstNumbers
<1>2. IsFiniteSet(M) /\ Cardinality(M) \in 0..n
  <2>1. IsFiniteSet(M) /\ Cardinality(M) <= n
    BY <1>1, FS_Subset
  <2>2. Cardinality(M) \in Nat
    BY <2>1, FS_CardinalityType
  <2> QED BY <2>1, <2>2
<1>3. ASSUME NEW i \in Nat
      PROVE  /\ IsFiniteSet(NotAfter(M, i)) /\ Cardinality(NotAfter(M, i)) \in Nat
             /\ IsFiniteSet(NotBefore(M, i)) /\ Cardinality(NotBefore(M, i)) \in Nat
  <2>1. NotAfter(M, i) \subseteq M /\ NotBefore(M, i) \subseteq M
    BY DEF NotAfter, NotBefore
  <2> QED BY <1>2, <2>1, FS_Subset, FS_CardinalityType
<1>4. Cardinality(NotAfter(M, 0)) = 0 /\ Cardinality(NotBefore(M, n + 1)) = 0
  <2>1. \A j \in M : ~(j <= 0) /\ ~(j >= n + 1)
    <3> SUFFICES ASSUME NEW j \in M PROVE ~(j <= 0) /\ ~(j >= n + 1)
      OBVIOUS
    <3>1. j \in 1..n
      OBVIOUS
    <3> QED BY <3>1
  <2>2. NotAfter(M, 0) = {} /\ NotBefore(M, n + 1) = {}
    BY <2>1 DEF NotAfter, NotBefore
  <2> QED BY <2>2, FS_EmptySet
<1>5. ASSUME NEW i \in 1..n
      PROVE  /\ Cardinality(NotAfter(M, i)) =
                  Cardinality(NotAfter(M, i - 1)) + IF i \in M THEN 1 ELSE 0
             /\ Cardinality(NotBefore(M, i)) =
                  Cardinality(NotBefore(M, i + 1)) + IF i \in M THEN 1 ELSE 0
  <2>1. i - 1 \in Nat /\ i + 1 \in Nat /\ \A j \in M : j \in Nat
    BY <1>1
  <2>2. i \notin NotAfter(M, i - 1) /\ i \notin NotBefore(M, i + 1)
    BY DEF NotAfter, NotBefore
  <2>3. \A j \in M : (j <= i <=> j <= i - 1 \/ j = i) /\ (j >= i <=> j >= i + 1 \/ j = i)
    BY <2>1
  <2>4. CASE i \in M
    <3>1. NotAfter(M, i) = NotAfter(M, i - 1) \cup {i} /\ NotBefore(M, i) = NotBefore(M, i + 1) \cup {i}
      BY <2>3, <2>4 DEF NotAfter, NotBefore
    <3> QED BY <1>3, <2>1, <2>2, <2>4, <3>1, FS_AddElement
  <2>5. CASE i \notin M
    <3>1. NotAfter(M, i) = NotAfter(M, i - 1) /\ NotBefore(M, i) = NotBefore(M, i + 1)
      BY <2>3, <2>5 DEF NotAfter, NotBefore
    <3> QED BY <1>3, <2>1, <2>5, <3>1
  <2> QED BY <2>4, <2>5
<1> QED BY <1>2, <1>3, <1>4, <1>5 DEF CountsOf

(* The places of a source's records.                                       *)
PlacesOf(records, slice, s) == {i \in 1..Len(slice) : records[slice[i]].source = s}

(* The numbers of a set, each once, in the order of time.                  *)
Enumerates(r, S) == r \in Seq(Nat) /\ InTime(r) /\ Range(r) = S

(* pruneSourceLocked's loop drops the first of a source's records.         *)
Surviving(records, slice, source, count) ==
  {i \in 1..Len(slice) :
     i \in PlacesOf(records, slice, source) =>
       Cardinality(NotAfter(PlacesOf(records, slice, source), i)) > count}

LEMMA DropsFirst ==
  ASSUME NEW records, NEW slice \in Seq(Nat), InTime(slice), NEW source, NEW count \in Int
  PROVE  Enumerates(WithoutFirst(records, slice, source, count),
               {slice[i] : i \in Surviving(records, slice, source, count)})
<1> DEFINE n == Len(slice)
           M == PlacesOf(records, slice, source)
           r == WithoutFirst(records, slice, source, count)
           K == Surviving(records, slice, source, count)
           C(i) == Cardinality(NotAfter(M, i))
<1>0. n \in Nat /\ M \subseteq 1..n
  BY ElementsOf DEF PlacesOf
<1>1. /\ \A i \in Nat : C(i) \in Nat
      /\ C(0) = 0
      /\ \A i \in 1..n : C(i) = C(i - 1) + IF i \in M THEN 1 ELSE 0
  <2> HIDE DEF M, n
  <2>1. CountsOf(M, n)
    BY <1>0, PlacesUpto
  <2> QED BY <2>1 DEF CountsOf
<1>2. \A i \in 1..n : i \in M <=> records[slice[i]].source = source
  BY DEF PlacesOf
<1>7. K = {i \in 1..n : i \in M => C(i) > count}
  BY DEF Surviving
<1> HIDE DEF M, C, K
<1>3. CASE count <= 0
  <2>1. r = slice
    BY <1>3 DEF WithoutFirst
  <2>2. ASSUME NEW i \in 1..n, i \in M PROVE C(i) > count
    <3>1. i - 1 \in Nat /\ C(i) = C(i - 1) + 1
      BY <1>0, <1>1, <2>2
    <3>2. C(i - 1) \in Nat
      BY <1>1, <3>1
    <3> QED BY <1>3, <3>1, <3>2
  <2>3. K = 1..n
    BY <1>7, <2>2
  <2>4. Range(slice) = {slice[i] : i \in 1..n}
    BY ElementsOf DEF Range
  <2> QED BY <2>1, <2>3, <2>4 DEF Enumerates, K
<1>4. CASE ~(count <= 0)
  <2>1. PICK f : /\ f[0] = Unread(slice, count)
                 /\ \A i \in 1..n : f[i] = DropOrCopy(records, source, f[i - 1], i)
                 /\ r = Compacted(f[n])
    <3>1. PICK f : DropTurns(f, records, slice, source, count)
      BY <1>4, DropLoop
    <3> QED BY <3>1 DEF DropTurns
  <2> HIDE DEF r
  <2> DEFINE Drops(i) == records[f[i - 1].slice[i]].source = source /\ f[i - 1].count > 0
             L == {i \in 1..n : ~Drops(i)}
  <2>2. ASSUME NEW i \in 1..n
        PROVE  IF Drops(i)
               THEN f[i].slice = f[i - 1].slice /\ f[i].write = f[i - 1].write
                    /\ f[i].count = f[i - 1].count - 1
               ELSE /\ f[i].slice = [f[i - 1].slice EXCEPT ![f[i - 1].write + 1] = f[i - 1].slice[i]]
                    /\ f[i].write = f[i - 1].write + 1 /\ f[i].count = f[i - 1].count
    <3>1. f[i] = DropOrCopy(records, source, f[i - 1], i)
      BY <2>1
    <3>2. DropTurn(records, source, f[i - 1], i, f[i])
      BY <3>1, TurnOfDrop
    <3> QED BY <3>2 DEF DropTurn
  <2>4. Copies(f, slice, L)
    <3>1. f[0].slice = slice /\ f[0].write = 0
      BY <2>1 DEF Unread
    <3>2. ASSUME NEW i \in 1..n
          PROVE  IF i \in L
                 THEN /\ f[i].slice = [f[i - 1].slice EXCEPT ![f[i - 1].write + 1] = f[i - 1].slice[i]]
                      /\ f[i].write = f[i - 1].write + 1
                 ELSE f[i].slice = f[i - 1].slice /\ f[i].write = f[i - 1].write
      BY <2>2
    <3> HIDE DEF L
    <3> QED BY <3>1, <3>2 DEF Copies
  <2>5. /\ \A i \in 1..n : f[i - 1].slice[i] = slice[i]
        /\ r \in Seq(Nat) /\ InTime(r) /\ Range(r) = {slice[i] : i \in L}
    <3> HIDE DEF L
    <3>1. L \subseteq 1..n
      BY DEF L
    <3>2. /\ \A k \in 1..n : f[k - 1].slice[k] = slice[k]
          /\ Compacted(f[n]) \in Seq(Nat) /\ InTime(Compacted(f[n]))
          /\ Range(Compacted(f[n])) = {slice[i] : i \in L}
      BY <2>4, <3>1, CompactedList
    <3> QED BY <2>1, <3>2
  <2> DEFINE left == {i \in 0..n : f[i].count = IF C(i) >= count THEN 0 ELSE count - C(i)}
  <2>6. \A i \in 0..n : i \in left
    <3>1. 0 \in left
      BY <1>0, <1>1, <1>4, <2>1 DEF Unread
    <3>2. ASSUME NEW i \in 1..n, i - 1 \in left PROVE i \in left
      <4>1. /\ i \in 0..n /\ i - 1 \in Nat /\ C(i - 1) \in Nat
            /\ C(i) = C(i - 1) + IF i \in M THEN 1 ELSE 0
            /\ f[i - 1].count = IF C(i - 1) >= count THEN 0 ELSE count - C(i - 1)
        BY <1>0, <1>1, <3>2
      <4>2. i \in M /\ f[i - 1].count > 0 <=> Drops(i)
        BY <1>2, <2>5
      <4>3. f[i].count = IF Drops(i) THEN f[i - 1].count - 1 ELSE f[i - 1].count
        BY <2>2
      <4> HIDE DEF Drops
      <4>4. f[i].count = IF C(i) >= count THEN 0 ELSE count - C(i)
        BY <4>1, <4>2, <4>3
      <4> QED BY <4>1, <4>4
    <3> HIDE DEF left, n
    <3> QED BY <1>0, <3>1, <3>2, StepByStep
  <2>7. ASSUME NEW i \in 1..n PROVE i \in L <=> i \in K
    <3>1. /\ i - 1 \in 0..n /\ i - 1 \in Nat /\ C(i - 1) \in Nat
          /\ C(i) = C(i - 1) + IF i \in M THEN 1 ELSE 0
      BY <1>0, <1>1
    <3>2. f[i - 1].count = IF C(i - 1) >= count THEN 0 ELSE count - C(i - 1)
      BY <2>6, <3>1
    <3>3. i \in M /\ f[i - 1].count > 0 <=> Drops(i)
      BY <1>2, <2>5
    <3>4. i \in M => (f[i - 1].count > 0 <=> ~(C(i) > count))
      BY <3>1, <3>2
    <3> QED BY <1>7, <3>3, <3>4
  <2>8. L = K
    BY <1>7, <2>7
  <2> HIDE DEF L
  <2> QED BY <2>5, <2>8 DEF r, K, Enumerates
<1> QED BY <1>3, <1>4

(* What a turn of the marking pass changes.                                *)
MarkTurn(s, limit, acc, i, new) ==
  IF acc.counts[s] >= limit THEN new = acc
  ELSE /\ new.counts = [acc.counts EXCEPT ![s] = acc.counts[s] + 1]
       /\ new.include = acc.include \cup {i}

LEMMA TurnOfMark ==
  ASSUME NEW records, NEW slice, NEW limit, NEW acc, NEW i
  PROVE  MarkTurn(records[slice[i]].source, limit, acc, i, Mark(records, slice, limit, acc, i))
<1> DEFINE s == records[slice[i]].source
<1>1. CASE acc.counts[s] >= limit
  BY <1>1 DEF Mark, MarkTurn
<1>2. CASE ~(acc.counts[s] >= limit)
  BY <1>2 DEF Mark, MarkTurn
<1> QED BY <1>1, <1>2

(* Going down from the newest record, each source's records are marked     *)
(* until there are as many as the limit.                                   *)
LEMMA MarksNewest ==
  ASSUME NEW records, NEW slice \in Seq(Nat), NEW limit \in Nat,
         \A i \in 1..Len(slice) : records[slice[i]].source \in AnySource
  PROVE  Marked(records, slice, limit) =
           {i \in 1..Len(slice) :
              Cardinality(NotBefore(PlacesOf(records, slice, records[slice[i]].source), i)) <= limit}
<1> DEFINE n == Len(slice)
           src(i) == records[slice[i]].source
           M(s) == PlacesOf(records, slice, s)
           B(s, i) == Cardinality(NotBefore(M(s), i))
<1>0. n \in Nat /\ \A i \in 1..n : src(i) \in AnySource
  BY ElementsOf
<1>1. ASSUME NEW s
      PROVE  /\ \A i \in Nat : B(s, i) \in Nat
             /\ B(s, n + 1) = 0
             /\ \A i \in 1..n : B(s, i) = B(s, i + 1) + IF src(i) = s THEN 1 ELSE 0
  <2> HIDE DEF n
  <2>1. M(s) \subseteq 1..n /\ \A i \in 1..n : i \in M(s) <=> src(i) = s
    BY DEF PlacesOf, n
  <2> HIDE DEF M, src
  <2>2. CountsOf(M(s), n)
    BY <1>0, <2>1, PlacesUpto
  <2> QED BY <2>1, <2>2 DEF CountsOf
<1>2. PICK f : /\ f[0] = Unmarked
               /\ \A k \in 1..n : f[k] = Mark(records, slice, limit, f[k - 1], n + 1 - k)
               /\ Marked(records, slice, limit) = f[n].include
  <2>1. PICK f : MarkTurns(f, records, slice, limit)
    BY MarkLoop
  <2> QED BY <2>1 DEF MarkTurns
<1>3. ASSUME NEW k \in 1..n
      PROVE  MarkTurn(src(n + 1 - k), limit, f[k - 1], n + 1 - k, f[k])
  BY <1>2, TurnOfMark
<1> DEFINE found(s, i) == IF B(s, i) <= limit THEN B(s, i) ELSE limit
           good == {k \in 0..n :
                      /\ f[k].counts \in [AnySource -> Nat]
                      /\ \A s \in AnySource : f[k].counts[s] = found(s, n + 1 - k)
                      /\ f[k].include = {i \in 1..n : n + 1 - k <= i /\ B(src(i), i) <= limit}}
<1>4. 0 \in good
  <2>1. f[0].counts = [s \in AnySource |-> 0] /\ f[0].include = {}
    BY <1>2 DEF Unmarked
  <2>2. 0 \in 0..n /\ n + 1 - 0 = n + 1 /\ \A i \in 1..n : ~(n + 1 <= i)
    BY <1>0
  <2>3. \A s \in AnySource : found(s, n + 1) = 0
    BY <1>1
  <2> HIDE DEF B, n, src
  <2> QED BY <2>1, <2>2, <2>3
<1>5. ASSUME NEW k \in 1..n, k - 1 \in good PROVE k \in good
  <2> DEFINE i == n + 1 - k
             s == src(i)
             old == f[k - 1]
             new == f[k]
  <2>1. /\ i \in 1..n /\ n + 1 - (k - 1) = i + 1 /\ k \in 0..n /\ i \in Nat /\ i + 1 \in Nat
        /\ \A j \in 1..n : i <= j <=> i + 1 <= j \/ j = i
    <3> HIDE DEF n
    <3>1. n \in Nat /\ k \in 1..n
      BY <1>0
    <3>2. /\ i \in 1..n /\ n + 1 - (k - 1) = i + 1 /\ k \in 0..n /\ i \in Nat /\ i + 1 \in Nat
      BY <3>1
    <3> QED BY <3>1, <3>2
  <2>0. s = src(i)
    OBVIOUS
  <2>2. /\ old.counts \in [AnySource -> Nat]
        /\ \A t \in AnySource : old.counts[t] = found(t, i + 1)
        /\ old.include = {j \in 1..n : i + 1 <= j /\ B(src(j), j) <= limit}
    <3> HIDE DEF found, B, src, n
    <3> QED BY <1>5, <2>1
  <2>3. MarkTurn(s, limit, old, i, new)
    BY <1>3
  <2>4. /\ \A t : B(t, i) \in Nat /\ B(t, i + 1) \in Nat
        /\ \A t : B(t, i) = B(t, i + 1) + IF s = t THEN 1 ELSE 0
        /\ s \in AnySource
    <3> HIDE DEF B, src, n
    <3> QED BY <1>0, <1>1, <2>1
  <2> HIDE DEF B, n, old, new, i, s, src
  <2>5. CASE old.counts[s] >= limit
    <3>1. new = old
      BY <2>3, <2>5 DEF MarkTurn
    <3>2. B(s, i + 1) >= limit /\ B(s, i) > limit
      BY <2>2, <2>4, <2>5
    <3>3. ASSUME NEW t \in AnySource PROVE old.counts[t] = found(t, i)
      <4>1. old.counts[t] = found(t, i + 1)
        BY <2>2
      <4>2. CASE t = s
        <5>1. B(t, i) \in Nat /\ B(t, i + 1) \in Nat /\ B(t, i + 1) >= limit /\ B(t, i) > limit
          BY <2>4, <3>2, <4>2
        <5>2. found(t, i + 1) = limit /\ found(t, i) = limit
          BY <5>1
        <5> HIDE DEF found
        <5> QED BY <4>1, <5>2
      <4>3. CASE t # s
        <5>1. B(t, i) = B(t, i + 1) + 0 /\ B(t, i + 1) \in Nat
          BY <2>4, <4>3
        <5>2. B(t, i) = B(t, i + 1)
          BY <5>1
        <5>3. found(t, i) = found(t, i + 1)
          BY <5>2
        <5> HIDE DEF found
        <5> QED BY <4>1, <5>3
      <4> QED BY <4>2, <4>3
    <3>4. new.include = {j \in 1..n : i <= j /\ B(src(j), j) <= limit}
      <4>1. ~(B(src(i), i) <= limit)
        BY <2>0, <2>4, <3>2
      <4>2. \A j \in 1..n : i + 1 <= j /\ B(src(j), j) <= limit <=> i <= j /\ B(src(j), j) <= limit
        BY <2>1, <4>1
      <4> QED BY <2>2, <3>1, <4>2
    <3> QED BY <2>1, <2>2, <3>1, <3>3, <3>4 DEF new, i
  <2>6. CASE ~(old.counts[s] >= limit)
    <3>1. /\ new.counts = [old.counts EXCEPT ![s] = old.counts[s] + 1]
          /\ new.include = old.include \cup {i}
      BY <2>3, <2>6 DEF MarkTurn
    <3>2. old.counts[s] = B(s, i + 1) /\ B(s, i + 1) < limit /\ B(s, i) <= limit /\ B(s, i) = B(s, i + 1) + 1
      BY <2>2, <2>4, <2>6
    <3>3. new.counts \in [AnySource -> Nat]
      BY <2>2, <2>4, <3>1
    <3>4. ASSUME NEW t \in AnySource PROVE new.counts[t] = found(t, i)
      <4>1. old.counts[t] = found(t, i + 1)
        BY <2>2
      <4>2. CASE t = s
        BY <2>2, <3>1, <3>2, <4>2
      <4>3. CASE t # s
        BY <2>2, <2>4, <3>1, <4>1, <4>3
      <4> QED BY <4>2, <4>3
    <3>5. new.include = {j \in 1..n : i <= j /\ B(src(j), j) <= limit}
      <4>1. B(src(i), i) <= limit
        BY <2>0, <3>2
      <4>2. \A j \in 1..n : (i + 1 <= j /\ B(src(j), j) <= limit) \/ j = i <=> i <= j /\ B(src(j), j) <= limit
        BY <2>1, <4>1
      <4> QED BY <2>1, <2>2, <3>1, <4>2
    <3> QED BY <2>1, <3>3, <3>4, <3>5 DEF new, i
  <2> QED BY <2>5, <2>6
<1>6. n \in good
  <2> HIDE DEF good, n
  <2>1. \A k \in 0..n : k \in good
    BY <1>0, <1>4, <1>5, StepByStep
  <2> QED BY <1>0, <2>1
<1>7. Marked(records, slice, limit) = {i \in 1..n : B(src(i), i) <= limit}
  <2>1. f[n].include = {i \in 1..n : n + 1 - n <= i /\ B(src(i), i) <= limit}
    BY <1>6
  <2>2. \A i \in 1..n : n + 1 - n <= i
    BY <1>0
  <2> HIDE DEF B, src, n
  <2> QED BY <1>2, <2>1, <2>2
<1> QED BY <1>7

(* limitReplayPerSource keeps what was marked, in order.                   *)
LEMMA LimitCopies ==
  ASSUME NEW records, NEW slice \in Seq(Nat), InTime(slice), NEW limit,
         Marked(records, slice, limit) \subseteq 1..Len(slice)
  PROVE  Enumerates(LimitSlicePerSource(records, slice, limit),
               {slice[i] : i \in Marked(records, slice, limit)})
<1> DEFINE K == Marked(records, slice, limit)
           r == LimitSlicePerSource(records, slice, limit)
<1>1. PICK f : CopyTurns(f, records, slice, limit)
  BY CopyLoop
<1>2. /\ f[0] = Unread(slice, 0)
      /\ \A i \in 1..Len(slice) : f[i] = CopyMarked(K, f[i - 1], i)
      /\ r = Compacted(f[Len(slice)])
  BY <1>1 DEF CopyTurns
<1> HIDE DEF K, r
<1>3. Copies(f, slice, K)
  <2>1. f[0].slice = slice /\ f[0].write = 0
    BY <1>2 DEF Unread
  <2>2. ASSUME NEW i \in 1..Len(slice)
        PROVE  IF i \in K
               THEN /\ f[i].slice = [f[i - 1].slice EXCEPT ![f[i - 1].write + 1] = f[i - 1].slice[i]]
                    /\ f[i].write = f[i - 1].write + 1
               ELSE f[i].slice = f[i - 1].slice /\ f[i].write = f[i - 1].write
    <3>1. f[i] = IF i \in K THEN CopyDown(f[i - 1], i) ELSE f[i - 1]
      BY <1>2 DEF CopyMarked
    <3> DEFINE acc == f[i - 1]
    <3>2. CopyDown(acc, i).slice = [acc.slice EXCEPT ![acc.write + 1] = acc.slice[i]]
          /\ CopyDown(acc, i).write = acc.write + 1
      <4> HIDE DEF acc
      <4> QED BY TurnOfCompaction
    <3> QED BY <3>1, <3>2
  <2> QED BY <2>1, <2>2 DEF Copies
<1>4. K \subseteq 1..Len(slice)
  BY DEF K
<1>5. /\ Compacted(f[Len(slice)]) \in Seq(Nat) /\ InTime(Compacted(f[Len(slice)]))
      /\ Range(Compacted(f[Len(slice)])) = {slice[i] : i \in K}
  BY <1>3, <1>4, CompactedList
<1> QED BY <1>2, <1>5 DEF r, K, Enumerates

-----------------------------------------------------------------------------
(* From places to numbers: in a slice in the order of time, the rank of a  *)
(* record among some is the rank of its place.                             *)
LEMMA RanksOfNumbers ==
  ASSUME NEW a \in Seq(Nat), InTime(a), NEW I, I \subseteq 1..Len(a), NEW i \in I
  PROVE  /\ Cardinality(NotAfter({a[j] : j \in I}, a[i])) = Cardinality(NotAfter(I, i))
         /\ Cardinality(NotBefore({a[j] : j \in I}, a[i])) = Cardinality(NotBefore(I, i))
<1> DEFINE A == {a[j] : j \in I}
<1>1. \A j \in I : j \in 1..Len(a) /\ a[j] \in Nat
  BY ElementsOf
<1>2. \A j \in I : (a[j] <= a[i] <=> j <= i) /\ (a[j] >= a[i] <=> j >= i)
  <2> SUFFICES ASSUME NEW j \in I
               PROVE  (a[j] <= a[i] <=> j <= i) /\ (a[j] >= a[i] <=> j >= i)
    OBVIOUS
  <2>1. /\ i \in 1..Len(a) /\ j \in 1..Len(a) /\ a[i] \in Nat /\ a[j] \in Nat
        /\ i \in Nat /\ j \in Nat
    BY <1>1
  <2>2. (i < j => a[i] < a[j]) /\ (j < i => a[j] < a[i])
    BY <2>1 DEF InTime
  <2>3. CASE i < j
    BY <2>1, <2>2, <2>3
  <2>4. CASE j < i
    BY <2>1, <2>2, <2>4
  <2>5. CASE i = j
    BY <2>1, <2>5
  <2> QED BY <2>1, <2>3, <2>4, <2>5
<1>3. /\ NotAfter(A, a[i]) = {a[j] : j \in NotAfter(I, i)}
      /\ NotBefore(A, a[i]) = {a[j] : j \in NotBefore(I, i)}
  BY <1>2 DEF NotAfter, NotBefore
<1>4. NotAfter(I, i) \subseteq 1..Len(a) /\ NotBefore(I, i) \subseteq 1..Len(a)
  BY DEF NotAfter, NotBefore
<1> DEFINE early == NotAfter(I, i)
           late == NotBefore(I, i)
<1> HIDE DEF early, late, A
<1>5. /\ Cardinality({a[j] : j \in early}) = Cardinality(early)
      /\ Cardinality({a[j] : j \in late}) = Cardinality(late)
  BY <1>4, NumbersAtPlaces DEF early, late
<1> QED BY <1>3, <1>5 DEF early, late, A

(* The numbers of a source's records are those at its places.              *)
LEMMA NumbersOfSource ==
  ASSUME NEW records, NEW a \in Seq(Nat), NEW s
  PROVE  /\ OfSource(records, Range(a), s) = {a[i] : i \in PlacesOf(records, a, s)}
         /\ PlacesOf(records, a, s) \subseteq 1..Len(a)
         /\ \A i \in 1..Len(a) : a[i] \in OfSource(records, Range(a), s) <=> i \in PlacesOf(records, a, s)
<1>1. Range(a) = {a[i] : i \in 1..Len(a)}
  BY ElementsOf DEF Range
<1> QED BY <1>1 DEF OfSource, PlacesOf

(* The ranks of a source's records.                                        *)
LEMMA RanksOfSource ==
  ASSUME NEW records, NEW a \in Seq(Nat), InTime(a), NEW s, NEW i \in PlacesOf(records, a, s)
  PROVE  LET mine == OfSource(records, Range(a), s)
             places == PlacesOf(records, a, s)
         IN  /\ Cardinality(NotAfter(mine, a[i])) = Cardinality(NotAfter(places, i))
             /\ Cardinality(NotBefore(mine, a[i])) = Cardinality(NotBefore(places, i))
<1> DEFINE mine == OfSource(records, Range(a), s)
           places == PlacesOf(records, a, s)
<1>1. mine = {a[j] : j \in places} /\ places \subseteq 1..Len(a) /\ i \in places
  BY NumbersOfSource
<1> HIDE DEF mine, places
<1>2. /\ Cardinality(NotAfter({a[j] : j \in places}, a[i])) = Cardinality(NotAfter(places, i))
      /\ Cardinality(NotBefore({a[j] : j \in places}, a[i])) = Cardinality(NotBefore(places, i))
  BY <1>1, RanksOfNumbers
<1> QED BY <1>1, <1>2 DEF mine, places

(* A loop that drops count records of a source drops its oldest.           *)
LEMMA DropsOldest ==
  ASSUME NEW records, NEW a \in Seq(Nat), InTime(a), NEW source, NEW count \in Int
  PROVE  Enumerates(WithoutFirst(records, a, source, count),
               Range(a) \ Oldest(OfSource(records, Range(a), source), count))
<1> DEFINE n == Len(a)
           M == PlacesOf(records, a, source)
           mine == OfSource(records, Range(a), source)
           r == WithoutFirst(records, a, source, count)
           K == Surviving(records, a, source, count)
<1>1. Enumerates(r, {a[i] : i \in K}) /\ K = {i \in 1..n : i \in M => Cardinality(NotAfter(M, i)) > count}
  <2>1. Enumerates(r, {a[i] : i \in K})
    BY DropsFirst
  <2>2. K = {i \in 1..n : i \in M => Cardinality(NotAfter(M, i)) > count}
    BY DEF Surviving
  <2> QED BY <2>1, <2>2
<1>2. M \subseteq 1..n /\ \A i \in 1..n : a[i] \in mine <=> i \in M
  BY NumbersOfSource
<1>3. \A i \in M : Cardinality(NotAfter(mine, a[i])) = Cardinality(NotAfter(M, i))
  BY RanksOfSource
<1>4. \A i \in M : Cardinality(NotAfter(M, i)) \in Nat
  <2> HIDE DEF M, n
  <2>1. n \in Nat /\ \A i \in M : i \in Nat
    <3>1. n \in Nat
      BY ElementsOf DEF n
    <3> QED BY <1>2, <3>1
  <2>2. CountsOf(M, n)
    BY <1>2, <2>1, PlacesUpto
  <2> QED BY <2>1, <2>2 DEF CountsOf
<1> HIDE DEF M, mine, r, K
<1>5. ASSUME NEW i \in 1..n PROVE i \in K <=> a[i] \notin Oldest(mine, count)
  BY <1>1, <1>2, <1>3, <1>4 DEF Oldest
<1>6. Range(a) = {a[i] : i \in 1..n}
  BY ElementsOf DEF Range
<1> HIDE DEF n
<1>7. K \subseteq 1..n
  BY <1>1
<1>8. {a[i] : i \in K} = Range(a) \ Oldest(mine, count)
  BY <1>5, <1>6, <1>7
<1> QED BY <1>1, <1>8 DEF r, mine

(* pruneSourceLocked is the pruning of module Retention.                   *)
LEMMA PrunedIsPruneSource ==
  ASSUME NEW records, NEW a \in Seq(Nat), InTime(a), NEW source
  PROVE  Enumerates(Pruned(records, a, source), PruneSource(records, Range(a), source))
<1> DEFINE M == PlacesOf(records, a, source)
           mine == OfSource(records, Range(a), source)
           n == Len(a)
           count == Cardinality(M) - MaxRecords
           r == Pruned(records, a, source)
<1>1. mine = {a[i] : i \in M} /\ M \subseteq 1..n /\ n \in Nat
  <2>1. mine = {a[i] : i \in M} /\ M \subseteq 1..n
    BY NumbersOfSource
  <2>2. n \in Nat
    BY ElementsOf
  <2> QED BY <2>1, <2>2
<1>2. Cardinality(mine) = Cardinality(M)
  <2> HIDE DEF M, mine
  <2> QED BY <1>1, NumbersAtPlaces
<1>3. Count(records, a, source) = Cardinality(M)
  BY DEF Count, PlacesOf
<1>4. count \in Int
  <2> HIDE DEF M, n
  <2>1. CountsOf(M, n)
    BY <1>1, PlacesUpto
  <2> QED BY <2>1, RetentionAssumption DEF CountsOf
<1>5. r = WithoutFirst(records, a, source, count)
  BY <1>3 DEF Pruned
<1>6. PruneSource(records, Range(a), source) = Range(a) \ Oldest(mine, count)
  BY <1>2 DEF PruneSource
<1> HIDE DEF count, r, M
<1>7. Enumerates(WithoutFirst(records, a, source, count), Range(a) \ Oldest(mine, count))
  BY <1>4, DropsOldest
<1> QED BY <1>5, <1>6, <1>7 DEF r

(* What the loop of expunge leaves and counts.                             *)
CountsAndTakes(ended, a, taken) ==
  Enumerates(Compacted(ended), Range(a) \ taken) /\ ended.count = Cardinality(taken)

(* It takes every record of the source, and its counter is, after each     *)
(* turn, how many there were of it so far.                                 *)
LEMMA LoopCounts ==
  ASSUME NEW records, NEW a \in Seq(Nat), InTime(a), NEW source
  PROVE  CountsAndTakes(ExpungeLoop(records, a, source), a, OfSource(records, Range(a), source))
<1> DEFINE M == PlacesOf(records, a, source)
           mine == OfSource(records, Range(a), source)
           n == Len(a)
           ended == ExpungeLoop(records, a, source)
           C(i) == Cardinality(NotAfter(M, i))
<1>0. n \in Nat /\ Range(a) = {a[i] : i \in 1..n}
  BY ElementsOf DEF Range
<1>1. /\ mine = {a[i] : i \in M} /\ M \subseteq 1..n
      /\ \A i \in 1..n : a[i] \in mine <=> i \in M
  BY NumbersOfSource
<1>2. \A i \in 1..n : i \in M <=> records[a[i]].source = source
  BY DEF PlacesOf
<1>3. /\ \A i \in Nat : C(i) \in Nat
      /\ C(0) = 0
      /\ \A i \in 1..n : C(i) = C(i - 1) + IF i \in M THEN 1 ELSE 0
  <2> HIDE DEF M, n
  <2>1. CountsOf(M, n)
    BY <1>0, <1>1, PlacesUpto
  <2> QED BY <2>1 DEF CountsOf
<1>4. C(n) = Cardinality(mine)
  <2> HIDE DEF M, n, mine
  <2>1. \A i \in M : i <= n
    BY <1>0, <1>1
  <2>2. NotAfter(M, n) = M
    BY <2>1 DEF NotAfter
  <2>3. Cardinality({a[i] : i \in M}) = Cardinality(M)
    <3>1. M \subseteq 1..Len(a)
      BY <1>1 DEF n
    <3> QED BY <3>1, NumbersAtPlaces
  <2> QED BY <1>1, <2>2, <2>3
<1> HIDE DEF M, mine, C
<1>5. PICK f : /\ f[0] = Unread(a, 0)
               /\ \A i \in 1..n : f[i] = CountOrCopy(records, source, f[i - 1], i)
               /\ ended = f[n]
  <2>1. PICK f : CountTurns(f, records, a, source)
    BY CountLoop
  <2> QED BY <2>1 DEF CountTurns
<1> HIDE DEF ended
<1> DEFINE Skips(i) == records[f[i - 1].slice[i]].source = source
           L == {i \in 1..n : ~Skips(i)}
<1>6. ASSUME NEW i \in 1..n
      PROVE  IF Skips(i)
             THEN f[i].slice = f[i - 1].slice /\ f[i].write = f[i - 1].write
                  /\ f[i].count = f[i - 1].count + 1
             ELSE /\ f[i].slice = [f[i - 1].slice EXCEPT ![f[i - 1].write + 1] = f[i - 1].slice[i]]
                  /\ f[i].write = f[i - 1].write + 1 /\ f[i].count = f[i - 1].count
  <2>1. f[i] = CountOrCopy(records, source, f[i - 1], i)
    BY <1>5
  <2>2. CountTurn(records, source, f[i - 1], i, f[i])
    BY <2>1, TurnOfCount
  <2> QED BY <2>2 DEF CountTurn
<1>7. Copies(f, a, L)
  <2>1. f[0].slice = a /\ f[0].write = 0
    BY <1>5 DEF Unread
  <2>2. ASSUME NEW i \in 1..n
        PROVE  IF i \in L
               THEN /\ f[i].slice = [f[i - 1].slice EXCEPT ![f[i - 1].write + 1] = f[i - 1].slice[i]]
                    /\ f[i].write = f[i - 1].write + 1
               ELSE f[i].slice = f[i - 1].slice /\ f[i].write = f[i - 1].write
    BY <1>6
  <2> HIDE DEF L
  <2> QED BY <2>1, <2>2 DEF Copies
<1>8. /\ \A i \in 1..n : f[i - 1].slice[i] = a[i]
      /\ Enumerates(Compacted(ended), {a[i] : i \in L})
  <2> HIDE DEF L
  <2>1. L \subseteq 1..n
    BY DEF L
  <2>2. /\ \A k \in 1..n : f[k - 1].slice[k] = a[k]
        /\ Compacted(f[n]) \in Seq(Nat) /\ InTime(Compacted(f[n]))
        /\ Range(Compacted(f[n])) = {a[i] : i \in L}
    BY <1>7, <2>1, CompactedList
  <2> QED BY <1>5, <2>2 DEF Enumerates
<1>9. \A i \in 1..n : Skips(i) <=> i \in M
  BY <1>2, <1>8
<1>10. {a[i] : i \in L} = Range(a) \ mine
  <2>1. \A i \in 1..n : i \in L <=> a[i] \notin mine
    BY <1>1, <1>9
  <2>2. L \subseteq 1..n
    OBVIOUS
  <2> HIDE DEF L, n
  <2> QED BY <1>0, <2>1, <2>2
<1> HIDE DEF L
<1>11. ended.count = C(n)
  <2> DEFINE counted == {i \in 0..n : f[i].count = C(i)}
  <2>1. 0 \in counted
    BY <1>0, <1>3, <1>5 DEF Unread
  <2>2. ASSUME NEW i \in 1..n, i - 1 \in counted PROVE i \in counted
    <3>0. i \in 0..n /\ i - 1 \in Nat
      <4> HIDE DEF n
      <4> QED BY <1>0
    <3>1. /\ C(i - 1) \in Nat /\ C(i) = C(i - 1) + IF i \in M THEN 1 ELSE 0
          /\ f[i - 1].count = C(i - 1)
      BY <1>3, <2>2, <3>0
    <3>2. f[i].count = IF i \in M THEN f[i - 1].count + 1 ELSE f[i - 1].count
      BY <1>6, <1>9
    <3> HIDE DEF Skips
    <3>3. f[i].count = C(i)
      BY <3>1, <3>2
    <3> QED BY <3>0, <3>3
  <2>3. \A i \in 0..n : i \in counted
    <3> HIDE DEF counted, n
    <3> QED BY <1>0, <2>1, <2>2, StepByStep
  <2> QED BY <1>0, <1>5, <2>3
<1> QED BY <1>4, <1>8, <1>10, <1>11 DEF CountsAndTakes, ended, mine

(* limitReplayPerSource keeps the newest of each source.                   *)
LEMMA LimitIsPerSource ==
  ASSUME NEW records, NEW a \in Seq(Nat), InTime(a), NEW limit \in Nat,
         \A i \in 1..Len(a) : records[a[i]].source \in AnySource
  PROVE  Enumerates(LimitSlicePerSource(records, a, limit), LimitPerSource(records, Range(a), limit))
<1> DEFINE n == Len(a)
           src(i) == records[a[i]].source
           K == Marked(records, a, limit)
           r == LimitSlicePerSource(records, a, limit)
<1>1. K = {i \in 1..n : Cardinality(NotBefore(PlacesOf(records, a, src(i)), i)) <= limit}
  BY MarksNewest
<1>2. Enumerates(r, {a[i] : i \in K}) /\ K \subseteq 1..n
  <2>1. K \subseteq 1..n
    BY <1>1
  <2> QED BY <2>1, LimitCopies
<1>3. ASSUME NEW i \in 1..n
      PROVE  i \in K <=> a[i] \in Newest(OfSource(records, Range(a), records[a[i]].source), limit)
  <2> DEFINE s == src(i)
             mine == OfSource(records, Range(a), s)
             places == PlacesOf(records, a, s)
  <2>1. i \in places
    BY DEF PlacesOf
  <2>2. Cardinality(NotBefore(mine, a[i])) = Cardinality(NotBefore(places, i))
    BY <2>1, RanksOfSource
  <2>3. a[i] \in mine
    BY <2>1, NumbersOfSource
  <2>4. i \in K <=> Cardinality(NotBefore(places, i)) <= limit
    BY <1>1
  <2> HIDE DEF K, places
  <2> QED BY <2>2, <2>3, <2>4 DEF Newest
<1>4. Range(a) = {a[i] : i \in 1..n}
  BY ElementsOf DEF Range
<1> HIDE DEF K, n
<1>5. {a[i] : i \in K} = LimitPerSource(records, Range(a), limit)
  BY <1>2, <1>3, <1>4 DEF LimitPerSource
<1> QED BY <1>2, <1>5

(* The end of a slice holds its newest records.                            *)
LEMMA TailIsNewest ==
  ASSUME NEW a \in Seq(Nat), InTime(a), NEW k \in Nat
  PROVE  Enumerates(IF Len(a) - k > 0 THEN SubSeq(a, Len(a) - k + 1, Len(a)) ELSE a,
                    Newest(Range(a), k))
<1> DEFINE n == Len(a)
           d == n - k
           r == SubSeq(a, d + 1, n)
<1>0. n \in Nat /\ Range(a) = {a[i] : i \in 1..n} /\ \A i \in 1..n : a[i] \in Nat
  BY ElementsOf DEF Range
<1>1. ASSUME NEW i \in 1..n PROVE a[i] \in Newest(Range(a), k) <=> i > d
  <2> DEFINE late == NotBefore(1..n, i)
  <2>1. Cardinality(NotBefore({a[j] : j \in 1..n}, a[i])) = Cardinality(late)
    <3>1. 1..n \subseteq 1..Len(a)
      OBVIOUS
    <3> HIDE DEF n
    <3> QED BY <3>1, RanksOfNumbers
  <2>2. late = i..n
    <3> HIDE DEF n
    <3>1. n \in Nat /\ i \in 1..n
      BY <1>0
    <3> QED BY <3>1 DEF NotBefore
  <2>3. Cardinality(i..n) = n - i + 1
    <3> HIDE DEF n
    <3>1. i \in Int /\ n \in Int /\ i <= n
      BY <1>0
    <3>2. Cardinality(i..n) = IF i > n THEN 0 ELSE n - i + 1
      BY <3>1, FS_Interval
    <3> QED BY <3>1, <3>2
  <2>4. a[i] \in Range(a)
    BY <1>0
  <2>5. a[i] \in Newest(Range(a), k) <=> n - i + 1 <= k
    BY <1>0, <2>1, <2>2, <2>3, <2>4 DEF Newest
  <2> HIDE DEF n
  <2>6. n - i + 1 <= k <=> i > n - k
    BY <1>0
  <2> QED BY <2>5, <2>6
<1>2. Newest(Range(a), k) = {a[i] : i \in {j \in 1..n : j > d}}
  <2>1. Newest(Range(a), k) \subseteq Range(a)
    BY DEF Newest
  <2> HIDE DEF n, d
  <2> QED BY <1>0, <1>1, <2>1
<1>3. CASE ~(d > 0)
  <2>1. {j \in 1..n : j > d} = 1..n
    <3> HIDE DEF n
    <3>1. n \in Nat /\ ~(n - k > 0)
      BY <1>0, <1>3
    <3> QED BY <3>1
  <2>2. Newest(Range(a), k) = Range(a)
    BY <1>0, <1>2, <2>1
  <2> QED BY <1>3, <2>2 DEF Enumerates
<1>4. CASE d > 0
  <2>1. d \in Nat /\ d <= n /\ k \in Nat /\ n = d + k
    <3> HIDE DEF n
    <3> QED BY <1>0, <1>4
  <2> HIDE DEF n, d
  <2>2. r \in Seq(Nat) /\ Len(r) = k /\ \A i \in 1..k : r[i] = a[d + i]
    <3>1. d + 1 \in Int /\ n \in Int /\ \A i \in (d + 1)..n : a[i] \in Nat
      <4>1. \A i \in (d + 1)..n : i \in 1..n
        BY <1>0, <2>1
      <4> QED BY <1>0, <2>1, <4>1
    <3>2. /\ r \in Seq(Nat)
          /\ Len(r) = (IF d + 1 <= n THEN n - (d + 1) + 1 ELSE 0)
          /\ \A i \in 1..(n - (d + 1) + 1) : r[i] = a[(d + 1) + i - 1]
      BY <3>1, SubSeqProperties
    <3>3. (IF d + 1 <= n THEN n - (d + 1) + 1 ELSE 0) = k /\ n - (d + 1) + 1 = k
      BY <1>0, <2>1
    <3>4. \A i \in 1..k : (d + 1) + i - 1 = d + i
      BY <2>1
    <3> QED BY <3>2, <3>3, <3>4
  <2> HIDE DEF r
  <2>3. InTime(r)
    <3>1. \A i \in 1..k : d + i \in 1..n
      BY <1>0, <2>1
    <3>2. \A i, j \in 1..k : i < j => d + i < d + j
      BY <2>1
    <3> QED BY <2>2, <3>1, <3>2 DEF InTime, n
  <2>4. Range(r) = {a[i] : i \in {j \in 1..n : j > d}}
    <3>1. \A i \in 1..k : d + i \in 1..n /\ d + i > d
      BY <1>0, <2>1
    <3>2. \A j \in 1..n : j > d => j - d \in 1..k /\ d + (j - d) = j
      BY <1>0, <2>1
    <3>3. DOMAIN r = 1..k
      BY <2>2
    <3>4. Range(r) = {a[d + i] : i \in 1..k}
      BY <2>2, <3>3 DEF Range
    <3>5. \A i \in 1..k : d + i \in {j \in 1..n : j > d}
      BY <3>1
    <3>6. ASSUME NEW j \in 1..n, j > d PROVE \E i \in 1..k : a[j] = a[d + i]
      <4>1. j - d \in 1..k /\ d + (j - d) = j
        BY <3>2, <3>6
      <4> QED BY <4>1
    <3> QED BY <3>4, <3>5, <3>6
  <2> QED BY <1>2, <1>4, <2>2, <2>3, <2>4 DEF Enumerates, r, d, n
<1> QED BY <1>3, <1>4
-----------------------------------------------------------------------------
(* The slice names records that were taken, each once, oldest first.       *)
SliceInv ==
  /\ log \in Seq([source : AnySource, level : CanonicalLevels, by : Publishers])
  /\ array \in Seq(Nat) /\ InTime(array)
  /\ Range(array) \subseteq 1..Len(log)

LEMMA SourcesOfLog == ASSUME SliceInv PROVE \A m \in 1..Len(log) : log[m].source \in AnySource
<1> DEFINE R == [source : AnySource, level : CanonicalLevels, by : Publishers]
<1>1. \A m \in 1..Len(log) : log[m] \in R
  <2>1. log \in Seq(R)
    BY DEF SliceInv
  <2> HIDE DEF R
  <2> QED BY <2>1, SequenceElements
<1> QED BY <1>1

LEMMA HeldIsRange == ASSUME array \in Seq(Nat) PROVE Held = Range(array)
BY ElementsOf DEF Held, Range

(* replay gives its definition's records, oldest first.                    *)
LEMMA ReplayLists ==
  ASSUME SliceInv, NEW sub \in Filters
  PROVE  Enumerates(ReplaySlice(sub), Replay(log, Held, sub))
<1> DEFINE n == Len(array)
           places == {i \in 1..n : Matches(sub, log[array[i]])}
           matching == AtPlaces(array, places)
           taken == {m \in Held : Matches(sub, log[m])}
           limit == sub.replayPerSource
           perSource == IF limit <= 0 THEN matching ELSE LimitSlicePerSource(log, matching, limit)
           kept == IF limit <= 0 THEN taken ELSE LimitPerSource(log, taken, limit)
<1>0. sub.replay \in Int /\ limit \in Int
  BY SliceAssumption
<1>1. /\ array \in Seq(Nat) /\ InTime(array) /\ Held = {array[i] : i \in 1..n}
      /\ Held \subseteq 1..Len(log)
  BY HeldIsRange DEF SliceInv, Held
<1>2. Enumerates(matching, taken)
  <2>1. taken = {array[i] : i \in places}
    BY <1>1
  <2>2. places \subseteq 1..Len(array)
    OBVIOUS
  <2> HIDE DEF places, taken
  <2>3. matching \in Seq(Nat) /\ Range(matching) = {array[i] : i \in places} /\ InTime(matching)
    BY <1>1, <2>2, PickedInTime
  <2> QED BY <2>1, <2>3 DEF Enumerates
<1>3. Enumerates(perSource, kept)
  <2>1. CASE limit <= 0
    BY <1>2, <2>1
  <2>2. CASE ~(limit <= 0)
    <3>1. taken \subseteq 1..Len(log)
      BY <1>1
    <3> HIDE DEF matching, taken, limit
    <3>2. matching \in Seq(Nat) /\ InTime(matching) /\ Range(matching) = taken
      BY <1>2 DEF Enumerates
    <3>3. \A i \in 1..Len(matching) : log[matching[i]].source \in AnySource
      <4>1. \A i \in 1..Len(matching) : matching[i] \in 1..Len(log)
        BY <3>1, <3>2, ElementsOf
      <4>2. \A m \in 1..Len(log) : log[m].source \in AnySource
        BY SourcesOfLog
      <4> QED BY <4>1, <4>2
    <3>4. Enumerates(LimitSlicePerSource(log, matching, limit), LimitPerSource(log, Range(matching), limit))
      <4>1. limit \in Nat
        BY <1>0, <2>2 DEF limit
      <4> QED BY <3>2, <3>3, <4>1, LimitIsPerSource
    <3> QED BY <2>2, <3>2, <3>4
  <2> QED BY <2>1, <2>2
<1> DEFINE excess == Len(perSource) - sub.replay
           tail == SubSeq(perSource, excess + 1, Len(perSource))
<1>4. ReplaySlice(sub) = IF sub.replay > 0 /\ excess > 0 THEN tail ELSE perSource
  BY DEF ReplaySlice
<1>5. Replay(log, Held, sub) = IF sub.replay <= 0 THEN kept ELSE Newest(kept, sub.replay)
  BY DEF Replay
<1> HIDE DEF perSource, kept
<1>6. perSource \in Seq(Nat) /\ InTime(perSource) /\ Range(perSource) = kept
  BY <1>3 DEF Enumerates
<1>7. sub.replay > 0 => Enumerates(IF excess > 0 THEN tail ELSE perSource, Newest(kept, sub.replay))
  <2> SUFFICES ASSUME sub.replay > 0
               PROVE  Enumerates(IF excess > 0 THEN tail ELSE perSource, Newest(kept, sub.replay))
    OBVIOUS
  <2>0. sub.replay \in Nat
    BY <1>0
  <2>1. Enumerates(IF Len(perSource) - sub.replay > 0
                   THEN SubSeq(perSource, Len(perSource) - sub.replay + 1, Len(perSource))
                   ELSE perSource, Newest(Range(perSource), sub.replay))
    BY <1>6, <2>0, TailIsNewest
  <2> QED BY <1>6, <2>1
<1> HIDE DEF excess, tail
<1>8. CASE sub.replay <= 0
  <2>1. ~(sub.replay > 0)
    BY <1>0, <1>8
  <2> QED BY <1>3, <1>4, <1>5, <1>8, <2>1
<1>9. CASE ~(sub.replay <= 0)
  <2>1. sub.replay > 0
    BY <1>0, <1>9
  <2> QED BY <1>4, <1>5, <1>7, <1>9, <2>1
<1> QED BY <1>8, <1>9

-----------------------------------------------------------------------------
(* Dropping the excess, oldest first, keeps the newest,                    *)
LEMMA RestIsNewest ==
  ASSUME NEW S, S \subseteq Nat, IsFiniteSet(S), NEW n \in S
  PROVE  n \in Oldest(S, Cardinality(S) - MaxRecords) <=> n \notin Newest(S, MaxRecords)
<1>1. /\ Cardinality(S) \in Nat /\ Place(S, n) \in 1..Cardinality(S) /\ MaxRecords \in Nat
      /\ Cardinality(After(S, n)) = Cardinality(S) - Place(S, n)
  BY PlacesCount, Followers, RetentionAssumption
<1>2. \A m \in S : m \in Nat /\ (m >= n <=> m > n \/ m = n)
  OBVIOUS
<1>3. NotBefore(S, n) = After(S, n) \cup {n} /\ NotAfter(S, n) = {m \in S : m <= n}
  BY <1>2 DEF NotBefore, NotAfter, After
<1>4. After(S, n) \subseteq S /\ n \notin After(S, n)
  BY <1>2 DEF After
<1>5. Cardinality(NotBefore(S, n)) = Cardinality(After(S, n)) + 1
  <2>1. IsFiniteSet(After(S, n))
    BY <1>4, FS_Subset
  <2> QED BY <1>3, <1>4, <2>1, FS_AddElement
<1>6. Cardinality(NotAfter(S, n)) = Place(S, n)
  BY <1>3 DEF Place
<1>7. Place(S, n) <= Cardinality(S) - MaxRecords <=> ~(Cardinality(S) - Place(S, n) + 1 <= MaxRecords)
  BY <1>1
<1> QED BY <1>1, <1>5, <1>6, <1>7 DEF Oldest, Newest

(* so that pruning is what a Take of the log bus does to its ring.         *)
NewestKept(records, S, source) ==
  {m \in S : records[m].source = source => m \in Newest(OfSource(records, S, source), MaxRecords)}

LEMMA PruneTakes ==
  ASSUME NEW records, NEW S, S \subseteq Nat, IsFiniteSet(S), NEW source
  PROVE  PruneSource(records, S, source) = NewestKept(records, S, source)
<1> DEFINE mine == OfSource(records, S, source)
           old == Oldest(mine, Cardinality(mine) - MaxRecords)
           new == Newest(mine, MaxRecords)
<1>1. mine \subseteq S /\ old \subseteq mine /\ \A m \in S : m \in mine <=> records[m].source = source
  BY DEF OfSource, Oldest
<1>2. \A m \in mine : m \in old <=> m \notin new
  <2>1. mine \subseteq Nat /\ IsFiniteSet(mine)
    BY <1>1, FS_Subset
  <2> HIDE DEF mine
  <2> QED BY <2>1, RestIsNewest
<1>3. PruneSource(records, S, source) = S \ old
  BY DEF PruneSource
<1> HIDE DEF mine, old, new
<1>4. PruneSource(records, S, source) = {m \in S : records[m].source = source => m \in new}
  BY <1>1, <1>2, <1>3
<1> QED BY <1>4 DEF new, mine, NewestKept

(* Whatever a publisher spells, the record taken has a canonical level.    *)
LEMMA LevelIsCanonical == ASSUME NEW level PROVE NormalizeLevel(level) \in CanonicalLevels
BY DEF NormalizeLevel, CanonicalLevels

(* A publish appends the record to the log, and its number to what is      *)
(* held; then it prunes.                                                   *)
LEMMA PublishPrunes ==
  ASSUME SliceInv, NEW p \in Publishers, NEW s \in AnySource, NEW l \in Levels, Publish(p, s, l)
  PROVE  LET record == [source |-> s, level |-> NormalizeLevel(l), by |-> p]
             held == Held \cup {Len(log')}
         IN  /\ SliceInv' /\ log' = Append(log, record) /\ Len(log') = Len(log) + 1
             /\ record \in [source : AnySource, level : CanonicalLevels, by : Publishers]
             /\ Held' = NewestKept(log', held, s)
<1> DEFINE R == [source : AnySource, level : CanonicalLevels, by : Publishers]
           record == [source |-> s, level |-> NormalizeLevel(l), by |-> p]
           top == Len(log')
           longer == Append(array, top)
           held == Held \cup {top}
<1>1. record \in R
  BY LevelIsCanonical
<1>2. log' = Append(log, record) /\ array' = Pruned(log', longer, s)
  BY DEF Publish
<1>3. /\ log \in Seq(R) /\ array \in Seq(Nat) /\ InTime(array) /\ Range(array) \subseteq 1..Len(log)
      /\ Held = Range(array)
  BY HeldIsRange DEF SliceInv
<1> HIDE DEF R, record
<1>4. log' \in Seq(R) /\ Len(log) \in Nat /\ top = Len(log) + 1
  BY <1>1, <1>2, <1>3, AppendedElements
<1> HIDE DEF top
<1>5. top \in Nat /\ held \subseteq 1..top /\ \A m \in Range(array) : m < top
  BY <1>3, <1>4
<1>6. Range(longer) = held /\ longer \in Seq(Nat)
  BY <1>3, <1>5, RangeOfAppend, AppendedElements
<1>7. InTime(longer)
  <2>1. /\ Len(array) \in Nat /\ Len(longer) = Len(array) + 1
        /\ \A i \in 1..Len(array) : longer[i] = array[i]
        /\ longer[Len(array) + 1] = top
    BY <1>3, <1>5, AppendedElements
  <2>2. \A i \in 1..Len(array) : array[i] \in Range(array)
    BY <1>3, ElementsOf
  <2> HIDE DEF longer
  <2> SUFFICES ASSUME NEW i \in 1..Len(longer), NEW j \in 1..Len(longer), i < j
               PROVE  longer[i] < longer[j]
    BY DEF InTime
  <2>3. i \in 1..Len(array) /\ (j \in 1..Len(array) \/ j = Len(array) + 1)
    BY <2>1
  <2>4. CASE j \in 1..Len(array)
    BY <1>3, <2>1, <2>3, <2>4 DEF InTime
  <2>5. CASE j = Len(array) + 1
    BY <1>5, <2>1, <2>2, <2>3, <2>5
  <2> QED BY <2>3, <2>4, <2>5
<1> HIDE DEF longer, held
<1>8. Enumerates(array', PruneSource(log', held, s))
  BY <1>2, <1>6, <1>7, PrunedIsPruneSource
<1>9. PruneSource(log', held, s) = NewestKept(log', held, s)
  <2>1. held \subseteq Nat /\ IsFiniteSet(held)
    <3>1. IsFiniteSet(1..top) /\ 1..top \subseteq Nat
      BY <1>5, FirstNumbers
    <3> QED BY <1>5, <3>1, FS_Subset
  <2> QED BY <2>1, PruneTakes
<1>10. array' \in Seq(Nat) /\ InTime(array)' /\ Range(array') \subseteq held
  <2>1. array' \in Seq(Nat) /\ InTime(array') /\ Range(array') \subseteq held
    BY <1>8, <1>9 DEF Enumerates, NewestKept
  <2> QED BY <2>1 DEF InTime
<1>11. Held' = Range(array')
  <2>1. (array \in Seq(Nat) => Held = Range(array))'
    BY HeldIsRange, PTL
  <2> QED BY <1>10, <2>1 DEF Range
<1>12. SliceInv'
  BY <1>4, <1>5, <1>10 DEF SliceInv, R, top, Range
<1> QED BY <1>1, <1>2, <1>4, <1>8, <1>9, <1>11, <1>12 DEF Enumerates, R, record, held, top

(* An expunge takes the source's records, or all, and answers how many.    *)
LEMMA ExpungeTakes ==
  ASSUME SliceInv, NEW s \in AnySource, Expunge(s)
  PROVE  /\ SliceInv' /\ log' = log /\ Held' = Held \ Expunged(log, Held, s)
         /\ expunged' = Cardinality(Held) - Cardinality(Held')
<1> DEFINE gone == Expunged(log, Held, s)
<1>1. log' = log
  BY DEF Expunge
<1>2. array \in Seq(Nat) /\ InTime(array) /\ Range(array) \subseteq 1..Len(log) /\ Held = Range(array)
  BY HeldIsRange DEF SliceInv
<1>3. IsFiniteSet(Held) /\ Cardinality(Held) = Len(array)
  <2>1. /\ Len(array) \in Nat /\ Held = {array[i] : i \in 1..Len(array)}
        /\ IsFiniteSet(1..Len(array)) /\ Cardinality(1..Len(array)) = Len(array)
    BY <1>2, ElementsOf, FirstNumbers DEF Held
  <2>2. Cardinality({array[i] : i \in 1..Len(array)}) = Cardinality(1..Len(array))
    <3> DEFINE all == 1..Len(array)
    <3>1. all \subseteq 1..Len(array)
      OBVIOUS
    <3> HIDE DEF all
    <3>2. Cardinality({array[i] : i \in all}) = Cardinality(all)
      BY <1>2, <3>1, NumbersAtPlaces
    <3> QED BY <3>2 DEF all
  <2>3. IsFiniteSet(Held)
    <3>1. IsFiniteSet(1..Len(log))
      <4>1. Len(log) \in Nat
        BY ElementsOf DEF SliceInv
      <4> QED BY <4>1, FirstNumbers
    <3> QED BY <1>2, <3>1, FS_Subset
  <2> QED BY <2>1, <2>2, <2>3
<1>4. /\ array' \in Seq(Nat) /\ InTime(array') /\ Range(array') = Held \ gone
      /\ expunged' = Cardinality(gone)
  <2>1. CASE s = NoSource
    <3>1. gone = Held /\ array' = <<>> /\ expunged' = Len(array)
      BY <2>1 DEF Expunged, Expunge
    <3>2. Enumerates(<<>>, {})
      BY RangeOfNothing DEF Enumerates, InTime
    <3> HIDE DEF gone
    <3> QED BY <1>3, <3>1, <3>2 DEF Enumerates
  <2>2. CASE s # NoSource
    <3>1. /\ gone = OfSource(log, Range(array), s)
          /\ array' = Compacted(ExpungeLoop(log, array, s))
          /\ expunged' = ExpungeLoop(log, array, s).count
      BY <1>2, <2>2 DEF Expunged, Expunge
    <3>2. CountsAndTakes(ExpungeLoop(log, array, s), array, OfSource(log, Range(array), s))
      BY <1>2, LoopCounts
    <3> HIDE DEF gone
    <3> QED BY <1>2, <3>1, <3>2 DEF CountsAndTakes, Enumerates
  <2> QED BY <2>1, <2>2
<1>5. Held' = Range(array')
  <2>1. (array \in Seq(Nat) => Held = Range(array))'
    BY HeldIsRange, PTL
  <2> QED BY <1>4, <2>1 DEF Range
<1>6. SliceInv'
  <2>1. InTime(array)' /\ Range(array)' \subseteq 1..Len(log')
    BY <1>1, <1>2, <1>4 DEF InTime, Range
  <2> QED BY <1>1, <1>4, <2>1 DEF SliceInv
<1>7. Cardinality(Held \ gone) = Cardinality(Held) - Cardinality(gone) /\ Cardinality(gone) \in Nat
  <2>1. gone \subseteq Held
    BY DEF Expunged, OfSource
  <2> HIDE DEF gone
  <2>2. IsFiniteSet(gone) /\ Held \cap gone = gone
    BY <1>3, <2>1, FS_Subset
  <2> QED BY <1>3, <2>2, FS_Difference, FS_CardinalityType
<1>8. Cardinality(Held) \in Nat
  BY <1>3, FS_CardinalityType
<1> HIDE DEF gone
<1>9. expunged' = Cardinality(Held) - Cardinality(Held')
  BY <1>4, <1>5, <1>7, <1>8
<1> QED BY <1>1, <1>4, <1>5, <1>6, <1>9 DEF gone

LEMMA SliceStep == SliceInv /\ [Next]_vars => SliceInv'
<1> SUFFICES ASSUME SliceInv, [Next]_vars PROVE SliceInv'
  OBVIOUS
<1>1. CASE \E p \in Publishers, s \in AnySource, l \in Levels : Publish(p, s, l)
  BY <1>1, PublishPrunes
<1>2. CASE \E s \in AnySource : Expunge(s)
  BY <1>2, ExpungeTakes
<1>3. CASE UNCHANGED vars
  BY <1>3 DEF vars, SliceInv, InTime, Range
<1> QED BY <1>1, <1>2, <1>3 DEF Next

LEMMA SliceStart == Init => SliceInv
<1> SUFFICES ASSUME Init PROVE SliceInv
  OBVIOUS
<1>1. log = <<>> /\ array = <<>>
  BY DEF Init
<1> QED BY <1>1, RangeOfNothing DEF SliceInv, InTime

LEMMA SliceCorrect == Spec => []SliceInv
BY SliceStart, SliceStep, PTL DEF Spec

(* Whatever is asked for, a replay answers what its definition says, each  *)
(* record once and the oldest first (replay, limitReplayPerSource).        *)
THEOREM ReplaySpecified == Spec => []ReplayIsSpecified
<1>1. SliceInv => ReplayIsSpecified
  <2> SUFFICES ASSUME SliceInv, NEW sub \in Filters
               PROVE  LET slice == ReplaySlice(sub)
                      IN  /\ {slice[i] : i \in 1..Len(slice)} = Replay(log, Held, sub)
                          /\ \A i, j \in 1..Len(slice) : i < j => slice[i] < slice[j]
    BY DEF ReplayIsSpecified
  <2> DEFINE slice == ReplaySlice(sub)
  <2>1. slice \in Seq(Nat) /\ InTime(slice) /\ Range(slice) = Replay(log, Held, sub)
    BY ReplayLists DEF Enumerates
  <2> HIDE DEF slice
  <2>2. Range(slice) = {slice[i] : i \in 1..Len(slice)}
    BY <2>1, ElementsOf DEF Range
  <2>3. /\ {slice[i] : i \in 1..Len(slice)} = Replay(log, Held, sub)
        /\ \A i, j \in 1..Len(slice) : i < j => slice[i] < slice[j]
    BY <2>1, <2>2 DEF InTime
  <2> QED BY <2>3 DEF slice
<1> QED BY <1>1, SliceCorrect, PTL

(* An expunge answers how many records it removed (expunge).               *)
THEOREM ExpungeAnswers == Spec => ExpungeAnswersRemoved
<1>1. SliceInv /\ [Next]_vars => [log' = log => expunged' = Cardinality(Held) - Cardinality(Held')]_vars
  <2> SUFFICES ASSUME SliceInv, [Next]_vars, log' = log, vars' # vars
               PROVE  expunged' = Cardinality(Held) - Cardinality(Held')
    OBVIOUS
  <2>1. CASE \E p \in Publishers, s \in AnySource, l \in Levels : Publish(p, s, l)
    <3>1. Len(log') = Len(log) + 1
      BY <2>1, PublishPrunes
    <3>2. Len(log) \in Nat
      BY ElementsOf DEF SliceInv
    <3> QED BY <3>1, <3>2
  <2>2. CASE \E s \in AnySource : Expunge(s)
    BY <2>2, ExpungeTakes
  <2> QED BY <2>1, <2>2 DEF Next
<1> QED BY <1>1, SliceCorrect, PTL DEF Spec, ExpungeAnswersRemoved
-----------------------------------------------------------------------------
(* The log bus and the slice share the notions of Retention.               *)
LEMMA SharedNotions ==
  /\ Ring!AnySource = AnySource /\ Ring!CanonicalLevels = CanonicalLevels
  /\ \A records, S, s : Ring!OfSource(records, S, s) = OfSource(records, S, s)
  /\ \A records, S, s : Ring!Expunged(records, S, s) = Expunged(records, S, s)
  /\ \A S, k : Ring!Newest(S, k) = Newest(S, k)
<1>1. Ring!AnySource = AnySource /\ Ring!CanonicalLevels = CanonicalLevels
  BY DEF Ring!AnySource, AnySource, Ring!CanonicalLevels, CanonicalLevels
<1>2. \A records, S, s : Ring!OfSource(records, S, s) = OfSource(records, S, s)
  BY DEF Ring!OfSource, OfSource
<1>3. \A records, S, s : Ring!Expunged(records, S, s) = Expunged(records, S, s)
  BY <1>2 DEF Ring!Expunged, Expunged
<1>4. \A S, k : Ring!Newest(S, k) = Newest(S, k)
  <2>1. \A S, n : Ring!NotBefore(S, n) = NotBefore(S, n)
    BY DEF Ring!NotBefore, NotBefore
  <2>2. \A S : Ring!Cardinality(S) = Cardinality(S)
    BY DEF Ring!Cardinality, Cardinality
  <2> QED BY <2>1, <2>2 DEF Ring!Newest, Newest
<1> QED BY <1>1, <1>2, <1>3, <1>4

(* A publish takes a record,                                               *)
LEMMA PublishIsTake ==
  ASSUME SliceInv, NEW p \in Publishers, NEW s \in AnySource, NEW l \in Levels, Publish(p, s, l)
  PROVE  Ring!BusNext
<1> DEFINE record == [source |-> s, level |-> NormalizeLevel(l), by |-> p]
           held == Held \cup {Len(log')}
<1>1. /\ log' = Append(log, record) /\ record.source = s
      /\ record \in [source : AnySource, level : CanonicalLevels, by : Publishers]
      /\ Held' = NewestKept(log', held, s)
  BY PublishPrunes
<1>2. record \in Ring!BusRecords
  BY <1>1, SharedNotions DEF Ring!BusRecords
<1> HIDE DEF record
<1>3. Ring!Take(record)
  BY <1>1, SharedNotions DEF Ring!Take, NewestKept
<1> QED BY <1>2, <1>3 DEF Ring!BusNext

(* an expunge forgets the records of a source.                             *)
LEMMA SliceStepIsBusStep == SliceInv /\ [Next]_vars => [Ring!BusNext]_(Ring!busVars)
<1> SUFFICES ASSUME SliceInv, [Next]_vars PROVE Ring!BusNext \/ UNCHANGED Ring!busVars
  OBVIOUS
<1>1. CASE \E p \in Publishers, s \in AnySource, l \in Levels : Publish(p, s, l)
  BY <1>1, PublishIsTake
<1>2. ASSUME NEW s \in AnySource, Expunge(s) PROVE Ring!BusNext
  <2>1. Ring!Forget(s)
    BY <1>2, ExpungeTakes, SharedNotions DEF Ring!Forget
  <2> QED BY <2>1, SharedNotions DEF Ring!BusNext
<1>3. CASE UNCHANGED vars
  BY <1>3 DEF vars, Held, Ring!busVars
<1> QED BY <1>1, <1>2, <1>3 DEF Next

(* The slice and its loops implement the abstract log bus.                 *)
THEOREM SliceImplementsRetention == Spec => ImplementsRetention
<1>1. Init => Ring!BusInit
  <2> SUFFICES ASSUME Init PROVE Ring!BusInit
    OBVIOUS
  <2>1. log = <<>> /\ array = <<>>
    BY DEF Init
  <2>2. Held = {}
    BY <2>1 DEF Held
  <2>3. <<>> = [c \in {} |-> <<>>]
    OBVIOUS
  <2> QED BY <2>1, <2>2, <2>3 DEF Ring!BusInit
<1> QED BY <1>1, SliceStepIsBusStep, SliceCorrect, PTL DEF Spec, ImplementsRetention, Ring!BusSpec
=============================================================================
