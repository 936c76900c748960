----------------------------- MODULE Retention ------------------------------
(***************************************************************************)
(* What the broker's ring holds and what a replay takes from it            *)
(* (internal/devlogbusd/app/broker.go).                                    *)
(*                                                                         *)
(* A record is named by its number: the value nextRecord had when the      *)
(* broker took it, which is its position in the sequence log of every      *)
(* record ever taken.  The ring only ever grows at its end and is filtered *)
(* in place, so that its order is the order of the numbers and its content *)
(* is a set of numbers.  Module RingArray keeps the array and its loops    *)
(* and is checked to compute these sets.                                   *)
(***************************************************************************)
EXTENDS Protocol, Sequences, FiniteSets

CONSTANTS Sources,    \* the names publishers give as a source
          NoSource,   \* the empty string
          MaxRecords  \* --max-records: the records retained per source

ASSUME RetentionAssumption ==
  /\ MaxRecords \in Nat \ {0}
  /\ NoSource \notin Sources

(* A broker connection takes a record with an empty source as it is.       *)
AnySource == Sources \cup {NoSource}

(* Whether m may reach a client before n: the records of one publisher     *)
(* keep their order, and no record reaches a client twice.                 *)
Precedes(records, m, n) == m # n /\ (records[m].by = records[n].by => m < n)

OfSource(records, S, source) == {n \in S : records[n].source = source}

NotAfter(S, n)  == {m \in S : m <= n}
NotBefore(S, n) == {m \in S : m >= n}

(* The oldest k members of S, and the newest k.                            *)
Oldest(S, k) == {n \in S : Cardinality(NotAfter(S, n)) <= k}
Newest(S, k) == {n \in S : Cardinality(NotBefore(S, n)) <= k}

(* Variant: the bound is on the ring as a whole.                           *)
PruneRing(records, S, source) == S \ Oldest(S, Cardinality(S) - MaxRecords)

(* The excess of one source leaves the ring, oldest first.                 *)
PruneSource(records, S, source) ==
  LET mine == OfSource(records, S, source)
      drop == Cardinality(mine) - MaxRecords
  IN  S \ Oldest(mine, drop)

(* Variant: the empty source names the records without a source.           *)
ExpungedLiteral(records, S, source) == OfSource(records, S, source)

(* The empty source stands for the whole ring.                             *)
Expunged(records, S, source) ==
  IF source = NoSource THEN S ELSE OfSource(records, S, source)

LimitPerSource(records, S, limit) ==
  {n \in S : n \in Newest(OfSource(records, S, records[n].source), limit)}

Replay(records, S, sub) ==
  LET matching  == {n \in S : Matches(sub, records[n])}
      perSource == IF sub.replayPerSource <= 0 THEN matching
                   ELSE LimitPerSource(records, matching, sub.replayPerSource)
  IN  IF sub.replay <= 0 THEN perSource ELSE Newest(perSource, sub.replay)
=============================================================================
