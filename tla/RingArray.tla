----------------------------- MODULE RingArray ------------------------------
(***************************************************************************)
(* The slice behind b.ring and the loops over it, as they run: pruning and *)
(* expunging compact the slice in place while a range loop reads it, and   *)
(* limitReplayPerSource marks records from the newest to the oldest and    *)
(* compacts its argument.  Modules Broker and LogBus take the ring for a   *)
(* set of record numbers; this module is shown to implement LogBus, and    *)
(* its replay to give Retention's answer, in order (RingArrayProofs).      *)
(***************************************************************************)
EXTENDS Retention, Lists

CONSTANTS Publishers,  \* connections that send records
          Filters,     \* the subscriptions asked for
          Levels,      \* the level spellings publishers use
          MaxPublish   \* bound of the model: records ever published

ASSUME SliceAssumption ==
  \A sub \in Filters : {sub.replay, sub.replayPerSource} \subseteq Int

VARIABLES log,      \* every record taken
          array,    \* b.ring, as record numbers
          expunged  \* the count the last expunge answered, or -1

vars == <<log, array, expunged>>

Init == log = <<>> /\ array = <<>> /\ expunged = -1

(* One turn of a compaction loop: the record at i is skipped or copied to  *)
(* the next place to write, in the slice that is being read.               *)
CopyDown(acc, i) ==
  [slice |-> [acc.slice EXCEPT ![acc.write + 1] = acc.slice[i]], write |-> acc.write + 1,
   count |-> acc.count]

(* A loop starts with the slice unread, and a count: of records to drop,   *)
(* or of those that were.                                                  *)
Unread(slice, count) == [slice |-> slice, write |-> 0, count |-> count]

Compacted(acc) == [i \in 1..acc.write |-> acc.slice[i]]

(* A turn of pruneSourceLocked's loop skips records of the source while    *)
(* there are some to drop.                                                 *)
DropOrCopy(records, source, acc, i) ==
  IF records[acc.slice[i]].source = source /\ acc.count > 0
  THEN [slice |-> acc.slice, write |-> acc.write, count |-> acc.count - 1]
  ELSE CopyDown(acc, i)

WithoutFirst(records, slice, source, count) ==
  LET after[i \in 0..Len(slice)] ==
        IF i = 0 THEN Unread(slice, count) ELSE DropOrCopy(records, source, after[i - 1], i)
  IN  IF count <= 0 THEN slice ELSE Compacted(after[Len(slice)])

Count(records, slice, source) ==
  Cardinality({i \in 1..Len(slice) : records[slice[i]].source = source})

(* Variant: the bound is on the ring as a whole.                           *)
PrunedWhole(records, slice, source) ==
  WithoutFirst(records, slice, source, Len(slice) - MaxRecords)

Pruned(records, slice, source) ==
  WithoutFirst(records, slice, source, Count(records, slice, source) - MaxRecords)

(* Variant: the records that stay are counted.                             *)
CountOrCopyKept(records, source, acc, i) ==
  IF records[acc.slice[i]].source = source THEN acc
  ELSE [CopyDown(acc, i) EXCEPT !.count = acc.count + 1]

(* A turn of expunge's loop counts a record of the source, and skips it.   *)
CountOrCopy(records, source, acc, i) ==
  IF records[acc.slice[i]].source = source
  THEN [slice |-> acc.slice, write |-> acc.write, count |-> acc.count + 1]
  ELSE CopyDown(acc, i)

(* The loop of expunge at its end: what it left and what it counted.       *)
ExpungeLoop(records, slice, source) ==
  LET after[i \in 0..Len(slice)] ==
        IF i = 0 THEN Unread(slice, 0) ELSE CountOrCopy(records, source, after[i - 1], i)
  IN  after[Len(slice)]

(* The marks of limitReplayPerSource: how many there are of each source,   *)
(* and at which places.                                                    *)
Unmarked == [counts |-> [s \in AnySource |-> 0], include |-> {}]

Mark(records, slice, limit, acc, i) ==
  LET s == records[slice[i]].source
  IN  IF acc.counts[s] >= limit THEN acc
      ELSE [counts |-> [acc.counts EXCEPT ![s] = @ + 1], include |-> acc.include \cup {i}]

(* Variant: the marking pass runs from the oldest record to the newest.    *)
MarkedFromOldest(records, slice, limit) ==
  LET after[k \in 0..Len(slice)] ==
        IF k = 0 THEN Unmarked ELSE Mark(records, slice, limit, after[k - 1], k)
  IN  after[Len(slice)].include

(* The marking pass, from the newest record to the oldest.                 *)
Marked(records, slice, limit) ==
  LET after[k \in 0..Len(slice)] ==
        IF k = 0 THEN Unmarked
        ELSE Mark(records, slice, limit, after[k - 1], Len(slice) + 1 - k)
  IN  after[Len(slice)].include

CopyMarked(marked, acc, i) == IF i \in marked THEN CopyDown(acc, i) ELSE acc

(* limitReplayPerSource: mark, then compact what was marked.               *)
LimitSlicePerSource(records, slice, limit) ==
  LET marked == Marked(records, slice, limit)
      after[i \in 0..Len(slice)] ==
        IF i = 0 THEN Unread(slice, 0) ELSE CopyMarked(marked, after[i - 1], i)
  IN  Compacted(after[Len(slice)])

(* replay: filter, then the limit per source, then the limit on the whole. *)
ReplaySlice(sub) ==
  LET matching  == AtPlaces(array, {i \in 1..Len(array) : Matches(sub, log[array[i]])})
      perSource == IF sub.replayPerSource <= 0 THEN matching
                   ELSE LimitSlicePerSource(log, matching, sub.replayPerSource)
      excess    == Len(perSource) - sub.replay
  IN  IF sub.replay > 0 /\ excess > 0 THEN SubSeq(perSource, excess + 1, Len(perSource))
      ELSE perSource
-----------------------------------------------------------------------------
Publish(p, source, level) ==
  /\ Len(log) < MaxPublish
  /\ log' = Append(log, [source |-> source, level |-> NormalizeLevel(level), by |-> p])
  /\ array' = Pruned(log', Append(array, Len(log')), source)
  /\ UNCHANGED expunged

(* The empty source takes the whole ring without a loop.                   *)
Expunge(source) ==
  /\ \/ /\ source = NoSource
        /\ array' = <<>> /\ expunged' = Len(array)
     \/ /\ source # NoSource
        /\ LET ended == ExpungeLoop(log, array, source)
           IN  array' = Compacted(ended) /\ expunged' = ended.count
  /\ UNCHANGED log

Next ==
  \/ \E p \in Publishers, s \in AnySource, l \in Levels : Publish(p, s, l)
  \/ \E s \in AnySource : Expunge(s)

Spec == Init /\ [][Next]_vars
-----------------------------------------------------------------------------
Held == {array[i] : i \in 1..Len(array)}

(* A replay gives the records of its definition, oldest first, whatever    *)
(* filter and limits are asked for.                                        *)
ReplayIsSpecified ==
  \A sub \in Filters :
    LET slice == ReplaySlice(sub)
    IN  /\ {slice[i] : i \in 1..Len(slice)} = Replay(log, Held, sub)
        /\ \A i, j \in 1..Len(slice) : i < j => slice[i] < slice[j]

(* What an expunge answers, the counter of its loop, is how many records   *)
(* the slice that it compacts has lost by then.                            *)
ExpungeAnswersRemoved ==
  [][log' = log => expunged' = Cardinality(Held) - Cardinality(Held')]_vars

Ring == INSTANCE LogBus WITH ring <- Held, Streams <- {}, wire <- <<>>

(* Every step of the slice is a step of the abstract log bus.              *)
ImplementsRetention == Ring!BusSpec
=============================================================================
