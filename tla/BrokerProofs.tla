---------------------------- MODULE BrokerProofs ----------------------------
(***************************************************************************)
(* Theorems about Broker, for every number of publishers, streams and      *)
(* records and every capacity: its types and the delivery invariant; what  *)
(* a client of the broker may rely on; that the ring holds the newest      *)
(* records of every source since its last expunge; and that the broker     *)
(* implements the abstract log bus.                                        *)
(***************************************************************************)
EXTENDS BrokerInv, FiniteSetTheorems, WellFoundedInduction, TLAPS

USE DEF shared, pubVars, history, streamVars
-----------------------------------------------------------------------------
(* Whatever a publisher spells, the record taken has a canonical level.    *)
LEMMA NormalizeLevelType ==
  ASSUME NEW level PROVE NormalizeLevel(level) \in CanonicalLevels
BY DEF NormalizeLevel, CanonicalLevels

(* Pruning only takes records away.                                        *)
LEMMA PruneShrinks ==
  ASSUME NEW records, NEW S, NEW source
  PROVE  PruneSource(records, S, source) \subseteq S
BY DEF PruneSource

(* A replay gives records of the ring only.                                *)
LEMMA ReplayFromRing ==
  ASSUME NEW records, NEW S, NEW sub
  PROVE  Replay(records, S, sub) \subseteq S
BY DEF Replay, LimitPerSource, Newest

(* The record a publish appends, and the number it gets.                   *)
LEMMA PublishAppends ==
  ASSUME TypeOK, NEW p \in Publishers, NEW s \in AnySource, NEW l \in Levels,
         Publish(p, s, l)
  PROVE  /\ nextRecord \in Nat
         /\ nextRecord' = nextRecord + 1
         /\ log' \in Seq([source : AnySource, level : CanonicalLevels, by : Publishers])
         /\ \A n \in 1..nextRecord : log'[n] = log[n]
         /\ log'[nextRecord + 1].source = s
         /\ log'[nextRecord + 1].by = p
<1> DEFINE record == [source |-> s, level |-> NormalizeLevel(l), by |-> p]
<1>1. record \in [source : AnySource, level : CanonicalLevels, by : Publishers]
  BY NormalizeLevelType
<1>2. record.source = s /\ record.by = p
  OBVIOUS
<1>3. log' = Append(log, record)
  BY DEF Publish
<1> HIDE DEF record
<1> QED BY <1>1, <1>2, <1>3 DEF TypeOK, nextRecord

(* Every variable keeps its type, in every reachable state of the broker.  *)
LEMMA TypeInductive == TypeOK /\ [Next]_vars => TypeOK'
<1> SUFFICES ASSUME TypeOK, [Next]_vars PROVE TypeOK'
  OBVIOUS
<1>1. ASSUME NEW p \in Publishers, NEW s \in AnySource, NEW l \in Levels, Publish(p, s, l)
      PROVE  TypeOK'
  <2>1. nextRecord \in Nat /\ nextRecord' = nextRecord + 1
    BY <1>1, PublishAppends
  <2>2. ring' \in SUBSET (1..nextRecord')
    <3>1. ring' \subseteq ring \cup {nextRecord + 1}
      BY <1>1, PruneShrinks DEF Publish
    <3>2. ring \subseteq 1..nextRecord
      BY DEF TypeOK
    <3> QED BY <2>1, <3>1, <3>2
  <2>3. last' \in [Publishers -> Nat]
    BY <1>1, <2>1 DEF Publish, TypeOK
  <2>4. todo' \in [Publishers -> SUBSET Streams]
    BY <1>1 DEF Publish, Matching, Subscribers, TypeOK
  <2>5. UNCHANGED <<floor, phase, filter, pending, chan, hold, up, wire, cut, cutFloor, joined, dropped>>
    BY <1>1 DEF Publish
  <2>6. log' \in Seq([source : AnySource, level : CanonicalLevels, by : Publishers])
    BY <1>1, PublishAppends
  <2> QED BY <2>2, <2>3, <2>4, <2>5, <2>6 DEF TypeOK
<1>2. ASSUME NEW p \in Publishers, NEW c \in Streams, Send(p, c)
      PROVE  TypeOK'
  <2>1. todo' \in [Publishers -> SUBSET Streams]
    BY <1>2 DEF Send, TypeOK
  <2>2. chan' \in [Streams -> Seq(Nat)] /\ \A d \in Streams : Len(chan'[d]) <= ChanCap
    BY <1>2, BrokerAssumption DEF Send, TypeOK
  <2>3. dropped' \in [Streams -> SUBSET Nat]
    BY <1>2 DEF Send, TypeOK
  <2>4. UNCHANGED <<log, ring, floor, last, phase, filter, pending, hold, up, wire, cut, cutFloor, joined>>
    BY <1>2 DEF Send
  <2> QED BY <2>1, <2>2, <2>3, <2>4 DEF TypeOK, nextRecord
<1>3. ASSUME NEW s \in AnySource, Expunge(s)
      PROVE  TypeOK'
  <2>1. ring' \in SUBSET (1..nextRecord')
    BY <1>3 DEF Expunge, TypeOK, nextRecord
  <2>2. floor' \in [AnySource -> Nat]
    BY <1>3 DEF Expunge, TypeOK, nextRecord
  <2>3. UNCHANGED <<log, last, todo, phase, filter, pending, chan, hold, up, wire, cut, cutFloor, joined, dropped>>
    BY <1>3 DEF Expunge
  <2> QED BY <2>1, <2>2, <2>3 DEF TypeOK, nextRecord
<1>4. ASSUME NEW c \in Streams, StreamStep(c)
      PROVE  TypeOK'
  <2>1. CASE Subscribe(c)
    <3>1. phase' \in [Streams -> Phases]
      BY <2>1 DEF Subscribe, Phases, TypeOK
    <3>2. pending' \in [Streams -> SUBSET Nat]
      <4>1. Replay(log, ring, filter[c]) \in SUBSET Nat
        <5>1. nextRecord \in Nat
          BY DEF TypeOK, nextRecord
        <5>2. ring \subseteq Nat
          BY <5>1 DEF TypeOK
        <5> QED BY <5>2, ReplayFromRing
      <4> QED BY <2>1, <4>1 DEF Subscribe, TypeOK
    <3>3. cut' \in [Streams -> Nat]
      <4>1. nextRecord \in Nat
        BY DEF TypeOK, nextRecord
      <4> QED BY <2>1, <4>1 DEF Subscribe, TypeOK
    <3>4. cutFloor' \in [Streams -> [AnySource -> Nat]]
      BY <2>1 DEF Subscribe, TypeOK
    <3>5. UNCHANGED <<log, ring, floor, last, todo, filter, chan, hold, up, wire, joined, dropped>>
      BY <2>1 DEF Subscribe
    <3> QED BY <3>1, <3>2, <3>3, <3>4, <3>5 DEF TypeOK, nextRecord
  <2>2. CASE WriteReplay(c)
    <3>1. pending' \in [Streams -> SUBSET Nat]
      BY <2>2 DEF WriteReplay, TypeOK
    <3>2. wire' \in [Streams -> Seq(Nat)]
      BY <2>2 DEF WriteReplay, Written, TypeOK
    <3>3. UNCHANGED <<log, ring, floor, last, todo, phase, filter, chan, hold, up, cut, cutFloor, joined, dropped>>
      BY <2>2 DEF WriteReplay
    <3> QED BY <3>1, <3>2, <3>3 DEF TypeOK, nextRecord
  <2>3. CASE EndReplay(c)
    <3>1. phase' \in [Streams -> Phases]
      BY <2>3 DEF EndReplay, Phases, TypeOK
    <3>2. UNCHANGED <<log, ring, floor, last, todo, filter, pending, chan, hold, up, wire, cut, cutFloor, joined, dropped>>
      BY <2>3 DEF EndReplay
    <3> QED BY <3>1, <3>2 DEF TypeOK, nextRecord
  <2>4. CASE Join(c)
    <3>1. phase' \in [Streams -> Phases]
      BY <2>4 DEF Join, Phases, TypeOK
    <3>2. joined' \in [Streams -> Nat]
      BY <2>4 DEF Join, TypeOK, nextRecord
    <3>3. UNCHANGED <<log, ring, floor, last, todo, filter, pending, chan, hold, up, wire, cut, cutFloor, dropped>>
      BY <2>4 DEF Join
    <3> QED BY <3>1, <3>2, <3>3 DEF TypeOK, nextRecord
  <2>5. CASE Receive(c)
    <3>1. chan' \in [Streams -> Seq(Nat)] /\ \A d \in Streams : Len(chan'[d]) <= ChanCap
      BY <2>5, BrokerAssumption DEF Receive, TypeOK
    <3>2. hold' \in [Streams -> Nat]
      BY <2>5 DEF Receive, TypeOK
    <3>3. UNCHANGED <<log, ring, floor, last, todo, phase, filter, pending, up, wire, cut, cutFloor, joined, dropped>>
      BY <2>5 DEF Receive
    <3> QED BY <3>1, <3>2, <3>3 DEF TypeOK, nextRecord
  <2>6. CASE Write(c)
    <3>1. hold' \in [Streams -> Nat]
      BY <2>6 DEF Write, TypeOK
    <3>2. wire' \in [Streams -> Seq(Nat)]
      BY <2>6 DEF Write, Written, TypeOK
    <3>3. UNCHANGED <<log, ring, floor, last, todo, phase, filter, pending, chan, up, cut, cutFloor, joined, dropped>>
      BY <2>6 DEF Write
    <3> QED BY <3>1, <3>2, <3>3 DEF TypeOK, nextRecord
  <2>7. CASE WriteFails(c) \/ SeeDisconnect(c)
    <3>1. phase' \in [Streams -> Phases]
      BY <2>7 DEF WriteFails, SeeDisconnect, Leave, Phases, TypeOK
    <3>2. UNCHANGED <<log, ring, floor, last, todo, filter, pending, chan, hold, up, wire, cut, cutFloor, joined, dropped>>
      BY <2>7 DEF WriteFails, SeeDisconnect, Leave
    <3> QED BY <3>1, <3>2 DEF TypeOK, nextRecord
  <2>8. CASE Disconnect(c)
    <3>1. up' \in [Streams -> BOOLEAN]
      BY <2>8 DEF Disconnect, TypeOK
    <3>2. UNCHANGED <<log, ring, floor, last, todo, phase, filter, pending, chan, hold, wire, cut, cutFloor, joined, dropped>>
      BY <2>8 DEF Disconnect
    <3> QED BY <3>1, <3>2 DEF TypeOK, nextRecord
  <2> QED BY <1>4, <2>1, <2>2, <2>3, <2>4, <2>5, <2>6, <2>7, <2>8 DEF StreamStep
<1>5. CASE UNCHANGED vars
  BY <1>5 DEF vars, TypeOK, nextRecord
<1> QED BY <1>1, <1>2, <1>3, <1>4, <1>5 DEF Next

(* Every variable always has its type, and no subscriber channel ever holds*)
(* more than its capacity (publish, addSubscriber).                        *)
THEOREM TypeCorrect == Spec => []TypeOK
<1>1. Init => TypeOK
  BY RetentionAssumption, BrokerAssumption DEF Init, TypeOK, nextRecord, Phases
<1> QED BY <1>1, TypeInductive, PTL DEF Spec
-----------------------------------------------------------------------------
(* How the log and the publishers move in a step, for the argument about   *)
(* one stream: numbers only grow, and what a publisher still has to send   *)
(* to a stream it had already, or it is new and the stream is live.        *)
LogGrows ==
  /\ nextRecord \in Nat
  /\ nextRecord' \in Nat
  /\ nextRecord <= nextRecord'
  /\ \A n \in 1..nextRecord : log'[n] = log[n]

SendsGrow(c) ==
  \A p \in Publishers : c \in todo'[p] =>
    \/ c \in todo[p] /\ last'[p] = last[p]
    \/ last'[p] = nextRecord' /\ nextRecord < nextRecord' /\ phase[c] = "live"

(* A step of another process, or one that only moves the handler forward.  *)
StreamRests(c) ==
  /\ LogGrows
  /\ SendsGrow(c)
  /\ chan'[c] = chan[c] /\ hold'[c] = hold[c] /\ wire'[c] = wire[c]
  /\ pending'[c] = pending[c] /\ cut'[c] = cut[c] /\ cutFloor'[c] = cutFloor[c]
  /\ phase'[c] = "new" => phase[c] = "new"
  /\ phase'[c] = "replay" => phase[c] = "replay"
  /\ phase'[c] \in {"new", "replay", "ready"} => phase[c] \in {"new", "replay", "ready"} /\ phase'[c] # "live"

StreamInv(c) == UnjoinedIsIdle(c) /\ SplitAtCut(c) /\ InLine(c) /\ ReplayAboveFloor(c)

(* The types of one stream's variables.                                    *)
StreamTypes(c) ==
  /\ chan[c] \in Seq(Nat) /\ wire[c] \in Seq(Nat)
  /\ Len(chan[c]) \in Nat /\ Len(wire[c]) \in Nat
  /\ \A i \in 1..Len(chan[c]) : chan[c][i] \in Nat
  /\ \A i \in 1..Len(wire[c]) : wire[c][i] \in Nat
  /\ hold[c] \in Nat /\ cut[c] \in Nat
  /\ pending[c] \subseteq Nat
  /\ cutFloor[c] \in [AnySource -> Nat]
  /\ \A p \in Publishers : last[p] \in Nat

(* The parts of TypeOK that speak of one stream.                           *)
LEMMA TypesOfStream ==
  ASSUME TypeOK, NEW c \in Streams
  PROVE  StreamTypes(c)
<1>1. chan[c] \in Seq(Nat) /\ wire[c] \in Seq(Nat)
  BY DEF TypeOK
<1>2. hold[c] \in Nat /\ cut[c] \in Nat /\ pending[c] \subseteq Nat /\ cutFloor[c] \in [AnySource -> Nat]
  BY DEF TypeOK
<1>3. \A p \in Publishers : last[p] \in Nat
  BY DEF TypeOK
<1>4. /\ Len(chan[c]) \in Nat /\ Len(wire[c]) \in Nat
      /\ \A i \in 1..Len(chan[c]) : chan[c][i] \in Nat
      /\ \A i \in 1..Len(wire[c]) : wire[c][i] \in Nat
  BY <1>1
<1> QED BY <1>1, <1>2, <1>3, <1>4 DEF StreamTypes

(* Records a stream holds keep their place in the order.                   *)
LEMMA PrecedesStable ==
  ASSUME LogGrows, NEW m \in 1..nextRecord, NEW n \in 1..nextRecord, Precedes(log, m, n)
  PROVE  Precedes(log', m, n)
BY DEF LogGrows, Precedes

(* Everything a stream holds is a record of the log.                       *)
Numbered(c) ==
  /\ \A n \in pending[c] : n \in 1..nextRecord
  /\ \A i \in 1..Len(wire[c]) : wire[c][i] \in 1..nextRecord
  /\ \A i \in 1..Len(chan[c]) : chan[c][i] \in 1..nextRecord
  /\ hold[c] # 0 => hold[c] \in 1..nextRecord

(* What SplitAtCut says bounds every number a stream holds.                *)
LEMMA StreamIsNumbered ==
  ASSUME NEW c, StreamTypes(c), nextRecord \in Nat, SplitAtCut(c)
  PROVE  Numbered(c)
<1>1. \A n \in pending[c] : n \in 1..nextRecord
  BY DEF SplitAtCut, StreamTypes
<1>2. \A i \in 1..Len(wire[c]) : wire[c][i] \in 1..nextRecord
  BY DEF SplitAtCut, StreamTypes
<1>3. \A i \in 1..Len(chan[c]) : chan[c][i] \in 1..nextRecord
  BY DEF SplitAtCut, StreamTypes
<1>4. hold[c] # 0 => hold[c] \in 1..nextRecord
  BY DEF SplitAtCut, StreamTypes
<1> QED BY <1>1, <1>2, <1>3, <1>4 DEF Numbered

(* A resting stream keeps its invariants.                                  *)
LEMMA RestingStream ==
  ASSUME TypeOK, TypeOK', NEW c \in Streams, StreamInv(c), StreamRests(c)
  PROVE  StreamInv(c)'
<1> USE DEF StreamInv, StreamRests
<1>0. StreamTypes(c) /\ \A p \in Publishers : last'[p] \in Nat
  BY TypesOfStream DEF TypeOK
<1>1. UnjoinedIsIdle(c)'
  <2> SUFFICES ASSUME phase'[c] \in {"new", "replay", "ready"}
               PROVE  chan[c] = <<>> /\ hold[c] = 0 /\ \A p \in Publishers : c \notin todo'[p]
    BY DEF UnjoinedIsIdle
  <2>1. phase[c] \in {"new", "replay", "ready"}
    OBVIOUS
  <2> QED BY <2>1 DEF UnjoinedIsIdle, SendsGrow
<1>2. SplitAtCut(c)'
  <2>1. cut'[c] <= nextRecord'
    BY <1>0 DEF SplitAtCut, StreamTypes, LogGrows
  <2>2. \A i \in 1..Len(wire[c]) : wire[c][i] <= nextRecord'
    BY <1>0 DEF SplitAtCut, StreamTypes, LogGrows
  <2>3. \A i \in 1..Len(chan[c]) : chan[c][i] <= nextRecord'
    BY <1>0 DEF SplitAtCut, StreamTypes, LogGrows
  <2>4. hold[c] # 0 => hold[c] <= nextRecord'
    BY <1>0 DEF SplitAtCut, StreamTypes, LogGrows
  <2>5. \A p \in Publishers : c \in todo'[p] => cut[c] < last'[p]
    BY <1>0 DEF SplitAtCut, StreamTypes, LogGrows, SendsGrow
  <2> QED BY <2>1, <2>2, <2>3, <2>4, <2>5 DEF SplitAtCut
<1>3. Numbered(c)
  BY <1>0, StreamIsNumbered DEF LogGrows
<1>4. InLine(c)'
  <2>1. \A i, j \in 1..Len(wire[c]) : i < j => Precedes(log', wire[c][i], wire[c][j])
    BY <1>3, PrecedesStable DEF InLine, Numbered
  <2>2. \A i, j \in 1..Len(chan[c]) : i < j => Precedes(log', chan[c][i], chan[c][j])
    BY <1>3, PrecedesStable DEF InLine, Numbered
  <2>3. \A i \in 1..Len(wire[c]) : \A j \in 1..Len(chan[c]) : Precedes(log', wire[c][i], chan[c][j])
    BY <1>3, PrecedesStable DEF InLine, Numbered
  <2>4. hold[c] # 0 => /\ \A i \in 1..Len(wire[c]) : Precedes(log', wire[c][i], hold[c])
                       /\ \A j \in 1..Len(chan[c]) : Precedes(log', hold[c], chan[c][j])
    BY <1>3, PrecedesStable DEF InLine, Numbered
  <2>5. ASSUME NEW p \in Publishers, c \in todo'[p]
        PROVE  /\ last'[p] # hold[c]
               /\ \A i \in 1..Len(wire[c]) : last'[p] # wire[c][i]
               /\ \A j \in 1..Len(chan[c]) : last'[p] # chan[c][j]
    <3>1. CASE c \in todo[p] /\ last'[p] = last[p]
      BY <3>1 DEF InLine
    <3>2. CASE last'[p] = nextRecord' /\ nextRecord < nextRecord'
      BY <3>2, <1>3 DEF Numbered, LogGrows
    <3> QED BY <2>5, <3>1, <3>2 DEF SendsGrow
  <2> QED BY <2>1, <2>2, <2>3, <2>4, <2>5 DEF InLine
<1>5. ReplayAboveFloor(c)'
  BY <1>3 DEF ReplayAboveFloor, Numbered, LogGrows
<1> QED BY <1>1, <1>2, <1>4, <1>5
-----------------------------------------------------------------------------
(* The fields of the records in the log.                                   *)
LEMMA TypesOfLog ==
  ASSUME TypeOK
  PROVE  /\ nextRecord \in Nat
         /\ \A n \in 1..nextRecord : log[n].source \in AnySource /\ log[n].by \in Publishers
<1> DEFINE Record == [source : AnySource, level : CanonicalLevels, by : Publishers]
<1>1. log \in Seq(Record)
  BY DEF TypeOK
<1>2. \A record \in Record : record.source \in AnySource /\ record.by \in Publishers
  OBVIOUS
<1> HIDE DEF Record
<1>3. nextRecord \in Nat /\ \A n \in 1..nextRecord : log[n] \in Record
  BY <1>1 DEF nextRecord
<1> QED BY <1>2, <1>3

(* Of all the actions only Publish touches the log.                        *)
LEMMA LogOnlyGrows ==
  ASSUME TypeOK, [Next]_vars
  PROVE  LogGrows
<1>1. nextRecord \in Nat
  BY DEF TypeOK, nextRecord
<1>2. ASSUME NEW p \in Publishers, NEW s \in AnySource, NEW l \in Levels, Publish(p, s, l)
      PROVE  LogGrows
  BY <1>1, <1>2, PublishAppends DEF LogGrows
<1>3. ASSUME UNCHANGED log
      PROVE  LogGrows
  BY <1>1, <1>3 DEF LogGrows, nextRecord
<1>4. CASE \E p \in Publishers, c \in Streams : Send(p, c)
  BY <1>3, <1>4 DEF Send
<1>5. CASE \E s \in AnySource : Expunge(s)
  BY <1>3, <1>5 DEF Expunge
<1>6. CASE \E c \in Streams : StreamStep(c)
  BY <1>3, <1>6 DEF StreamStep, Subscribe, WriteReplay, EndReplay, Join, Receive, Write,
     WriteFails, SeeDisconnect, Disconnect, Leave
<1>7. CASE UNCHANGED vars
  BY <1>3, <1>7 DEF vars
<1> QED BY <1>2, <1>4, <1>5, <1>6, <1>7 DEF Next

(* Every step keeps PublisherInv: a publisher sends only the record it     *)
(* numbered last.                                                          *)
LEMMA PublisherStep ==
  ASSUME TypeOK, PublisherInv, [Next]_vars
  PROVE  PublisherInv'
<1>1. \A p \in Publishers : last[p] \in Nat
  BY DEF TypeOK
<1>2. nextRecord \in Nat
  BY DEF TypeOK, nextRecord
<1>3. ASSUME NEW p \in Publishers, NEW s \in AnySource, NEW l \in Levels, Publish(p, s, l)
      PROVE  PublisherInv'
  <2>1. /\ last' = [last EXCEPT ![p] = nextRecord + 1]
        /\ \A q \in Publishers : q # p => todo'[q] = todo[q]
    BY <1>3 DEF Publish, TypeOK
  <2>2. /\ nextRecord' = nextRecord + 1
        /\ \A n \in 1..nextRecord : log'[n] = log[n]
        /\ log'[nextRecord + 1].by = p
    BY <1>3, PublishAppends
  <2>3. \A n \in 1..nextRecord : log[n].by \in Publishers
    BY TypesOfLog
  <2>4. last \in [Publishers -> Nat]
    BY DEF TypeOK
  <2>5. ASSUME NEW q \in Publishers
        PROVE  /\ last'[q] \in 0..nextRecord'
               /\ last'[q] # 0 => log'[last'[q]].by = q
               /\ todo'[q] # {} => last'[q] # 0
    <3>1. CASE q = p
      BY <3>1, <2>1, <2>2, <2>4, <1>2
    <3>2. CASE q # p
      BY <3>2, <2>1, <2>2, <2>4, <1>2 DEF PublisherInv
    <3> QED BY <3>1, <3>2
  <2>6. ASSUME NEW n \in 1..nextRecord'
        PROVE  n <= last'[log'[n].by]
    <3>1. CASE n = nextRecord + 1
      BY <3>1, <2>1, <2>2, <2>4, <1>2
    <3>2. CASE n \in 1..nextRecord
      <4>1. n <= last[log[n].by] /\ last[log[n].by] <= nextRecord
        BY <3>2, <2>3 DEF PublisherInv
      <4> QED BY <3>2, <4>1, <2>1, <2>2, <2>3, <2>4, <1>2
    <3> QED BY <3>1, <3>2, <2>2, <1>2
  <2> QED BY <2>5, <2>6 DEF PublisherInv
<1>4. ASSUME UNCHANGED <<log, last>>, \A p \in Publishers : todo'[p] \subseteq todo[p]
      PROVE  PublisherInv'
  BY <1>4 DEF PublisherInv, nextRecord
<1>5. CASE \E p \in Publishers, c \in Streams : Send(p, c)
  BY <1>4, <1>5 DEF Send, TypeOK
<1>6. CASE \E s \in AnySource : Expunge(s)
  BY <1>4, <1>6 DEF Expunge
<1>7. CASE \E c \in Streams : StreamStep(c)
  BY <1>4, <1>7 DEF StreamStep, Subscribe, WriteReplay, EndReplay, Join, Receive, Write,
     WriteFails, SeeDisconnect, Disconnect, Leave
<1>8. CASE UNCHANGED vars
  BY <1>4, <1>8 DEF vars
<1> QED BY <1>3, <1>5, <1>6, <1>7, <1>8 DEF Next

(* Every step keeps RingAboveFloor: nothing expunged comes back to the     *)
(* ring.                                                                   *)
LEMMA FloorStep ==
  ASSUME TypeOK, RingAboveFloor, [Next]_vars
  PROVE  RingAboveFloor'
<1>1. nextRecord \in Nat /\ ring \subseteq 1..nextRecord /\ floor \in [AnySource -> Nat]
  BY DEF TypeOK, nextRecord
<1>2. \A n \in 1..nextRecord : log[n].source \in AnySource
  BY TypesOfLog
<1>3. ASSUME NEW p \in Publishers, NEW s \in AnySource, NEW l \in Levels, Publish(p, s, l)
      PROVE  RingAboveFloor'
  <2>1. floor' = floor /\ ring' \subseteq ring \cup {nextRecord + 1}
    BY <1>3, PruneShrinks DEF Publish
  <2>2. /\ nextRecord' = nextRecord + 1
        /\ \A n \in 1..nextRecord : log'[n] = log[n]
        /\ log'[nextRecord + 1].source = s
    BY <1>3, PublishAppends
  <2>3. \A t \in AnySource : floor'[t] <= nextRecord'
    BY <1>1, <2>1, <2>2 DEF RingAboveFloor
  <2>4. \A n \in ring' : floor'[log'[n].source] < n
    <3> SUFFICES ASSUME NEW n \in ring' PROVE floor[log'[n].source] < n
      BY <2>1
    <3>1. CASE n \in ring
      BY <3>1, <1>1, <2>2 DEF RingAboveFloor
    <3>2. CASE n = nextRecord + 1
      <4>1. floor[s] \in Nat /\ floor[s] <= nextRecord
        BY <1>1 DEF RingAboveFloor
      <4> QED BY <3>2, <4>1, <1>1, <2>2
    <3> QED BY <3>1, <3>2, <2>1
  <2> QED BY <2>3, <2>4 DEF RingAboveFloor
<1>4. ASSUME NEW s \in AnySource, Expunge(s)
      PROVE  RingAboveFloor'
  <2>1. /\ ring' = ring \ Expunged(log, ring, s)
        /\ floor' = [t \in AnySource |-> IF s \in {t, NoSource} THEN nextRecord ELSE floor[t]]
        /\ log' = log /\ nextRecord' = nextRecord
    BY <1>4 DEF Expunge, nextRecord
  <2>2. \A t \in AnySource : floor'[t] <= nextRecord'
    BY <1>1, <2>1 DEF RingAboveFloor
  <2>3. ASSUME NEW n \in ring' PROVE floor'[log'[n].source] < n
    <3>1. n \in ring /\ s # NoSource /\ s # log[n].source
      BY <2>1, <2>3 DEF Expunged, OfSource
    <3>2. floor'[log[n].source] = floor[log[n].source]
      BY <3>1, <2>1, <1>1, <1>2
    <3> QED BY <3>1, <3>2, <2>1 DEF RingAboveFloor
  <2> QED BY <2>2, <2>3 DEF RingAboveFloor
<1>5. ASSUME UNCHANGED shared
      PROVE  RingAboveFloor'
  BY <1>5 DEF RingAboveFloor, nextRecord
<1>6. CASE \E p \in Publishers, c \in Streams : Send(p, c)
  BY <1>5, <1>6 DEF Send
<1>7. CASE \E c \in Streams : StreamStep(c)
  BY <1>5, <1>7 DEF StreamStep, Subscribe, WriteReplay, EndReplay, Join, Receive, Write,
     WriteFails, SeeDisconnect, Disconnect, Leave
<1>8. CASE UNCHANGED vars
  BY <1>5, <1>8 DEF vars
<1> QED BY <1>3, <1>4, <1>6, <1>7, <1>8 DEF Next
-----------------------------------------------------------------------------
(* A record a stream holds comes before what a publisher has yet to send.  *)
LEMMA LastFollows ==
  ASSUME PublisherInv, TypeOK, NEW p \in Publishers, NEW n \in 1..nextRecord,
         n # last[p], last[p] # 0
  PROVE  Precedes(log, n, last[p])
<1>1. log[last[p]].by = p /\ last[p] \in Nat
  BY DEF PublisherInv, TypeOK
<1>2. n <= last[log[n].by]
  BY DEF PublisherInv
<1>3. nextRecord \in Nat
  BY DEF TypeOK, nextRecord
<1> QED BY <1>1, <1>2, <1>3 DEF Precedes

(* A sequence with one more element, and one without its first.            *)
LEMMA AppendElements ==
  ASSUME NEW s \in Seq(Nat), NEW n \in Nat
  PROVE  /\ Len(Append(s, n)) = Len(s) + 1
         /\ \A i \in 1..Len(Append(s, n)) :
              \/ i \in 1..Len(s) /\ Append(s, n)[i] = s[i]
              \/ i = Len(s) + 1 /\ Append(s, n)[i] = n
OBVIOUS

(* The elements of a tail, and its length.                                 *)
LEMMA TailElements ==
  ASSUME NEW s \in Seq(Nat), s # <<>>
  PROVE  /\ Len(Tail(s)) = Len(s) - 1
         /\ \A i \in 1..Len(Tail(s)) : Tail(s)[i] = s[i + 1]
         /\ Head(s) = s[1]
         /\ Len(s) >= 1
OBVIOUS

(* A send adds the publisher's last record to the end of the line.         *)
LEMMA SendKeepsLine ==
  ASSUME TypeOK, PublisherInv, NEW c \in Streams, StreamInv(c),
         NEW p \in Publishers, Send(p, c)
  PROVE  StreamInv(c)'
<1> USE DEF StreamInv
<1>0. StreamTypes(c) /\ nextRecord \in Nat
  BY TypesOfStream, TypesOfLog
<1>1. Numbered(c)
  BY <1>0, StreamIsNumbered
<1>2. /\ c \in todo[p] /\ last[p] # 0 /\ last[p] \in 1..nextRecord /\ log[last[p]].by = p
  BY <1>0 DEF Send, PublisherInv
<1>3. /\ UNCHANGED <<log, last, phase, pending, hold, wire, cut, cutFloor>>
      /\ c \notin todo'[p]
      /\ \A q \in Publishers : todo'[q] \subseteq todo[q]
  BY DEF Send, TypeOK
<1>4. nextRecord' = nextRecord
  BY <1>3 DEF nextRecord
<1>5. chan'[c] = Append(chan[c], last[p]) \/ chan'[c] = chan[c]
  BY DEF Send, TypeOK
<1>6. ASSUME NEW i \in 1..Len(chan'[c])
      PROVE  (i \in 1..Len(chan[c]) /\ chan'[c][i] = chan[c][i])
               \/ (i = Len(chan[c]) + 1 /\ chan'[c][i] = last[p])
  <2>1. CASE chan'[c] = chan[c]
    BY <2>1
  <2>2. CASE chan'[c] = Append(chan[c], last[p])
    <3>1. chan[c] \in Seq(Nat) /\ last[p] \in Nat
      BY <1>0 DEF StreamTypes
    <3> QED BY <2>2, <3>1, AppendElements
  <2> QED BY <1>5, <2>1, <2>2
<1>7. UnjoinedIsIdle(c)'
  BY <1>2, <1>3 DEF UnjoinedIsIdle
<1>8. SplitAtCut(c)'
  <2>1. \A i \in 1..Len(chan'[c]) : cut[c] < chan'[c][i] /\ chan'[c][i] <= nextRecord
    BY <1>2, <1>6, <1>0 DEF SplitAtCut
  <2>2. \A q \in Publishers : c \in todo'[q] => cut[c] < last[q]
    BY <1>3 DEF SplitAtCut
  <2> QED BY <2>1, <2>2, <1>3, <1>4 DEF SplitAtCut
<1>9. InLine(c)'
  <2>1. \A n \in 1..nextRecord : n # last[p] => Precedes(log, n, last[p])
    BY <1>2, LastFollows
  <2>2. \A i, j \in 1..Len(chan'[c]) : i < j => Precedes(log, chan'[c][i], chan'[c][j])
    <3> SUFFICES ASSUME NEW i \in 1..Len(chan'[c]), NEW j \in 1..Len(chan'[c]), i < j
                 PROVE  Precedes(log, chan'[c][i], chan'[c][j])
      OBVIOUS
    <3>1. i \in 1..Len(chan[c]) /\ chan'[c][i] = chan[c][i]
      BY <1>6, <1>0 DEF StreamTypes
    <3>2. CASE j \in 1..Len(chan[c]) /\ chan'[c][j] = chan[c][j]
      BY <3>1, <3>2 DEF InLine
    <3>3. CASE chan'[c][j] = last[p]
      BY <3>1, <3>3, <2>1, <1>1, <1>2 DEF InLine, Numbered
    <3> QED BY <3>2, <3>3, <1>6
  <2>3. \A i \in 1..Len(wire[c]) : \A j \in 1..Len(chan'[c]) : Precedes(log, wire[c][i], chan'[c][j])
    BY <1>1, <1>2, <1>6, <2>1 DEF InLine, Numbered
  <2>4. hold[c] # 0 => \A j \in 1..Len(chan'[c]) : Precedes(log, hold[c], chan'[c][j])
    BY <1>1, <1>2, <1>6, <2>1 DEF InLine, Numbered
  <2>5. ASSUME NEW q \in Publishers, c \in todo'[q]
        PROVE  \A j \in 1..Len(chan'[c]) : last[q] # chan'[c][j]
    <3>1. c \in todo[q] /\ q # p
      BY <1>3, <2>5
    <3>2. last[q] # 0 /\ log[last[q]].by = q
      BY <3>1 DEF PublisherInv
    <3> QED BY <3>1, <3>2, <1>2, <1>6 DEF InLine
  <2> QED BY <1>3, <2>2, <2>3, <2>4, <2>5 DEF InLine
<1>10. ReplayAboveFloor(c)'
  BY <1>3 DEF ReplayAboveFloor
<1> QED BY <1>7, <1>8, <1>9, <1>10

(* A replay is taken from the ring, which holds nothing expunged, and the  *)
(* stream has seen nothing before it.                                      *)
LEMMA SubscribeStartsLine ==
  ASSUME TypeOK, RingAboveFloor, NEW c \in Streams, StreamInv(c), Subscribe(c)
  PROVE  StreamInv(c)'
<1> USE DEF StreamInv
<1>0. nextRecord \in Nat /\ ring \subseteq 1..nextRecord
  BY DEF TypeOK, nextRecord
<1>1. UNCHANGED <<log, ring, floor, last, todo, chan, hold, wire>>
  BY DEF Subscribe
<1>2. phase'[c] = "replay" /\ cut'[c] = nextRecord /\ cutFloor'[c] = floor
  BY DEF Subscribe, TypeOK
<1>3. pending'[c] \subseteq ring
  BY ReplayFromRing DEF Subscribe, TypeOK
<1>4. chan[c] = <<>> /\ hold[c] = 0 /\ wire[c] = <<>> /\ \A p \in Publishers : c \notin todo[p]
  BY DEF Subscribe, UnjoinedIsIdle, SplitAtCut
<1>5. nextRecord' = nextRecord
  BY <1>1 DEF nextRecord
<1>6. UnjoinedIsIdle(c)'
  BY <1>1, <1>4 DEF UnjoinedIsIdle
<1>7. SplitAtCut(c)'
  <2>1. ASSUME NEW n \in pending'[c] PROVE 1 <= n /\ n <= nextRecord
    <3>1. n \in 1..nextRecord
      BY <1>0, <1>3
    <3> QED BY <3>1, <1>0
  <2>2. wire'[c] = <<>> /\ chan'[c] = <<>> /\ hold'[c] = 0 /\ \A p \in Publishers : c \notin todo'[p]
    BY <1>1, <1>4
  <2>3. Len(wire'[c]) = 0 /\ Len(chan'[c]) = 0
    BY <2>2
  <2> QED BY <2>1, <2>2, <2>3, <1>0, <1>2, <1>5 DEF SplitAtCut
<1>8. InLine(c)'
  BY <1>1, <1>4 DEF InLine
<1>9. ReplayAboveFloor(c)'
  BY <1>1, <1>2, <1>3 DEF ReplayAboveFloor, RingAboveFloor
<1> QED BY <1>6, <1>7, <1>8, <1>9

(* The oldest record of a replay goes to the end of the line.              *)
LEMMA ReplayKeepsLine ==
  ASSUME TypeOK, NEW c \in Streams, StreamInv(c), WriteReplay(c)
  PROVE  StreamInv(c)'
<1> USE DEF StreamInv
<1>0. StreamTypes(c) /\ nextRecord \in Nat
  BY TypesOfStream, TypesOfLog
<1>1. Numbered(c)
  BY <1>0, StreamIsNumbered
<1>2. PICK n \in pending[c] : /\ \A m \in pending[c] : n <= m
                              /\ pending' = [pending EXCEPT ![c] = @ \ {n}]
                              /\ wire' = [wire EXCEPT ![c] = Written(c, n)]
  BY DEF WriteReplay
<1>3. UNCHANGED <<log, last, todo, phase, chan, hold, cut, cutFloor>> /\ phase[c] = "replay"
  BY DEF WriteReplay
<1>4. nextRecord' = nextRecord
  BY <1>3 DEF nextRecord
<1>5. n \in 1..nextRecord /\ n <= cut[c] /\ pending[c] \subseteq Nat
  BY <1>0, <1>1 DEF Numbered, SplitAtCut, StreamTypes
<1>6. pending'[c] = pending[c] \ {n} /\ (wire'[c] = Append(wire[c], n) \/ wire'[c] = wire[c])
  BY <1>2 DEF TypeOK, Written
<1>7. chan[c] = <<>> /\ hold[c] = 0 /\ \A p \in Publishers : c \notin todo[p]
  BY <1>3 DEF UnjoinedIsIdle
<1>8. ASSUME NEW i \in 1..Len(wire'[c])
      PROVE  \/ i \in 1..Len(wire[c]) /\ wire'[c][i] = wire[c][i]
             \/ i = Len(wire[c]) + 1 /\ wire'[c][i] = n
  <2>1. CASE wire'[c] = wire[c]
    BY <2>1
  <2>2. CASE wire'[c] = Append(wire[c], n)
    <3>1. wire[c] \in Seq(Nat) /\ n \in Nat
      BY <1>0, <1>5 DEF StreamTypes
    <3> QED BY <2>2, <3>1, AppendElements
  <2> QED BY <1>6, <2>1, <2>2
<1>9. \A i \in 1..Len(wire[c]) : wire[c][i] \in 1..nextRecord /\ wire[c][i] < n
  BY <1>1, <1>3 DEF SplitAtCut, Numbered
<1>10. UnjoinedIsIdle(c)'
  BY <1>3, <1>7 DEF UnjoinedIsIdle
<1>11. SplitAtCut(c)'
  <2>1. \A i \in 1..Len(wire'[c]) : 1 <= wire'[c][i] /\ wire'[c][i] <= nextRecord
    BY <1>0, <1>5, <1>8, <1>9
  <2>2. \A i \in 1..Len(wire'[c]) : \A m \in pending'[c] : wire'[c][i] < m
    <3> SUFFICES ASSUME NEW i \in 1..Len(wire'[c]), NEW m \in pending'[c]
                 PROVE  wire'[c][i] < m
      OBVIOUS
    <3>1. n < m /\ m \in Nat /\ n \in Nat
      BY <1>2, <1>5, <1>6
    <3> QED BY <3>1, <1>8, <1>9
  <2>3. \A m \in pending'[c] : 1 <= m /\ m <= cut[c]
    BY <1>6 DEF SplitAtCut
  <2> QED BY <2>1, <2>2, <2>3, <1>3, <1>4, <1>7 DEF SplitAtCut
<1>12. InLine(c)'
  <2>1. \A i, j \in 1..Len(wire'[c]) : i < j => Precedes(log, wire'[c][i], wire'[c][j])
    <3> SUFFICES ASSUME NEW i \in 1..Len(wire'[c]), NEW j \in 1..Len(wire'[c]), i < j
                 PROVE  Precedes(log, wire'[c][i], wire'[c][j])
      OBVIOUS
    <3>1. i \in 1..Len(wire[c]) /\ wire'[c][i] = wire[c][i]
      BY <1>8, <1>0 DEF StreamTypes
    <3>2. CASE j \in 1..Len(wire[c]) /\ wire'[c][j] = wire[c][j]
      BY <3>1, <3>2 DEF InLine
    <3>3. CASE wire'[c][j] = n
      BY <3>1, <3>3, <1>9, <1>5 DEF Precedes
    <3> QED BY <3>2, <3>3, <1>8
  <2> QED BY <2>1, <1>3, <1>7 DEF InLine
<1>13. ReplayAboveFloor(c)'
  BY <1>3, <1>6 DEF ReplayAboveFloor
<1> QED BY <1>10, <1>11, <1>12, <1>13

(* The handler takes the next record of the line, and writes it.           *)
LEMMA ReceiveKeepsLine ==
  ASSUME TypeOK, NEW c \in Streams, StreamInv(c), Receive(c)
  PROVE  StreamInv(c)'
<1> USE DEF StreamInv
<1>0. StreamTypes(c) /\ nextRecord \in Nat
  BY TypesOfStream, TypesOfLog
<1>1. Numbered(c)
  BY <1>0, StreamIsNumbered
<1>2. UNCHANGED <<log, last, todo, phase, pending, wire, cut, cutFloor>> /\ phase[c] = "live"
  BY DEF Receive
<1>3. nextRecord' = nextRecord
  BY <1>2 DEF nextRecord
<1>4. hold'[c] = Head(chan[c]) /\ chan'[c] = Tail(chan[c]) /\ chan[c] # <<>>
  BY DEF Receive, TypeOK
<1>5. /\ hold'[c] = chan[c][1]
      /\ 1 \in 1..Len(chan[c])
      /\ \A i \in 1..Len(chan'[c]) : i + 1 \in 1..Len(chan[c]) /\ chan'[c][i] = chan[c][i + 1]
  <2>1. chan[c] \in Seq(Nat) /\ Len(chan[c]) \in Nat
    BY <1>0 DEF StreamTypes
  <2> QED BY <2>1, <1>4, TailElements
<1>6. UnjoinedIsIdle(c)'
  BY <1>2 DEF UnjoinedIsIdle
<1>7. SplitAtCut(c)'
  <2>1. \A i \in 1..Len(chan'[c]) : cut[c] < chan'[c][i] /\ chan'[c][i] <= nextRecord
    BY <1>5 DEF SplitAtCut
  <2>2. cut[c] < hold'[c] /\ hold'[c] <= nextRecord
    BY <1>5 DEF SplitAtCut
  <2> QED BY <2>1, <2>2, <1>2, <1>3 DEF SplitAtCut
<1>8. InLine(c)'
  <2>1. \A i, j \in 1..Len(chan'[c]) : i < j => Precedes(log, chan'[c][i], chan'[c][j])
    <3> SUFFICES ASSUME NEW i \in 1..Len(chan'[c]), NEW j \in 1..Len(chan'[c]), i < j
                 PROVE  Precedes(log, chan[c][i + 1], chan[c][j + 1])
      BY <1>5
    <3>1. i + 1 < j + 1
      OBVIOUS
    <3> QED BY <3>1, <1>5 DEF InLine
  <2>2. \A i \in 1..Len(wire[c]) : \A j \in 1..Len(chan'[c]) : Precedes(log, wire[c][i], chan'[c][j])
    BY <1>5 DEF InLine
  <2>3. \A i \in 1..Len(wire[c]) : Precedes(log, wire[c][i], hold'[c])
    BY <1>5 DEF InLine
  <2>4. \A j \in 1..Len(chan'[c]) : Precedes(log, hold'[c], chan'[c][j])
    <3> SUFFICES ASSUME NEW j \in 1..Len(chan'[c])
                 PROVE  Precedes(log, chan[c][1], chan[c][j + 1])
      BY <1>5
    <3>1. 1 < j + 1
      OBVIOUS
    <3> QED BY <3>1, <1>5 DEF InLine
  <2>5. \A p \in Publishers : c \in todo[p] =>
           last[p] # hold'[c] /\ \A j \in 1..Len(chan'[c]) : last[p] # chan'[c][j]
    BY <1>5 DEF InLine
  <2>6. \A p \in Publishers : c \in todo[p] => \A i \in 1..Len(wire[c]) : last[p] # wire[c][i]
    BY DEF InLine
  <2>7. \A i, j \in 1..Len(wire[c]) : i < j => Precedes(log, wire[c][i], wire[c][j])
    BY DEF InLine
  <2> QED BY <2>1, <2>2, <2>3, <2>4, <2>5, <2>6, <2>7, <1>2 DEF InLine
<1>9. ReplayAboveFloor(c)'
  BY <1>2 DEF ReplayAboveFloor
<1> QED BY <1>6, <1>7, <1>8, <1>9

(* Handing a live record to the client keeps the stream's invariant.       *)
LEMMA WriteKeepsLine ==
  ASSUME TypeOK, NEW c \in Streams, StreamInv(c), Write(c)
  PROVE  StreamInv(c)'
<1> USE DEF StreamInv
<1>0. StreamTypes(c) /\ nextRecord \in Nat
  BY TypesOfStream, TypesOfLog
<1>1. Numbered(c)
  BY <1>0, StreamIsNumbered
<1>2. UNCHANGED <<log, last, todo, phase, pending, chan, cut, cutFloor>> /\ phase[c] = "live"
  BY DEF Write
<1>3. nextRecord' = nextRecord
  BY <1>2 DEF nextRecord
<1>4. /\ hold[c] # 0 /\ hold'[c] = 0
      /\ wire'[c] = Append(wire[c], hold[c]) \/ wire'[c] = wire[c]
  BY DEF Write, Written, TypeOK
<1>5. ASSUME NEW i \in 1..Len(wire'[c])
      PROVE  \/ i \in 1..Len(wire[c]) /\ wire'[c][i] = wire[c][i]
             \/ i = Len(wire[c]) + 1 /\ wire'[c][i] = hold[c]
  <2>1. CASE wire'[c] = wire[c]
    BY <2>1
  <2>2. CASE wire'[c] = Append(wire[c], hold[c])
    <3>1. wire[c] \in Seq(Nat) /\ hold[c] \in Nat
      BY <1>0 DEF StreamTypes
    <3> QED BY <2>2, <3>1, AppendElements
  <2> QED BY <1>4, <2>1, <2>2
<1>6. UnjoinedIsIdle(c)'
  BY <1>2 DEF UnjoinedIsIdle
<1>7. SplitAtCut(c)'
  <2>1. \A i \in 1..Len(wire'[c]) : 1 <= wire'[c][i] /\ wire'[c][i] <= nextRecord
    BY <1>0, <1>1, <1>4, <1>5 DEF Numbered
  <2>2. \A p \in Publishers : c \in todo[p] => cut[c] < last[p]
    BY DEF SplitAtCut
  <2>3. \A i \in 1..Len(chan[c]) : cut[c] < chan[c][i] /\ chan[c][i] <= nextRecord
    BY DEF SplitAtCut
  <2> QED BY <2>1, <2>2, <2>3, <1>2, <1>3, <1>4 DEF SplitAtCut
<1>8. InLine(c)'
  <2>1. \A i, j \in 1..Len(wire'[c]) : i < j => Precedes(log, wire'[c][i], wire'[c][j])
    <3> SUFFICES ASSUME NEW i \in 1..Len(wire'[c]), NEW j \in 1..Len(wire'[c]), i < j
                 PROVE  Precedes(log, wire'[c][i], wire'[c][j])
      OBVIOUS
    <3>1. i \in 1..Len(wire[c]) /\ wire'[c][i] = wire[c][i]
      <4>1. Len(wire[c]) \in Nat
        BY <1>0 DEF StreamTypes
      <4>2. j <= Len(wire[c]) + 1
        BY <1>5, <4>1
      <4>3. i # Len(wire[c]) + 1
        BY <4>1, <4>2
      <4> QED BY <1>5, <4>3
    <3>2. CASE j \in 1..Len(wire[c]) /\ wire'[c][j] = wire[c][j]
      BY <3>1, <3>2 DEF InLine
    <3>3. CASE wire'[c][j] = hold[c]
      BY <3>1, <3>3, <1>4 DEF InLine
    <3> QED BY <3>2, <3>3, <1>5
  <2>2. \A i \in 1..Len(wire'[c]) : \A j \in 1..Len(chan[c]) : Precedes(log, wire'[c][i], chan[c][j])
    BY <1>4, <1>5 DEF InLine
  <2>3. \A p \in Publishers : c \in todo[p] =>
           \A i \in 1..Len(wire'[c]) : last[p] # wire'[c][i]
    BY <1>5 DEF InLine
  <2>4. \A i, j \in 1..Len(chan[c]) : i < j => Precedes(log, chan[c][i], chan[c][j])
    BY DEF InLine
  <2>5. \A p \in Publishers : c \in todo[p] =>
           last[p] # 0 /\ \A j \in 1..Len(chan[c]) : last[p] # chan[c][j]
    <3>1. \A p \in Publishers : c \in todo[p] => cut[c] < last[p] /\ cut[c] \in Nat /\ last[p] \in Nat
      BY <1>0 DEF SplitAtCut, StreamTypes
    <3> QED BY <3>1 DEF InLine
  <2> QED BY <2>1, <2>2, <2>3, <2>4, <2>5, <1>2, <1>4 DEF InLine
<1>9. ReplayAboveFloor(c)'
  BY <1>2 DEF ReplayAboveFloor
<1> QED BY <1>6, <1>7, <1>8, <1>9

(* What every step leaves of the delivery invariant.                       *)
LEMMA DeliveryStep == TypeOK /\ TypeOK' /\ DeliveryInv /\ [Next]_vars => DeliveryInv'
<1> SUFFICES ASSUME TypeOK, TypeOK', DeliveryInv, [Next]_vars PROVE DeliveryInv'
  OBVIOUS
<1>1. PublisherInv /\ RingAboveFloor /\ \A c \in Streams : StreamInv(c)
  BY DEF DeliveryInv, StreamInv
<1>2. PublisherInv' /\ RingAboveFloor'
  BY <1>1, PublisherStep, FloorStep
<1>3. ASSUME NEW c \in Streams PROVE StreamInv(c)'
  <2>1. LogGrows
    BY LogOnlyGrows
  <2>2. ASSUME StreamRests(c) PROVE StreamInv(c)'
    BY <2>2, <1>1, RestingStream
  <2>3. ASSUME UNCHANGED <<todo, last>>,
               chan'[c] = chan[c], hold'[c] = hold[c], wire'[c] = wire[c],
               pending'[c] = pending[c], cut'[c] = cut[c], cutFloor'[c] = cutFloor[c],
               \/ phase'[c] = phase[c]
               \/ phase'[c] = "ready" /\ phase[c] = "replay"
               \/ phase'[c] \in {"live", "closed"}
        PROVE  StreamInv(c)'
    <3>1. SendsGrow(c)
      BY <2>3 DEF SendsGrow
    <3> QED BY <3>1, <2>1, <2>2, <2>3 DEF StreamRests
  <2>4. ASSUME NEW p \in Publishers, NEW s \in AnySource, NEW l \in Levels, Publish(p, s, l)
        PROVE  StreamInv(c)'
    <3>1. nextRecord' = nextRecord + 1 /\ nextRecord \in Nat
      BY <2>4, PublishAppends
    <3>2. last' = [last EXCEPT ![p] = nextRecord + 1] /\ UNCHANGED streamVars
      BY <2>4 DEF Publish
    <3>3. c \in todo'[p] => phase[c] = "live"
      BY <2>4 DEF Publish, Matching, Subscribers, TypeOK
    <3>4. \A q \in Publishers \ {p} : todo'[q] = todo[q] /\ last'[q] = last[q]
      BY <2>4 DEF Publish, TypeOK
    <3>5. last'[p] = nextRecord + 1
      BY <3>2 DEF TypeOK
    <3>6. SendsGrow(c)
      BY <3>1, <3>3, <3>4, <3>5 DEF SendsGrow
    <3> QED BY <3>2, <3>6, <2>1, <2>2 DEF StreamRests
  <2>5. ASSUME NEW p \in Publishers, NEW d \in Streams, Send(p, d)
        PROVE  StreamInv(c)'
    <3>1. CASE d = c
      BY <3>1, <2>5, <1>1, SendKeepsLine
    <3>2. CASE d # c
      <4>1. SendsGrow(c)
        BY <2>5 DEF Send, SendsGrow, TypeOK
      <4>2. UNCHANGED <<phase, chan[c], hold, wire, pending, cut, cutFloor>>
        BY <3>2, <2>5 DEF Send, TypeOK
      <4> QED BY <4>1, <4>2, <2>1, <2>2 DEF StreamRests
    <3> QED BY <3>1, <3>2
  <2>6. ASSUME NEW s \in AnySource, Expunge(s)
        PROVE  StreamInv(c)'
    <3>1. UNCHANGED <<todo, last, phase, chan, hold, wire, pending, cut, cutFloor>>
      BY <2>6 DEF Expunge
    <3> QED BY <3>1, <2>3
  <2>7. ASSUME NEW d \in Streams, StreamStep(d)
        PROVE  StreamInv(c)'
    <3>1. CASE d # c
      <4>1. UNCHANGED <<todo, last>>
        BY <2>7 DEF StreamStep, Subscribe, WriteReplay, EndReplay, Join, Receive, Write,
           WriteFails, SeeDisconnect, Disconnect, Leave
      <4>2. UNCHANGED <<phase[c], chan[c], hold[c]>>
        BY <3>1, <2>7 DEF StreamStep, Subscribe, WriteReplay, EndReplay, Join, Receive, Write,
           WriteFails, SeeDisconnect, Disconnect, Leave, TypeOK
      <4>3. UNCHANGED <<wire[c], pending[c], cut[c], cutFloor[c]>>
        BY <3>1, <2>7 DEF StreamStep, Subscribe, WriteReplay, EndReplay, Join, Receive, Write,
           WriteFails, SeeDisconnect, Disconnect, Leave, TypeOK
      <4> QED BY <4>1, <4>2, <4>3, <2>3
    <3>2. CASE d = c
      <4>1. CASE Subscribe(c)
        BY <4>1, <1>1, SubscribeStartsLine
      <4>2. CASE WriteReplay(c)
        BY <4>2, <1>1, ReplayKeepsLine
      <4>3. CASE Receive(c)
        BY <4>3, <1>1, ReceiveKeepsLine
      <4>4. CASE Write(c)
        BY <4>4, <1>1, WriteKeepsLine
      <4>5. CASE EndReplay(c)
        BY <4>5, <2>3 DEF EndReplay, TypeOK
      <4>6. CASE Join(c)
        BY <4>6, <2>3 DEF Join, TypeOK
      <4>7. CASE WriteFails(c) \/ SeeDisconnect(c)
        BY <4>7, <2>3 DEF WriteFails, SeeDisconnect, Leave, TypeOK
      <4>8. CASE Disconnect(c)
        <5>1. UNCHANGED <<todo, last, phase, chan, hold, wire, pending, cut, cutFloor>>
          BY <4>8 DEF Disconnect
        <5> QED BY <5>1, <2>3
      <4> QED BY <3>2, <2>7, <4>1, <4>2, <4>3, <4>4, <4>5, <4>6, <4>7, <4>8 DEF StreamStep
    <3> QED BY <3>1, <3>2
  <2>8. CASE UNCHANGED vars
    <3>1. UNCHANGED <<todo, last, phase, chan, hold, wire, pending, cut, cutFloor>>
      BY <2>8 DEF vars
    <3> QED BY <3>1, <2>3
  <2> QED BY <2>4, <2>5, <2>6, <2>7, <2>8 DEF Next
<1> QED BY <1>2, <1>3 DEF DeliveryInv, StreamInv

(* The order of delivery rests on an inductive invariant of the publishers *)
(* and of each stream (DeliveryInv).                                       *)
THEOREM DeliveryCorrect == Spec => []DeliveryInv
<1>1. Init => DeliveryInv
  <2> SUFFICES ASSUME Init PROVE DeliveryInv
    OBVIOUS
  <2>1. nextRecord = 0
    BY DEF Init, nextRecord
  <2>2. PublisherInv
    BY <2>1 DEF Init, PublisherInv
  <2>3. RingAboveFloor
    BY <2>1 DEF Init, RingAboveFloor
  <2>4. ASSUME NEW c \in Streams
        PROVE  UnjoinedIsIdle(c) /\ SplitAtCut(c) /\ InLine(c) /\ ReplayAboveFloor(c)
    <3>1. /\ wire[c] = <<>> /\ chan[c] = <<>> /\ hold[c] = 0 /\ pending[c] = {} /\ cut[c] = 0
          /\ \A s \in AnySource : cutFloor[c][s] = 0
          /\ \A p \in Publishers : c \notin todo[p]
          /\ phase[c] = "new"
      BY DEF Init
    <3>2. Len(wire[c]) = 0 /\ Len(chan[c]) = 0
      BY <3>1
    <3> QED BY <3>1, <3>2, <2>1 DEF UnjoinedIsIdle, SplitAtCut, InLine, ReplayAboveFloor
  <2> QED BY <2>2, <2>3, <2>4 DEF DeliveryInv
<1> QED BY <1>1, TypeCorrect, DeliveryStep, PTL DEF Spec

(* A client sees no record twice and each publisher's records in order.    *)
THEOREM PublisherOrder == Spec => []WireKeepsPublisherOrder
<1>1. DeliveryInv => WireKeepsPublisherOrder
  BY DEF DeliveryInv, InLine, WireKeepsPublisherOrder
<1> QED BY <1>1, DeliveryCorrect, PTL
-----------------------------------------------------------------------------

(***************************************************************************)
(* The ranks by which the ring is pruned, for every set of records and     *)
(* every bound: dropping the excess of a source, oldest first, keeps its   *)
(* newest MaxRecords records, and pruning after every record keeps what    *)
(* pruning once at the end would.                                          *)
(***************************************************************************)

(* The two ranks of a member share the member and cover the set.           *)
LEMMA Ranks ==
  ASSUME NEW S, S \subseteq Nat, IsFiniteSet(S), NEW n \in S
  PROVE  /\ IsFiniteSet(NotAfter(S, n)) /\ Cardinality(NotAfter(S, n)) \in Nat
         /\ IsFiniteSet(NotBefore(S, n)) /\ Cardinality(NotBefore(S, n)) \in Nat
         /\ Cardinality(NotAfter(S, n)) + Cardinality(NotBefore(S, n)) = Cardinality(S) + 1
<1>1. NotAfter(S, n) \subseteq S /\ NotBefore(S, n) \subseteq S
  BY DEF NotAfter, NotBefore
<1>2. IsFiniteSet(NotAfter(S, n)) /\ IsFiniteSet(NotBefore(S, n))
  BY <1>1, FS_Subset
<1> n \in Nat /\ \A m \in S : m \in Nat
  OBVIOUS
<1>0. \A m \in S : (m <= n \/ m >= n) /\ (m <= n /\ m >= n <=> m = n)
  OBVIOUS
<1>3. NotAfter(S, n) \cup NotBefore(S, n) = S
  BY <1>0, Zenon DEF NotAfter, NotBefore
<1>4. NotAfter(S, n) \cap NotBefore(S, n) = {n}
  BY <1>0, Zenon DEF NotAfter, NotBefore
<1>5. Cardinality({n}) = 1
  BY FS_Singleton
<1>6. /\ Cardinality(NotAfter(S, n)) \in Nat /\ Cardinality(NotBefore(S, n)) \in Nat
      /\ Cardinality(S) \in Nat
  BY <1>2, FS_CardinalityType
<1>7. Cardinality(S) = Cardinality(NotAfter(S, n)) + Cardinality(NotBefore(S, n)) - Cardinality({n})
  BY <1>2, <1>3, <1>4, FS_Union
<1> QED BY <1>2, <1>5, <1>6, <1>7

(* Dropping the excess, oldest first, keeps the newest.                    *)
LEMMA DroppingOldestKeepsNewest ==
  ASSUME NEW S, S \subseteq Nat, IsFiniteSet(S), NEW k \in Nat, NEW n \in S
  PROVE  n \in Oldest(S, Cardinality(S) - k) <=> n \notin Newest(S, k)
<1>1. Cardinality(S) \in Nat
  BY FS_CardinalityType
<1>2. /\ Cardinality(NotAfter(S, n)) \in Nat /\ Cardinality(NotBefore(S, n)) \in Nat
      /\ Cardinality(NotAfter(S, n)) + Cardinality(NotBefore(S, n)) = Cardinality(S) + 1
  BY Ranks
<1>3. Cardinality(NotAfter(S, n)) <= Cardinality(S) - k <=> ~(Cardinality(NotBefore(S, n)) <= k)
  BY <1>1, <1>2
<1> QED BY <1>3 DEF Oldest, Newest

(* pruneSourceLocked keeps of the pruned source the newest MaxRecords      *)
(* records and of every other source everything.                           *)
LEMMA PruneKeepsNewest ==
  ASSUME NEW records, NEW S, S \subseteq Nat, IsFiniteSet(S), NEW source
  PROVE  PruneSource(records, S, source) =
           {n \in S : records[n].source = source =>
                        n \in Newest(OfSource(records, S, source), MaxRecords)}
<1> DEFINE mine == OfSource(records, S, source)
<1>1. mine \subseteq Nat /\ mine \subseteq S
  BY DEF OfSource
<1>2. IsFiniteSet(mine)
  BY <1>1, FS_Subset
<1>3. \A n \in mine : n \in Oldest(mine, Cardinality(mine) - MaxRecords) <=> n \notin Newest(mine, MaxRecords)
  BY <1>1, <1>2, RetentionAssumption, DroppingOldestKeepsNewest
<1>4. \A n \in S : n \in mine <=> records[n].source = source
  BY DEF OfSource
<1>5. Oldest(mine, Cardinality(mine) - MaxRecords) \subseteq mine
  BY DEF Oldest
<1>6. PruneSource(records, S, source) = S \ Oldest(mine, Cardinality(mine) - MaxRecords)
  BY DEF PruneSource
<1> HIDE DEF mine
<1>7. PruneSource(records, S, source) = {n \in S : records[n].source = source => n \in Newest(mine, MaxRecords)}
  BY <1>3, <1>4, <1>5, <1>6
<1> QED BY <1>7 DEF mine

(* The rank from the end only grows when the set does.                     *)
LEMMA RankGrows ==
  ASSUME NEW S, NEW T, S \subseteq T, T \subseteq Nat, IsFiniteSet(T), NEW m \in Nat, NEW n \in Nat, n <= m
  PROVE  /\ Cardinality(NotBefore(S, m)) \in Nat /\ Cardinality(NotBefore(T, n)) \in Nat
         /\ Cardinality(NotBefore(S, m)) <= Cardinality(NotBefore(T, n))
<1>0. \A x \in T : x >= m => x >= n
  OBVIOUS
<1>1. NotBefore(S, m) \subseteq NotBefore(T, n) /\ NotBefore(T, n) \subseteq T
  BY <1>0 DEF NotBefore
<1>2. IsFiniteSet(NotBefore(T, n))
  BY <1>1, FS_Subset
<1> QED BY <1>1, <1>2, FS_Subset, FS_CardinalityType

(* Pruning after every record keeps what pruning once would: the newest of *)
(* the newest and one more record are the newest of all of them.           *)
LEMMA NewestIsIncremental ==
  ASSUME NEW S, S \subseteq Nat, IsFiniteSet(S), NEW k \in Nat,
         NEW new \in Nat, \A n \in S : n < new
  PROVE  Newest(Newest(S, k) \cup {new}, k) = Newest(S \cup {new}, k)
<1> DEFINE T == S \cup {new}
           H == Newest(S, k) \cup {new}
<1>1. H \subseteq T /\ T \subseteq Nat /\ Newest(S, k) \subseteq S
  BY DEF Newest
<1>2. IsFiniteSet(T)
  BY FS_AddElement
<1>3. ASSUME NEW n \in H
      PROVE  NotBefore(H, n) = NotBefore(T, n)
  <2>1. NotBefore(H, n) \subseteq NotBefore(T, n)
    BY <1>1 DEF NotBefore
  <2>2. ASSUME NEW m \in NotBefore(T, n)
        PROVE  m \in H
    <3>1. CASE m = new
      BY <3>1
    <3>2. CASE m \in S /\ m # new
      <4>1. n \in Newest(S, k) /\ n \in Nat /\ m \in Nat /\ n <= m
        <5>1. m \in Nat /\ m < new /\ n \in Nat /\ m >= n
          BY <3>2, <1>1, <1>3, <2>2 DEF NotBefore
        <5>2. n # new /\ n <= m
          BY <5>1
        <5> QED BY <5>1, <5>2, <1>3
      <4>2. Cardinality(NotBefore(S, n)) <= k
        BY <4>1 DEF Newest
      <4>3. /\ Cardinality(NotBefore(S, m)) \in Nat /\ Cardinality(NotBefore(S, n)) \in Nat
            /\ Cardinality(NotBefore(S, m)) <= Cardinality(NotBefore(S, n))
        BY <4>1, RankGrows
      <4> QED BY <4>2, <4>3, <3>2 DEF Newest
    <3> QED BY <3>1, <3>2, <2>2 DEF NotBefore
  <2> QED BY <2>1, <2>2 DEF NotBefore
<1>4. ASSUME NEW n \in T, n \notin H
      PROVE  n \notin Newest(T, k)
  <2>1. n \in S /\ ~(Cardinality(NotBefore(S, n)) <= k)
    BY <1>4 DEF Newest
  <2>2. /\ Cardinality(NotBefore(S, n)) \in Nat /\ Cardinality(NotBefore(T, n)) \in Nat
        /\ Cardinality(NotBefore(S, n)) <= Cardinality(NotBefore(T, n))
    <3>1. n \in Nat /\ n <= n /\ S \subseteq T
      BY <2>1
    <3> QED BY <3>1, <1>1, <1>2, RankGrows
  <2> QED BY <2>1, <2>2 DEF Newest
<1> HIDE DEF T, H
<1>5. Newest(H, k) = Newest(T, k)
  BY <1>1, <1>3, <1>4 DEF Newest
<1> QED BY <1>5 DEF T, H
-----------------------------------------------------------------------------

(* How what a client received may change: not at all, not before the       *)
(* stream has taken its replay, or by one record n that is newer than the  *)
(* expunge before the replay and either newer than the replay or newer     *)
(* than all that was received.                                             *)
WireMoves(c) ==
  \/ wire'[c] = wire[c] /\ cut'[c] = cut[c] /\ cutFloor'[c] = cutFloor[c]
  \/ wire'[c] = wire[c] /\ wire[c] = <<>>
  \/ /\ cut'[c] = cut[c] /\ cutFloor'[c] = cutFloor[c]
     /\ \E n \in 1..nextRecord :
          /\ wire'[c] = Append(wire[c], n)
          /\ cutFloor[c][log[n].source] < n
          /\ cut[c] < n \/ \A i \in 1..Len(wire[c]) : wire[c][i] < n

(* A step leaves a client's record sequence alone, or ends it with a record*)
(* that the stream held.                                                   *)
LEMMA WireStep ==
  ASSUME TypeOK, DeliveryInv, [Next]_vars, NEW c \in Streams
  PROVE  WireMoves(c)
<1>0. StreamTypes(c) /\ nextRecord \in Nat
  BY TypesOfStream, TypesOfLog
<1>1. StreamInv(c)
  BY DEF DeliveryInv, StreamInv
<1>2. Numbered(c)
  BY <1>0, <1>1, StreamIsNumbered DEF StreamInv
<1>3. ASSUME wire'[c] = wire[c], cut'[c] = cut[c], cutFloor'[c] = cutFloor[c]
      PROVE  WireMoves(c)
  BY <1>3 DEF WireMoves
<1>4. ASSUME wire' = wire, cut' = cut, cutFloor' = cutFloor
      PROVE  WireMoves(c)
  BY <1>4, <1>3
<1>5. CASE \E p \in Publishers, s \in AnySource, l \in Levels : Publish(p, s, l)
  BY <1>4, <1>5 DEF Publish
<1>6. CASE \E p \in Publishers, d \in Streams : Send(p, d)
  BY <1>4, <1>6 DEF Send
<1>7. CASE \E s \in AnySource : Expunge(s)
  BY <1>4, <1>7 DEF Expunge
<1>8. ASSUME NEW d \in Streams, StreamStep(d)
      PROVE  WireMoves(c)
  <2>1. CASE d # c
    <3>1. wire'[c] = wire[c] /\ cut'[c] = cut[c] /\ cutFloor'[c] = cutFloor[c]
      BY <2>1, <1>8 DEF StreamStep, Subscribe, WriteReplay, EndReplay, Join, Receive, Write,
         WriteFails, SeeDisconnect, Disconnect, Leave, TypeOK
    <3> QED BY <3>1, <1>3
  <2>2. CASE Subscribe(c)
    BY <2>2, <1>1 DEF Subscribe, StreamInv, SplitAtCut, WireMoves
  <2>3. CASE WriteReplay(c)
    <3>1. cut' = cut /\ cutFloor' = cutFloor /\ phase[c] = "replay"
      BY <2>3 DEF WriteReplay
    <3>2. PICK n \in pending[c] : wire' = [wire EXCEPT ![c] = Written(c, n)]
      BY <2>3 DEF WriteReplay
    <3>3. wire'[c] = Append(wire[c], n) \/ wire'[c] = wire[c]
      BY <3>2 DEF Written, TypeOK
    <3>4. n \in 1..nextRecord /\ \A i \in 1..Len(wire[c]) : wire[c][i] < n
      BY <3>1, <1>1, <1>2 DEF Numbered, StreamInv, SplitAtCut
    <3>5. cutFloor[c][log[n].source] < n
      BY <1>1 DEF StreamInv, ReplayAboveFloor
    <3> QED BY <3>1, <3>3, <3>4, <3>5 DEF WireMoves
  <2>4. CASE Write(c)
    <3>1. cut' = cut /\ cutFloor' = cutFloor /\ hold[c] # 0
      BY <2>4 DEF Write
    <3>2. wire'[c] = Append(wire[c], hold[c]) \/ wire'[c] = wire[c]
      BY <2>4 DEF Write, Written, TypeOK
    <3>3. hold[c] \in 1..nextRecord /\ cut[c] < hold[c]
      BY <3>1, <1>1, <1>2 DEF Numbered, StreamInv, SplitAtCut
    <3>4. cutFloor[c][log[hold[c]].source] < hold[c]
      <4>1. log[hold[c]].source \in AnySource
        BY <3>3, TypesOfLog
      <4>2. /\ cutFloor[c][log[hold[c]].source] <= cut[c]
            /\ cutFloor[c][log[hold[c]].source] \in Nat
        BY <4>1, <1>0, <1>1 DEF StreamInv, ReplayAboveFloor, StreamTypes
      <4> QED BY <4>2, <3>3, <1>0 DEF StreamTypes
    <3> QED BY <3>1, <3>2, <3>3, <3>4 DEF WireMoves
  <2>5. CASE EndReplay(c) \/ Join(c) \/ Receive(c) \/ Disconnect(c)
    <3>1. wire' = wire /\ cut' = cut /\ cutFloor' = cutFloor
      BY <2>5 DEF EndReplay, Join, Receive, Disconnect
    <3> QED BY <3>1, <1>4
  <2>6. CASE WriteFails(c) \/ SeeDisconnect(c)
    <3>1. wire' = wire /\ cut' = cut /\ cutFloor' = cutFloor
      BY <2>6 DEF WriteFails, SeeDisconnect, Leave
    <3> QED BY <3>1, <1>4
  <2> QED BY <1>8, <2>1, <2>2, <2>3, <2>4, <2>5, <2>6 DEF StreamStep
<1>9. CASE UNCHANGED vars
  BY <1>4, <1>9 DEF vars
<1> QED BY <1>5, <1>6, <1>7, <1>8, <1>9 DEF Next

(* A client gets its replay first, oldest record first, and live records   *)
(* only after it (stream, handleHTTPStream).                               *)
THEOREM ReplayFirst == Spec => []ReplayThenLive
<1>1. Init => ReplayThenLive
  <2>1. Init => \A c \in Streams : Len(wire[c]) = 0
    BY DEF Init
  <2> QED BY <2>1 DEF ReplayThenLive
<1>2. TypeOK /\ DeliveryInv /\ ReplayThenLive /\ [Next]_vars => ReplayThenLive'
  <2> SUFFICES ASSUME TypeOK, DeliveryInv, ReplayThenLive, [Next]_vars, NEW c \in Streams,
                      NEW i \in 1..Len(wire'[c]), NEW j \in 1..Len(wire'[c]),
                      i < j, wire'[c][j] <= cut'[c]
               PROVE  wire'[c][i] < wire'[c][j]
    BY DEF ReplayThenLive
  <2>0. StreamTypes(c)
    BY TypesOfStream
  <2>1. WireMoves(c)
    BY WireStep
  <2>2. CASE wire'[c] = wire[c] /\ cut'[c] = cut[c]
    BY <2>2 DEF ReplayThenLive
  <2>3. CASE wire'[c] = <<>>
    BY <2>3
  <2>4. CASE /\ cut'[c] = cut[c]
             /\ \E n \in 1..nextRecord :
                  /\ wire'[c] = Append(wire[c], n)
                  /\ cut[c] < n \/ \A k \in 1..Len(wire[c]) : wire[c][k] < n
    <3>1. PICK n \in 1..nextRecord :
                  /\ wire'[c] = Append(wire[c], n)
                  /\ cut[c] < n \/ \A k \in 1..Len(wire[c]) : wire[c][k] < n
      BY <2>4
    <3>2. n \in Nat /\ cut[c] \in Nat /\ wire[c] \in Seq(Nat) /\ Len(wire[c]) \in Nat
      BY <2>0, TypesOfLog DEF StreamTypes
    <3>3. \A k \in 1..Len(wire'[c]) :
             \/ k \in 1..Len(wire[c]) /\ wire'[c][k] = wire[c][k]
             \/ k = Len(wire[c]) + 1 /\ wire'[c][k] = n
      BY <3>1, <3>2, AppendElements
    <3>4. i \in 1..Len(wire[c]) /\ wire'[c][i] = wire[c][i]
      <4>1. Len(wire'[c]) = Len(wire[c]) + 1
        BY <3>1, <3>2, AppendElements
      <4> QED BY <4>1, <3>2, <3>3
    <3>5. CASE j \in 1..Len(wire[c]) /\ wire'[c][j] = wire[c][j]
      BY <3>4, <3>5, <2>4 DEF ReplayThenLive
    <3>6. CASE wire'[c][j] = n
      <4>1. wire'[c][j] <= cut[c]
        BY <2>4
      <4>2. ~(cut[c] < n)
        BY <4>1, <3>2, <3>6
      <4> QED BY <4>2, <3>1, <3>4, <3>6
    <3> QED BY <3>3, <3>5, <3>6
  <2> QED BY <2>1, <2>2, <2>3, <2>4 DEF WireMoves
<1> QED BY <1>1, <1>2, TypeCorrect, DeliveryCorrect, PTL DEF Spec

(* A stream opened after an expunge never sees a record it removed.        *)
THEOREM ExpungeHolds == Spec => []NothingExpungedReturns
<1>1. Init => NothingExpungedReturns
  <2>1. Init => \A c \in Streams : Len(wire[c]) = 0
    BY DEF Init
  <2> QED BY <2>1 DEF NothingExpungedReturns, Received
<1>2. TypeOK /\ DeliveryInv /\ NothingExpungedReturns /\ [Next]_vars => NothingExpungedReturns'
  <2> SUFFICES ASSUME TypeOK, DeliveryInv, NothingExpungedReturns, [Next]_vars, NEW c \in Streams,
                      NEW i \in 1..Len(wire'[c])
               PROVE  cutFloor'[c][log'[wire'[c][i]].source] < wire'[c][i]
    BY DEF NothingExpungedReturns, Received
  <2>0. StreamTypes(c) /\ nextRecord \in Nat
    BY TypesOfStream, TypesOfLog
  <2>1. WireMoves(c)
    BY WireStep
  <2>2. \A n \in 1..nextRecord : log'[n] = log[n]
    BY LogOnlyGrows DEF LogGrows
  <2>3. ASSUME NEW k \in 1..Len(wire[c]) 
        PROVE  cutFloor[c][log'[wire[c][k]].source] < wire[c][k]
    <3>1. wire[c][k] \in 1..nextRecord
      BY <2>0, StreamIsNumbered DEF Numbered, DeliveryInv
    <3>2. cutFloor[c][log[wire[c][k]].source] < wire[c][k]
      BY DEF NothingExpungedReturns, Received
    <3> QED BY <3>1, <3>2, <2>2
  <2>4. CASE wire'[c] = wire[c] /\ cutFloor'[c] = cutFloor[c]
    BY <2>3, <2>4
  <2>5. CASE wire'[c] = <<>>
    BY <2>5
  <2>6. CASE /\ cutFloor'[c] = cutFloor[c]
             /\ \E n \in 1..nextRecord :
                  wire'[c] = Append(wire[c], n) /\ cutFloor[c][log[n].source] < n
    <3>1. PICK n \in 1..nextRecord :
                  wire'[c] = Append(wire[c], n) /\ cutFloor[c][log[n].source] < n
      BY <2>6
    <3>2. n \in Nat /\ wire[c] \in Seq(Nat)
      BY <2>0 DEF StreamTypes
    <3>3. \/ i \in 1..Len(wire[c]) /\ wire'[c][i] = wire[c][i]
          \/ wire'[c][i] = n
      BY <3>1, <3>2, AppendElements
    <3> QED BY <3>1, <3>3, <2>2, <2>3, <2>6
  <2> QED BY <2>1, <2>4, <2>5, <2>6 DEF WireMoves
<1> QED BY <1>1, <1>2, TypeCorrect, DeliveryCorrect, PTL DEF Spec
-----------------------------------------------------------------------------
(* Whether m is an element of the sequence s.                             *)
Holds(s, m) == \E i \in 1..Len(s) : m = s[i]

(* The records the stream has, will have, or has dropped.                  *)
Account(c) == OnTheWay(c) \cup Received(c) \cup dropped[c]

(* The ways a record can be accounted for.                                 *)
Kept(c, n) ==
  \/ \E p \in Publishers : c \in todo[p] /\ n = last[p]
  \/ Holds(chan[c], n)
  \/ n = hold[c] /\ n # 0
  \/ Holds(wire[c], n)
  \/ n \in dropped[c]

(* The two ways of saying that a record is accounted for agree.            *)
LEMMA AccountIsKept ==
  ASSUME NEW c, NEW n PROVE n \in Account(c) <=> Kept(c, n)
BY DEF Account, Kept, Holds, OnTheWay, Received

(* An append keeps every element, a tail all but the head.                 *)
LEMMA AppendKeeps ==
  ASSUME NEW s \in Seq(Nat), NEW n \in Nat, NEW m
  PROVE  Holds(Append(s, n), m) <=> m = n \/ Holds(s, m)
<1> USE DEF Holds
<1>1. /\ Len(s) \in Nat
      /\ Len(Append(s, n)) = Len(s) + 1
      /\ \A i \in 1..Len(s) : Append(s, n)[i] = s[i]
      /\ Append(s, n)[Len(s) + 1] = n
  OBVIOUS
<1>2. CASE m = n
  <2>1. Len(s) + 1 \in 1..Len(Append(s, n))
    BY <1>1
  <2> QED BY <2>1, <1>1, <1>2
<1>3. ASSUME NEW i \in 1..Len(s), m = s[i]
      PROVE  \E j \in 1..Len(Append(s, n)) : m = Append(s, n)[j]
  <2>1. i \in 1..Len(Append(s, n))
    BY <1>1
  <2> QED BY <2>1, <1>1, <1>3
<1>4. ASSUME NEW i \in 1..Len(Append(s, n)), m = Append(s, n)[i]
      PROVE  m = n \/ \E j \in 1..Len(s) : m = s[j]
  BY <1>1, <1>4
<1> QED BY <1>2, <1>3, <1>4

(* A tail keeps every element but the head.                                *)
LEMMA TailKeeps ==
  ASSUME NEW s \in Seq(Nat), s # <<>>, NEW m, Holds(s, m), m # Head(s)
  PROVE  Holds(Tail(s), m)
<1>0. PICK i \in 1..Len(s) : m = s[i]
  BY DEF Holds
<1>1. Len(Tail(s)) = Len(s) - 1 /\ Head(s) = s[1] /\ Len(s) \in Nat
  OBVIOUS
<1>2. i - 1 \in 1..Len(Tail(s))
  BY <1>0, <1>1
<1>3. Tail(s)[i - 1] = m
  BY <1>0, <1>1, <1>2
<1> QED BY <1>2, <1>3 DEF Holds

(* While a stream is live and connected nothing leaves its account.        *)
LEMMA AccountGrows ==
  ASSUME TypeOK, [Next]_vars, NEW c \in Streams, phase[c] = "live", phase'[c] = "live", up[c],
         NEW n, n # 0, Kept(c, n)
  PROVE  Kept(c, n)'
<1>0. StreamTypes(c)
  BY TypesOfStream
<1>1. ASSUME \A p \in Publishers : c \in todo[p] => c \in todo'[p] /\ last'[p] = last[p],
             chan'[c] = chan[c], hold'[c] = hold[c], wire'[c] = wire[c], dropped'[c] = dropped[c]
      PROVE  Kept(c, n)'
  BY <1>1 DEF Kept
<1>2. ASSUME NEW p \in Publishers, NEW s \in AnySource, NEW l \in Levels, Publish(p, s, l)
      PROVE  Kept(c, n)'
  <2>1. \A q \in Publishers : c \in todo[q] => c \in todo'[q] /\ last'[q] = last[q]
    BY <1>2 DEF Publish, TypeOK
  <2>2. chan' = chan /\ hold' = hold /\ wire' = wire /\ dropped' = dropped
    BY <1>2 DEF Publish
  <2> QED BY <2>1, <2>2, <1>1
<1>3. ASSUME NEW p \in Publishers, NEW d \in Streams, Send(p, d)
      PROVE  Kept(c, n)'
  <2>1. last' = last /\ hold' = hold /\ wire' = wire
    BY <1>3 DEF Send
  <2>2. CASE d # c
    <3>1. \A q \in Publishers : c \in todo[q] => c \in todo'[q]
      BY <2>2, <1>3 DEF Send, TypeOK
    <3>2. chan'[c] = chan[c] /\ dropped'[c] = dropped[c]
      BY <2>2, <1>3 DEF Send, TypeOK
    <3> QED BY <3>1, <3>2, <2>1, <1>1
  <2>3. CASE d = c
    <3>0. chan[c] \in Seq(Nat) /\ last[p] \in Nat
      BY <1>0 DEF StreamTypes
    <3>1. \A q \in Publishers : c \in todo[q] => c \in todo'[q] \/ q = p
      BY <1>3 DEF Send, TypeOK
    <3>2. \/ chan'[c] = Append(chan[c], last[p]) /\ dropped'[c] = dropped[c]
          \/ chan'[c] = chan[c] /\ dropped'[c] = dropped[c] \cup {last[p]}
      <4>1. Len(chan[c]) <= ChanCap /\ Len(chan[c]) \in Nat /\ ChanCap \in Nat
        BY <1>0, BrokerAssumption DEF TypeOK, StreamTypes
      <4>2. /\ chan'[c] = IF Len(chan[c]) < ChanCap THEN Append(chan[c], last[p]) ELSE chan[c]
            /\ dropped'[c] = IF Len(chan[c]) = ChanCap THEN dropped[c] \cup {last[p]} ELSE dropped[c]
        BY <2>3, <1>3 DEF Send, TypeOK
      <4>3. CASE Len(chan[c]) < ChanCap
        BY <4>1, <4>2, <4>3
      <4>4. CASE Len(chan[c]) = ChanCap
        BY <4>1, <4>2, <4>4
      <4> QED BY <4>1, <4>3, <4>4
    <3>a. \A m : Holds(Append(chan[c], last[p]), m) <=> m = last[p] \/ Holds(chan[c], m)
      BY <3>0, AppendKeeps
    <3>3. \A m : Holds(chan[c], m) => Holds(chan'[c], m)
      BY <3>2, <3>a
    <3>4. last[p] \in dropped'[c] \/ Holds(chan'[c], last[p])
      BY <3>2, <3>a
    <3>5. dropped[c] \subseteq dropped'[c]
      BY <3>2
    <3>6. CASE \E q \in Publishers : c \in todo[q] /\ n = last[q]
      <4>1. PICK q \in Publishers : c \in todo[q] /\ n = last[q]
        BY <3>6
      <4>2. CASE q = p
        BY <4>1, <4>2, <3>4 DEF Kept
      <4>3. CASE q # p
        BY <4>1, <4>3, <3>1, <2>1 DEF Kept
      <4> QED BY <4>2, <4>3
    <3>7. CASE Holds(chan[c], n)
      BY <3>7, <3>3 DEF Kept
    <3>8. CASE n = hold[c] \/ Holds(wire[c], n) \/ n \in dropped[c]
      BY <3>8, <3>5, <2>1 DEF Kept
    <3> QED BY <3>6, <3>7, <3>8 DEF Kept
  <2> QED BY <2>2, <2>3
<1>4. CASE \E s \in AnySource : Expunge(s)
  BY <1>1, <1>4 DEF Expunge
<1>5. ASSUME NEW d \in Streams, StreamStep(d)
      PROVE  Kept(c, n)'
  <2>1. todo' = todo /\ last' = last /\ dropped' = dropped
    BY <1>5 DEF StreamStep, Subscribe, WriteReplay, EndReplay, Join, Receive, Write,
       WriteFails, SeeDisconnect, Disconnect, Leave
  <2>2. CASE d # c
    <3>1. chan'[c] = chan[c] /\ hold'[c] = hold[c] /\ wire'[c] = wire[c]
      BY <2>2, <1>5 DEF StreamStep, Subscribe, WriteReplay, EndReplay, Join, Receive, Write,
         WriteFails, SeeDisconnect, Disconnect, Leave, TypeOK
    <3> QED BY <3>1, <2>1, <1>1
  <2>3. CASE Receive(c)
    <3>1. wire' = wire /\ hold[c] = 0 /\ chan[c] # <<>> /\ hold'[c] = Head(chan[c]) /\ chan'[c] = Tail(chan[c])
      BY <2>3 DEF Receive, TypeOK
    <3>2. CASE Holds(chan[c], n)
      <4>1. CASE n = Head(chan[c])
        BY <3>1, <4>1 DEF Kept
      <4>2. CASE n # Head(chan[c])
        <5>1. chan[c] \in Seq(Nat)
          BY <1>0 DEF StreamTypes
        <5> QED BY <3>1, <3>2, <4>2, <5>1, TailKeeps DEF Kept
      <4> QED BY <4>1, <4>2
    <3> QED BY <2>1, <3>1, <3>2 DEF Kept
  <2>4. CASE Write(c)
    <3>0. wire[c] \in Seq(Nat) /\ hold[c] \in Nat
      BY <1>0 DEF StreamTypes
    <3>1. chan' = chan /\ wire'[c] = Append(wire[c], hold[c])
      BY <2>4 DEF Write, Written, TypeOK
    <3>2. \A m : m = hold[c] \/ Holds(wire[c], m) => Holds(wire'[c], m)
      BY <3>1, <3>0, AppendKeeps
    <3>3. CASE n = hold[c] \/ Holds(wire[c], n)
      BY <3>2, <3>3 DEF Kept
    <3>4. CASE \E q \in Publishers : c \in todo[q] /\ n = last[q]
      BY <3>4, <2>1 DEF Kept
    <3>5. CASE n \in dropped[c] \/ Holds(chan[c], n)
      BY <3>5, <3>1, <2>1 DEF Kept
    <3> QED BY <3>3, <3>4, <3>5 DEF Kept
  <2>5. CASE Disconnect(c)
    BY <2>1, <2>5, <1>1 DEF Disconnect
  <2>6. ~Subscribe(c) /\ ~WriteReplay(c) /\ ~EndReplay(c) /\ ~Join(c)
    BY DEF Subscribe, WriteReplay, EndReplay, Join
  <2>7. ~WriteFails(c) /\ ~SeeDisconnect(c)
    BY DEF WriteFails, SeeDisconnect
  <2> QED BY <1>5, <2>2, <2>3, <2>4, <2>5, <2>6, <2>7 DEF StreamStep
<1>6. CASE UNCHANGED vars
  BY <1>1, <1>6 DEF vars
<1> QED BY <1>2, <1>3, <1>4, <1>5, <1>6 DEF Next

(* A connected stream misses a matching record taken since it entered the  *)
(* table only if the record met a full channel.                            *)
THEOREM LossesAreDrops == Spec => []LossOnlyWhenFull
<1>1. Init => LossOnlyWhenFull
  BY DEF Init, LossOnlyWhenFull
<1>2. TypeOK /\ LossOnlyWhenFull /\ [Next]_vars => LossOnlyWhenFull'
  <2> SUFFICES ASSUME TypeOK, LossOnlyWhenFull, [Next]_vars, NEW c \in Streams,
                      phase'[c] = "live", up'[c],
                      NEW n \in (joined'[c] + 1)..nextRecord', Matches(filter'[c], log'[n])
               PROVE  Kept(c, n)'
    <3>1. \A d \in Streams : \A n : n \in (OnTheWay(d) \cup Received(d) \cup dropped[d])' <=> Kept(d, n)'
      BY DEF Kept, Holds, OnTheWay, Received
    <3> QED BY <3>1 DEF LossOnlyWhenFull
  <2>1. nextRecord \in Nat /\ nextRecord' \in Nat /\ \A m \in 1..nextRecord : log'[m] = log[m]
    BY LogOnlyGrows DEF LogGrows
  <2>2. joined[c] \in Nat /\ joined \in [Streams -> Nat]
    BY DEF TypeOK
  <2>3. ASSUME phase[c] = "live", up[c], joined'[c] = joined[c], filter'[c] = filter[c], n \in 1..nextRecord
        PROVE  Kept(c, n)'
    <3>1. n \in (joined[c] + 1)..nextRecord /\ Matches(filter[c], log[n])
      BY <2>1, <2>2, <2>3
    <3>2. Kept(c, n)
      BY <3>1, <2>3, AccountIsKept DEF LossOnlyWhenFull, Account
    <3> QED BY <3>2, <2>3, AccountGrows
  <2>4. ASSUME NEW p \in Publishers, NEW s \in AnySource, NEW l \in Levels, Publish(p, s, l)
        PROVE  Kept(c, n)'
    <3>1. UNCHANGED <<phase, filter, up, joined>>
      BY <2>4 DEF Publish
    <3>2. nextRecord' = nextRecord + 1
      BY <2>4, PublishAppends
    <3>3. CASE n = nextRecord + 1
      <4> DEFINE record == [source |-> s, level |-> NormalizeLevel(l), by |-> p]
      <4>1. log' = Append(log, record)
        BY <2>4 DEF Publish
      <4>2. log'[n] = record
        BY <4>1, <3>3, <2>1 DEF TypeOK, nextRecord
      <4>3. todo'[p] = Matching(record) /\ last'[p] = nextRecord + 1
        BY <2>4 DEF Publish, TypeOK
      <4>4. c \in Matching(record)
        BY <4>2, <3>1 DEF Matching, Subscribers
      <4> QED BY <4>3, <4>4, <3>3 DEF Kept
    <3>4. CASE n # nextRecord + 1
      <4>1. n \in 1..nextRecord
        BY <3>1, <3>2, <3>4, <2>1, <2>2
      <4> QED BY <4>1, <3>1, <2>3
    <3> QED BY <3>3, <3>4
  <2>5. ASSUME nextRecord' = nextRecord, joined'[c] = joined[c] \/ joined'[c] = nextRecord,
               joined'[c] = nextRecord \/ (phase[c] = "live" /\ up[c] /\ filter'[c] = filter[c])
        PROVE  Kept(c, n)'
    <3>1. CASE joined'[c] = nextRecord
      BY <3>1, <2>1, <2>5
    <3>2. CASE joined'[c] = joined[c] /\ phase[c] = "live" /\ up[c] /\ filter'[c] = filter[c]
      <4>1. n \in 1..nextRecord
        BY <3>2, <2>1, <2>2, <2>5
      <4> QED BY <3>2, <4>1, <2>3
    <3> QED BY <3>1, <3>2, <2>5
  <2>6. CASE \E p \in Publishers, d \in Streams : Send(p, d)
    BY <2>6, <2>5 DEF Send, nextRecord
  <2>7. CASE \E s \in AnySource : Expunge(s)
    BY <2>7, <2>5 DEF Expunge, nextRecord
  <2>8. ASSUME NEW d \in Streams, StreamStep(d)
        PROVE  Kept(c, n)'
    <3>1. filter' = filter /\ nextRecord' = nextRecord
      BY <2>8 DEF StreamStep, Subscribe, WriteReplay, EndReplay, Join, Receive, Write,
         WriteFails, SeeDisconnect, Disconnect, Leave, nextRecord
    <3>2. CASE d = c /\ Join(c)
      BY <3>1, <3>2, <2>5 DEF Join, TypeOK
    <3>3. CASE ~(d = c /\ Join(c))
      <4>1. joined'[c] = joined[c]
        BY <3>3, <2>8 DEF StreamStep, Subscribe, WriteReplay, EndReplay, Join, Receive, Write,
           WriteFails, SeeDisconnect, Disconnect, Leave, TypeOK
      <4>2. phase[c] = "live"
        BY <3>3, <2>8 DEF StreamStep, Subscribe, WriteReplay, EndReplay, Join, Receive, Write,
           WriteFails, SeeDisconnect, Disconnect, Leave, TypeOK
      <4>3. up[c]
        BY <2>8 DEF StreamStep, Subscribe, WriteReplay, EndReplay, Join, Receive, Write,
           WriteFails, SeeDisconnect, Disconnect, Leave, TypeOK
      <4> QED BY <4>1, <4>2, <4>3, <3>1, <2>5
    <3> QED BY <3>2, <3>3
  <2>9. CASE UNCHANGED vars
    BY <2>9, <2>5 DEF vars, nextRecord
  <2> QED BY <2>4, <2>6, <2>7, <2>8, <2>9 DEF Next
<1> QED BY <1>1, <1>2, TypeCorrect, PTL DEF Spec
-----------------------------------------------------------------------------
(* RingIsNewest, one source at a time.                                     *)
RingOf(s) == OfSource(log, ring, s)

NewestOf(s) == Newest(SinceExpunge(s), MaxRecords)

NewestBySource == \A s \in AnySource : RingOf(s) = NewestOf(s)

(* RingIsNewest, said one source at a time.                                *)
LEMMA RingBySource == TypeOK => (RingIsNewest <=> NewestBySource)
<1> SUFFICES ASSUME TypeOK PROVE RingIsNewest <=> \A s \in AnySource : RingOf(s) = NewestOf(s)
  BY DEF NewestBySource
<1>1. \A n \in 1..nextRecord : log[n].source \in AnySource
  BY TypesOfLog
<1>2. ring \subseteq 1..nextRecord
  BY DEF TypeOK
<1>3. \A s : NewestOf(s) \subseteq {n \in 1..nextRecord : log[n].source = s}
  BY DEF NewestOf, Newest, SinceExpunge, OfSource
<1>4. \A s : RingOf(s) = {n \in ring : log[n].source = s}
  BY DEF RingOf, OfSource
<1>5. RingIsNewest <=> \A n \in 1..nextRecord : n \in ring <=> n \in NewestOf(log[n].source)
  BY DEF RingIsNewest, NewestOf
<1>6. ASSUME RingIsNewest, NEW s \in AnySource PROVE RingOf(s) = NewestOf(s)
  BY <1>2, <1>3, <1>4, <1>5, <1>6
<1>7. ASSUME \A s \in AnySource : RingOf(s) = NewestOf(s) PROVE RingIsNewest
  BY <1>1, <1>4, <1>5, <1>7
<1> QED BY <1>6, <1>7

(* The set of records of a source is a finite set of numbers.              *)
LEMMA SinceExpungeIsFinite ==
  ASSUME TypeOK, NEW s
  PROVE  /\ SinceExpunge(s) \subseteq 1..nextRecord /\ IsFiniteSet(SinceExpunge(s))
         /\ SinceExpunge(s) \subseteq Nat
<1>1. nextRecord \in Nat
  BY TypesOfLog
<1>2. SinceExpunge(s) \subseteq 1..nextRecord
  BY DEF SinceExpunge, OfSource
<1>3. IsFiniteSet(1..nextRecord)
  BY <1>1, FS_Interval
<1> QED BY <1>1, <1>2, <1>3, FS_Subset

(* What a publish does to the ring.                                        *)
LEMMA PublishPrunes ==
  ASSUME TypeOK, NEW p \in Publishers, NEW s \in AnySource, NEW l \in Levels, Publish(p, s, l)
  PROVE  ring' = {n \in ring \cup {nextRecord + 1} :
                    log'[n].source = s =>
                      n \in Newest(OfSource(log', ring \cup {nextRecord + 1}, s), MaxRecords)}
<1>1. nextRecord \in Nat /\ ring \subseteq 1..nextRecord
  BY TypesOfLog DEF TypeOK
<1>2. IsFiniteSet(ring)
  <2>1. IsFiniteSet(1..nextRecord)
    BY <1>1, FS_Interval
  <2> QED BY <2>1, <1>1, FS_Subset
<1>3. IsFiniteSet(ring \cup {nextRecord + 1})
  BY <1>2, FS_AddElement
<1>4. ring \cup {nextRecord + 1} \subseteq Nat
  BY <1>1
<1>5. ring' = PruneSource(log', ring \cup {nextRecord + 1}, s)
  BY DEF Publish
<1> QED BY <1>3, <1>4, <1>5, PruneKeepsNewest

(* Every step keeps RingIsNewest.                                          *)
LEMMA RingStep == TypeOK /\ TypeOK' /\ RingAboveFloor /\ RingIsNewest /\ [Next]_vars => RingIsNewest'
<1> SUFFICES ASSUME TypeOK, TypeOK', RingAboveFloor, RingIsNewest, [Next]_vars PROVE RingIsNewest'
  OBVIOUS
<1>0. nextRecord \in Nat /\ ring \subseteq 1..nextRecord /\ floor \in [AnySource -> Nat]
  BY TypesOfLog DEF TypeOK
<1>1. \A t \in AnySource : RingOf(t) = NewestOf(t)
  BY RingBySource DEF NewestBySource
<1>8. (\A t \in AnySource : RingOf(t)' = NewestOf(t)') => RingIsNewest'
  <2>1. (TypeOK => (RingIsNewest <=> NewestBySource))'
    BY RingBySource, PTL
  <2> QED BY <2>1 DEF NewestBySource
<1>2. ASSUME NEW p \in Publishers, NEW s \in AnySource, NEW l \in Levels, Publish(p, s, l)
      PROVE  RingIsNewest'
  <2> DEFINE new == nextRecord + 1
             held == ring \cup {new}
  <2>1. /\ nextRecord' = new /\ floor' = floor
        /\ \A n \in 1..nextRecord : log'[n] = log[n]
        /\ log'[new].source = s
    BY <1>2, PublishAppends DEF Publish
  <2>2. ring' = {n \in held : log'[n].source = s => n \in Newest(OfSource(log', held, s), MaxRecords)}
    BY <1>2, PublishPrunes
  <2>3. new \in Nat /\ new \notin 1..nextRecord /\ 1..new = (1..nextRecord) \cup {new}
    BY <1>0
  <2>4. ASSUME NEW t \in AnySource
        PROVE  SinceExpunge(t)' = IF t = s THEN SinceExpunge(t) \cup {new} ELSE SinceExpunge(t)
    <3>1. floor[s] \in Nat /\ floor[s] <= nextRecord
      BY <1>0 DEF RingAboveFloor
    <3>2. new > floor[s]
      BY <3>1, <1>0
    <3>3. SinceExpunge(t)' = {n \in 1..new : log'[n].source = t /\ n > floor[t]}
      BY <2>1 DEF SinceExpunge, OfSource
    <3>4. SinceExpunge(t) = {n \in 1..nextRecord : log[n].source = t /\ n > floor[t]}
      BY DEF SinceExpunge, OfSource
    <3> HIDE DEF new
    <3> QED BY <3>2, <3>3, <3>4, <2>1, <2>3
  <2>5. ASSUME NEW t \in AnySource
        PROVE  OfSource(log', held, t) = IF t = s THEN RingOf(t) \cup {new} ELSE RingOf(t)
    <3> HIDE DEF new
    <3> QED BY <1>0, <2>1, <2>3 DEF OfSource, RingOf
  <2>6. ASSUME NEW t \in AnySource PROVE RingOf(t)' = NewestOf(t)'
    <3>1. CASE t # s
      <4>1. RingOf(t)' = OfSource(log', held, t)
        BY <3>1, <2>2 DEF RingOf, OfSource
      <4> QED BY <3>1, <4>1, <1>1, <2>4, <2>5 DEF NewestOf
    <3>2. CASE t = s
      <4>1. RingOf(s)' = {n \in held : log'[n].source = s /\ n \in Newest(OfSource(log', held, s), MaxRecords)}
        BY <2>2 DEF RingOf, OfSource
      <4>2. RingOf(s)' = Newest(OfSource(log', held, s), MaxRecords)
        BY <4>1 DEF Newest, OfSource
      <4>3. RingOf(s)' = Newest(Newest(SinceExpunge(s), MaxRecords) \cup {new}, MaxRecords)
        BY <4>2, <2>5, <1>1 DEF NewestOf
      <4>4. /\ SinceExpunge(s) \subseteq Nat /\ IsFiniteSet(SinceExpunge(s))
            /\ \A n \in SinceExpunge(s) : n < new
        BY SinceExpungeIsFinite, <1>0
      <4>5. RingOf(s)' = Newest(SinceExpunge(s) \cup {new}, MaxRecords)
        BY <4>3, <4>4, <2>3, RetentionAssumption, NewestIsIncremental
      <4> QED BY <4>5, <3>2, <2>4 DEF NewestOf
    <3> QED BY <3>1, <3>2
  <2> QED BY <2>6, <1>8
<1>3. ASSUME NEW s \in AnySource, Expunge(s)
      PROVE  RingIsNewest'
  <2>1. /\ ring' = ring \ Expunged(log, ring, s)
        /\ floor' = [t \in AnySource |-> IF s \in {t, NoSource} THEN nextRecord ELSE floor[t]]
        /\ log' = log /\ nextRecord' = nextRecord
    BY <1>3 DEF Expunge, nextRecord
  <2>2. ASSUME NEW t \in AnySource PROVE RingOf(t)' = NewestOf(t)'
    <3>1. CASE s \in {t, NoSource}
      <4>1. RingOf(t)' = {}
        BY <3>1, <2>1 DEF RingOf, OfSource, Expunged
      <4>2. floor'[t] = nextRecord
        BY <3>1, <2>1
      <4>3. SinceExpunge(t)' = {}
        BY <4>2, <2>1, <1>0 DEF SinceExpunge, OfSource
      <4> QED BY <4>1, <4>3 DEF NewestOf, Newest
    <3>2. CASE s \notin {t, NoSource}
      <4>1. RingOf(t)' = RingOf(t)
        BY <3>2, <2>1 DEF RingOf, OfSource, Expunged
      <4>2. floor'[t] = floor[t]
        BY <3>2, <2>1
      <4>3. SinceExpunge(t)' = SinceExpunge(t)
        BY <4>2, <2>1 DEF SinceExpunge
      <4> QED BY <4>1, <4>3, <1>1 DEF NewestOf
    <3> QED BY <3>1, <3>2
  <2> QED BY <2>2, <1>8
<1>4. ASSUME log' = log, ring' = ring, floor' = floor
      PROVE  RingIsNewest'
  BY <1>4 DEF RingIsNewest, SinceExpunge, nextRecord
<1>5. CASE \E p \in Publishers, c \in Streams : Send(p, c)
  BY <1>4, <1>5 DEF Send
<1>6. CASE \E c \in Streams : StreamStep(c)
  BY <1>4, <1>6 DEF StreamStep, Subscribe, WriteReplay, EndReplay, Join, Receive, Write,
     WriteFails, SeeDisconnect, Disconnect, Leave
<1>7. CASE UNCHANGED vars
  BY <1>4, <1>7 DEF vars
<1> QED BY <1>2, <1>3, <1>5, <1>6, <1>7 DEF Next

(* Of every source the ring holds the newest MaxRecords records taken      *)
(* since its last expunge (pruneSourceLocked, expunge).                    *)
THEOREM Retained == Spec => []RingIsNewest
<1>1. Init => RingIsNewest
  <2>1. Init => nextRecord = 0
    BY DEF Init, nextRecord
  <2> QED BY <2>1 DEF RingIsNewest
<1>2. DeliveryInv => RingAboveFloor
  BY DEF DeliveryInv
<1> QED BY <1>1, <1>2, RingStep, TypeCorrect, DeliveryCorrect, PTL DEF Spec
-----------------------------------------------------------------------------
(* The abstract bus and the broker share the notions of Retention.         *)
LEMMA SharedNotions ==
  /\ Bus!AnySource = AnySource /\ Bus!CanonicalLevels = CanonicalLevels
  /\ \A records, m, n : Bus!Precedes(records, m, n) <=> Precedes(records, m, n)
  /\ \A records, S, s : Bus!OfSource(records, S, s) = OfSource(records, S, s)
  /\ \A records, S, s : Bus!Expunged(records, S, s) = Expunged(records, S, s)
  /\ \A S, k : Bus!Newest(S, k) = Newest(S, k)
<1>1. Bus!AnySource = AnySource /\ Bus!CanonicalLevels = CanonicalLevels
  BY DEF Bus!AnySource, AnySource, Bus!CanonicalLevels, CanonicalLevels
<1>2. \A records, m, n : Bus!Precedes(records, m, n) <=> Precedes(records, m, n)
  BY DEF Bus!Precedes, Precedes
<1>3. \A records, S, s : Bus!OfSource(records, S, s) = OfSource(records, S, s)
  BY DEF Bus!OfSource, OfSource
<1>4. \A records, S, s : Bus!Expunged(records, S, s) = Expunged(records, S, s)
  BY <1>3 DEF Bus!Expunged, Expunged
<1>5. \A S, k : Bus!Newest(S, k) = Newest(S, k)
  <2>1. \A S, n : Bus!NotBefore(S, n) = NotBefore(S, n)
    BY DEF Bus!NotBefore, NotBefore
  <2>2. \A S : Bus!Cardinality(S) = Cardinality(S)
    BY DEF Bus!Cardinality, Cardinality
  <2> QED BY <2>1, <2>2 DEF Bus!Newest, Newest
<1> QED BY <1>1, <1>2, <1>3, <1>4, <1>5

(* Of all the steps only a publish takes a record and only a write, of a   *)
(* replayed or of a live record, delivers one.                             *)
LEMMA PublishTakes ==
  ASSUME TypeOK, NEW p \in Publishers, NEW s \in AnySource, NEW l \in Levels, Publish(p, s, l)
  PROVE  Bus!BusNext
<1> DEFINE record == [source |-> s, level |-> NormalizeLevel(l), by |-> p]
<1>1. record \in Bus!BusRecords
  BY NormalizeLevelType, SharedNotions DEF Bus!BusRecords
<1>2. log' = Append(log, record) /\ wire' = wire
  BY DEF Publish
<1>3. Len(log') = nextRecord + 1
  BY PublishAppends DEF nextRecord
<1>4. record.source = s
  OBVIOUS
<1>5. ring' = {m \in ring \cup {Len(log')} : log'[m].source = record.source =>
                   m \in Newest(OfSource(log', ring \cup {Len(log')}, record.source), MaxRecords)}
  BY <1>3, <1>4, PublishPrunes
<1> HIDE DEF record
<1>6. Bus!Take(record)
  BY <1>2, <1>5, SharedNotions DEF Bus!Take
<1> QED BY <1>1, <1>6 DEF Bus!BusNext

(* A write of a record that is next in line is a Deliver of the log bus, or*)
(* a stutter when the client is gone.                                      *)
LEMMA WriteDelivers ==
  ASSUME TypeOK, NEW c \in Streams, NEW n \in 1..nextRecord,
         \A i \in 1..Len(wire[c]) : Precedes(log, wire[c][i], n),
         wire' = [wire EXCEPT ![c] = Written(c, n)], log' = log, ring' = ring
  PROVE  Bus!BusNext \/ UNCHANGED Bus!busVars
<1>1. CASE up[c]
  <2>1. wire' = [wire EXCEPT ![c] = Append(wire[c], n)]
    BY <1>1 DEF Written
  <2>2. Bus!Deliver(c, n)
    BY <2>1, SharedNotions DEF Bus!Deliver
  <2> QED BY <2>2 DEF Bus!BusNext, nextRecord
<1>2. CASE ~up[c]
  <2>1. wire' = wire
    BY <1>2 DEF Written, TypeOK
  <2> QED BY <2>1 DEF Bus!busVars
<1> QED BY <1>1, <1>2

(* Every step of the broker is a step of the log bus or a stutter.         *)
LEMMA BusStep == TypeOK /\ DeliveryInv /\ [Next]_vars => [Bus!BusNext]_(Bus!busVars)
<1> SUFFICES ASSUME TypeOK, DeliveryInv, [Next]_vars PROVE Bus!BusNext \/ UNCHANGED Bus!busVars
  OBVIOUS
<1>0. nextRecord \in Nat
  BY TypesOfLog
<1>1. ASSUME log' = log, ring' = ring, wire' = wire
      PROVE  UNCHANGED Bus!busVars
  BY <1>1 DEF Bus!busVars
<1>2. CASE \E p \in Publishers, s \in AnySource, l \in Levels : Publish(p, s, l)
  BY <1>2, PublishTakes
<1>3. CASE \E p \in Publishers, c \in Streams : Send(p, c)
  BY <1>1, <1>3 DEF Send
<1>4. ASSUME NEW s \in AnySource, Expunge(s)
      PROVE  Bus!BusNext
  <2>1. Bus!Forget(s)
    BY <1>4, SharedNotions DEF Expunge, Bus!Forget
  <2> QED BY <2>1, SharedNotions DEF Bus!BusNext
<1>5. ASSUME NEW c \in Streams, StreamStep(c)
      PROVE  Bus!BusNext \/ UNCHANGED Bus!busVars
  <2>0. StreamInv(c) /\ StreamTypes(c) /\ Numbered(c)
    BY <1>0, TypesOfStream, StreamIsNumbered DEF DeliveryInv, StreamInv
  <2>1. CASE WriteReplay(c)
    <3>1. log' = log /\ ring' = ring /\ phase[c] = "replay"
      BY <2>1 DEF WriteReplay
    <3>2. PICK n \in pending[c] : wire' = [wire EXCEPT ![c] = Written(c, n)]
      BY <2>1 DEF WriteReplay
    <3>3. n \in 1..nextRecord /\ \A i \in 1..Len(wire[c]) : wire[c][i] < n /\ wire[c][i] \in 1..nextRecord
      BY <2>0, <3>1 DEF Numbered, StreamInv, SplitAtCut
    <3>4. \A i \in 1..Len(wire[c]) : Precedes(log, wire[c][i], n)
      BY <3>3, <1>0 DEF Precedes
    <3> QED BY <3>1, <3>2, <3>3, <3>4, WriteDelivers
  <2>2. CASE Write(c)
    <3>1. /\ log' = log /\ ring' = ring /\ hold[c] # 0
          /\ wire' = [wire EXCEPT ![c] = Written(c, hold[c])]
      BY <2>2 DEF Write
    <3>2. hold[c] \in 1..nextRecord /\ \A i \in 1..Len(wire[c]) : Precedes(log, wire[c][i], hold[c])
      BY <2>0, <3>1 DEF Numbered, StreamInv, InLine
    <3> QED BY <3>1, <3>2, WriteDelivers
  <2>3. CASE Subscribe(c) \/ EndReplay(c) \/ Join(c) \/ Receive(c) \/ Disconnect(c)
    BY <1>1, <2>3 DEF Subscribe, EndReplay, Join, Receive, Disconnect
  <2>4. CASE WriteFails(c) \/ SeeDisconnect(c)
    BY <1>1, <2>4 DEF WriteFails, SeeDisconnect, Leave
  <2> QED BY <1>5, <2>1, <2>2, <2>3, <2>4 DEF StreamStep
<1>6. CASE UNCHANGED vars
  BY <1>1, <1>6 DEF vars
<1> QED BY <1>2, <1>3, <1>4, <1>5, <1>6 DEF Next

(* The broker implements the abstract log bus.                             *)
THEOREM BrokerImplementsLogBus == Spec => ImplementsLogBus
<1>1. Init => Bus!BusInit
  BY DEF Init, Bus!BusInit
<1> QED BY <1>1, BusStep, TypeCorrect, DeliveryCorrect, PTL DEF Spec, ImplementsLogBus, Bus!BusSpec
=============================================================================
