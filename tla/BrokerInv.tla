----------------------------- MODULE BrokerInv ------------------------------
(***************************************************************************)
(* The inductive invariants behind the properties of Broker.  MCBroker     *)
(* checks them on small instances, BrokerProofs proves them.               *)
(***************************************************************************)
EXTENDS Broker

(* A publisher's last record is its newest one, and its own.               *)
PublisherInv ==
  /\ \A p \in Publishers : /\ last[p] \in 0..nextRecord
                           /\ last[p] # 0 => log[last[p]].by = p
                           /\ todo[p] # {} => last[p] # 0
  /\ \A n \in 1..nextRecord : n <= last[log[n].by]

(* Nothing is on its way to a stream that is not in the table yet.         *)
UnjoinedIsIdle(c) ==
  phase[c] \in {"new", "replay", "ready"} =>
    chan[c] = <<>> /\ hold[c] = 0 /\ \A p \in Publishers : c \notin todo[p]

(* The replay is made of records up to the cut, live delivery of later     *)
(* ones.                                                                   *)
SplitAtCut(c) ==
  /\ cut[c] <= nextRecord
  /\ phase[c] = "new" => wire[c] = <<>>
  /\ \A n \in pending[c] : 1 <= n /\ n <= cut[c]
  /\ \A i \in 1..Len(wire[c]) : 1 <= wire[c][i] /\ wire[c][i] <= nextRecord
  /\ \A i \in 1..Len(chan[c]) : cut[c] < chan[c][i] /\ chan[c][i] <= nextRecord
  /\ hold[c] # 0 => cut[c] < hold[c] /\ hold[c] <= nextRecord
  /\ \A p \in Publishers : c \in todo[p] => cut[c] < last[p]
  /\ phase[c] = "replay" =>
       \A i \in 1..Len(wire[c]) : \A n \in pending[c] : wire[c][i] < n

(* The client's records, the one being written and those in the channel    *)
(* form one line in which publishers keep their order; what a publisher    *)
(* has yet to send to the stream is not in it.                             *)
InLine(c) ==
  /\ \A i, j \in 1..Len(wire[c]) : i < j => Precedes(log, wire[c][i], wire[c][j])
  /\ \A i, j \in 1..Len(chan[c]) : i < j => Precedes(log, chan[c][i], chan[c][j])
  /\ \A i \in 1..Len(wire[c]) : \A j \in 1..Len(chan[c]) : Precedes(log, wire[c][i], chan[c][j])
  /\ hold[c] # 0 => /\ \A i \in 1..Len(wire[c]) : Precedes(log, wire[c][i], hold[c])
                    /\ \A j \in 1..Len(chan[c]) : Precedes(log, hold[c], chan[c][j])
  /\ \A p \in Publishers : c \in todo[p] =>
       /\ last[p] # hold[c]
       /\ \A i \in 1..Len(wire[c]) : last[p] # wire[c][i]
       /\ \A j \in 1..Len(chan[c]) : last[p] # chan[c][j]

(* Nothing in the ring, and nothing a stream replays, is older than the    *)
(* expunge that preceded it.                                               *)
RingAboveFloor ==
  /\ \A s \in AnySource : floor[s] <= nextRecord
  /\ \A n \in ring : floor[log[n].source] < n

ReplayAboveFloor(c) ==
  /\ \A s \in AnySource : cutFloor[c][s] <= cut[c]
  /\ \A n \in pending[c] : cutFloor[c][log[n].source] < n

DeliveryInv ==
  /\ PublisherInv
  /\ RingAboveFloor
  /\ \A c \in Streams : /\ UnjoinedIsIdle(c)
                        /\ SplitAtCut(c)
                        /\ InLine(c)
                        /\ ReplayAboveFloor(c)
=============================================================================
