------------------------------- MODULE Uplink -------------------------------
(***************************************************************************)
(* What pkg/sloghandler and pkg/runtime share: a bounded queue between the *)
(* program's goroutines and one worker goroutine, and the publisher of     *)
(* pkg/client that the worker opens, writes to and closes.                 *)
(*                                                                         *)
(* A record is named by its place in log, the sequence of all records the  *)
(* program logged.  Once a write has put all its bytes in the socket it is *)
(* in sent; whether the broker reads it is the broker's affair.            *)
(***************************************************************************)
EXTENDS Integers, Sequences, Lists

CONSTANTS Loggers,    \* the goroutines that log
          Brokers,    \* the endpoints brokers listen at
          QueueSize,  \* Options.QueueSize (256)
          MaxLogged   \* bound of the model: records ever logged

ASSUME UplinkAssumption == QueueSize \in Nat \ {0} /\ MaxLogged \in Nat

VARIABLES
  log,    \* every record logged: who by, and in which generation
  queue,  \* the channel to the worker
  held,   \* the record the worker has in hand, or 0
  dials,  \* the endpoints the worker connected to, one per connection
  link,   \* the worker's publisher: its place in dials, or 0
  sent    \* history: the records written, with the connection of each

uplinkVars == <<log, queue, held, dials, link, sent>>

UplinkInit ==
  /\ log = <<>>
  /\ queue = <<>>
  /\ held = 0
  /\ dials = <<>>
  /\ link = 0
  /\ sent = <<>>

(* The send to the queue, dropped when it is full.                         *)
Offer(n) == queue' = IF Len(queue) < QueueSize THEN Append(queue, n) ELSE queue

(* OpenPublisher.  Whether a dial succeeds is up to the broker.            *)
Dialled(b) ==
  /\ dials' = Append(dials, b)
  /\ link' = Len(dials')

(* Publish returns nil: the record is written, or the filter held it back. *)
Published ==
  /\ \/ sent' = Append(sent, [record |-> held, link |-> link])
     \/ sent' = sent
  /\ UNCHANGED link

(* Publish returns an error and the worker closes the publisher.  A write  *)
(* that met its deadline may still have left the whole record, all but the *)
(* newline after it, in the socket.                                        *)
PublishFailed ==
  /\ \/ sent' = Append(sent, [record |-> held, link |-> link])
     \/ sent' = sent
  /\ link' = 0
-----------------------------------------------------------------------------
(* The types of the shared variables; the queue never exceeds its size.    *)
UplinkTypeOK ==
  /\ log \in Seq([by : Loggers, at : Nat])
  /\ queue \in Seq(Nat \ {0})
  /\ Len(queue) <= QueueSize
  /\ held \in Nat
  /\ dials \in Seq(Brokers)
  /\ link \in Nat
  /\ sent \in Seq([record : Nat, link : Nat])

(* No record leaves the process twice, whatever connections fail and are   *)
(* dialled again, and the records of one goroutine leave in the order it   *)
(* logged them (Handle, run).                                              *)
LeavesOnceInOrder ==
  \A i, j \in 1..Len(sent) : i < j => Before(log, sent[i].record, sent[j].record)
=============================================================================
