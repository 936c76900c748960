------------------------------ MODULE SlogSink ------------------------------
(***************************************************************************)
(* The slog handler of pkg/sloghandler/handler.go: Handle never waits, one *)
(* goroutine publishes, dials when it has no connection and gives a record *)
(* up at the first failure.                                                *)
(***************************************************************************)
EXTENDS Uplink

CONSTANT Endpoint  \* the broker of Options
ASSUME SinkAssumption == Endpoint \in Brokers

VARIABLE work  \* where sink.run is

vars == <<uplinkVars, work>>

Works == {"take", "dial", "publish"}

Init == UplinkInit /\ work = "take"

(* Handle: the record is offered to the queue, and the call returns.       *)
Handle(g) ==
  /\ Len(log) < MaxLogged
  /\ log' = Append(log, [by |-> g, at |-> 0])
  /\ Offer(Len(log'))
  /\ UNCHANGED <<held, dials, link, sent, work>>

Take ==
  /\ work = "take"
  /\ queue # <<>>
  /\ held' = Head(queue)
  /\ queue' = Tail(queue)
  /\ work' = IF link = 0 THEN "dial" ELSE "publish"
  /\ UNCHANGED <<log, dials, link, sent>>

DialSucceeds ==
  /\ work = "dial"
  /\ Dialled(Endpoint)
  /\ work' = "publish"
  /\ UNCHANGED <<log, queue, held, sent>>

(* Variant: the worker returns when it cannot dial.                        *)
DialFailsForGood ==
  /\ work = "dial"
  /\ held' = 0
  /\ work' = "done"
  /\ UNCHANGED <<log, queue, dials, link, sent>>

(* The record is given up.                                                 *)
DialFails ==
  /\ work = "dial"
  /\ held' = 0
  /\ work' = "take"
  /\ UNCHANGED <<log, queue, dials, link, sent>>

PublishSucceeds ==
  /\ work = "publish"
  /\ Published
  /\ held' = 0
  /\ work' = "take"
  /\ UNCHANGED <<log, queue, dials>>

(* Variant: the record goes back to the queue to be tried again.           *)
PublishFailsAndRequeues ==
  /\ work = "publish"
  /\ PublishFailed
  /\ held' = 0
  /\ Offer(held)
  /\ work' = "take"
  /\ UNCHANGED <<log, dials>>

(* The connection is closed and the record given up.                       *)
PublishFails ==
  /\ work = "publish"
  /\ PublishFailed
  /\ held' = 0
  /\ work' = "take"
  /\ UNCHANGED <<log, queue, dials>>

Work == Take \/ DialSucceeds \/ DialFails \/ PublishSucceeds \/ PublishFails

Next == Work \/ \E g \in Loggers : Handle(g)

(* The worker is scheduled, and publishTimeout ends each dial and write.   *)
Spec == Init /\ [][Next]_vars /\ WF_vars(Work)
-----------------------------------------------------------------------------
(* The variables have their types, and the worker has a record in hand     *)
(* exactly while it dials or publishes, with a connection to publish on.   *)
TypeOK ==
  /\ UplinkTypeOK
  /\ work \in Works
  /\ held # 0 <=> work # "take"
  /\ work = "publish" => link # 0
  /\ work = "dial" => link = 0

(* Whatever the broker does, a queued record leaves the queue: the worker  *)
(* is never stuck, so that room for new records comes back (run).          *)
QueueDrains ==
  \A n \in 1..MaxLogged :
    (\E i \in 1..Len(queue) : queue[i] = n) ~> ~(\E i \in 1..Len(queue) : queue[i] = n)
=============================================================================
