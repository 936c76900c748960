------------------------------- MODULE LogBus -------------------------------
(***************************************************************************)
(* What the daemon promises its users, with no connection, channel or      *)
(* goroutine in sight: a log of the records taken, a replay set that holds *)
(* the newest MaxRecords of each source since it was last expunged, and    *)
(* streams that receive records at most once and, of one publisher, in the *)
(* order it sent them.  Module Broker implements it.                       *)
(***************************************************************************)
EXTENDS Retention

CONSTANTS Publishers,  \* connections that send records
          Streams      \* subscriptions

VARIABLES log,   \* every record taken, in the order of its number
          ring,  \* the numbers of the records retained for replay
          wire   \* for each stream, the numbers delivered to its client

busVars == <<log, ring, wire>>

BusInit ==
  /\ log = <<>>
  /\ ring = {}
  /\ wire = [c \in Streams |-> <<>>]

Take(record) ==
  /\ log' = Append(log, record)
  /\ LET held == ring \cup {Len(log')}
         kept == Newest(OfSource(log', held, record.source), MaxRecords)
     IN  ring' = {m \in held : log'[m].source = record.source => m \in kept}
  /\ UNCHANGED wire

Forget(source) ==
  /\ ring' = ring \ Expunged(log, ring, source)
  /\ UNCHANGED <<log, wire>>

Deliver(c, n) ==
  /\ \A i \in 1..Len(wire[c]) : Precedes(log, wire[c][i], n)
  /\ wire' = [wire EXCEPT ![c] = Append(@, n)]
  /\ UNCHANGED <<log, ring>>

BusRecords == [source : AnySource, level : CanonicalLevels, by : Publishers]

BusNext ==
  \/ \E record \in BusRecords : Take(record)
  \/ \E source \in AnySource : Forget(source)
  \/ \E c \in Streams : \E n \in 1..Len(log) : Deliver(c, n)

BusSpec == BusInit /\ [][BusNext]_busVars
=============================================================================
