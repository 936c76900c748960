------------------------------- MODULE Broker -------------------------------
(***************************************************************************)
(* The broker of devlogbusd (internal/devlogbusd/app/broker.go, http.go):  *)
(* publishing connections, streams of either transport and expunge         *)
(* requests share the ring and the subscriber table under one lock.        *)
(*                                                                         *)
(* A publish is one step under the lock, which also copies the table of    *)
(* the subscribers that match, and then one step for each of them outside  *)
(* the lock.  A stream takes its replay under the lock, writes it, and     *)
(* enters the table only afterwards; its handler then moves records from   *)
(* the channel to the client, holding one at a time.                       *)
(***************************************************************************)
EXTENDS Retention

CONSTANTS Publishers,      \* connections that send records
          HTTPPublishers,  \* those that use POST /api/records
          Streams,         \* subscriptions, one per nextSubID
          HTTPStreams,     \* those that use GET /api/stream
          Filters,         \* the subscriptions clients ask for
          Levels,          \* the level spellings publishers use
          ChanCap,         \* the capacity of a subscriber channel (512)
          MaxPublish       \* bound of the model: records ever published

ASSUME BrokerAssumption ==
  /\ HTTPPublishers \subseteq Publishers
  /\ HTTPStreams \subseteq Streams
  /\ ChanCap \in Nat \ {0}
  /\ Levels \subseteq Spellings
  /\ Filters \subseteq [sources : SUBSET AnySource, minLevel : Spellings,
                        replay : Int, replayPerSource : Int]
  /\ MaxPublish \in Nat

VARIABLES
  log,      \* every record taken; nextRecord is its length
  ring,     \* the numbers of the records in b.ring
  last,     \* per publisher, the record it published last, or 0
  todo,     \* per publisher, the subscribers it has yet to try
  phase,    \* per stream, where its handler is
  filter,   \* per stream, its subscription
  pending,  \* per stream, the replayed records still to write
  chan,     \* per stream, its channel
  hold,     \* per stream, the record its handler is writing, or 0
  up,       \* per stream, whether its client is still connected
  wire,     \* per stream, the records its client received
  floor,    \* history: per source, nextRecord at its last expunge
  cut,      \* history: per stream, nextRecord when its replay was taken
  cutFloor, \* history: per stream, floor when its replay was taken
  joined,   \* history: per stream, nextRecord when it entered the table
  dropped   \* history: per stream, the records that met a full channel

shared == <<log, ring, floor>>
pubVars == <<last, todo>>
history == <<cut, cutFloor, joined>>
streamVars == <<phase, filter, pending, chan, hold, up, wire, history, dropped>>
vars == <<shared, pubVars, streamVars>>

Phases == {"new", "replay", "ready", "live", "closed"}

(* The live streams are the keys of b.subscribers.                         *)
Subscribers == {c \in Streams : phase[c] = "live"}

nextRecord == Len(log)

Init ==
  /\ log = <<>>
  /\ ring = {}
  /\ last = [p \in Publishers |-> 0]
  /\ todo = [p \in Publishers |-> {}]
  /\ phase = [c \in Streams |-> "new"]
  /\ filter \in [Streams -> Filters]
  /\ pending = [c \in Streams |-> {}]
  /\ chan = [c \in Streams |-> <<>>]
  /\ hold = [c \in Streams |-> 0]
  /\ up = [c \in Streams |-> TRUE]
  /\ wire = [c \in Streams |-> <<>>]
  /\ floor = [s \in AnySource |-> 0]
  /\ cut = [c \in Streams |-> 0]
  /\ cutFloor = [c \in Streams |-> floor]
  /\ joined = [c \in Streams |-> 0]
  /\ dropped = [c \in Streams |-> {}]
-----------------------------------------------------------------------------
(* A record that POST /api/records takes has a source; a broker connection *)
(* takes any.                                                              *)
Accepts(p, source) == p \in HTTPPublishers => source # NoSource

(* Variant: a stream enters the table before its replay is taken.          *)
MatchingEarly(record) == {c \in Streams : phase[c] # "closed" /\ Matches(filter[c], record)}

(* The subscribers a publish will try, as they are under the lock.         *)
Matching(record) == {c \in Subscribers : Matches(filter[c], record)}

(* publish, under the lock.  A connection decodes its next record only     *)
(* when the previous publish has returned.                                 *)
Publish(p, source, level) ==
  LET record == [source |-> source, level |-> NormalizeLevel(level), by |-> p]
  IN  /\ nextRecord < MaxPublish
      /\ todo[p] = {}
      /\ Accepts(p, source)
      /\ log' = Append(log, record)
      /\ ring' = PruneSource(log', ring \cup {nextRecord + 1}, source)
      /\ last' = [last EXCEPT ![p] = nextRecord + 1]
      /\ todo' = [todo EXCEPT ![p] = Matching(record)]
      /\ UNCHANGED <<floor, streamVars>>

(* Variant: the send waits for room in the channel.                        *)
SendWaiting(p, c) ==
  /\ c \in todo[p]
  /\ Len(chan[c]) < ChanCap
  /\ todo' = [todo EXCEPT ![p] = @ \ {c}]
  /\ chan' = [chan EXCEPT ![c] = Append(@, last[p])]
  /\ UNCHANGED <<shared, last, phase, filter, pending, hold, up, wire, history, dropped>>

(* Variant: the last place of the channel is never used.                   *)
SendEarlyDrop(p, c) ==
  /\ c \in todo[p]
  /\ todo' = [todo EXCEPT ![p] = @ \ {c}]
  /\ chan' = [chan EXCEPT ![c] = IF Len(@) + 1 < ChanCap THEN Append(@, last[p]) ELSE @]
  /\ dropped' = [dropped EXCEPT ![c] = IF Len(chan[c]) = ChanCap THEN @ \cup {last[p]} ELSE @]
  /\ UNCHANGED <<shared, last, phase, filter, pending, hold, up, wire, history>>

(* publish, after the unlock: the send to one subscriber of the copy, in   *)
(* any order (the copy follows the order of a Go map), dropped when its    *)
(* channel is full.  The stream may have left the table meanwhile.         *)
Send(p, c) ==
  /\ c \in todo[p]
  /\ todo' = [todo EXCEPT ![p] = @ \ {c}]
  /\ chan' = [chan EXCEPT ![c] = IF Len(@) < ChanCap THEN Append(@, last[p]) ELSE @]
  /\ dropped' = [dropped EXCEPT ![c] = IF Len(chan[c]) = ChanCap THEN @ \cup {last[p]} ELSE @]
  /\ UNCHANGED <<shared, last, phase, filter, pending, hold, up, wire, history>>

(* expunge, from a broker connection or DELETE /api/records/expunge.       *)
Expunge(source) ==
  /\ ring' = ring \ Expunged(log, ring, source)
  /\ floor' = [s \in AnySource |->
                 IF source \in {s, NoSource} THEN nextRecord ELSE floor[s]]
  /\ UNCHANGED <<log, pubVars, streamVars>>
-----------------------------------------------------------------------------
(* stream and handleHTTPStream: the replay is copied under the lock.       *)
Subscribe(c) ==
  /\ phase[c] = "new"
  /\ phase' = [phase EXCEPT ![c] = "replay"]
  /\ pending' = [pending EXCEPT ![c] = Replay(log, ring, filter[c])]
  /\ cut' = [cut EXCEPT ![c] = nextRecord]
  /\ cutFloor' = [cutFloor EXCEPT ![c] = floor]
  /\ UNCHANGED <<shared, pubVars, filter, chan, hold, up, wire, joined, dropped>>

(* What a write leaves at the client: a write to a connection its client   *)
(* has closed can still succeed, into the socket buffer.                   *)
Written(c, n) == IF up[c] THEN Append(wire[c], n) ELSE wire[c]

(* Variant: the replay is written newest first.                            *)
WriteReplayBackwards(c) ==
  /\ phase[c] = "replay"
  /\ \E n \in pending[c] :
       /\ \A m \in pending[c] : m <= n
       /\ pending' = [pending EXCEPT ![c] = @ \ {n}]
       /\ wire' = [wire EXCEPT ![c] = Written(c, n)]
  /\ UNCHANGED <<shared, pubVars, phase, filter, chan, hold, up, history, dropped>>

(* The replay is written in ring order.                                    *)
WriteReplay(c) ==
  /\ phase[c] = "replay"
  /\ \E n \in pending[c] :
       /\ \A m \in pending[c] : n <= m
       /\ pending' = [pending EXCEPT ![c] = @ \ {n}]
       /\ wire' = [wire EXCEPT ![c] = Written(c, n)]
  /\ UNCHANGED <<shared, pubVars, phase, filter, chan, hold, up, history, dropped>>

(* replay_complete to a broker connection, a flush to an HTTP stream.      *)
EndReplay(c) ==
  /\ phase[c] = "replay"
  /\ pending[c] = {}
  /\ phase' = [phase EXCEPT ![c] = "ready"]
  /\ UNCHANGED <<shared, pubVars, filter, pending, chan, hold, up, wire, history, dropped>>

(* addSubscriber, under the lock.                                          *)
Join(c) ==
  /\ phase[c] = "ready"
  /\ phase' = [phase EXCEPT ![c] = "live"]
  /\ joined' = [joined EXCEPT ![c] = nextRecord]
  /\ UNCHANGED <<shared, pubVars, filter, pending, chan, hold, up, wire, cut, cutFloor, dropped>>

Receive(c) ==
  /\ phase[c] = "live"
  /\ hold[c] = 0
  /\ chan[c] # <<>>
  /\ hold' = [hold EXCEPT ![c] = Head(chan[c])]
  /\ chan' = [chan EXCEPT ![c] = Tail(@)]
  /\ UNCHANGED <<shared, pubVars, phase, filter, pending, up, wire, history, dropped>>

Write(c) ==
  /\ phase[c] = "live"
  /\ hold[c] # 0
  /\ hold' = [hold EXCEPT ![c] = 0]
  /\ wire' = [wire EXCEPT ![c] = Written(c, hold[c])]
  /\ UNCHANGED <<shared, pubVars, phase, filter, pending, chan, up, history, dropped>>

(* The handler returns: it leaves the table, if it was in it.  The record  *)
(* it was writing and those in its channel are lost with it.               *)
Leave(c) ==
  /\ phase' = [phase EXCEPT ![c] = "closed"]
  /\ UNCHANGED <<shared, pubVars, filter, pending, chan, hold, up, wire, history, dropped>>

(* A write to a client that is gone fails: a replayed record, the end of   *)
(* the replay, or a live record; nobody looks at the error of a flush.     *)
WriteFails(c) ==
  /\ ~up[c]
  /\ \/ phase[c] = "replay" /\ (pending[c] # {} \/ c \notin HTTPStreams)
     \/ phase[c] = "live" /\ hold[c] # 0
  /\ Leave(c)

(* Variant: the handler has no branch for the context and notices only     *)
(* when there is a record to write.                                        *)
SeeDisconnectOnRecord(c) ==
  /\ c \in HTTPStreams
  /\ phase[c] = "live"
  /\ hold[c] = 0
  /\ chan[c] # <<>>
  /\ ~up[c]
  /\ Leave(c)

(* The select of handleHTTPStream sees the request's context done, or the  *)
(* keepalive it writes fails.  A broker connection has no such branch.     *)
SeeDisconnect(c) ==
  /\ c \in HTTPStreams
  /\ phase[c] = "live"
  /\ hold[c] = 0
  /\ ~up[c]
  /\ Leave(c)

(* The client closes its connection.                                       *)
Disconnect(c) ==
  /\ up[c]
  /\ phase[c] \in {"replay", "ready", "live"}
  /\ up' = [up EXCEPT ![c] = FALSE]
  /\ UNCHANGED <<shared, pubVars, phase, filter, pending, chan, hold, wire, history, dropped>>
-----------------------------------------------------------------------------
StreamStep(c) ==
  \/ Subscribe(c) \/ WriteReplay(c) \/ EndReplay(c) \/ Join(c) \/ Receive(c)
  \/ Write(c) \/ WriteFails(c) \/ SeeDisconnect(c) \/ Disconnect(c)

Next ==
  \/ \E p \in Publishers, s \in AnySource, l \in Levels : Publish(p, s, l)
  \/ \E p \in Publishers : \E c \in Streams : Send(p, c)
  \/ \E s \in AnySource : Expunge(s)
  \/ \E c \in Streams : StreamStep(c)

Spec == Init /\ [][Next]_vars

(* The runtime schedules a goroutine that can run.  A select with several  *)
(* ready cases picks one at random, so that a case ready again and again   *)
(* is taken.  Nothing makes a client read, publish or disconnect: a write  *)
(* is fair only once its client is gone.                                   *)
Fairness ==
  /\ \A p \in Publishers : WF_vars(\E c \in Streams : Send(p, c))
  /\ \A c \in Streams : /\ WF_vars(EndReplay(c)) /\ WF_vars(Join(c))
                        /\ WF_vars(Receive(c))
                        /\ WF_vars(~up[c] /\ (WriteReplay(c) \/ Write(c) \/ WriteFails(c)))
                        /\ SF_vars(SeeDisconnect(c))

FairSpec == Spec /\ Fairness
-----------------------------------------------------------------------------
(* Every variable has its type; no channel holds more than its capacity.   *)
TypeOK ==
  /\ log \in Seq([source : AnySource, level : CanonicalLevels, by : Publishers])
  /\ ring \in SUBSET (1..nextRecord)
  /\ last \in [Publishers -> Nat]
  /\ todo \in [Publishers -> SUBSET Streams]
  /\ phase \in [Streams -> Phases]
  /\ filter \in [Streams -> Filters]
  /\ pending \in [Streams -> SUBSET Nat]
  /\ chan \in [Streams -> Seq(Nat)]
  /\ \A c \in Streams : Len(chan[c]) <= ChanCap
  /\ hold \in [Streams -> Nat]
  /\ up \in [Streams -> BOOLEAN]
  /\ wire \in [Streams -> Seq(Nat)]
  /\ floor \in [AnySource -> Nat]
  /\ cut \in [Streams -> Nat]
  /\ cutFloor \in [Streams -> [AnySource -> Nat]]
  /\ joined \in [Streams -> Nat]
  /\ dropped \in [Streams -> SUBSET Nat]

(* The records of one source taken since it was last expunged.             *)
SinceExpunge(source) ==
  {n \in OfSource(log, 1..nextRecord, source) : n > floor[source]}

(* The ring holds of every source exactly the newest MaxRecords records    *)
(* taken since its last expunge: pruning one source never costs another    *)
(* one a record, and nothing expunged stays (pruneSourceLocked, expunge).  *)
RingIsNewest ==
  \A n \in 1..nextRecord :
    n \in ring <=> n \in Newest(SinceExpunge(log[n].source), MaxRecords)

Bus == INSTANCE LogBus

(* A client sees no record twice, across replay and live delivery, and the *)
(* records of one publisher in the order it sent them, although the sends  *)
(* happen outside the lock (publish, stream).                              *)
WireKeepsPublisherOrder ==
  \A c \in Streams : \A i, j \in 1..Len(wire[c]) :
    i < j => Precedes(log, wire[c][i], wire[c][j])

(* A client gets its replay first, oldest record first, and live records   *)
(* only after it (stream, handleHTTPStream).                               *)
ReplayThenLive ==
  \A c \in Streams : \A i, j \in 1..Len(wire[c]) :
    i < j /\ wire[c][j] <= cut[c] => wire[c][i] < wire[c][j]

(* The records on their way to a stream: waiting in a publisher's copy of  *)
(* the table, in the channel, or in the handler's hand.                    *)
OnTheWay(c) ==
  {last[p] : p \in {q \in Publishers : c \in todo[q]}}
    \cup {chan[c][i] : i \in 1..Len(chan[c])} \cup ({hold[c]} \ {0})

Received(c) == {wire[c][i] : i \in 1..Len(wire[c])}

(* A connected stream misses a matching record taken after it entered the  *)
(* table only if the record met a full channel (the default case of the    *)
(* select in publish is the only loss).                                    *)
LossOnlyWhenFull ==
  \A c \in Streams : phase[c] = "live" /\ up[c] =>
    \A n \in (joined[c] + 1)..nextRecord :
      Matches(filter[c], log[n]) => n \in OnTheWay(c) \cup Received(c) \cup dropped[c]

(* A stream opened after an expunge never sees a record the expunge        *)
(* removed, neither in its replay nor from a publish that was still        *)
(* sending when the expunge happened.                                      *)
NothingExpungedReturns ==
  \A c \in Streams : \A n \in Received(c) : n > cutFloor[c][log[n].source]

(* Every step of the broker is a step the abstract log bus allows.         *)
ImplementsLogBus == Bus!BusSpec

(* A publish ends, however slow or stuck the subscribers are.              *)
PublishReturns ==
  \A p \in Publishers : todo[p] # {} ~> todo[p] = {}

(* An HTTP stream whose client is gone leaves the table, with or without   *)
(* records to write to it (the Done case of handleHTTPStream).             *)
HTTPStreamReleased ==
  \A c \in HTTPStreams : (c \in Subscribers /\ ~up[c]) ~> c \notin Subscribers

(* What docs/http-api.md says of a stream, replay records first and then   *)
(* live records: no matching record is taken between the two.              *)
NoGapAfterReplay ==
  \A c \in Streams : phase[c] = "live" =>
    \A n \in (cut[c] + 1)..joined[c] : ~Matches(filter[c], log[n])
=============================================================================
