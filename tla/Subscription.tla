---------------------------- MODULE Subscription ----------------------------
(***************************************************************************)
(* Client.Subscribe of pkg/client/client.go: the goroutine that reads a    *)
(* broker connection and hands its consumer records, an error and the end  *)
(* of the replay on three channels; and, as far as a subscriber can tell,  *)
(* the daemon at the other end, which Broker models in detail.             *)
(*                                                                         *)
(* A record is named by its place in taken, all records ever published, in *)
(* the order of time.  Its id is its number in the daemon's life.          *)
(***************************************************************************)
EXTENDS Integers, Sequences, FiniteSets, Functions, Lists

CONSTANTS Sources,
          MaxRecords,       \* records the daemon retains per source
          ReplayPerSource,  \* of the subscription
          RecordsCap,       \* capacity of the records channel (128)
          MaxPublish,       \* bound of the model: records ever published
          MaxLosses         \* bound of the model: connections, dials and daemons lost

ASSUME SubscriptionAssumption ==
  /\ Sources # {}
  /\ {MaxRecords, ReplayPerSource, RecordsCap} \subseteq Nat \ {0}
  /\ {MaxPublish, MaxLosses} \subseteq Nat

VARIABLES
  taken,       \* every record published: its id and source
  ring,        \* the records the daemon retains
  next,        \* the daemon's nextRecord
  daemon,      \* whether the daemon is up
  losses,      \* how often something was lost
  linked,      \* whether the connection is up
  serving,     \* how far the daemon is with the subscription
  pipe,        \* what was written to the connection and not read yet
  reader,      \* where the reader goroutine is
  item,        \* the record the reader has decoded
  records,     \* the records channel
  errs,        \* whether an error is in the errors channel
  replayDone,  \* whether the ReplayDone channel is closed
  missed       \* history: when a connection was not sent a new record

daemonVars == <<taken, ring, next, daemon, serving, missed>>
readerVars == <<reader, item, records, errs, replayDone>>
connection == <<losses, linked, pipe>>
subscriptionVars == <<daemonVars, readerVars, connection>>

Complete == 0  \* the replay_complete message; the others are records

(* When a thing happened last: not at all, before this connection or on it. *)
Whens == {"never", "before", "now"}

Readers == {"decode", "send", "failed", "released", "unheard", "done"}

SubscriptionInit ==
  /\ taken = <<>> /\ ring = {} /\ next = 1
  /\ daemon = TRUE /\ losses = 0
  /\ linked = FALSE /\ serving = "none" /\ pipe = <<>>
  /\ reader = "done" /\ item = 0 /\ records = <<>> /\ errs = FALSE /\ replayDone = TRUE
  /\ missed = "never"

(* The newest k records of each source.                                    *)
NewestOf(set, k) ==
  {n \in set : Cardinality({m \in set : m > n /\ taken[m].source = taken[n].source}) < k}

-----------------------------------------------------------------------------
(* The daemon takes a record; a stream it serves gets it, unless its       *)
(* channel is full or the stream is not in the table yet.                  *)
Publish(s) ==
  /\ daemon
  /\ Len(taken) < MaxPublish
  /\ taken' = Append(taken, [id |-> next, source |-> s])
  /\ next' = next + 1
  /\ ring' = LET all == ring \cup {Len(taken')}
             IN  {n \in all : Cardinality({m \in all : m > n /\ taken'[m].source = taken'[n].source})
                                < MaxRecords}
  /\ \/ serving = "live" /\ pipe' = Append(pipe, Len(taken')) /\ UNCHANGED missed
     \/ /\ UNCHANGED pipe
        /\ missed' = IF serving \in {"replaying", "live"} THEN "now" ELSE missed
  /\ UNCHANGED <<daemon, serving, linked, losses, readerVars>>

(* The daemon reads the subscription and answers with the replay.          *)
Accept ==
  /\ serving = "waiting"
  /\ serving' = "replaying"
  /\ pipe' = Append(InOrder(NewestOf(ring, ReplayPerSource)), Complete)
  /\ UNCHANGED <<taken, ring, next, daemon, missed, linked, losses, readerVars>>

Join ==
  /\ serving = "replaying"
  /\ serving' = "live"
  /\ UNCHANGED <<taken, ring, next, daemon, missed, readerVars, connection>>

(* The connection ends; what the socket holds may still be read in part.   *)
Cut ==
  /\ linked' = FALSE
  /\ serving' = "none"
  /\ \E n \in 0..Len(pipe) : pipe' = SubSeq(pipe, 1, n)

Lose ==
  /\ linked
  /\ losses < MaxLosses
  /\ losses' = losses + 1
  /\ Cut
  /\ UNCHANGED <<taken, ring, next, daemon, missed, readerVars>>

(* The daemon stops, with the ring and the numbering it kept in memory.    *)
Crash ==
  /\ daemon
  /\ losses < MaxLosses
  /\ losses' = losses + 1
  /\ daemon' = FALSE
  /\ ring' = {}
  /\ next' = 1
  /\ Cut
  /\ UNCHANGED <<taken, missed, readerVars>>

Restart ==
  /\ ~daemon
  /\ daemon' = TRUE
  /\ UNCHANGED <<taken, ring, next, serving, missed, readerVars, connection>>
-----------------------------------------------------------------------------
(* Subscribe succeeds: a new connection, new channels and a new reader.    *)
Subscribed ==
  /\ daemon
  /\ linked' = TRUE
  /\ serving' = "waiting"
  /\ pipe' = <<>>
  /\ reader' = "decode"
  /\ item' = 0
  /\ records' = <<>>
  /\ errs' = FALSE
  /\ replayDone' = FALSE
  /\ missed' = IF missed = "now" THEN "before" ELSE missed
  /\ UNCHANGED <<taken, ring, next, daemon, losses>>

(* Close: the reader may still read what it has buffered.                  *)
Closed == IF linked THEN Cut ELSE UNCHANGED <<linked, serving, pipe>>

Decode ==
  /\ reader = "decode"
  /\ pipe # <<>>
  /\ pipe' = Tail(pipe)
  /\ IF Head(pipe) = Complete
     THEN replayDone' = TRUE /\ UNCHANGED <<reader, item>>
     ELSE reader' = "send" /\ item' = Head(pipe) /\ UNCHANGED replayDone
  /\ UNCHANGED <<daemonVars, linked, losses, records, errs>>

(* Variant: the channel grows instead of making the reader wait.           *)
SendUnbounded ==
  /\ reader = "send"
  /\ records' = Append(records, item)
  /\ item' = 0
  /\ reader' = "decode"
  /\ UNCHANGED <<daemonVars, connection, errs, replayDone>>

(* records <- record: waits for room, whatever becomes of the connection.  *)
Send ==
  /\ reader = "send"
  /\ Len(records) < RecordsCap
  /\ records' = Append(records, item)
  /\ item' = 0
  /\ reader' = "decode"
  /\ UNCHANGED <<daemonVars, connection, errs, replayDone>>

DecodeFails ==
  /\ reader = "decode"
  /\ ~linked
  /\ pipe = <<>>
  /\ errs' = TRUE
  /\ reader' = "failed"
  /\ UNCHANGED <<daemonVars, connection, item, records, replayDone>>

(* The deferred calls: ReplayDone, then Errors, then Records are closed.   *)
Release ==
  /\ \/ reader = "failed" /\ replayDone' = TRUE /\ reader' = "released"
     \/ reader = "released" /\ reader' = "unheard" /\ UNCHANGED replayDone
     \/ reader = "unheard" /\ reader' = "done" /\ UNCHANGED replayDone
  /\ UNCHANGED <<daemonVars, connection, item, records, errs>>

Read == Decode \/ Send \/ DecodeFails \/ Release

ErrorsClosed == reader \in {"unheard", "done"}
RecordsClosed == reader = "done"

Serve == Accept \/ Join

Environment == (\E s \in Sources : Publish(s)) \/ Lose \/ Crash \/ Restart
-----------------------------------------------------------------------------
(* The types of the subscription's variables; the channel keeps its bound. *)
SubscriptionTypeOK ==
  /\ taken \in Seq([id : Nat, source : Sources])
  /\ ring \subseteq 1..Len(taken)
  /\ next \in Nat /\ losses \in Nat
  /\ {daemon, linked, errs, replayDone} \subseteq BOOLEAN /\ missed \in Whens
  /\ serving \in {"none", "waiting", "replaying", "live"}
  /\ linked <=> serving # "none"
  /\ pipe \in Seq(Nat) /\ item \in Nat /\ records \in Seq(Nat)
  /\ Len(records) <= RecordsCap
  /\ reader \in Readers
  /\ item # 0 <=> reader = "send"
=============================================================================
