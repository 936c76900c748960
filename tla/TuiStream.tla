----------------------------- MODULE TuiStream -----------------------------
(***************************************************************************)
(* The terminal viewer of internal/devlogbus/app/tui.go: the goroutine     *)
(* that subscribes, loads the replay, follows the stream and reconnects    *)
(* (streamTUIRecords), the events channel, and the model of the merged     *)
(* view that Update keeps.                                                 *)
(***************************************************************************)
EXTENDS Subscription

CONSTANTS MaxPerSource,  \* tuiMaxPerSource
          EventsCap,     \* capacity of the events channel (256)
          Keys           \* the keys the user presses, of p, c, x and q

ASSUME TuiAssumption ==
  /\ {MaxPerSource, EventsCap} \subseteq Nat \ {0}
  /\ Keys \subseteq {"p", "c", "x", "q"}

VARIABLES
  work,     \* where streamTUIRecords is
  got,      \* the records it has in hand
  events,   \* the events channel
  waiting,  \* whether the program waits for an event
  state,    \* the connection the header shows
  rows,     \* the records of the merged view
  paused,   \* mergedPaused
  expunge,  \* the expunge command, from the confirmation to its result
  quit,     \* whether the context was cancelled
  holes     \* history: when a record the daemon has was skipped or cleared

streamVars == <<work, got>>
viewVars == <<waiting, state, rows, paused, expunge, quit, holes>>
vars == <<subscriptionVars, streamVars, events, viewVars>>

(* What goes through the events channel: a status, an error, or records.   *)
Status(s) == [kind |-> "status", state |-> s, records |-> <<>>]
Failure == [kind |-> "error", state |-> "reconnecting", records |-> <<>>]
Loaded(rs) == [kind |-> "loaded", state |-> "online", records |-> rs]
Record(n) == [kind |-> "record", state |-> "none", records |-> <<n>>]

Works == {"start", "dial", "unreachable", "announce", "load", "drain", "deliver",
          "follow", "forward", "report", "close", "sleep", "ended"}

States == {"connecting", "loading", "online", "reconnecting", "offline"}

Init ==
  /\ SubscriptionInit
  /\ work = "start" /\ got = <<>> /\ events = <<>>
  /\ waiting = TRUE /\ state = "connecting" /\ rows = <<>>
  /\ paused = FALSE /\ expunge = "none" /\ quit = FALSE /\ holes = "never"
-----------------------------------------------------------------------------
(* sendTUIEvent: waits for room in the events channel.                     *)
Emit(at, event, then) ==
  /\ work = at
  /\ Len(events) < EventsCap
  /\ events' = Append(events, event)
  /\ work' = then

Announce ==
  /\ \/ Emit("start", Status("connecting"), "dial") /\ UNCHANGED got
     \/ Emit("announce", Status("loading"), "load") /\ got' = <<>>
     \/ Emit("unreachable", Failure, "sleep") /\ UNCHANGED got
     \/ Emit("report", Failure, "close") /\ UNCHANGED got
     \/ Emit("deliver", Loaded(got), "follow") /\ got' = <<>>
     \/ Emit("forward", Record(got[1]), "follow") /\ got' = <<>>
  /\ UNCHANGED <<subscriptionVars, viewVars>>

Dial ==
  /\ work = "dial"
  /\ work' = "announce"
  /\ Subscribed
  /\ holes' = IF holes = "now" THEN "before" ELSE holes
  /\ UNCHANGED <<got, events, waiting, state, rows, paused, expunge, quit>>

(* Variant: the viewer gives up at the first dial that fails.              *)
DialFailsForGood ==
  /\ work = "dial"
  /\ ~daemon
  /\ work' = "ended"
  /\ UNCHANGED <<got, events, viewVars, subscriptionVars>>

DialFails ==
  /\ work = "dial"
  /\ work' = "unreachable"
  /\ \/ ~daemon /\ UNCHANGED losses
     \/ quit /\ UNCHANGED losses
     \/ losses < MaxLosses /\ losses' = losses + 1
  /\ UNCHANGED <<got, events, viewVars, daemonVars, readerVars, linked, pipe>>

(* The records and errors cases of the two selects.                        *)
TakeRecord(at, then) ==
  /\ work = at
  /\ records # <<>>
  /\ got' = Append(got, Head(records))
  /\ records' = Tail(records)
  /\ work' = then
  /\ UNCHANGED <<reader, item, errs, replayDone>>

TakeError(at) ==
  /\ work = at
  /\ \/ errs /\ errs' = FALSE /\ work' = "report"
     \/ errs /\ errs' = FALSE /\ quit /\ work' = "close"
     \/ ~errs /\ ErrorsClosed /\ UNCHANGED errs /\ work' = "close"
     \/ records = <<>> /\ RecordsClosed /\ UNCHANGED errs /\ work' = "close"
  /\ UNCHANGED <<got, reader, item, records, replayDone>>

(* Variant: the records loaded so far are forgotten.                       *)
ReplayEndsAfresh ==
  /\ work = "load"
  /\ work' = "drain"
  /\ got' = <<>>
  /\ UNCHANGED readerVars

(* Variant: the fallback timer gives the connection up.                    *)
ReplayEndsReconnecting ==
  /\ work = "load"
  /\ work' = IF replayDone THEN "drain" ELSE "close"
  /\ UNCHANGED <<got, readerVars>>

(* The replay is over when ReplayDone is closed or the fallback timer has  *)
(* fired; then what the records channel holds is drained.                  *)
ReplayEnds ==
  /\ work = "load"
  /\ work' = "drain"
  /\ UNCHANGED <<got, readerVars>>

Drained ==
  /\ work = "drain"
  /\ records = <<>>
  /\ work' = "deliver"
  /\ UNCHANGED <<got, readerVars>>

Load ==
  /\ \/ TakeRecord("load", "load") \/ TakeError("load") \/ ReplayEnds
     \/ TakeRecord("drain", "drain") \/ Drained
  /\ UNCHANGED <<daemonVars, connection, events, viewVars>>

Follow ==
  /\ TakeRecord("follow", "forward") \/ TakeError("follow")
  /\ UNCHANGED <<daemonVars, connection, events, viewVars>>

Reconnect ==
  /\ \/ work = "close" /\ work' = "sleep" /\ Closed
     \/ work = "sleep" /\ work' = "start" /\ UNCHANGED <<linked, serving, pipe>>
  /\ got' = <<>>
  /\ UNCHANGED <<taken, ring, next, daemon, missed, losses, readerVars, events, viewVars>>

Work == Announce \/ Dial \/ DialFails \/ Load \/ Follow \/ Reconnect

(* Variant: only the goroutine's own loops look at the context.            *)
CancelWhenIdle ==
  /\ quit
  /\ work \in {"load", "follow", "sleep"}
  /\ work' = "ended"
  /\ Closed
  /\ UNCHANGED <<taken, ring, next, daemon, missed, losses, readerVars, got, events, viewVars>>

(* The ctx.Done case of the selects: at a send, in the loops, asleep.      *)
Cancel ==
  /\ quit
  /\ work \notin {"dial", "drain", "close", "ended"}
  /\ work' = "ended"
  /\ Closed
  /\ UNCHANGED <<taken, ring, next, daemon, missed, losses, readerVars, got, events, viewVars>>
-----------------------------------------------------------------------------
Id(n) == taken[n].id

(* Variant: a record with a known id moves to the end.                     *)
MergedAtEnd(old, n) == Append(SelectSeq(old, LAMBDA m : Id(m) # Id(n)), n)

(* Variant: every record gets a row of its own.                            *)
MergedAppended(old, n) == Append(old, n)

(* mergeTUIRecord before its limit: a record replaces the row of its id.   *)
Merged(old, n) ==
  IF \E i \in 1..Len(old) : Id(old[i]) = Id(n)
  THEN [i \in 1..Len(old) |-> IF Id(old[i]) = Id(n) THEN n ELSE old[i]]
  ELSE Append(old, n)

(* ... and its limit: the first rows of the record's source give way.      *)
Limited(all, s) ==
  LET of == {i \in 1..Len(all) : taken[all[i]].source = s}
      first == {i \in of : Cardinality({j \in of : j > i}) >= MaxPerSource}
  IN  AtPlaces(all, (1..Len(all)) \ first)

MergeTUIRecord(old, n) == Limited(Merged(old, n), taken[n].source)

(* ... for one record after the other.                                     *)
MergeAll(old, rs) ==
  LET merged[k \in 0..Len(rs)] ==
        IF k = 0 THEN old ELSE MergeTUIRecord(merged[k - 1], rs[k])
  IN  merged[Len(rs)]

(* handleRecord: a paused view skips what arrives.                         *)
HandleRecords(rs) == IF paused THEN rows ELSE MergeAll(rows, rs)

(* Whether one of these records is still to come: the daemon has it, or it *)
(* is on its way again, before the later events or in them.                *)
ComesAgain(rs, later) ==
  LET way == UNION {Range(e.records) : e \in Range(later)}
  IN  Range(rs) \cap (ring \cup Range(pipe) \cup {item} \cup Range(records) \cup Range(got) \cup way)
        # {}

(* Variant: Update forgets to wait for the next event after a replay.      *)
UpdateOnce ==
  /\ waiting /\ events # <<>>
  /\ events' = Tail(events)
  /\ waiting' = (Head(events).kind # "loaded")
  /\ state' = IF Head(events).state = "none" THEN state ELSE Head(events).state
  /\ rows' = HandleRecords(Head(events).records)
  /\ holes' = IF paused /\ ComesAgain(Head(events).records, Tail(events)) THEN "now" ELSE holes
  /\ UNCHANGED <<subscriptionVars, streamVars, paused, expunge, quit>>

(* Update with an event of the stream, and wait for the next one.          *)
Update ==
  /\ waiting /\ events # <<>>
  /\ events' = Tail(events)
  /\ waiting' = TRUE
  /\ state' = IF Head(events).state = "none" THEN state ELSE Head(events).state
  /\ rows' = HandleRecords(Head(events).records)
  /\ holes' = IF paused /\ ComesAgain(Head(events).records, Tail(events)) THEN "now" ELSE holes
  /\ UNCHANGED <<subscriptionVars, streamVars, paused, expunge, quit>>

(* The events channel is closed.                                           *)
UpdateClosed ==
  /\ waiting /\ events = <<>> /\ work = "ended"
  /\ waiting' = FALSE
  /\ state' = "offline"
  /\ UNCHANGED <<subscriptionVars, streamVars, events, rows, paused, expunge, quit, holes>>

TogglePause ==
  /\ "p" \in Keys
  /\ paused' = ~paused
  /\ UNCHANGED <<subscriptionVars, streamVars, events, waiting, state, rows, expunge, quit, holes>>

(* clearAll, from the key c or from an expunge that succeeded.             *)
ClearAll == rows' = <<>> /\ holes' = IF ComesAgain(rows, events) THEN "now" ELSE holes

ClearKey ==
  /\ "c" \in Keys
  /\ ClearAll
  /\ UNCHANGED <<subscriptionVars, streamVars, events, waiting, state, paused, expunge, quit>>

(* The confirmed expunge of all records, in a goroutine of its own; bound  *)
(* of the model: once.                                                     *)
ExpungeKey ==
  /\ "x" \in Keys
  /\ expunge = "none"
  /\ expunge' = "asked"
  /\ UNCHANGED <<subscriptionVars, streamVars, events, waiting, state, rows, paused, quit, holes>>

(* The daemon expunges; the answer may not arrive, or arrive too late.     *)
ExpungeServed ==
  /\ expunge \in {"asked", "failed"}
  /\ daemon
  /\ ring' = {}
  /\ expunge' \in {"failed"} \cup IF expunge = "asked" THEN {"answered"} ELSE {}
  /\ UNCHANGED <<taken, next, daemon, serving, missed, readerVars, connection, streamVars, events,
                 waiting, state, rows, paused, quit, holes>>

ExpungeFails ==
  /\ expunge = "asked"
  /\ expunge' = "failed"
  /\ UNCHANGED <<subscriptionVars, streamVars, events, waiting, state, rows, paused, quit, holes>>

(* Update with the result of the expunge.                                  *)
ExpungeEnds ==
  /\ \/ expunge = "answered" /\ ClearAll
     \/ expunge = "failed" /\ UNCHANGED <<rows, holes>>
  /\ expunge' = "ended"
  /\ UNCHANGED <<subscriptionVars, streamVars, events, waiting, state, paused, quit>>

Quit ==
  /\ "q" \in Keys
  /\ quit' = TRUE
  /\ UNCHANGED <<subscriptionVars, streamVars, events, waiting, state, rows, paused, expunge, holes>>

User == TogglePause \/ ClearKey \/ ExpungeKey \/ Quit

Expunging == ExpungeServed \/ ExpungeFails \/ ExpungeEnds

Next ==
  \/ Work \/ Cancel \/ Update \/ UpdateClosed \/ User \/ Expunging
  \/ (Read \/ Serve \/ Environment) /\ UNCHANGED <<streamVars, events, viewVars>>

(* The goroutines and the daemon's are scheduled; a select picks its       *)
(* ctx.Done in the end; the program updates until it quits.                *)
Fairness ==
  /\ WF_vars(Work) /\ SF_vars(Cancel) /\ WF_vars(Update /\ ~quit)
  /\ WF_vars(Read /\ UNCHANGED <<streamVars, events, viewVars>>)
  /\ WF_vars(Serve /\ UNCHANGED <<streamVars, events, viewVars>>)

Spec == Init /\ [][Next]_vars /\ Fairness
-----------------------------------------------------------------------------
(* The variables have their types and the channels keep their bounds.      *)
TypeOK ==
  /\ SubscriptionTypeOK
  /\ got \in Seq(1..Len(taken)) /\ rows \in Seq(1..Len(taken))
  /\ Len(events) <= EventsCap
  /\ state \in States
  /\ {waiting, paused, quit} \subseteq BOOLEAN /\ holes \in Whens
  /\ work \in Works
  /\ work = "forward" => Len(got) = 1

(* No two rows are the same record: what a reconnected stream replays is   *)
(* merged with what is shown (mergeTUIRecord, handleRecord).               *)
OneRowPerRecord ==
  \A i, j \in 1..Len(rows) : i # j => Id(rows[i]) # Id(rows[j])

(* Nothing that could put the rows out of the order of time has happened:  *)
(* no record was kept from the viewer, or skipped or cleared before it     *)
(* came again, no daemon gave an id again, and the viewer asks for no more *)
(* records of a source than it shows.                                      *)
Undisturbed ==
  /\ missed = "never" /\ holes = "never"
  /\ \A m, n \in 1..Len(taken) : m # n => Id(m) # Id(n)
  /\ ReplayPerSource <= MaxPerSource

(* The rows are in the order of time, whatever fails and is replayed       *)
(* (mergeTUIRecord, streamTUIRecords).                                     *)
Chronological == Undisturbed => \A i, j \in 1..Len(rows) : i < j => rows[i] < rows[j]

SmallerOf(a, b) == IF a < b THEN a ELSE b

(* A viewer that has followed the stream to its present end shows the      *)
(* newest records the daemon retains, those included that earlier          *)
(* connections lost, unless they were kept from it or cleared since it     *)
(* last subscribed.  Where the limit on rows is reached this needs the     *)
(* rows in the order of time: the limit drops the first, not the oldest.   *)
CaughtUp ==
  /\ work = "follow" /\ serving = "live" /\ pipe = <<>> /\ reader = "decode"
  /\ records = <<>> /\ events = <<>>
  /\ missed # "now" /\ holes # "now"
  /\ Len(taken) <= MaxPerSource \/ Undisturbed
  => NewestOf(ring, SmallerOf(ReplayPerSource, MaxPerSource)) \subseteq {rows[k] : k \in 1..Len(rows)}

(* When the viewer subscribes again the reader of the old subscription has *)
(* left its loop: it is not left waiting for room in a channel that nobody *)
(* reads (Subscribe).                                                      *)
NoReaderLeftBehind ==
  [][Dial => reader \in {"failed", "released", "unheard", "done"}]_vars

(* Unless the user quits or the daemon stays down, the viewer comes online *)
(* after every failure, at last for good.                                  *)
ComesOnline == <>[]daemon => <>(quit \/ [](state = "online"))

(* The header does not go on showing a connection that is lost.            *)
OnlineIsTrue == (state = "online" /\ ~linked) ~> (state # "online" \/ linked \/ quit)

(* When the user quits, the stream goroutine ends, with its channels full  *)
(* or empty, and the daemon up or down.                                    *)
StreamEnds == quit ~> work = "ended"

(* What the documentation says of the merged view.                         *)
OneChronologicalStream ==
  \A i, j \in 1..Len(rows) : i < j => rows[i] < rows[j]
=============================================================================
