--------------------------- MODULE TuiStreamProofs ---------------------------
(***************************************************************************)
(* Theorems about TuiStream, for every set of sources and keys, every      *)
(* limit and capacity, and any number of records and losses.               *)
(***************************************************************************)
EXTENDS TuiStream, ListProofs
-----------------------------------------------------------------------------
(* The reader goroutines of old subscriptions.                             *)

Gone == {"failed", "released", "unheard", "done"}

(* Where the stream goroutine is without a subscription it still reads.    *)
Unsubscribed == {"start", "dial", "unreachable", "report", "close", "sleep"}

(* The inductive invariant: an error comes from a reader that has left its *)
(* loop, and the viewer leaves a subscription only for such an error or a  *)
(* closed channel.                                                         *)
LeftInv ==
  /\ errs => reader \in Gone
  /\ work \in Unsubscribed => reader \in Gone

(* Once out of its loop a reader only goes on with its deferred calls, and *)
(* puts no other error in the channel (Subscribe).                         *)
LEMMA ReadKeepsGone ==
  ASSUME Read, errs => reader \in Gone
  PROVE  /\ reader \in Gone => reader' \in Gone
         /\ errs' => reader' \in Gone
<1>1. CASE Decode
  BY <1>1 DEF Decode, Gone, daemonVars
<1>2. CASE Send
  BY <1>2 DEF Send, Gone, daemonVars, connection
<1>3. CASE DecodeFails
  BY <1>3 DEF DecodeFails, Gone, daemonVars, connection
<1>4. CASE Release
  BY <1>4 DEF Release, Gone, daemonVars, connection
<1> QED
  BY <1>1, <1>2, <1>3, <1>4 DEF Read

(* An error or a closed channel that the viewer sees means that the reader *)
(* has left its loop.                                                      *)
LEMMA TakeErrorMeansGone ==
  ASSUME NEW at, TakeError(at), errs => reader \in Gone
  PROVE  /\ reader' = reader /\ reader \in Gone
         /\ errs' => errs
         /\ work' \in {"report", "close"}
<1>1. CASE errs
  BY <1>1 DEF TakeError
<1>2. CASE ~errs
  BY <1>2 DEF TakeError, ErrorsClosed, RecordsClosed, Gone
<1> QED
  BY <1>1, <1>2

(* Every step of the stream goroutine keeps the invariant.                 *)
LEMMA WorkKeepsLeftInv == ASSUME LeftInv, Work PROVE LeftInv'
<1> USE DEF LeftInv, Unsubscribed
<1>1. CASE Announce
  <2>1. reader' = reader /\ errs' = errs
    BY <1>1 DEF Announce, subscriptionVars, readerVars
  <2>2. work' \in Unsubscribed => work \in Unsubscribed
    BY <1>1 DEF Announce, Emit
  <2> QED
    BY <2>1, <2>2
<1>2. CASE Dial
  BY <1>2 DEF Dial, Subscribed
<1>3. CASE DialFails
  BY <1>3 DEF DialFails, readerVars
<1>4. CASE Load
  <2>1. CASE TakeError("load")
    BY <2>1, TakeErrorMeansGone
  <2>2. CASE ~TakeError("load")
    <3>1. reader' = reader /\ errs' = errs
      BY <1>4, <2>2 DEF Load, TakeRecord, ReplayEnds, Drained, readerVars
    <3>2. work' \in {"load", "drain", "deliver"}
      BY <1>4, <2>2 DEF Load, TakeRecord, ReplayEnds, Drained
    <3> QED
      BY <3>1, <3>2
  <2> QED
    BY <2>1, <2>2
<1>5. CASE Follow
  <2>1. CASE TakeError("follow")
    BY <2>1, TakeErrorMeansGone
  <2>2. CASE TakeRecord("follow", "forward")
    BY <2>2 DEF TakeRecord
  <2> QED
    BY <1>5, <2>1, <2>2 DEF Follow
<1>6. CASE Reconnect
  BY <1>6 DEF Reconnect, readerVars
<1> QED
  BY <1>1, <1>2, <1>3, <1>4, <1>5, <1>6 DEF Work

(* Every step keeps the invariant.                                         *)
LEMMA NextKeepsLeftInv == ASSUME LeftInv, [Next]_vars PROVE LeftInv'
<1>1. CASE Work
  BY <1>1, WorkKeepsLeftInv
<1>2. CASE Cancel
  BY <1>2 DEF Cancel, LeftInv, Unsubscribed, readerVars
<1>3. CASE Read /\ UNCHANGED <<streamVars, events, viewVars>>
  BY <1>3, ReadKeepsGone DEF LeftInv, streamVars
<1>4. CASE Serve /\ UNCHANGED <<streamVars, events, viewVars>>
  BY <1>4 DEF Serve, Accept, Join, LeftInv, readerVars, streamVars
<1>5. CASE Environment /\ UNCHANGED <<streamVars, events, viewVars>>
  <2>1. (\E s \in Sources : Publish(s)) => UNCHANGED readerVars
    BY DEF Publish
  <2>2. Lose => UNCHANGED readerVars
    BY DEF Lose
  <2>3. Crash => UNCHANGED readerVars
    BY DEF Crash
  <2>4. Restart => UNCHANGED readerVars
    BY DEF Restart
  <2>5. UNCHANGED readerVars
    BY <1>5, <2>1, <2>2, <2>3, <2>4 DEF Environment
  <2> QED
    BY <1>5, <2>5 DEF LeftInv, readerVars, streamVars
<1>6. CASE Update \/ UpdateClosed
  BY <1>6 DEF Update, UpdateClosed, LeftInv, subscriptionVars, readerVars, streamVars
<1>7. CASE User
  BY <1>7 DEF User, TogglePause, ClearKey, ExpungeKey, Quit, LeftInv, subscriptionVars,
              readerVars, streamVars
<1>8. CASE Expunging
  BY <1>8 DEF Expunging, ExpungeServed, ExpungeFails, ExpungeEnds, LeftInv, subscriptionVars,
              readerVars, streamVars
<1>9. CASE UNCHANGED vars
  BY <1>9 DEF vars, LeftInv, subscriptionVars, readerVars, streamVars
<1> QED
  BY <1>1, <1>2, <1>3, <1>4, <1>5, <1>6, <1>7, <1>8, <1>9 DEF Next

(* The invariant holds of every reachable state.                           *)
LEMMA LeftInvariant == Spec => []LeftInv
<1>1. Init => LeftInv
  BY DEF Init, SubscriptionInit, LeftInv, Gone
<1>2. LeftInv /\ [Next]_vars => LeftInv'
  BY NextKeepsLeftInv
<1> QED
  BY <1>1, <1>2, PTL DEF Spec

(* A viewer that subscribes again never leaves a reader of an old          *)
(* subscription waiting for room in a channel, for any capacities and      *)
(* however connections, dials and the daemon fail (Subscribe).             *)
THEOREM NoneLeftBehind == Spec => NoReaderLeftBehind
<1>1. LeftInv => (Dial => reader \in {"failed", "released", "unheard", "done"})
  BY DEF LeftInv, Dial, Gone, Unsubscribed
<1>2. LeftInv /\ [Next]_vars
        => [Dial => reader \in {"failed", "released", "unheard", "done"}]_vars
  BY <1>1
<1> QED
  BY <1>2, LeftInvariant, PTL DEF Spec, NoReaderLeftBehind
-----------------------------------------------------------------------------
Ids == 1..Len(taken)

Taken == [id : Nat, source : Sources]

(* What goes through the events channel, with records of a set.            *)
Messages(S) ==
  [kind : {"status", "error", "loaded", "record"}, state : States \cup {"none"}, records : Seq(S)]

RingInv ==
  /\ taken \in Seq(Taken) /\ next \in Nat /\ losses \in Nat
  /\ ring \subseteq Ids

PipeInv == pipe \in Seq({Complete} \cup Ids) /\ item \in {Complete} \cup Ids /\ records \in Seq(Ids)

RowsInv == got \in Seq(Ids) /\ events \in Seq(Messages(Ids)) /\ rows \in Seq(Ids)

ListsInv == RingInv /\ PipeInv /\ RowsInv

(* The daemon's side of the subscription and the reader,                   *)
SideInv ==
  /\ {daemon, linked, errs, replayDone} \subseteq BOOLEAN /\ missed \in Whens
  /\ serving \in {"none", "waiting", "replaying", "live"}
  /\ linked <=> serving # "none"
  /\ reader \in Readers
  /\ item # Complete <=> reader = "send"
  /\ Len(records) <= RecordsCap

(* the stream goroutine, and the program.                                  *)
WorkInv ==
  /\ work \in Works
  /\ work \in {"start", "dial", "unreachable", "announce", "sleep", "follow"} => got = <<>>
  /\ work = "forward" => Len(got) = 1
  /\ Len(events) <= EventsCap

ViewInv ==
  /\ state \in States /\ holes \in Whens
  /\ {waiting, paused, quit} \subseteq BOOLEAN

TypeInv == ListsInv /\ SideInv /\ WorkInv /\ ViewInv

(* A record that is published is the last of all; the others stay, and no  *)
(* other step takes one.                                                   *)
LEMMA PublishTakes ==
  ASSUME RingInv, NEW s \in Sources, Publish(s)
  PROVE  /\ taken' \in Seq(Taken) /\ Len(taken) \in Nat /\ Len(taken') = Len(taken) + 1
         /\ taken'[Len(taken')] = [id |-> next, source |-> s]
         /\ Ids' = Ids \cup {Len(taken')} /\ \A n \in Ids : n < Len(taken') /\ taken'[n] = taken[n]
<1>1. taken \in Seq(Taken) /\ taken' = Append(taken, [id |-> next, source |-> s])
  BY DEF RingInv, Publish
<1>2. [id |-> next, source |-> s] \in Taken
  BY DEF RingInv, Taken
<1>3. /\ taken' \in Seq(Taken) /\ Len(taken) \in Nat /\ Len(taken') = Len(taken) + 1
      /\ \A n \in 1..Len(taken) : taken'[n] = taken[n]
      /\ taken'[Len(taken) + 1] = [id |-> next, source |-> s]
  BY <1>1, <1>2, AppendedElements
<1>4. Ids' = Ids \cup {Len(taken')} /\ \A n \in Ids : n < Len(taken')
  BY <1>3 DEF Ids
<1> QED BY <1>3, <1>4 DEF Ids

LEMMA TakenMoves ==
  [Next]_vars => (taken' = taken /\ ring' \in {ring, {}}) \/ \E s \in Sources : Publish(s)
<1> DEFINE Goal == (taken' = taken /\ ring' \in {ring, {}}) \/ \E s \in Sources : Publish(s)
<1> SUFFICES ASSUME [Next]_vars PROVE Goal
  OBVIOUS
<1> USE DEF subscriptionVars, daemonVars
<1>1. Work \/ Cancel => Goal
  <2>1. Announce \/ Dial \/ DialFails \/ Cancel => Goal
    BY DEF Announce, Dial, Subscribed, DialFails, Cancel
  <2>2. Load \/ Follow \/ Reconnect => Goal
    BY DEF Load, Follow, Reconnect
  <2> QED BY <2>1, <2>2 DEF Work
<1>2. Update \/ UpdateClosed \/ User => Goal
  BY DEF Update, UpdateClosed, User, TogglePause, ClearKey, ExpungeKey, Quit
<1>3. Expunging \/ UNCHANGED vars => Goal
  BY DEF Expunging, ExpungeServed, ExpungeFails, ExpungeEnds, vars
<1>4. Read \/ Serve => Goal
  BY DEF Read, Decode, Send, DecodeFails, Release, Serve, Accept, Join
<1>5. Environment => Goal
  BY DEF Environment, Lose, Crash, Restart
<1> QED BY <1>1, <1>2, <1>3, <1>4, <1>5 DEF Next

LEMMA TakenStays ==
  ASSUME RingInv, [Next]_vars
  PROVE  Ids \subseteq Ids' /\ \A n \in Ids : taken'[n] = taken[n]
<1>1. CASE taken' = taken
  BY <1>1 DEF Ids
<1>2. ASSUME NEW s \in Sources, Publish(s) PROVE Ids \subseteq Ids' /\ \A n \in Ids : taken'[n] = taken[n]
  BY <1>2, PublishTakes
<1> QED BY <1>1, <1>2, TakenMoves

LEMMA RingStep ==
  ASSUME RingInv, [Next]_vars
  PROVE  RingInv'
<1> USE DEF subscriptionVars, daemonVars
<1>1. CASE UNCHANGED <<taken, next, losses, ring>>
  BY <1>1 DEF RingInv, Ids
<1>2. CASE UNCHANGED <<taken, next, ring>> /\ losses' = losses + 1
  BY <1>2 DEF RingInv, Ids
<1>3. CASE UNCHANGED <<taken, next, losses>> /\ ring' = {}
  BY <1>3 DEF RingInv, Ids
<1>4. Work \/ Cancel => RingInv'
  <2>1. Announce \/ Dial => RingInv'
    BY <1>1 DEF Announce, Dial, Subscribed, connection
  <2>2. Load \/ Follow \/ Reconnect \/ Cancel => RingInv'
    BY <1>1 DEF Load, Follow, Reconnect, Cancel, connection
  <2>3. DialFails => RingInv'
    BY <1>1, <1>2 DEF DialFails
  <2> QED BY <2>1, <2>2, <2>3 DEF Work
<1>5. Update \/ UpdateClosed \/ User => RingInv'
  BY <1>1 DEF Update, UpdateClosed, User, TogglePause, ClearKey, ExpungeKey, Quit, connection
<1>6. Expunging \/ UNCHANGED vars => RingInv'
  BY <1>1, <1>3 DEF Expunging, ExpungeServed, ExpungeFails, ExpungeEnds, vars, connection
<1>7. Read \/ Serve \/ Restart => RingInv'
  BY <1>1 DEF Read, Decode, Send, DecodeFails, Release, Serve, Accept, Join, Restart, connection
<1>8. Lose => RingInv'
  BY <1>2 DEF Lose
<1>9. Crash => RingInv'
  BY DEF Crash, RingInv
<1>10. ASSUME NEW s \in Sources, Publish(s) PROVE RingInv'
  <2>1. taken' \in Seq(Taken) /\ Ids' = Ids \cup {Len(taken')}
    BY <1>10, PublishTakes
  <2>2. next' = next + 1 /\ losses' = losses /\ ring' \subseteq ring \cup {Len(taken')}
    BY <1>10 DEF Publish
  <2> QED BY <2>1, <2>2 DEF RingInv
<1> QED BY <1>4, <1>5, <1>6, <1>7, <1>8, <1>9, <1>10 DEF Next, Environment
-----------------------------------------------------------------------------
(* What a step may do to the lists of records: nothing, but that the       *)
(* goroutine may forget what it has in hand;                               *)
Quiet ==
  /\ UNCHANGED <<taken, pipe, item, records, events, rows>>
  /\ got' \in {got, <<>>}

(* end the connection, too;                                                *)
Cutting ==
  /\ Cut
  /\ UNCHANGED <<taken, item, records, events, rows>>
  /\ got' \in {got, <<>>}

(* take a record from the channel;                                         *)
Taking ==
  /\ records # <<>>
  /\ got' = Append(got, Head(records)) /\ records' = Tail(records)
  /\ UNCHANGED <<taken, pipe, item, events, rows>>

(* show an event, or clear the rows;                                       *)
Showing ==
  /\ UNCHANGED <<taken, pipe, item, records, got>>
  /\ \/ rows' = <<>> /\ events' = events
     \/ events # <<>> /\ events' = Tail(events) /\ rows' = HandleRecords(Head(events).records)

(* or what Announce, Dial, the reader, Accept and Publish do.              *)
Moves ==
  \/ Quiet \/ Cutting \/ Taking \/ Showing \/ Announce \/ Dial
  \/ (Decode \/ Send \/ Accept \/ \E s \in Sources : Publish(s)) /\ UNCHANGED <<got, events, rows>>

LEMMA ListMoves == [Next]_vars => Moves
<1> SUFFICES ASSUME [Next]_vars PROVE Moves
  OBVIOUS
<1> USE DEF subscriptionVars, daemonVars, readerVars, connection, streamVars, viewVars
<1>1. Work => Moves
  <2>1. DialFails => Quiet
    BY DEF DialFails, Quiet
  <2>2. Load \/ Follow => Quiet \/ Taking
    BY DEF Load, Follow, TakeRecord, TakeError, ReplayEnds, Drained, Quiet, Taking
  <2>3. Reconnect => Quiet \/ Cutting
    BY DEF Reconnect, Closed, Quiet, Cutting
  <2> QED BY <2>1, <2>2, <2>3 DEF Work, Moves
<1>2. Cancel => Quiet \/ Cutting
  BY DEF Cancel, Closed, Quiet, Cutting
<1>3. Update \/ ClearKey => Showing
  BY DEF Update, ClearKey, ClearAll, Showing
<1>4. UpdateClosed \/ TogglePause \/ ExpungeKey \/ Quit \/ ExpungeServed \/ ExpungeFails \/ UNCHANGED vars
        => Quiet
  BY DEF UpdateClosed, TogglePause, ExpungeKey, Quit, ExpungeServed, ExpungeFails, vars, Quiet
<1>5. ExpungeEnds => Quiet \/ Showing
  BY DEF ExpungeEnds, ClearAll, Quiet, Showing
<1>6. (DecodeFails \/ Release \/ Join \/ Restart) /\ UNCHANGED <<streamVars, events, viewVars>> => Quiet
  BY DEF DecodeFails, Release, Join, Restart, Quiet
<1>7. (Lose \/ Crash) /\ UNCHANGED <<streamVars, events, viewVars>> => Cutting
  BY DEF Lose, Crash, Cutting
<1> QED BY <1>1, <1>2, <1>3, <1>4, <1>5, <1>6, <1>7
        DEF Next, User, Expunging, Read, Serve, Environment, Moves

(* The records of a set stay so when more are taken.                       *)
LEMMA ListsKept ==
  ASSUME ListsInv, [Next]_vars
  PROVE  /\ \A s \in Seq(Ids) : s \in Seq(Ids')
         /\ \A s \in Seq({Complete} \cup Ids) : s \in Seq({Complete} \cup Ids')
         /\ \A s \in Seq(Messages(Ids)) : s \in Seq(Messages(Ids'))
<1>1. Ids \subseteq Ids' /\ {Complete} \cup Ids \subseteq {Complete} \cup Ids'
  BY TakenStays DEF ListsInv
<1>2. \A s \in Seq(Ids) : s \in Seq(Ids')
  BY <1>1, WiderElements
<1>3. Messages(Ids) \subseteq Messages(Ids')
  BY <1>2 DEF Messages
<1>4. \A s \in Seq({Complete} \cup Ids) : s \in Seq({Complete} \cup Ids')
  BY <1>1, WiderElements
<1> QED BY <1>2, <1>3, <1>4, WiderElements
-----------------------------------------------------------------------------
(* No two rows have one id.                                                *)
DistinctRows(list) == \A i, j \in 1..Len(list) : i # j => Id(list[i]) # Id(list[j])

LEMMA IdOfRow ==
  ASSUME NEW list \in Seq(Ids), DistinctRows(list)
  PROVE  \A i, j \in 1..Len(list) : list[i] = list[j] => i = j
BY DEF DistinctRows

(* A record that is merged replaces the row of its id, which is itself if  *)
(* it is shown, or comes last.                                             *)
LEMMA MergedRows ==
  ASSUME NEW old \in Seq(Ids), NEW n \in Ids, DistinctRows(old)
  PROVE  /\ Merged(old, n) \in Seq(Ids) /\ DistinctRows(Merged(old, n))
         /\ n \in Range(Merged(old, n)) /\ Range(Merged(old, n)) \subseteq Range(old) \cup {n}
         /\ \A m \in Range(old) : m \in Range(Merged(old, n)) \/ (Id(m) = Id(n) /\ m # n)
<1> DEFINE new == Merged(old, n)
<1>0. /\ Len(old) \in Nat /\ \A i \in 1..Len(old) : old[i] \in Ids /\ old[i] \in Range(old)
      /\ \A x \in Range(old) : \E i \in 1..Len(old) : old[i] = x
  BY ElementsOf
<1>1. CASE \E i \in 1..Len(old) : Id(old[i]) = Id(n)
  <2>1. new = [i \in 1..Len(old) |-> IF Id(old[i]) = Id(n) THEN n ELSE old[i]]
    BY <1>1 DEF Merged
  <2> HIDE DEF new
  <2>2. new \in Seq(Ids) /\ Len(new) = Len(old)
    <3>1. new \in [1..Len(old) -> Ids]
      BY <1>0, <2>1
    <3> QED BY <3>1, <1>0, <2>1, IsASeq, LenProperties
  <2>3. \A i \in 1..Len(old) : new[i] = (IF Id(old[i]) = Id(n) THEN n ELSE old[i])
    BY <2>1
  <2>4. \A i \in 1..Len(old) : Id(new[i]) = Id(old[i])
    BY <2>3
  <2>5. DistinctRows(new)
    BY <2>2, <2>4 DEF DistinctRows
  <2>6. /\ \A i \in 1..Len(old) : new[i] \in Range(new)
        /\ \A x \in Range(new) : \E i \in 1..Len(old) : new[i] = x
    BY <2>2, ElementsOf
  <2>7. Range(new) \subseteq Range(old) \cup {n}
    BY <1>0, <2>3, <2>6
  <2>8. n \in Range(new)
    BY <1>1, <2>3, <2>6
  <2>9. ASSUME NEW x \in Range(old), x \notin Range(new) PROVE Id(x) = Id(n) /\ x # n
    <3>1. PICK i \in 1..Len(old) : old[i] = x
      BY <1>0
    <3> QED BY <2>3, <2>6, <2>8, <2>9, <3>1
  <2> QED BY <2>2, <2>5, <2>7, <2>8, <2>9 DEF new
<1>2. CASE ~\E i \in 1..Len(old) : Id(old[i]) = Id(n)
  <2>1. new = Append(old, n)
    BY <1>2 DEF Merged
  <2> HIDE DEF new
  <2>2. /\ new \in Seq(Ids) /\ Len(new) = Len(old) + 1
        /\ \A i \in 1..Len(old) : new[i] = old[i]
        /\ new[Len(old) + 1] = n
    BY <2>1, AppendedElements
  <2>3. \A i \in 1..Len(new) : i \in 1..Len(old) \/ i = Len(old) + 1
    BY <1>0, <2>2
  <2>4. DistinctRows(new)
    BY <1>0, <1>2, <2>2, <2>3 DEF DistinctRows
  <2>5. Range(new) = Range(old) \cup {n}
    BY <2>1, RangeOfAppend
  <2> QED BY <2>2, <2>4, <2>5 DEF new
<1> QED BY <1>1, <1>2

LEMMA MergedInTime ==
  ASSUME NEW old \in Seq(Ids), NEW n \in Ids, DistinctRows(old), InTime(old),
         n \in Range(old) \/ \A m \in Range(old) : m < n /\ Id(m) # Id(n)
  PROVE  InTime(Merged(old, n))
<1> DEFINE new == Merged(old, n)
<1>0. /\ Len(old) \in Nat /\ \A i \in 1..Len(old) : old[i] \in Ids /\ old[i] \in Range(old)
      /\ \A x \in Range(old) : \E i \in 1..Len(old) : old[i] = x
  BY ElementsOf
<1>1. CASE n \in Range(old)
  <2>1. PICK k \in 1..Len(old) : old[k] = n
    BY <1>0, <1>1
  <2>2. \A i \in 1..Len(old) : Id(old[i]) = Id(n) => old[i] = n
    BY <2>1 DEF DistinctRows
  <2>3. new = [i \in 1..Len(old) |-> IF Id(old[i]) = Id(n) THEN n ELSE old[i]]
    BY <2>1 DEF Merged
  <2> HIDE DEF new
  <2>4. Len(new) = Len(old) /\ \A i \in 1..Len(old) : new[i] = old[i]
    BY <1>0, <2>2, <2>3
  <2> QED BY <2>4 DEF InTime, new
<1>2. CASE \A m \in Range(old) : m < n /\ Id(m) # Id(n)
  <2>1. new = Append(old, n)
    BY <1>0, <1>2 DEF Merged
  <2> HIDE DEF new
  <2>2. /\ Len(new) = Len(old) + 1
        /\ \A i \in 1..Len(old) : new[i] = old[i]
        /\ new[Len(old) + 1] = n
    BY <2>1, AppendedElements
  <2>3. \A i \in 1..Len(new) : i \in 1..Len(old) \/ i = Len(old) + 1
    BY <1>0, <2>2
  <2>4. \A i, j \in 1..Len(new) : i < j => i \in 1..Len(old)
    BY <1>0, <2>2, <2>3
  <2> QED BY <1>0, <1>2, <2>2, <2>3, <2>4 DEF InTime, new
<1> QED BY <1>1, <1>2

(* The newer records of a record's source, in a set; and whether they are  *)
(* as many as the rows there may be.                                       *)
Newer(set, n) == {m \in set : m > n /\ taken[m].source = taken[n].source}

Enough(set, n) == Cardinality(Newer(set, n)) >= MaxPerSource

LEMMA FiniteIds ==
  ASSUME RingInv, NEW S, S \subseteq Ids
  PROVE  IsFiniteSet(S) /\ Cardinality(S) \in Nat /\ Cardinality(S) <= Len(taken) /\ S \subseteq Nat
<1>1. Len(taken) \in Nat
  BY ElementsOf DEF RingInv
<1>2. IsFiniteSet(1..Len(taken)) /\ Cardinality(1..Len(taken)) = Len(taken)
  BY <1>1, FirstNumbers
<1>3. Ids \subseteq Nat
  BY <1>1 DEF Ids
<1> QED BY <1>2, <1>3, FS_Subset, FS_CardinalityType DEF Ids

LEMMA MoreIsEnough ==
  ASSUME RingInv, NEW S, NEW T, S \subseteq T, T \subseteq Ids, NEW n, Enough(S, n)
  PROVE  Enough(T, n)
<1>1. Newer(S, n) \subseteq Newer(T, n) /\ Newer(T, n) \subseteq Ids
  BY DEF Newer
<1>2. IsFiniteSet(Newer(T, n)) /\ Cardinality(Newer(T, n)) \in Nat
  BY <1>1, FiniteIds
<1>3. Cardinality(Newer(S, n)) <= Cardinality(Newer(T, n)) /\ Cardinality(Newer(S, n)) \in Nat
  BY <1>1, <1>2, FS_Subset, FS_CardinalityType
<1> QED BY <1>2, <1>3, TuiAssumption DEF Enough

(* The rows at some places keep their order and their ids.                 *)
LEMMA KeptRows ==
  ASSUME NEW list \in Seq(Ids), DistinctRows(list), NEW kept, kept \subseteq 1..Len(list)
  PROVE  /\ AtPlaces(list, kept) \in Seq(Ids) /\ DistinctRows(AtPlaces(list, kept))
         /\ Range(AtPlaces(list, kept)) = {list[i] : i \in kept}
         /\ InTime(list) => InTime(AtPlaces(list, kept))
<1> DEFINE a == AtPlaces(list, kept)
           N == Len(a)
           o == InOrder(kept)
<1>0. a \in Seq(Ids) /\ Picks(list, kept, a)
  BY AtPlacesLists
<1>1. /\ \A k \in 1..N : o[k] \in kept /\ a[k] = list[o[k]]
      /\ \A k, l \in 1..N : k # l => o[k] # o[l]
  <2> HIDE DEF a
  <2> QED BY <1>0 DEF Picks
<1> HIDE DEF N, o, a
<1>2. DistinctRows(a)
  <2>1. ASSUME NEW k \in 1..N, NEW l \in 1..N, k # l
        PROVE  Id(a[k]) # Id(a[l])
    <3>1. o[k] \in 1..Len(list) /\ o[l] \in 1..Len(list) /\ o[k] # o[l]
      BY <1>1, <2>1
    <3> QED BY <1>1, <2>1, <3>1 DEF DistinctRows
  <2> QED BY <2>1 DEF DistinctRows, N
<1> QED BY <1>2, PickedInTime DEF a

(* The rows left of a list by the limit.                                   *)
LEMMA LimitedRows ==
  ASSUME RingInv, NEW all \in Seq(Ids), DistinctRows(all), NEW s
  PROVE  /\ Limited(all, s) \in Seq(Ids) /\ DistinctRows(Limited(all, s))
         /\ Range(Limited(all, s)) \subseteq Range(all)
         /\ InTime(all) => InTime(Limited(all, s))
         /\ InTime(all) => \A m \in Range(all) \ Range(Limited(all, s)) : Enough(Range(Limited(all, s)), m)
         /\ Len(taken) <= MaxPerSource => Range(Limited(all, s)) = Range(all)
<1> DEFINE of == {i \in 1..Len(all) : taken[all[i]].source = s}
           first == {i \in of : Cardinality({j \in of : j > i}) >= MaxPerSource}
           kept == (1..Len(all)) \ first
           new == Limited(all, s)
<1>0. /\ Len(all) \in Nat /\ \A i \in 1..Len(all) : all[i] \in Ids /\ all[i] \in Range(all)
      /\ \A x \in Range(all) : \E i \in 1..Len(all) : all[i] = x
  BY ElementsOf
<1>1. new = AtPlaces(all, kept)
  BY DEF Limited
<1>2. of \subseteq 1..Len(all) /\ first \subseteq of /\ kept \subseteq 1..Len(all)
  OBVIOUS
<1>3. IsFiniteSet(of) /\ of \subseteq Nat
  <2>1. Len(all) \in Nat
    BY <1>0
  <2>2. IsFiniteSet(1..Len(all)) /\ 1..Len(all) \subseteq Nat
    BY <2>1, FirstNumbers
  <2> HIDE DEF of
  <2> QED BY <1>2, <2>2, FS_Subset
<1>4. \A i \in of : taken[all[i]].source = s
  OBVIOUS
<1>5. \A i \in first : i \in of /\ Cardinality(After(of, i)) >= MaxPerSource
  BY DEF After
<1>6. \A i \in of : ~(Cardinality(After(of, i)) >= MaxPerSource) => i \in kept
  BY DEF After
<1>7. \A i \in 1..Len(all) : i \in first \/ i \in kept
  OBVIOUS
<1> HIDE DEF of, first, kept, new
<1>8. /\ new \in Seq(Ids) /\ DistinctRows(new) /\ Range(new) = {all[i] : i \in kept}
      /\ InTime(all) => InTime(new)
  BY <1>1, <1>2, KeptRows
<1>9. Range(new) \subseteq Range(all) /\ Range(new) \subseteq Ids
  BY <1>0, <1>2, <1>8
<1>10. ASSUME NEW last, last \subseteq of
       PROVE  /\ {all[j] : j \in last} \subseteq Ids
              /\ Cardinality({all[j] : j \in last}) = Cardinality(last)
  <2> DEFINE f == [j \in last |-> all[j]]
             image == {all[j] : j \in last}
  <2>1. image \subseteq Ids /\ IsFiniteSet(last)
    BY <1>0, <1>2, <1>3, <1>10, FS_Subset
  <2>2. \A i, j \in last : all[i] = all[j] => i = j
    BY <1>2, <1>10, IdOfRow
  <2>3. f \in Bijection(last, image)
    BY <2>2 DEF Bijection, Injection, Surjection, IsInjective
  <2>4. Cardinality(image) = Cardinality(last)
    <3> HIDE DEF f, image
    <3>1. ExistsBijection(last, image)
      BY <2>3 DEF ExistsBijection
    <3> QED BY <2>1, <3>1, FS_Bijection
  <2> QED BY <2>1, <2>4
<1>11. ASSUME NEW i \in first
       PROVE  \E last : /\ last \subseteq of /\ last \subseteq kept
                        /\ Cardinality(last) = MaxPerSource /\ \A j \in last : j > i
  <2>1. MaxPerSource \in Nat /\ i \in of
    BY <1>2, TuiAssumption
  <2>2. PICK last \in SUBSET of :
           /\ Cardinality(last) = MaxPerSource
           /\ \A j \in last : j > i /\ Cardinality(After(of, j)) < MaxPerSource
    <3>1. Cardinality(After(of, i)) >= MaxPerSource
      BY <1>5
    <3> QED BY <1>3, <2>1, <3>1, LastOfMany
  <2>3. ASSUME NEW j \in last PROVE j \in kept
    <3>1. j \in of /\ Cardinality(After(of, j)) < MaxPerSource
      BY <2>2
    <3>2. IsFiniteSet(After(of, j))
      BY <1>3, FS_Subset DEF After
    <3>3. Cardinality(After(of, j)) \in Nat
      BY <3>2, FS_CardinalityType
    <3> QED BY <1>6, <2>1, <3>1, <3>3
  <2> QED BY <2>2, <2>3
<1>12. ASSUME InTime(all), NEW m \in Range(all), m \notin Range(new)
       PROVE  Enough(Range(new), m)
  <2>1. PICK i \in 1..Len(all) : all[i] = m
    BY <1>0
  <2>2. i \in first /\ i \in of
    BY <1>2, <1>7, <1>8, <1>12, <2>1
  <2>3. PICK last : /\ last \subseteq of /\ last \subseteq kept
                    /\ Cardinality(last) = MaxPerSource /\ \A j \in last : j > i
    BY <1>11, <2>2
  <2> DEFINE image == {all[j] : j \in last}
  <2>4. Cardinality(image) = MaxPerSource
    BY <1>10, <2>3
  <2>5. image \subseteq Newer(Range(new), m)
    <3> SUFFICES ASSUME NEW j \in last
                 PROVE  all[j] \in Range(new) /\ all[j] > m /\ taken[all[j]].source = taken[m].source
      BY DEF Newer
    <3>1. j \in of /\ j \in kept /\ j \in 1..Len(all) /\ i < j
      BY <1>2, <2>3
    <3>2. all[i] < all[j]
      BY <1>12, <2>1, <3>1 DEF InTime
    <3> QED BY <1>4, <1>8, <2>1, <2>2, <3>1, <3>2
  <2>6. Newer(Range(new), m) \subseteq Ids
    BY <1>9 DEF Newer
  <2> HIDE DEF image
  <2>7. IsFiniteSet(Newer(Range(new), m)) /\ Cardinality(Newer(Range(new), m)) \in Nat
    BY <2>6, FiniteIds
  <2>8. Cardinality(image) <= Cardinality(Newer(Range(new), m))
    BY <2>5, <2>7, FS_Subset
  <2> QED BY <2>4, <2>7, <2>8 DEF Enough
<1>13. ASSUME Len(taken) <= MaxPerSource PROVE first = {}
  <2> SUFFICES ASSUME NEW i \in first PROVE FALSE
    OBVIOUS
  <2>1. PICK last : /\ last \subseteq of /\ last \subseteq kept
                    /\ Cardinality(last) = MaxPerSource /\ \A j \in last : j > i
    BY <1>11
  <2> DEFINE image == {all[j] : j \in last}
             one == {all[i]}
  <2>2. image \subseteq Ids /\ Cardinality(image) = MaxPerSource
    BY <1>10, <2>1
  <2>3. i \in 1..Len(all) /\ all[i] \in Ids
    BY <1>0, <1>2
  <2>4. all[i] \notin image
    <3> SUFFICES ASSUME NEW j \in last, all[j] = all[i] PROVE FALSE
      OBVIOUS
    <3>1. j \in 1..Len(all) /\ j > i
      BY <1>2, <2>1
    <3>2. j = i
      BY <2>3, <3>1, IdOfRow
    <3> QED BY <1>0, <2>3, <3>1, <3>2
  <2> HIDE DEF image
  <2>5. image \cup {all[i]} \subseteq Ids
    BY <2>2, <2>3
  <2>6. IsFiniteSet(image) /\ Cardinality(image \cup {all[i]}) <= Len(taken)
    BY <2>2, <2>5, FiniteIds
  <2>7. Cardinality(image \cup {all[i]}) = MaxPerSource + 1
    BY <2>2, <2>4, <2>6, FS_AddElement
  <2>8. Len(taken) \in Nat
    BY ElementsOf DEF RingInv
  <2> QED BY <1>13, <2>6, <2>7, <2>8, TuiAssumption
<1>14. Len(taken) <= MaxPerSource => Range(new) = Range(all)
  BY <1>0, <1>7, <1>8, <1>9, <1>13
<1> QED BY <1>8, <1>9, <1>12, <1>14 DEF new

(* Rows of which some are gone: those forgotten, and those that gave way   *)
(* to as many newer rows of their source as there may be.                  *)
Thinned(set, left, forgotten) ==
  /\ left \subseteq set
  /\ \A m \in set \ left : m \in forgotten \/ Enough(left, m)

(* A record fits the rows if none is newer, or if it is a row of those     *)
(* that may be.                                                            *)
Latest(set, n) == \A m \in set : m < n

Fits(set, n) == Latest(set, n) \/ (n \in set /\ ~Enough(set, n))

LEMMA EnoughOfThinned ==
  ASSUME RingInv, NEW S, S \subseteq Ids, NEW T, Thinned(S, T, {}), NEW n \in Ids, Enough(S, n)
  PROVE  Enough(T, n)
<1>0. S \subseteq Nat /\ n \in Nat /\ T \subseteq S /\ T \subseteq Ids
  BY FiniteIds DEF Thinned, Ids
<1>1. CASE Newer(S, n) \subseteq T
  <2>1. Newer(S, n) = Newer(T, n)
    BY <1>0, <1>1 DEF Newer
  <2> QED BY <2>1 DEF Enough
<1>2. ASSUME NEW m \in Newer(S, n), m \notin T PROVE Enough(T, n)
  <2>1. m \in S /\ m > n /\ taken[m].source = taken[n].source
    BY DEF Newer
  <2>2. Enough(T, m)
    BY <1>2, <2>1 DEF Thinned
  <2>3. \A k \in T : k > m => k > n
    BY <1>0, <2>1
  <2>4. Newer(T, m) \subseteq Newer(T, n) /\ Newer(T, n) \subseteq Ids
    BY <1>0, <2>1, <2>3 DEF Newer
  <2>5. IsFiniteSet(Newer(T, n)) /\ Cardinality(Newer(T, n)) \in Nat
    BY <2>4, FiniteIds
  <2>6. Cardinality(Newer(T, m)) <= Cardinality(Newer(T, n)) /\ Cardinality(Newer(T, m)) \in Nat
    BY <2>4, <2>5, FS_Subset, FS_CardinalityType
  <2> QED BY <2>2, <2>5, <2>6, TuiAssumption DEF Enough
<1> QED BY <1>1, <1>2

LEMMA FitsThinned ==
  ASSUME RingInv, NEW S, S \subseteq Ids, NEW T, NEW F, Thinned(S, T, F), NEW n, n \notin F, Fits(S, n)
  PROVE  Fits(T, n)
<1>1. T \subseteq S
  BY DEF Thinned
<1>2. Latest(S, n) => Latest(T, n)
  BY <1>1 DEF Latest
<1>3. Enough(T, n) => Enough(S, n)
  BY <1>1, MoreIsEnough
<1>4. n \in S => n \in T \/ Enough(T, n)
  BY DEF Thinned
<1> QED BY <1>2, <1>3, <1>4 DEF Fits

LEMMA FitsAfter ==
  ASSUME NEW S, NEW X, NEW n, n \in Nat, S \subseteq Nat, X \subseteq Nat, \A x \in X : x < n, Fits(S, n)
  PROVE  Fits(S \cup X, n)
<1>1. Latest(S, n) => Latest(S \cup X, n)
  BY DEF Latest
<1>2. \A x \in X : ~(x > n)
  OBVIOUS
<1>3. Newer(S \cup X, n) = Newer(S, n)
  BY <1>2 DEF Newer
<1> QED BY <1>1, <1>3 DEF Fits, Enough

LEMMA ThinnedAgain ==
  ASSUME RingInv, NEW A, A \subseteq Ids, NEW B, NEW n \in Ids, NEW C,
         Thinned(A, B, {}), Thinned(B \cup {n}, C, {})
  PROVE  Thinned(A \cup {n}, C, {})
<1>1. B \subseteq A /\ C \subseteq B \cup {n} /\ B \cup {n} \subseteq Ids
  BY DEF Thinned
<1>2. ASSUME NEW m \in A \cup {n}, m \notin C PROVE Enough(C, m)
  <2>1. CASE m \in B \cup {n}
    BY <1>2, <2>1 DEF Thinned
  <2>2. CASE m \notin B \cup {n}
    <3>1. Enough(B, m)
      BY <2>2 DEF Thinned
    <3>2. Enough(B \cup {n}, m)
      BY <1>1, <3>1, MoreIsEnough
    <3> QED BY <1>1, <3>2, EnoughOfThinned
  <2> QED BY <2>1, <2>2
<1> QED BY <1>1, <1>2 DEF Thinned

(* mergeTUIRecord: what it shows of a record and the rows before it.       *)
LEMMA MergeOne ==
  ASSUME RingInv, NEW old \in Seq(Ids), DistinctRows(old), NEW n \in Ids
  PROVE  /\ MergeTUIRecord(old, n) \in Seq(Ids) /\ DistinctRows(MergeTUIRecord(old, n))
         /\ Range(MergeTUIRecord(old, n)) \subseteq Range(old) \cup {n}
         /\ InTime(old) /\ (n \in Range(old) \/ \A m \in Range(old) : m < n /\ Id(m) # Id(n))
            => /\ InTime(MergeTUIRecord(old, n))
               /\ Thinned(Range(old) \cup {n}, Range(MergeTUIRecord(old, n)), {})
         /\ Len(taken) <= MaxPerSource
            => /\ n \in Range(MergeTUIRecord(old, n))
               /\ \A m \in Range(old) : m \in Range(MergeTUIRecord(old, n)) \/ (Id(m) = Id(n) /\ m # n)
<1> DEFINE all == Merged(old, n)
           new == MergeTUIRecord(old, n)
<1>1. /\ all \in Seq(Ids) /\ DistinctRows(all)
      /\ n \in Range(all) /\ Range(all) \subseteq Range(old) \cup {n}
      /\ \A m \in Range(old) : m \in Range(all) \/ (Id(m) = Id(n) /\ m # n)
  BY MergedRows
<1>2. InTime(old) /\ (n \in Range(old) \/ \A m \in Range(old) : m < n /\ Id(m) # Id(n)) => InTime(all)
  BY MergedInTime
<1>3. new = Limited(all, taken[n].source)
  BY DEF MergeTUIRecord
<1>4. ASSUME n \in Range(old) \/ \A m \in Range(old) : m < n /\ Id(m) # Id(n)
      PROVE  Range(all) = Range(old) \cup {n}
  <2>1. ASSUME n \in Range(old), NEW m \in Range(old), Id(m) = Id(n) PROVE m = n
    <3>1. (\E i \in 1..Len(old) : old[i] = m) /\ (\E i \in 1..Len(old) : old[i] = n)
      BY <2>1, ElementsOf
    <3> QED BY <2>1, <3>1 DEF DistinctRows
  <2>2. \A m \in Range(old) : m \in Range(all)
    BY <1>1, <1>4, <2>1
  <2> QED BY <1>1, <2>2
<1> HIDE DEF all, new
<1>5. /\ new \in Seq(Ids) /\ DistinctRows(new) /\ Range(new) \subseteq Range(all)
      /\ InTime(all) => InTime(new)
      /\ InTime(all) => \A m \in Range(all) \ Range(new) : Enough(Range(new), m)
      /\ Len(taken) <= MaxPerSource => Range(new) = Range(all)
  BY <1>1, <1>3, LimitedRows
<1>6. InTime(old) /\ (n \in Range(old) \/ \A m \in Range(old) : m < n /\ Id(m) # Id(n))
        => InTime(new) /\ Thinned(Range(old) \cup {n}, Range(new), {})
  BY <1>2, <1>4, <1>5 DEF Thinned
<1>7. Len(taken) <= MaxPerSource
        => /\ n \in Range(new)
           /\ \A m \in Range(old) : m \in Range(new) \/ (Id(m) = Id(n) /\ m # n)
  BY <1>1, <1>5
<1>8. Range(new) \subseteq Range(old) \cup {n}
  BY <1>1, <1>5
<1> QED BY <1>5, <1>6, <1>7, <1>8 DEF new

(* The rows after each of the records of a list.                           *)
Stages(f, old, rs) ==
  /\ MergeAll(old, rs) = f[Len(rs)] /\ f[0] = old
  /\ \A k \in 1..Len(rs) : f[k] = MergeTUIRecord(f[k - 1], rs[k])

LEMMA StagesOfMerge ==
  ASSUME NEW old, NEW T, NEW rs \in Seq(T)
  PROVE  \E f : Stages(f, old, rs)
<1> DEFINE Is(f, n) == f = [k \in 0..n |-> IF k = 0 THEN old ELSE MergeTUIRecord(f[k - 1], rs[k])]
           with == {n \in Nat : \E f : Is(f, n)}
<1>1. 0 \in with
  <2>1. Is([k \in 0..0 |-> old], 0)
    OBVIOUS
  <2> QED BY <2>1
<1>2. ASSUME NEW n \in Nat, NEW f, Is(f, n)
      PROVE  n + 1 \in with
  <2> DEFINE g == [k \in 0..(n + 1) |-> IF k = n + 1 THEN MergeTUIRecord(f[n], rs[n + 1]) ELSE f[k]]
  <2>1. ASSUME NEW k \in 0..(n + 1)
        PROVE  g[k] = IF k = 0 THEN old ELSE MergeTUIRecord(g[k - 1], rs[k])
    <3>1. CASE k = n + 1
      <4>1. k - 1 = n /\ n \in 0..(n + 1) /\ n # n + 1 /\ k # 0
        BY <3>1
      <4> QED BY <3>1, <4>1
    <3>2. CASE k # n + 1
      <4>1. k \in 0..n /\ (k # 0 => k - 1 \in 0..n /\ k - 1 \in 0..(n + 1) /\ k - 1 # n + 1)
        BY <3>2
      <4>2. f[k] = IF k = 0 THEN old ELSE MergeTUIRecord(f[k - 1], rs[k])
        BY <1>2, <4>1
      <4> QED BY <3>2, <4>1, <4>2
    <3> QED BY <3>1, <3>2
  <2>2. Is(g, n + 1)
    BY <2>1
  <2>3. n + 1 \in Nat
    OBVIOUS
  <2> HIDE DEF g, Is
  <2> QED BY <2>2, <2>3
<1>3. Len(rs) \in Nat
  BY ElementsOf
<1>4. Len(rs) \in with
  <2>1. \A k \in 1..Len(rs) : k - 1 \in with => k \in with
    <3> SUFFICES ASSUME NEW k \in 1..Len(rs), k - 1 \in with PROVE k \in with
      OBVIOUS
    <3>1. k - 1 \in Nat /\ (k - 1) + 1 = k
      BY <1>3
    <3>2. PICK f : Is(f, k - 1)
      OBVIOUS
    <3> HIDE DEF Is, with
    <3> QED BY <1>2, <3>1, <3>2
  <2> HIDE DEF with
  <2>2. \A k \in 0..Len(rs) : k \in with
    BY <1>1, <1>3, <2>1, StepByStep
  <2> QED BY <1>3, <2>2
<1> HIDE DEF Is
<1> DEFINE F == CHOOSE f : Is(f, Len(rs))
<1>5. Is(F, Len(rs))
  BY <1>4
<1>6. MergeAll(old, rs) = F[Len(rs)]
  BY DEF MergeAll, Is
<1> HIDE DEF F, with
<1>7. /\ F[0] = old
      /\ \A k \in 1..Len(rs) : F[k] = MergeTUIRecord(F[k - 1], rs[k])
  BY <1>3, <1>5 DEF Is
<1> QED BY <1>6, <1>7 DEF Stages

(* The rows stay rows of records, each record one.                         *)
LEMMA MergeList ==
  ASSUME RingInv, NEW old \in Seq(Ids), DistinctRows(old), NEW rs \in Seq(Ids)
  PROVE  /\ MergeAll(old, rs) \in Seq(Ids) /\ DistinctRows(MergeAll(old, rs))
         /\ Range(MergeAll(old, rs)) \subseteq Range(old) \cup Range(rs)
<1>0. Len(rs) \in Nat /\ \A k \in 1..Len(rs) : rs[k] \in Ids /\ rs[k] \in Range(rs)
  BY ElementsOf
<1>1. PICK f : Stages(f, old, rs)
  BY StagesOfMerge
<1> DEFINE good == {k \in 0..Len(rs) : /\ f[k] \in Seq(Ids) /\ DistinctRows(f[k])
                                       /\ Range(f[k]) \subseteq Range(old) \cup Range(rs)}
<1>2. 0 \in good
  BY <1>0, <1>1 DEF Stages
<1>3. ASSUME NEW k \in 1..Len(rs), k - 1 \in good PROVE k \in good
  <2> DEFINE was == f[k - 1]  now == f[k]  n == rs[k]
  <2>1. was \in Seq(Ids) /\ DistinctRows(was) /\ Range(was) \subseteq Range(old) \cup Range(rs)
    BY <1>3
  <2>2. now = MergeTUIRecord(was, n) /\ n \in Ids /\ n \in Range(rs)
    BY <1>0, <1>1 DEF Stages
  <2> HIDE DEF was, now, n
  <2>3. now \in Seq(Ids) /\ DistinctRows(now) /\ Range(now) \subseteq Range(was) \cup {n}
    BY <2>1, <2>2, MergeOne
  <2>4. Range(now) \subseteq Range(old) \cup Range(rs)
    BY <2>1, <2>2, <2>3
  <2>5. k \in 0..Len(rs)
    BY <1>0
  <2> QED BY <2>3, <2>4, <2>5 DEF now
<1>4. Len(rs) \in good
  <2> HIDE DEF good
  <2>1. \A k \in 0..Len(rs) : k \in good
    BY <1>0, <1>2, <1>3, StepByStep
  <2> QED BY <1>0, <2>1
<1> QED BY <1>1, <1>4 DEF Stages

(* Where no id is given twice, records that fit, in the order of time, are *)
(* merged in that order, and only rows that must give way are gone.        *)
UniqueIds == \A m, n \in Ids : m # n => Id(m) # Id(n)

Upto(rs, k) == {rs[i] : i \in 1..k}

LEMMA MergeInTime ==
  ASSUME RingInv, UniqueIds, NEW old \in Seq(Ids), DistinctRows(old), InTime(old),
         NEW rs \in Seq(Ids), InTime(rs), \A n \in Range(rs) : Fits(Range(old), n)
  PROVE  /\ InTime(MergeAll(old, rs))
         /\ Thinned(Range(old) \cup Range(rs), Range(MergeAll(old, rs)), {})
<1>0. /\ Len(rs) \in Nat /\ \A k \in 1..Len(rs) : rs[k] \in Ids /\ rs[k] \in Range(rs)
      /\ \A x \in Range(rs) : \E k \in 1..Len(rs) : rs[k] = x
  BY ElementsOf
<1>1. PICK f : Stages(f, old, rs)
  BY StagesOfMerge
<1> DEFINE Good(k) == /\ f[k] \in Seq(Ids) /\ DistinctRows(f[k]) /\ InTime(f[k])
                      /\ Thinned(Range(old) \cup Upto(rs, k), Range(f[k]), {})
                      /\ \A j \in (k + 1)..Len(rs) : Fits(Range(f[k]), rs[j])
           good == {k \in 0..Len(rs) : Good(k)}
<1>2. Good(0)
  <2>1. f[0] = old /\ Upto(rs, 0) = {}
    BY <1>1 DEF Stages, Upto
  <2>2. Thinned(Range(old) \cup Upto(rs, 0), Range(f[0]), {})
    BY <2>1 DEF Thinned
  <2>3. \A j \in (0 + 1)..Len(rs) : Fits(Range(f[0]), rs[j])
    BY <1>0, <2>1
  <2> QED BY <2>1, <2>2, <2>3
<1>3. ASSUME NEW k \in 1..Len(rs), Good(k - 1) PROVE Good(k)
  <2> DEFINE was == f[k - 1]
             now == f[k]
             n == rs[k]
  <2>1. /\ was \in Seq(Ids) /\ DistinctRows(was) /\ InTime(was)
        /\ Thinned(Range(old) \cup Upto(rs, k - 1), Range(was), {})
        /\ \A j \in k..Len(rs) : Fits(Range(was), rs[j])
    <3>1. (k - 1) + 1 = k
      BY <1>0
    <3> QED BY <1>3, <3>1
  <2>2. now = MergeTUIRecord(was, n) /\ n \in Ids /\ k \in Nat /\ k \in k..Len(rs)
    BY <1>0, <1>1 DEF Stages
  <2> HIDE DEF was, now, n, Good
  <2>3. Range(was) \subseteq Ids
    BY <2>1, ElementsOf
  <2>4. n \in Range(was) \/ \A m \in Range(was) : m < n /\ Id(m) # Id(n)
    <3>1. Fits(Range(was), n)
      BY <2>1, <2>2 DEF n
    <3>2. \A m \in Range(was) : m < n => m # n
      BY <2>2, <2>3 DEF Ids
    <3> QED BY <2>2, <2>3, <3>1, <3>2 DEF Fits, Latest, UniqueIds
  <2>5. /\ now \in Seq(Ids) /\ DistinctRows(now) /\ InTime(now)
        /\ Thinned(Range(was) \cup {n}, Range(now), {})
    BY <2>1, <2>2, <2>4, MergeOne
  <2>6. Upto(rs, k) = Upto(rs, k - 1) \cup {n}
    <3>1. 1..k = (1..(k - 1)) \cup {k}
      BY <2>2
    <3> QED BY <3>1 DEF Upto, n
  <2>7. Upto(rs, k - 1) \subseteq Ids /\ Range(old) \subseteq Ids
    <3>1. 1..(k - 1) \subseteq 1..Len(rs)
      BY <1>0
    <3>2. Range(old) \subseteq Ids
      BY ElementsOf
    <3> QED BY <1>0, <3>1, <3>2 DEF Upto
  <2>8. Thinned(Range(old) \cup Upto(rs, k), Range(now), {})
    <3>1. Thinned((Range(old) \cup Upto(rs, k - 1)) \cup {n}, Range(now), {})
      BY <2>1, <2>2, <2>5, <2>7, ThinnedAgain
    <3>2. (Range(old) \cup Upto(rs, k - 1)) \cup {n} = Range(old) \cup Upto(rs, k)
      BY <2>6
    <3> QED BY <3>1, <3>2
  <2>9. ASSUME NEW j \in (k + 1)..Len(rs) PROVE Fits(Range(now), rs[j])
    <3>1. j \in 1..Len(rs) /\ k < j /\ j \in k..Len(rs)
      BY <1>0, <2>2
    <3>2. Fits(Range(was), rs[j]) /\ n < rs[j] /\ rs[j] \in Ids
      BY <1>0, <2>1, <3>1 DEF InTime, n
    <3>3. rs[j] \in Nat /\ Range(was) \subseteq Nat /\ {n} \subseteq Nat
      <4>1. Ids \subseteq Nat
        BY DEF Ids
      <4> QED BY <2>2, <2>3, <3>2, <4>1
    <3>4. Fits(Range(was) \cup {n}, rs[j])
      BY <3>2, <3>3, FitsAfter
    <3>5. Range(was) \cup {n} \subseteq Ids
      BY <2>2, <2>3
    <3>6. rs[j] \notin {}
      OBVIOUS
    <3> QED BY <2>5, <3>4, <3>5, <3>6, FitsThinned
  <2> QED BY <2>5, <2>8, <2>9 DEF Good, now
<1>4. Good(Len(rs))
  <2>1. 0 \in good
    BY <1>0, <1>2
  <2>2. \A k \in 1..Len(rs) : k - 1 \in good => k \in good
    <3> SUFFICES ASSUME NEW k \in 1..Len(rs), k - 1 \in good PROVE k \in good
      OBVIOUS
    <3>1. Good(k - 1) /\ k \in 0..Len(rs)
      BY <1>0
    <3> HIDE DEF Good
    <3> QED BY <1>3, <3>1
  <2> HIDE DEF good
  <2>3. \A k \in 0..Len(rs) : k \in good
    BY <1>0, <2>1, <2>2, StepByStep
  <2>4. Len(rs) \in good
    BY <1>0, <2>3
  <2> USE DEF good
  <2> HIDE DEF Good
  <2> QED BY <2>4
<1>5. Upto(rs, Len(rs)) = Range(rs)
  BY <1>0 DEF Upto
<1> QED BY <1>1, <1>4, <1>5 DEF Stages
-----------------------------------------------------------------------------
(* What the daemon answers a subscription that it accepts.                 *)
Asked == NewestOf(ring, ReplayPerSource)

LEMMA ReplayOfAsked ==
  ASSUME RingInv
  PROVE  /\ Asked \subseteq ring /\ Asked \subseteq Ids
         /\ InOrder(Asked) \in Seq(Ids) /\ Range(InOrder(Asked)) = Asked /\ InTime(InOrder(Asked))
<1>1. Asked \subseteq ring /\ Asked \subseteq Ids
  BY DEF Asked, NewestOf, RingInv
<1>2. Asked \subseteq Nat /\ IsFiniteSet(Asked)
  BY <1>1, FiniteIds
<1> DEFINE N == Cardinality(Asked)
           o == InOrder(Asked)
<1>3. /\ N \in Nat /\ \A n \in Asked : Place(Asked, n) \in 1..N
      /\ \A m, n \in Asked : m < n => Place(Asked, m) < Place(Asked, n)
  BY <1>2, PlacesCount
<1>4. /\ o \in [1..N -> Asked]
      /\ \A k \in 1..N : Place(Asked, o[k]) = k
      /\ \A n \in Asked : o[Place(Asked, n)] = n
  BY <1>2, InOrderLists
<1> HIDE DEF N, o
<1>5. o \in Seq(Ids) /\ Len(o) = N
  <2>1. o \in [1..N -> Ids]
    BY <1>1, <1>4
  <2> QED BY <1>3, <1>4, <2>1, IsASeq, LenProperties
<1>6. Range(o) = Asked
  BY <1>3, <1>4 DEF Range
<1>7. ASSUME NEW k \in 1..N, NEW l \in 1..N, k < l PROVE o[k] < o[l]
  BY <1>2, <1>7, InOrderRises DEF N, o
<1>8. InTime(o)
  BY <1>5, <1>7 DEF InTime
<1> QED BY <1>1, <1>5, <1>6, <1>8 DEF o

LEMMA CutPipe ==
  ASSUME NEW T, pipe \in Seq(T), Cut
  PROVE  pipe' \in Seq(T) /\ Range(pipe') \subseteq Range(pipe)
         /\ \A x \in Range(pipe) \ Range(pipe'), y \in Range(pipe') :
              \E i, j \in 1..Len(pipe) : i < j /\ pipe[i] = y /\ pipe[j] = x
<1>1. PICK n \in 0..Len(pipe) : pipe' = SubSeq(pipe, 1, n)
  BY DEF Cut
<1>2. pipe' \in Seq(T) /\ Len(pipe') = n /\ \A i \in 1..n : pipe'[i] = pipe[i]
  BY <1>1, PrefixOfSequence
<1>3. Len(pipe) \in Nat /\ n \in Nat /\ 1..n \subseteq 1..Len(pipe)
  <2>1. Len(pipe) \in Nat
    BY ElementsOf
  <2> QED BY <2>1
<1>4. /\ \A i \in 1..Len(pipe) : pipe[i] \in Range(pipe)
      /\ \A x \in Range(pipe) : \E i \in 1..Len(pipe) : pipe[i] = x
  BY ElementsOf
<1>5. /\ \A i \in 1..n : pipe'[i] \in Range(pipe')
      /\ \A x \in Range(pipe') : \E i \in 1..n : pipe'[i] = x
  BY <1>2, ElementsOf
<1>6. Range(pipe') \subseteq Range(pipe)
  BY <1>2, <1>3, <1>4, <1>5
<1>7. ASSUME NEW x \in Range(pipe), x \notin Range(pipe'), NEW y \in Range(pipe')
      PROVE  \E i, j \in 1..Len(pipe) : i < j /\ pipe[i] = y /\ pipe[j] = x
  <2>1. PICK j \in 1..Len(pipe) : pipe[j] = x
    BY <1>4
  <2>2. PICK i \in 1..n : pipe'[i] = y
    BY <1>5
  <2>3. j \notin 1..n
    BY <1>2, <1>5, <1>7, <2>1
  <2>4. i < j
    BY <1>3, <2>3
  <2> QED BY <1>2, <1>3, <2>1, <2>2, <2>4
<1> QED BY <1>2, <1>6, <1>7

LEMMA PipeStep ==
  ASSUME ListsInv, SideInv, [Next]_vars
  PROVE  PipeInv'
<1>0. RingInv /\ PipeInv /\ RingInv'
  BY RingStep DEF ListsInv
<1>1. /\ \A s \in Seq(Ids) : s \in Seq(Ids')
      /\ \A s \in Seq({Complete} \cup Ids) : s \in Seq({Complete} \cup Ids')
      /\ \A n \in {Complete} \cup Ids : n \in {Complete} \cup Ids'
      /\ Ids \subseteq Ids'
  BY <1>0, ListsKept, TakenStays
<1>2. CASE UNCHANGED <<pipe, item, records>>
  BY <1>0, <1>1, <1>2 DEF PipeInv
<1>3. Quiet \/ Showing \/ Announce => PipeInv'
  BY <1>2 DEF Quiet, Showing, Announce, subscriptionVars, readerVars, connection
<1>4. CASE Cutting
  <2>1. pipe' \in Seq({Complete} \cup Ids) /\ UNCHANGED <<item, records>>
    BY <1>0, <1>4, CutPipe DEF Cutting, PipeInv
  <2> QED BY <1>0, <1>1, <2>1 DEF PipeInv
<1>5. CASE Taking
  <2>1. Tail(records) \in Seq(Ids)
    BY <1>0, <1>5, TailOfSequence DEF Taking, PipeInv
  <2>2. UNCHANGED <<pipe, item>> /\ records' = Tail(records)
    BY <1>5 DEF Taking
  <2> QED BY <1>0, <1>1, <2>1, <2>2 DEF PipeInv
<1>6. CASE Dial
  <2>1. pipe' = <<>> /\ item' = 0 /\ records' = <<>>
    BY <1>6 DEF Dial, Subscribed
  <2> QED BY <2>1 DEF PipeInv, Complete
<1>7. CASE Decode
  <2>1. pipe # <<>> /\ pipe' = Tail(pipe) /\ item' \in {item, Head(pipe)} /\ records' = records
    BY <1>7 DEF Decode
  <2>2. Tail(pipe) \in Seq({Complete} \cup Ids) /\ Head(pipe) \in {Complete} \cup Ids
    BY <1>0, <2>1, TailOfSequence DEF PipeInv
  <2> QED BY <1>0, <1>1, <2>1, <2>2 DEF PipeInv
<1>8. CASE Send
  <2>1. pipe' = pipe /\ item' = 0 /\ records' = Append(records, item) /\ item \in Ids
    BY <1>0, <1>8 DEF Send, SideInv, PipeInv, connection
  <2>2. Append(records, item) \in Seq(Ids)
    BY <1>0, <2>1, AppendedElements DEF PipeInv
  <2> QED BY <1>0, <1>1, <2>1, <2>2 DEF PipeInv, Complete
<1>9. CASE Accept
  <2>1. /\ pipe' = Append(InOrder(Asked), Complete) /\ UNCHANGED <<item, records>>
    BY <1>9 DEF Accept, Asked, readerVars
  <2>2. InOrder(Asked) \in Seq({Complete} \cup Ids)
    BY <1>0, ReplayOfAsked, WiderElements
  <2>3. Append(InOrder(Asked), Complete) \in Seq({Complete} \cup Ids)
    BY <2>2, AppendedElements
  <2> QED BY <1>0, <1>1, <2>1, <2>3 DEF PipeInv
<1>10. ASSUME NEW s \in Sources, Publish(s) PROVE PipeInv'
  <2>1. pipe' \in {pipe, Append(pipe, Len(taken'))} /\ UNCHANGED <<item, records>>
    BY <1>10 DEF Publish, readerVars
  <2>2. Len(taken') \in Ids'
    BY <1>0, <1>10, PublishTakes
  <2>3. pipe \in Seq({Complete} \cup Ids')
    BY <1>0, <1>1 DEF PipeInv
  <2>4. Append(pipe, Len(taken')) \in Seq({Complete} \cup Ids')
    BY <2>2, <2>3, AppendedElements
  <2> QED BY <1>0, <1>1, <2>1, <2>3, <2>4 DEF PipeInv
<1> QED BY <1>3, <1>4, <1>5, <1>6, <1>7, <1>8, <1>9, <1>10, ListMoves DEF Moves

LEMMA MessageOf ==
  ASSUME NEW S, NEW rs \in Seq(S)
  PROVE  {Status("connecting"), Status("loading"), Failure, Loaded(rs)} \subseteq Messages(S)
         /\ \A n \in S : Record(n) \in Messages(S)
<1>1. <<>> \in Seq(S) /\ \A n \in S : <<n>> \in Seq(S)
  OBVIOUS
<1> QED BY <1>1 DEF Status, Failure, Loaded, Record, Messages, States

(* What Announce sends is what the goroutine has in hand, or nothing.      *)
LEMMA AnnounceSends ==
  ASSUME ListsInv, WorkInv, Announce
  PROVE  \E e \in Messages(Ids) :
           /\ events' = Append(events, e)
           /\ \/ e.records = got /\ work \in {"deliver", "forward"} /\ work' = "follow" /\ got' = <<>>
              \/ /\ e.records = <<>> /\ got' \in {got, <<>>}
                 /\ work \in {"start", "announce", "unreachable", "report"}
<1>0. got \in Seq(Ids)
  BY DEF ListsInv, RowsInv
<1>1. /\ {Status("connecting"), Status("loading"), Failure, Loaded(got)} \subseteq Messages(Ids)
      /\ \A n \in Ids : Record(n) \in Messages(Ids)
  BY <1>0, MessageOf
<1>2. CASE \/ Emit("start", Status("connecting"), "dial") /\ UNCHANGED got
           \/ Emit("announce", Status("loading"), "load") /\ got' = <<>>
           \/ Emit("unreachable", Failure, "sleep") /\ UNCHANGED got
           \/ Emit("report", Failure, "close") /\ UNCHANGED got
  <2>1. Status("connecting").records = <<>> /\ Status("loading").records = <<>> /\ Failure.records = <<>>
    BY DEF Status, Failure
  <2> QED BY <1>1, <1>2, <2>1 DEF Emit
<1>3. CASE Emit("deliver", Loaded(got), "follow") /\ got' = <<>>
  <2>1. Loaded(got).records = got
    BY DEF Loaded
  <2> QED BY <1>1, <1>3, <2>1 DEF Emit
<1>4. CASE Emit("forward", Record(got[1]), "follow") /\ got' = <<>>
  <2>1. Len(got) = 1
    BY <1>4 DEF Emit, WorkInv
  <2>2. got[1] \in Ids /\ <<got[1]>> = got
    BY <1>0, <2>1
  <2>3. Record(got[1]).records = got
    BY <2>2 DEF Record
  <2> QED BY <1>1, <1>4, <2>2, <2>3 DEF Emit
<1> QED BY <1>2, <1>3, <1>4 DEF Announce

(* The records of an event.                                                *)
LEMMA EventRecords ==
  ASSUME ListsInv
  PROVE  /\ \A i \in 1..Len(events) : events[i] \in Messages(Ids) /\ events[i].records \in Seq(Ids)
         /\ events # <<>> => /\ 1 \in 1..Len(events) /\ Head(events) = events[1]
                             /\ Tail(events) \in Seq(Messages(Ids)) /\ Len(Tail(events)) = Len(events) - 1
                             /\ \A i \in 1..Len(Tail(events)) : Tail(events)[i] = events[i + 1]
<1>0. events \in Seq(Messages(Ids))
  BY DEF ListsInv, RowsInv
<1>1. \A i \in 1..Len(events) : events[i] \in Messages(Ids)
  BY <1>0, ElementsOf
<1>2. \A e \in Messages(Ids) : e.records \in Seq(Ids)
  BY DEF Messages
<1>3. events # <<>> => /\ Len(events) \in Nat /\ Len(events) >= 1 /\ Head(events) = events[1]
                       /\ Tail(events) \in Seq(Messages(Ids)) /\ Len(Tail(events)) = Len(events) - 1
                       /\ \A i \in 1..Len(Tail(events)) : Tail(events)[i] = events[i + 1]
  BY <1>0, TailOfSequence
<1>4. events # <<>> => 1 \in 1..Len(events)
  BY <1>3
<1> QED BY <1>1, <1>2, <1>3, <1>4

LEMMA ShowingRows ==
  ASSUME ListsInv, DistinctRows(rows), Showing
  PROVE  rows' \in Seq(Ids) /\ DistinctRows(rows') /\ events' \in Seq(Messages(Ids))
<1>0. RingInv /\ rows \in Seq(Ids) /\ events \in Seq(Messages(Ids))
  BY DEF ListsInv, RowsInv
<1>1. CASE rows' = <<>> /\ events' = events
  BY <1>0, <1>1 DEF DistinctRows
<1>2. CASE events # <<>> /\ events' = Tail(events) /\ rows' = HandleRecords(Head(events).records)
  <2>1. Tail(events) \in Seq(Messages(Ids)) /\ Head(events).records \in Seq(Ids)
    BY <1>2, EventRecords
  <2>2. MergeAll(rows, Head(events).records) \in Seq(Ids)
        /\ DistinctRows(MergeAll(rows, Head(events).records))
    BY <1>0, <2>1, MergeList
  <2> QED BY <1>0, <1>2, <2>1, <2>2 DEF HandleRecords
<1> QED BY <1>1, <1>2 DEF Showing

LEMMA RowsStep ==
  ASSUME ListsInv, WorkInv, DistinctRows(rows), [Next]_vars
  PROVE  RowsInv' /\ DistinctRows(rows)'
<1>0. RingInv /\ got \in Seq(Ids) /\ rows \in Seq(Ids) /\ events \in Seq(Messages(Ids))
  BY DEF ListsInv, RowsInv
<1>1. /\ \A s \in Seq(Ids) : s \in Seq(Ids')
      /\ \A s \in Seq(Messages(Ids)) : s \in Seq(Messages(Ids'))
      /\ \A n \in Ids : taken'[n] = taken[n]
  BY <1>0, ListsKept, TakenStays
<1>2. <<>> \in Seq(Ids)
  OBVIOUS
<1>3. ASSUME rows' \in Seq(Ids), DistinctRows(rows') PROVE rows' \in Seq(Ids') /\ DistinctRows(rows)'
  <2>1. \A i \in 1..Len(rows') : rows'[i] \in Ids
    BY <1>3, ElementsOf
  <2> QED BY <1>1, <1>3, <2>1 DEF DistinctRows, Id
<1>4. ASSUME rows' \in Seq(Ids), DistinctRows(rows'), got' \in Seq(Ids), events' \in Seq(Messages(Ids))
      PROVE  RowsInv' /\ DistinctRows(rows)'
  BY <1>1, <1>3, <1>4 DEF RowsInv
<1>5. Quiet \/ Cutting => RowsInv' /\ DistinctRows(rows)'
  BY <1>0, <1>2, <1>4 DEF Quiet, Cutting
<1>6. CASE Taking
  <2>1. records # <<>> /\ records \in Seq(Ids) /\ got' = Append(got, Head(records)) /\ UNCHANGED <<events, rows>>
    BY <1>6 DEF Taking, ListsInv, PipeInv
  <2>2. Head(records) \in Ids
    BY <2>1, TailOfSequence
  <2>3. got' \in Seq(Ids)
    BY <1>0, <2>1, <2>2, AppendedElements
  <2> QED BY <1>0, <1>4, <2>1, <2>3
<1>7. CASE Showing
  <2>1. rows' \in Seq(Ids) /\ DistinctRows(rows') /\ events' \in Seq(Messages(Ids)) /\ got' = got
    BY <1>7, ShowingRows DEF Showing
  <2> QED BY <1>0, <1>4, <2>1
<1>8. CASE Announce
  <2>1. PICK e \in Messages(Ids) : events' = Append(events, e) /\ got' \in {got, <<>>}
    BY <1>8, AnnounceSends
  <2>2. events' \in Seq(Messages(Ids))
    BY <1>0, <2>1, AppendedElements
  <2>3. rows' = rows
    BY <1>8 DEF Announce, viewVars
  <2> QED BY <1>0, <1>2, <1>4, <2>1, <2>2, <2>3
<1>9. CASE UNCHANGED <<got, events, rows>>
  BY <1>0, <1>4, <1>9
<1>10. Dial => UNCHANGED <<got, events, rows>>
  BY DEF Dial
<1> QED BY <1>5, <1>6, <1>7, <1>8, <1>9, <1>10, ListMoves DEF Moves
-----------------------------------------------------------------------------
LEMMA SideStep ==
  ASSUME ListsInv, SideInv, [Next]_vars
  PROVE  SideInv'
<1>0. records \in Seq(Ids)
  BY DEF ListsInv, PipeInv
<1> USE DEF SideInv, Readers, Whens, Complete
<1>1. CASE UNCHANGED <<daemon, linked, errs, replayDone, missed, serving, reader, item, records>>
  BY <1>1
<1>2. Announce \/ DialFails \/ Update \/ UpdateClosed \/ User \/ Expunging \/ UNCHANGED vars => SideInv'
  <2>1. Announce \/ DialFails \/ Update \/ UpdateClosed \/ UNCHANGED vars => SideInv'
    BY <1>1 DEF Announce, DialFails, Update, UpdateClosed, vars, subscriptionVars, daemonVars, readerVars,
                connection
  <2>2. User => SideInv'
    BY <1>1 DEF User, TogglePause, ClearKey, ExpungeKey, Quit, subscriptionVars, daemonVars, readerVars,
                connection
  <2>3. Expunging => SideInv'
    BY <1>1 DEF Expunging, ExpungeServed, ExpungeFails, ExpungeEnds, subscriptionVars, daemonVars, readerVars,
                connection
  <2> QED BY <2>1, <2>2, <2>3
<1>3. CASE Dial
  <2>1. Len(<<>>) <= RecordsCap
    BY SubscriptionAssumption
  <2> QED BY <1>3, <2>1 DEF Dial, Subscribed
<1>4. ASSUME NEW at, NEW then, TakeRecord(at, then), UNCHANGED <<daemonVars, connection>> PROVE SideInv'
  <2>1. /\ UNCHANGED <<daemon, linked, errs, replayDone, missed, serving, reader, item>>
        /\ records # <<>> /\ records' = Tail(records)
    BY <1>4 DEF TakeRecord, daemonVars, connection
  <2>2. Len(Tail(records)) = Len(records) - 1 /\ Len(records) \in Nat
    BY <1>0, <2>1, TailOfSequence
  <2>3. Len(records') <= RecordsCap
    BY <2>1, <2>2, SubscriptionAssumption
  <2> QED BY <2>1, <2>3
<1>5. ASSUME NEW at, TakeError(at), UNCHANGED <<daemonVars, connection>> PROVE SideInv'
  BY <1>5 DEF TakeError, daemonVars, connection
<1>6. (ReplayEnds \/ Drained) /\ UNCHANGED <<daemonVars, connection>> => SideInv'
  BY <1>1 DEF ReplayEnds, Drained, daemonVars, readerVars, connection
<1>7. Load \/ Follow => SideInv'
  BY <1>4, <1>5, <1>6 DEF Load, Follow
<1>8. CASE Reconnect \/ Cancel
  BY <1>8 DEF Reconnect, Cancel, Closed, Cut, readerVars
<1>9. CASE Decode \/ Release \/ DecodeFails
  <2>1. UNCHANGED <<daemon, linked, missed, serving, records>>
    BY <1>9 DEF Decode, Release, DecodeFails, daemonVars, connection
  <2>2. CASE Decode
    <3>1. /\ errs' = errs
          /\ \/ replayDone' = TRUE /\ reader' = reader /\ item' = item
             \/ replayDone' = replayDone /\ reader' = "send" /\ item' # Complete
      BY <2>2 DEF Decode
    <3> QED BY <2>1, <3>1
  <2>3. CASE Release \/ DecodeFails
    BY <2>1, <2>3 DEF Release, DecodeFails
  <2> QED BY <1>9, <2>2, <2>3
<1>10. CASE Send
  <2>1. UNCHANGED <<daemon, linked, errs, replayDone, missed, serving>>
    BY <1>10 DEF Send, daemonVars, connection
  <2>2. Len(records) < RecordsCap /\ records' = Append(records, item) /\ item' = 0 /\ reader' = "decode"
    BY <1>10 DEF Send
  <2>3. item \in Ids
    BY <1>10 DEF Send, ListsInv, PipeInv
  <2>4. Len(records') = Len(records) + 1 /\ Len(records) \in Nat
    BY <1>0, <2>2, <2>3, AppendedElements
  <2>5. Len(records') <= RecordsCap
    BY <2>2, <2>4, SubscriptionAssumption
  <2> QED BY <2>1, <2>2, <2>5
<1>11. Accept \/ Join \/ Lose \/ Crash \/ Restart => SideInv'
  <2>1. Accept => SideInv'
    BY DEF Accept, readerVars
  <2>2. CASE Join
    <3>1. linked' = linked /\ linked = TRUE /\ serving' = "live"
      BY <2>2 DEF Join, connection
    <3> QED BY <2>2, <3>1 DEF Join, readerVars
  <2>3. CASE Restart
    BY <2>3 DEF Restart, readerVars, connection
  <2>4. Lose \/ Crash => SideInv'
    BY DEF Lose, Crash, Cut, readerVars
  <2> QED BY <2>1, <2>2, <2>3, <2>4
<1>12. ASSUME NEW s \in Sources, Publish(s) PROVE SideInv'
  BY <1>12 DEF Publish, readerVars
<1> QED BY <1>2, <1>3, <1>7, <1>8, <1>9, <1>10, <1>11, <1>12 DEF Next, Work, Read, Serve, Environment

LEMMA WorkStep ==
  ASSUME ListsInv, WorkInv, [Next]_vars
  PROVE  WorkInv'
<1>0. got \in Seq(Ids) /\ events \in Seq(Messages(Ids))
  BY DEF ListsInv, RowsInv
<1> USE DEF WorkInv, Works
<1>1. CASE UNCHANGED <<work, got, events>>
  BY <1>1
<1>2. CASE Announce
  <2>1. PICK e \in Messages(Ids) : events' = Append(events, e)
    BY <1>2, AnnounceSends
  <2>2. Len(events) \in Nat /\ Len(events') = Len(events) + 1
    BY <1>0, <2>1, AppendedElements
  <2>3. Len(events) < EventsCap
    BY <1>2 DEF Announce, Emit
  <2>4. Len(events') <= EventsCap
    BY <2>2, <2>3, TuiAssumption
  <2> QED BY <1>2, <2>4 DEF Announce, Emit
<1>3. Dial \/ DialFails \/ Reconnect \/ Cancel => WorkInv'
  BY DEF Dial, DialFails, Reconnect, Cancel
<1>4. CASE Load \/ Follow
  <2>1. events' = events
    BY <1>4 DEF Load, Follow
  <2>2. CASE TakeRecord("follow", "forward")
    <3>1. got' = <<Head(records)>> /\ work' = "forward"
      BY <2>2 DEF TakeRecord
    <3> QED BY <2>1, <3>1
  <2>3. CASE TakeRecord("load", "load") \/ TakeRecord("drain", "drain")
    BY <2>1, <2>3 DEF TakeRecord
  <2>4. TakeError("load") \/ TakeError("follow") \/ ReplayEnds \/ Drained => WorkInv'
    BY <2>1 DEF TakeError, ReplayEnds, Drained
  <2> QED BY <1>4, <2>2, <2>3, <2>4 DEF Load, Follow
<1>5. CASE Update
  <2>1. Len(events') = Len(events) - 1 /\ Len(events) \in Nat
    BY <1>0, <1>5, TailOfSequence DEF Update
  <2>2. Len(events') <= EventsCap
    BY <2>1, TuiAssumption
  <2> QED BY <1>5, <2>2 DEF Update, streamVars
<1>6. UpdateClosed \/ User \/ Expunging \/ UNCHANGED vars => WorkInv'
  BY <1>1 DEF UpdateClosed, User, TogglePause, ClearKey, ExpungeKey, Quit, Expunging, ExpungeServed,
              ExpungeFails, ExpungeEnds, vars, streamVars
<1> QED BY <1>1, <1>2, <1>3, <1>4, <1>5, <1>6 DEF Next, Work, streamVars

LEMMA ViewStep ==
  ASSUME ListsInv, ViewInv, [Next]_vars
  PROVE  ViewInv'
<1> USE DEF ViewInv, Whens
<1>1. CASE UNCHANGED viewVars
  BY <1>1 DEF viewVars
<1>2. CASE UNCHANGED <<waiting, state, paused, quit>> /\ holes' \in Whens
  BY <1>2
<1>3. Announce \/ DialFails \/ Load \/ Follow \/ Reconnect \/ Cancel \/ UNCHANGED vars => ViewInv'
  BY <1>1 DEF Announce, DialFails, Load, Follow, Reconnect, Cancel, vars
<1>4. Dial \/ ClearKey \/ Expunging => ViewInv'
  BY <1>2 DEF Dial, ClearKey, ClearAll, Expunging, ExpungeServed, ExpungeFails, ExpungeEnds
<1>5. CASE Update
  <2>1. events # <<>>
    BY <1>5 DEF Update
  <2>2. Head(events) \in Messages(Ids)
    BY <2>1, EventRecords
  <2>3. Head(events).state \in States \cup {"none"}
    BY <2>2 DEF Messages
  <2>4. state' \in States
    BY <1>5, <2>3 DEF Update
  <2> QED BY <1>5, <2>4 DEF Update
<1>6. UpdateClosed \/ ExpungeKey \/ Quit => ViewInv'
  BY DEF UpdateClosed, ExpungeKey, Quit, States
<1>7. CASE TogglePause
  <2>1. paused' \in BOOLEAN
    BY <1>7 DEF TogglePause
  <2>2. UNCHANGED <<waiting, state, quit, holes>>
    BY <1>7 DEF TogglePause
  <2> QED BY <2>1, <2>2
<1> QED BY <1>1, <1>3, <1>4, <1>5, <1>6, <1>7 DEF Next, Work, User

(* The types and the rows, in every reachable state.                       *)
LEMMA Typed == Spec => [](TypeInv /\ DistinctRows(rows))
<1>1. Init => TypeInv /\ DistinctRows(rows)
  <2> SUFFICES ASSUME Init PROVE TypeInv /\ DistinctRows(rows)
    OBVIOUS
  <2>1. Len(<<>>) = 0 /\ \A S : <<>> \in Seq(S)
    OBVIOUS
  <2>2. ListsInv
    BY <2>1 DEF Init, SubscriptionInit, ListsInv, RingInv, PipeInv, RowsInv, Complete
  <2>3. SideInv
    <3>1. Len(<<>>) <= RecordsCap
      BY <2>1, SubscriptionAssumption
    <3>2. records = <<>>
      BY DEF Init, SubscriptionInit
    <3>3. Len(records) <= RecordsCap
      BY <3>1, <3>2
    <3> QED BY <3>3 DEF Init, SubscriptionInit, SideInv, Whens, Readers, Complete
  <2>4. WorkInv
    <3>1. Len(<<>>) <= EventsCap
      BY <2>1, TuiAssumption
    <3> QED BY <3>1 DEF Init, WorkInv, Works
  <2>5. ViewInv
    BY DEF Init, ViewInv, Whens, States
  <2> QED BY <2>1, <2>2, <2>3, <2>4, <2>5 DEF TypeInv, DistinctRows, Init
<1>2. (TypeInv /\ DistinctRows(rows)) /\ [Next]_vars => (TypeInv /\ DistinctRows(rows))'
  <2> SUFFICES ASSUME TypeInv, DistinctRows(rows), [Next]_vars PROVE (TypeInv /\ DistinctRows(rows))'
    OBVIOUS
  <2>1. RingInv' /\ PipeInv' /\ RowsInv' /\ DistinctRows(rows)'
    BY RingStep, PipeStep, RowsStep DEF TypeInv, ListsInv
  <2>2. SideInv' /\ WorkInv' /\ ViewInv'
    BY SideStep, WorkStep, ViewStep DEF TypeInv
  <2> QED BY <2>1, <2>2 DEF TypeInv, ListsInv
<1> QED BY <1>1, <1>2, PTL DEF Spec

(* The variables have their types and the channels keep their bounds,      *)
(* however fast the daemon sends and however slowly the program updates    *)
(* (sendTUIEvent, records <- record).                                      *)
THEOREM TypeCorrect == Spec => []TypeOK
<1>1. TypeInv => TypeOK
  <2> SUFFICES ASSUME TypeInv PROVE TypeOK
    OBVIOUS
  <2>1. Ids \subseteq Nat /\ {Complete} \cup Ids \subseteq Nat
    <3>1. Ids \subseteq Nat
      BY FiniteIds DEF TypeInv, ListsInv
    <3> QED BY <3>1 DEF Complete
  <2>2. pipe \in Seq(Nat) /\ records \in Seq(Nat) /\ item \in Nat
    BY <2>1, WiderElements DEF TypeInv, ListsInv, PipeInv
  <2>3. SubscriptionTypeOK
    BY <2>2 DEF TypeInv, ListsInv, RingInv, SideInv, Taken, Ids, SubscriptionTypeOK, Complete
  <2>4. got \in Seq(1..Len(taken)) /\ rows \in Seq(1..Len(taken))
    BY DEF TypeInv, ListsInv, RowsInv, Ids
  <2> QED BY <2>3, <2>4 DEF TypeInv, WorkInv, ViewInv, TypeOK
<1> QED BY <1>1, Typed, PTL

(* No record is shown twice, whatever is replayed after a connection was   *)
(* lost or a daemon gave its ids again (mergeTUIRecord, handleRecord).     *)
THEOREM OneRow == Spec => []OneRowPerRecord
<1>1. DistinctRows(rows) => OneRowPerRecord
  BY DEF DistinctRows, OneRowPerRecord
<1> QED BY <1>1, Typed, PTL
-----------------------------------------------------------------------------
(* Where the goroutine still takes from its subscription, or sends what it *)
(* took.                                                                   *)
Listening == {"announce", "load", "drain", "deliver", "follow", "forward"}

(* The records on their way, from the connection to an event, are in the   *)
(* order of time.                                                          *)
Ordered(list) ==
  \A i, j \in 1..Len(list) : i < j /\ list[i] # Complete /\ list[j] # Complete => list[i] < list[j]

Ahead(A, B) == \A a \in A, b \in B : a # Complete /\ b # Complete => a < b

LineInv ==
  /\ \A i \in 1..Len(events) : InTime(events[i].records)
  /\ InTime(got) /\ InTime(records) /\ Ordered(pipe)
  /\ Ahead(Range(got), Range(records)) /\ Ahead(Range(got), {item}) /\ Ahead(Range(got), Range(pipe))
  /\ Ahead(Range(records), {item}) /\ Ahead(Range(records), Range(pipe))
  /\ Ahead({item}, Range(pipe))

LEMMA InTimeAppend ==
  ASSUME NEW s \in Seq(Ids), InTime(s), NEW n \in Ids, \A m \in Range(s) : m < n
  PROVE  InTime(Append(s, n))
<1> DEFINE new == Append(s, n)
<1>1. /\ Len(s) \in Nat /\ Len(new) = Len(s) + 1
      /\ \A i \in 1..Len(s) : new[i] = s[i]
      /\ new[Len(s) + 1] = n
  BY AppendedElements
<1>2. \A i \in 1..Len(s) : s[i] \in Range(s)
  BY ElementsOf
<1> HIDE DEF new
<1>3. \A i \in 1..Len(new) : i \in 1..Len(s) \/ i = Len(s) + 1
  BY <1>1
<1>4. \A i, j \in 1..Len(new) : i < j => i \in 1..Len(s)
  BY <1>1, <1>3
<1> QED BY <1>1, <1>2, <1>3, <1>4 DEF InTime, new

LEMMA InTimeTail ==
  ASSUME NEW T, NEW s \in Seq(T), s # <<>>, InTime(s)
  PROVE  InTime(Tail(s)) /\ \A m \in Range(Tail(s)) : Head(s) < m
<1> DEFINE rest == Tail(s)
<1>1. /\ rest \in Seq(T) /\ Len(s) \in Nat /\ Len(s) >= 1 /\ Len(rest) = Len(s) - 1
      /\ \A i \in 1..Len(rest) : rest[i] = s[i + 1]
      /\ Head(s) = s[1]
  BY TailOfSequence
<1> HIDE DEF rest
<1>2. \A i \in 1..Len(rest) : i + 1 \in 1..Len(s) /\ 1 < i + 1
  BY <1>1
<1>3. \A i, j \in 1..Len(rest) : i < j => i + 1 < j + 1
  BY <1>1
<1>4. InTime(rest)
  BY <1>1, <1>2, <1>3 DEF InTime
<1>5. 1 \in 1..Len(s)
  BY <1>1
<1>6. \A i \in 1..Len(rest) : Head(s) < rest[i]
  BY <1>1, <1>2, <1>5 DEF InTime
<1>7. \A m \in Range(rest) : \E i \in 1..Len(rest) : rest[i] = m
  BY <1>1, ElementsOf
<1> QED BY <1>4, <1>6, <1>7 DEF rest

LEMMA OrderedTail ==
  ASSUME NEW T, NEW s \in Seq(T), s # <<>>, Ordered(s)
  PROVE  Ordered(Tail(s)) /\ Ahead({Head(s)}, Range(Tail(s)))
<1> DEFINE rest == Tail(s)
<1>1. /\ rest \in Seq(T) /\ Len(s) \in Nat /\ Len(s) >= 1 /\ Len(rest) = Len(s) - 1
      /\ \A i \in 1..Len(rest) : rest[i] = s[i + 1]
      /\ Head(s) = s[1]
  BY TailOfSequence
<1> HIDE DEF rest
<1>2. \A i \in 1..Len(rest) : i + 1 \in 1..Len(s) /\ 1 < i + 1
  BY <1>1
<1>3. \A i, j \in 1..Len(rest) : i < j => i + 1 < j + 1
  BY <1>1
<1>4. Ordered(rest)
  BY <1>1, <1>2, <1>3 DEF Ordered
<1>5. 1 \in 1..Len(s)
  BY <1>1
<1>6. \A i \in 1..Len(rest) : Head(s) # Complete /\ rest[i] # Complete => Head(s) < rest[i]
  BY <1>1, <1>2, <1>5 DEF Ordered
<1>7. \A m \in Range(rest) : \E i \in 1..Len(rest) : rest[i] = m
  BY <1>1, ElementsOf
<1> QED BY <1>4, <1>6, <1>7 DEF rest, Ahead

LEMMA OrderedAppend ==
  ASSUME NEW T, NEW s \in Seq(T), Ordered(s), NEW n \in T, Ahead(Range(s), {n})
  PROVE  Ordered(Append(s, n))
<1> DEFINE new == Append(s, n)
<1>1. /\ Len(s) \in Nat /\ Len(new) = Len(s) + 1
      /\ \A i \in 1..Len(s) : new[i] = s[i]
      /\ new[Len(s) + 1] = n
  BY AppendedElements
<1>2. \A i \in 1..Len(s) : s[i] \in Range(s)
  BY ElementsOf
<1> HIDE DEF new
<1>3. \A i \in 1..Len(new) : i \in 1..Len(s) \/ i = Len(s) + 1
  BY <1>1
<1>4. \A i, j \in 1..Len(new) : i < j => i \in 1..Len(s)
  BY <1>1, <1>3
<1> QED BY <1>1, <1>2, <1>3, <1>4 DEF Ordered, Ahead, new

(* A connection stands as long as the goroutine and the reader follow it;  *)
(* until the daemon answers there is nothing on its way.                   *)
FollowInv ==
  /\ linked => ~errs /\ reader \in {"decode", "send"} /\ work \in Listening
  /\ serving = "waiting" => pipe = <<>> /\ records = <<>> /\ item = Complete /\ got = <<>>

LEMMA LineStep ==
  ASSUME TypeInv, LineInv, FollowInv, [Next]_vars
  PROVE  LineInv'
<1>0. /\ RingInv /\ PipeInv /\ RowsInv
      /\ Range(got) \subseteq Ids /\ Range(records) \subseteq Ids /\ Range(pipe) \subseteq {Complete} \cup Ids
      /\ Range(<<>>) = {} /\ InTime(<<>>) /\ Ordered(<<>>)
  <2>1. RingInv /\ PipeInv /\ RowsInv
    BY DEF TypeInv, ListsInv
  <2>2. InTime(<<>>) /\ Ordered(<<>>)
    BY DEF InTime, Ordered
  <2>3. Range(got) \subseteq Ids /\ Range(records) \subseteq Ids /\ Range(pipe) \subseteq {Complete} \cup Ids
    BY <2>1, ElementsOf DEF PipeInv, RowsInv
  <2> QED BY <2>1, <2>2, <2>3, RangeOfNothing
<1>1. ASSUME got' \in {got, <<>>}, UNCHANGED <<pipe, item, records, events>> PROVE LineInv'
  BY <1>0, <1>1 DEF LineInv, Ahead
<1>2. CASE Quiet
  BY <1>1, <1>2 DEF Quiet
<1>3. CASE Cutting
  <2>1. got' \in {got, <<>>} /\ UNCHANGED <<item, records, events>>
    BY <1>3 DEF Cutting
  <2>2. Range(pipe') \subseteq Range(pipe)
    BY <1>0, <1>3, CutPipe DEF Cutting, PipeInv
  <2>3. Ordered(pipe')
    <3>1. PICK n \in 0..Len(pipe) : pipe' = SubSeq(pipe, 1, n)
      BY <1>3 DEF Cutting, Cut
    <3>2. Len(pipe') = n /\ \A i \in 1..n : pipe'[i] = pipe[i]
      BY <1>0, <3>1, PrefixOfSequence DEF PipeInv
    <3>3. 1..n \subseteq 1..Len(pipe)
      <4>1. Len(pipe) \in Nat
        BY <1>0, ElementsOf DEF PipeInv
      <4> QED BY <4>1
    <3> QED BY <3>2, <3>3 DEF LineInv, Ordered
  <2> QED BY <1>0, <2>1, <2>2, <2>3 DEF LineInv, Ahead
<1>4. CASE Taking
  <2>1. /\ records # <<>> /\ records \in Seq(Ids) /\ got \in Seq(Ids)
        /\ got' = Append(got, Head(records)) /\ records' = Tail(records)
        /\ UNCHANGED <<pipe, item, events>>
    BY <1>0, <1>4 DEF Taking, PipeInv, RowsInv
  <2>2. Head(records) \in Ids /\ Head(records) \in Range(records)
        /\ Range(records) = {Head(records)} \cup Range(records')
    BY <2>1, TailOfSequence, RangeOfTail
  <2>3. Range(got') = Range(got) \cup {Head(records)}
    BY <2>1, <2>2, RangeOfAppend
  <2>4. InTime(records') /\ \A m \in Range(records') : Head(records) < m
    BY <2>1, InTimeTail DEF LineInv
  <2>5. \A m \in Range(got) : m < Head(records)
    BY <1>0, <2>2 DEF LineInv, Ahead, Ids, Complete
  <2>6. InTime(got')
    BY <2>1, <2>2, <2>5, InTimeAppend DEF LineInv
  <2> QED BY <2>1, <2>2, <2>3, <2>4, <2>6 DEF LineInv, Ahead
<1>5. CASE Showing
  <2>1. UNCHANGED <<pipe, item, records, got>>
    BY <1>5 DEF Showing
  <2>2. \A i \in 1..Len(events') : InTime(events'[i].records)
    <3>1. CASE events' = events
      BY <3>1 DEF LineInv
    <3>2. CASE events # <<>> /\ events' = Tail(events)
      <4>1. /\ Len(events') = Len(events) - 1 /\ \A i \in 1..Len(events') : events'[i] = events[i + 1]
            /\ Len(events) \in Nat
        BY <1>0, <3>2, TailOfSequence DEF RowsInv
      <4>2. \A i \in 1..Len(events') : i + 1 \in 1..Len(events)
        BY <4>1
      <4> QED BY <4>1, <4>2 DEF LineInv
    <3> QED BY <1>5, <3>1, <3>2 DEF Showing
  <2> QED BY <2>1, <2>2 DEF LineInv
<1>6. CASE Announce
  <2>1. PICK e \in Messages(Ids) : /\ events' = Append(events, e) /\ got' \in {got, <<>>}
                                   /\ e.records \in {got, <<>>}
    BY <1>6, AnnounceSends DEF TypeInv
  <2>2. UNCHANGED <<pipe, item, records>>
    BY <1>6 DEF Announce, subscriptionVars, readerVars, connection
  <2>3. /\ Len(events) \in Nat /\ Len(events') = Len(events) + 1
        /\ \A i \in 1..Len(events) : events'[i] = events[i]
        /\ events'[Len(events) + 1] = e
    BY <1>0, <2>1, AppendedElements DEF RowsInv
  <2>4. \A i \in 1..Len(events') : i \in 1..Len(events) \/ i = Len(events) + 1
    BY <2>3
  <2>5. \A i \in 1..Len(events') : InTime(events'[i].records)
    BY <1>0, <2>1, <2>3, <2>4 DEF LineInv
  <2> QED BY <1>0, <2>1, <2>2, <2>5 DEF LineInv, Ahead
<1>7. CASE Dial
  <2>1. pipe' = <<>> /\ item' = Complete /\ records' = <<>> /\ UNCHANGED <<got, events>>
    BY <1>7 DEF Dial, Subscribed, Complete
  <2> QED BY <1>0, <2>1 DEF LineInv, Ahead
<1>8. CASE Decode /\ UNCHANGED <<got, events>>
  <2>1. pipe # <<>> /\ pipe' = Tail(pipe) /\ item' \in {item, Head(pipe)} /\ records' = records
        /\ item = Complete
    BY <1>8 DEF Decode, TypeInv, SideInv
  <2>2. Ordered(pipe') /\ Ahead({Head(pipe)}, Range(pipe')) /\ Range(pipe) = {Head(pipe)} \cup Range(pipe')
    BY <1>0, <2>1, OrderedTail, RangeOfTail DEF LineInv, PipeInv
  <2> QED BY <1>8, <2>1, <2>2 DEF LineInv, Ahead
<1>9. CASE Send /\ UNCHANGED <<got, events>>
  <2>1. pipe' = pipe /\ item' = Complete /\ records' = Append(records, item) /\ item \in Ids /\ item # Complete
    BY <1>0, <1>9 DEF Send, SideInv, TypeInv, PipeInv, connection, Complete
  <2>2. Range(records') = Range(records) \cup {item}
    BY <1>0, <2>1, RangeOfAppend DEF PipeInv
  <2>3. \A m \in Range(records) : m < item
    BY <1>0, <2>1 DEF LineInv, Ahead, Ids, Complete
  <2>4. InTime(records')
    BY <1>0, <2>1, <2>3, InTimeAppend DEF LineInv, PipeInv
  <2> QED BY <1>9, <2>1, <2>2, <2>4 DEF LineInv, Ahead
<1>10. CASE Accept /\ UNCHANGED <<got, events>>
  <2>1. pipe' = Append(InOrder(Asked), Complete) /\ UNCHANGED <<item, records>>
    BY <1>10 DEF Accept, Asked, readerVars
  <2>2. records = <<>> /\ item = Complete /\ got = <<>>
    BY <1>10 DEF Accept, FollowInv
  <2>3. InOrder(Asked) \in Seq({Complete} \cup Ids) /\ Ordered(InOrder(Asked))
    BY <1>0, ReplayOfAsked, WiderElements DEF InTime, Ordered
  <2>4. Ahead(Range(InOrder(Asked)), {Complete})
    BY DEF Ahead
  <2>5. Ordered(pipe')
    BY <2>1, <2>3, <2>4, OrderedAppend
  <2> QED BY <1>0, <1>10, <2>1, <2>2, <2>5 DEF LineInv, Ahead
<1>11. ASSUME NEW s \in Sources, Publish(s), UNCHANGED <<got, events>> PROVE LineInv'
  <2>1. UNCHANGED <<item, records>> /\ pipe' \in {pipe, Append(pipe, Len(taken'))}
    BY <1>11 DEF Publish, readerVars
  <2>2. CASE pipe' = pipe
    BY <1>1, <1>11, <2>1, <2>2
  <2>3. CASE pipe' = Append(pipe, Len(taken'))
    <3> DEFINE n == Len(taken')
    <3>1. Ids' = Ids \cup {n} /\ n \in Ids' /\ \A m \in Ids : m < n
      BY <1>0, <1>11, PublishTakes
    <3>2. pipe \in Seq({Complete} \cup Ids')
      BY <1>0, <3>1, WiderElements DEF PipeInv
    <3> HIDE DEF n
    <3>3. Ahead(Range(pipe), {n}) /\ Ahead(Range(got), {n}) /\ Ahead(Range(records), {n}) /\ Ahead({item}, {n})
      BY <1>0, <3>1 DEF Ahead, PipeInv
    <3>4. pipe' = Append(pipe, n)
      BY <2>3 DEF n
    <3>5. Ordered(pipe') /\ Range(pipe') = Range(pipe) \cup {n}
      BY <3>1, <3>2, <3>3, <3>4, OrderedAppend, RangeOfAppend DEF LineInv
    <3> QED BY <1>11, <2>1, <3>3, <3>5 DEF LineInv, Ahead
  <2> QED BY <2>1, <2>2, <2>3
<1> QED BY <1>2, <1>3, <1>4, <1>5, <1>6, <1>7, <1>8, <1>9, <1>10, <1>11, ListMoves DEF Moves

-----------------------------------------------------------------------------
(* Of the records of a source the daemon retains all after the first.      *)
Retained ==
  \A n \in ring, m \in Ids : m > n /\ taken[m].source = taken[n].source => m \in ring

(* A record that is published is asked for at once, and no older one again. *)
LEMMA PublishKeeps ==
  ASSUME RingInv, Retained, NEW s \in Sources, Publish(s)
  PROVE  Retained' /\ Asked' \subseteq Asked \cup {Len(taken')}
<1> DEFINE N == Len(taken')
           all == ring \cup {N}
           Of(n) == {m \in all : m > n /\ taken'[m].source = taken'[n].source}
           Had(n) == {m \in ring : m > n /\ taken[m].source = taken[n].source}
           Has(n) == {m \in ring' : m > n /\ taken'[m].source = taken'[n].source}
<1>1. /\ N \in Nat /\ Ids' = Ids \cup {N} /\ \A n \in Ids : n < N /\ taken'[n] = taken[n]
      /\ ring \subseteq Ids /\ Ids \subseteq Nat /\ Ids' = 1..N
  <2>1. Len(taken) \in Nat /\ N = Len(taken) + 1
    BY PublishTakes
  <2>2. Ids' = Ids \cup {N} /\ \A n \in Ids : n < N /\ taken'[n] = taken[n]
    BY PublishTakes
  <2>3. ring \subseteq Ids /\ Ids \subseteq Nat /\ Ids' = 1..N
    BY <2>1 DEF RingInv, Ids
  <2> QED BY <2>1, <2>2, <2>3
<1>2. ring' = {n \in all : Cardinality(Of(n)) < MaxRecords}
  BY DEF Publish
<1>3. IsFiniteSet(1..N)
  BY <1>1, FirstNumbers
<1> HIDE DEF N
<1>4. all \subseteq Nat /\ \A n \in all : Of(n) \subseteq 1..N
  BY <1>1
<1> HIDE DEF all
<1>5. \A n \in all : IsFiniteSet(Of(n)) /\ Cardinality(Of(n)) \in Nat
  BY <1>3, <1>4, FS_Subset, FS_CardinalityType
<1>6. ASSUME NEW n \in ring', NEW m \in all, m > n, taken'[m].source = taken'[n].source
      PROVE  m \in ring'
  <2>1. n \in all /\ n \in Nat /\ m \in Nat /\ Cardinality(Of(n)) < MaxRecords
    BY <1>2, <1>4
  <2>2. \A k \in all : k > m => k > n
    BY <1>4, <1>6, <2>1
  <2>3. Of(m) \subseteq Of(n)
    BY <1>6, <2>2
  <2> HIDE DEF Of
  <2>4. Cardinality(Of(m)) <= Cardinality(Of(n))
    BY <1>5, <2>1, <2>3, FS_Subset
  <2>5. Cardinality(Of(m)) \in Nat /\ Cardinality(Of(n)) \in Nat /\ MaxRecords \in Nat
    BY <1>5, <2>1, SubscriptionAssumption
  <2>6. Cardinality(Of(m)) < MaxRecords
    BY <2>1, <2>4, <2>5
  <2> QED BY <1>2, <2>6
<1>7. ASSUME NEW n \in ring', NEW m \in Ids', m > n, taken'[m].source = taken'[n].source
      PROVE  m \in ring'
  <2>1. n \in all /\ n \in Ids' /\ n \in Nat /\ m \in Nat
    BY <1>1, <1>2 DEF all
  <2>2. CASE m = N
    BY <1>6, <1>7, <2>2 DEF all
  <2>3. CASE m # N
    <3>1. m \in Ids /\ m < N /\ n # N
      BY <1>1, <1>7, <2>1, <2>3
    <3>2. n \in Ids /\ n \in ring
      BY <1>1, <2>1, <3>1 DEF all
    <3>3. taken[m].source = taken[n].source
      BY <1>1, <1>7, <3>1, <3>2
    <3>4. m \in all
      BY <1>7, <3>1, <3>2, <3>3 DEF Retained, all
    <3> QED BY <1>6, <1>7, <3>4
  <2> QED BY <2>2, <2>3
<1>8. ASSUME NEW n \in Asked', n # N PROVE n \in Asked
  <2>1. n \in ring' /\ Cardinality(Has(n)) < ReplayPerSource
    BY <1>8 DEF Asked, NewestOf
  <2>2. n \in ring /\ n \in Ids
    BY <1>1, <1>2, <1>8, <2>1 DEF all
  <2>3. Had(n) \subseteq Has(n)
    <3> SUFFICES ASSUME NEW m \in ring, m > n, taken[m].source = taken[n].source
                 PROVE  m \in ring' /\ taken'[m].source = taken'[n].source
      OBVIOUS
    <3>1. taken'[m].source = taken'[n].source /\ m \in Ids'
      BY <1>1, <2>2
    <3> QED BY <1>7, <2>1, <3>1
  <2>4. Has(n) \subseteq 1..N
    BY <1>1, <1>2 DEF all
  <2> HIDE DEF Has, Had
  <2>5. IsFiniteSet(Has(n)) /\ Cardinality(Has(n)) \in Nat
    BY <1>3, <2>4, FS_Subset, FS_CardinalityType
  <2>6. Cardinality(Had(n)) <= Cardinality(Has(n)) /\ Cardinality(Had(n)) \in Nat
    BY <2>3, <2>5, FS_Subset, FS_CardinalityType
  <2>7. Cardinality(Had(n)) < ReplayPerSource
    BY <2>1, <2>5, <2>6, SubscriptionAssumption
  <2> QED BY <2>2, <2>7 DEF Had, Asked, NewestOf
<1>9. Retained'
  BY <1>7 DEF Retained
<1>10. Asked' \subseteq Asked \cup {N}
  BY <1>8
<1> QED BY <1>9, <1>10 DEF N

LEMMA RetainedStep ==
  ASSUME RingInv, Retained, [Next]_vars
  PROVE  Retained'
<1>1. CASE taken' = taken /\ ring' \in {ring, {}}
  BY <1>1 DEF Retained, Ids
<1> QED BY <1>1, PublishKeeps, TakenMoves

LEMMA FollowStep ==
  ASSUME TypeInv, FollowInv, [Next]_vars
  PROVE  FollowInv'
<1>0. /\ SideInv /\ WorkInv /\ SideInv' /\ (linked <=> serving # "none") /\ (linked' <=> serving' # "none")
      /\ work \in {"start", "dial", "unreachable", "announce", "sleep", "follow"} => got = <<>>
  BY SideStep DEF TypeInv, SideInv, WorkInv
<1> USE DEF subscriptionVars, daemonVars, readerVars, connection, streamVars, viewVars
<1> DEFINE Still == UNCHANGED <<linked, serving, pipe, reader, item, records, errs>>
<1>1. ASSUME ~linked' PROVE FollowInv'
  BY <1>0, <1>1 DEF FollowInv
<1>2. ASSUME Still, got' \in {got, <<>>}, work' = work \/ work' \in Listening PROVE FollowInv'
  BY <1>2 DEF FollowInv
<1>3. CASE ~linked /\ UNCHANGED <<linked, serving>>
  BY <1>1, <1>3
<1>4. Announce => FollowInv'
  <2>1. Emit("start", Status("connecting"), "dial") => work \notin Listening
    BY DEF Emit, Listening
  <2>2. Emit("unreachable", Failure, "sleep") \/ Emit("report", Failure, "close") => work \notin Listening
    BY DEF Emit, Listening
  <2>3. Emit("announce", Status("loading"), "load") => work' \in Listening
    BY DEF Emit, Listening
  <2>4. Emit("deliver", Loaded(got), "follow") \/ Emit("forward", Record(got[1]), "follow")
          => work' \in Listening
    BY DEF Emit, Listening
  <2>5. work \notin Listening => ~linked
    BY DEF FollowInv
  <2>6. Announce => Still /\ got' \in {got, <<>>}
    BY DEF Announce
  <2>7. Announce => work' \in Listening \/ ~linked
    BY <2>1, <2>2, <2>3, <2>4, <2>5 DEF Announce
  <2> QED BY <1>2, <1>3, <2>6, <2>7
<1>5. CASE Dial
  <2>1. work = "dial" /\ reader' = "decode" /\ errs' = FALSE /\ work' = "announce"
    BY <1>5 DEF Dial, Subscribed
  <2>2. pipe' = <<>> /\ records' = <<>> /\ item' = Complete /\ got' = got
    BY <1>5 DEF Dial, Subscribed, Complete
  <2>3. got = <<>>
    BY <1>0, <2>1
  <2> QED BY <2>1, <2>2, <2>3 DEF FollowInv, Listening
<1>6. CASE DialFails
  <2>1. ~linked /\ UNCHANGED <<linked, serving>>
    BY <1>6 DEF DialFails, FollowInv, Listening
  <2> QED BY <1>3, <2>1
<1>7. ASSUME Load \/ Follow PROVE FollowInv'
  <2>1. UNCHANGED <<linked, serving, pipe>>
    BY <1>7 DEF Load, Follow
  <2>2. CASE linked
    <3>1. ~errs /\ reader \in {"decode", "send"}
      BY <2>2 DEF FollowInv
    <3>2. ~TakeError("load") /\ ~TakeError("follow")
      BY <3>1 DEF TakeError, ErrorsClosed, RecordsClosed
    <3>3. UNCHANGED <<reader, item, errs>> /\ work' \in Listening
      BY <1>7, <3>2 DEF Load, Follow, TakeRecord, ReplayEnds, Drained, Listening
    <3>4. serving = "waiting" => UNCHANGED <<got, records>>
      BY <1>7, <3>2 DEF Load, Follow, TakeRecord, ReplayEnds, Drained, FollowInv
    <3> QED BY <2>1, <3>3, <3>4 DEF FollowInv
  <2> QED BY <1>3, <2>1, <2>2
<1>8. CASE Reconnect
  <2>1. work \notin Listening
    BY <1>8 DEF Reconnect, Listening
  <2>2. ~linked
    BY <2>1 DEF FollowInv
  <2> QED BY <1>3, <1>8, <2>2 DEF Reconnect, Closed
<1>9. CASE Cancel
  <2>1. ~linked'
    BY <1>0, <1>9 DEF Cancel, Closed, Cut, SideInv
  <2> QED BY <1>1, <2>1
<1>10. Update \/ UpdateClosed \/ User \/ Expunging \/ UNCHANGED vars => FollowInv'
  <2>1. Update \/ UpdateClosed => Still /\ UNCHANGED <<got, work>>
    BY DEF Update, UpdateClosed
  <2>2. User => Still /\ UNCHANGED <<got, work>>
    BY DEF User, TogglePause, ClearKey, ExpungeKey, Quit
  <2>3. Expunging \/ UNCHANGED vars => Still /\ UNCHANGED <<got, work>>
    BY DEF Expunging, ExpungeServed, ExpungeFails, ExpungeEnds, vars
  <2> HIDE DEF Still
  <2> QED BY <1>2, <2>1, <2>2, <2>3
<1>11. ASSUME Read \/ Serve \/ Environment, UNCHANGED <<streamVars, events, viewVars>> PROVE FollowInv'
  <2>1. UNCHANGED <<got, work>>
    BY <1>11
  <2>2. CASE Decode
    <3>1. pipe # <<>> /\ UNCHANGED <<linked, serving, records, errs>> /\ reader' \in {"decode", "send"}
      BY <2>2 DEF Decode
    <3>2. serving # "waiting"
      BY <3>1 DEF FollowInv
    <3> QED BY <2>1, <3>1, <3>2 DEF FollowInv
  <2>3. CASE Send
    <3>1. reader = "send" /\ UNCHANGED <<linked, serving, errs>> /\ reader' \in {"decode", "send"}
      BY <2>3 DEF Send
    <3>2. serving # "waiting"
      BY <1>0, <3>1 DEF FollowInv, SideInv
    <3> QED BY <2>1, <3>1, <3>2 DEF FollowInv
  <2>4. CASE DecodeFails
    BY <1>3, <2>4 DEF DecodeFails
  <2>5. CASE Release
    <3>1. ~linked /\ UNCHANGED <<linked, serving>>
      BY <2>5 DEF Release, FollowInv
    <3> QED BY <1>3, <3>1
  <2>6. CASE Accept \/ Join
    <3>1. serving' # "waiting" /\ UNCHANGED <<linked, reader, errs>>
      BY <2>6 DEF Accept, Join
    <3> QED BY <2>1, <3>1 DEF FollowInv
  <2>7. ASSUME NEW s \in Sources, Publish(s) PROVE FollowInv'
    <3>1. UNCHANGED <<linked, serving, reader, item, records, errs>> /\ (pipe' = pipe \/ serving = "live")
      BY <2>7 DEF Publish
    <3>2. UNCHANGED <<linked, serving, reader, item, records, errs>>
      BY <2>7 DEF Publish
    <3> QED BY <2>1, <3>1, <3>2 DEF FollowInv
  <2>8. CASE Lose \/ Crash
    BY <1>1, <2>8 DEF Lose, Crash, Cut
  <2>9. CASE Restart
    <3>1. Still
      BY <2>9 DEF Restart
    <3> QED BY <1>2, <2>1, <3>1
  <2> QED BY <1>11, <2>2, <2>3, <2>4, <2>5, <2>6, <2>7, <2>8, <2>9 DEF Read, Serve, Environment
<1> QED BY <1>4, <1>5, <1>6, <1>7, <1>8, <1>9, <1>10, <1>11 DEF Next, Work

-----------------------------------------------------------------------------
(* The records that are shown when the events before the i-th have been,   *)
(* with none of them gone.                                                 *)
Seen(list, evs, i) == Range(list) \cup UNION {Range(evs[j].records) : j \in 1..(i - 1)}

AllSeen(list, evs) == Seen(list, evs, Len(evs) + 1)

(* The rows are in the order of time and stay so: each record in an event, *)
(* and each that is coming, fits the rows there are then; and each of the  *)
(* records that the daemon would replay is shown or coming, or later than  *)
(* all that are.  If the daemon has answered they are shown or coming.     *)
Orderly(list, evs, coming, asked, answered) ==
  /\ InTime(list)
  /\ \A i \in 1..Len(evs) : \A n \in Range(evs[i].records) : Fits(Seen(list, evs, i), n)
  /\ \A n \in coming : Fits(AllSeen(list, evs), n)
  /\ \A n \in asked : n \in AllSeen(list, evs) \cup coming \/ Latest(AllSeen(list, evs) \cup coming, n)
  /\ answered => asked \subseteq AllSeen(list, evs) \cup coming

LEMMA SeenIds ==
  ASSUME NEW list \in Seq(Ids), NEW evs \in Seq(Messages(Ids))
  PROVE  /\ Len(evs) \in Nat /\ \A i \in 1..Len(evs) : Range(evs[i].records) \subseteq Ids
         /\ \A i \in 1..(Len(evs) + 1) : Seen(list, evs, i) \subseteq Ids
         /\ AllSeen(list, evs) \subseteq Ids
<1>1. Len(evs) \in Nat /\ \A i \in 1..Len(evs) : evs[i] \in Messages(Ids)
  BY ElementsOf
<1>2. \A e \in Messages(Ids) : e.records \in Seq(Ids)
  BY DEF Messages
<1>3. \A i \in 1..Len(evs) : Range(evs[i].records) \subseteq Ids
  BY <1>1, <1>2, ElementsOf
<1>4. Range(list) \subseteq Ids
  BY ElementsOf
<1>5. ASSUME NEW i \in 1..(Len(evs) + 1) PROVE Seen(list, evs, i) \subseteq Ids
  <2>1. \A j \in 1..(i - 1) : j \in 1..Len(evs)
    BY <1>1
  <2> QED BY <1>3, <1>4, <2>1 DEF Seen
<1>6. Len(evs) + 1 \in 1..(Len(evs) + 1)
  BY <1>1
<1> QED BY <1>1, <1>3, <1>5, <1>6 DEF AllSeen

(* Records that were coming and are lost were the last of them.            *)
LEMMA OrderlyLost ==
  ASSUME NEW list, NEW evs, NEW coming, NEW asked, NEW answered \in BOOLEAN,
         Orderly(list, evs, coming, asked, answered),
         NEW still \in SUBSET coming, \A c \in still, x \in coming \ still : c < x,
         NEW again \in SUBSET asked, NEW served \in BOOLEAN, served => answered /\ still = coming
  PROVE  Orderly(list, evs, still, again, served)
<1> DEFINE all == AllSeen(list, evs)
<1>1. /\ InTime(list)
      /\ \A i \in 1..Len(evs) : \A n \in Range(evs[i].records) : Fits(Seen(list, evs, i), n)
      /\ \A n \in coming : Fits(all, n)
      /\ \A n \in asked : n \in all \cup coming \/ Latest(all \cup coming, n)
      /\ answered => asked \subseteq all \cup coming
  BY DEF Orderly
<1> HIDE DEF all
<1>2. ASSUME NEW n \in again PROVE n \in all \cup still \/ Latest(all \cup still, n)
  <2>1. CASE n \in coming \ still
    BY <1>1, <2>1 DEF Fits, Latest
  <2>2. CASE Latest(all \cup coming, n)
    BY <2>2 DEF Latest
  <2> QED BY <1>1, <2>1, <2>2
<1>3. served => again \subseteq all \cup still
  BY <1>1
<1>4. \A n \in still : Fits(all, n)
  BY <1>1
<1> QED BY <1>1, <1>2, <1>3, <1>4 DEF Orderly, all

(* An event takes the first of the records that are coming.                *)
LEMMA OrderlyTold ==
  ASSUME RingInv, NEW list \in Seq(Ids), NEW evs \in Seq(Messages(Ids)), NEW coming \in SUBSET Ids,
         NEW asked, NEW answered, Orderly(list, evs, coming, asked, answered),
         NEW e \in Messages(Ids), NEW rest, coming = Range(e.records) \cup rest,
         \A r \in Range(e.records), c \in rest : r < c
  PROVE  Orderly(list, Append(evs, e), rest, asked, answered)
<1> DEFINE more == Append(evs, e)
           all == AllSeen(list, evs)
<1>0. Ids \subseteq Nat /\ all \subseteq Ids /\ Range(e.records) \subseteq Ids /\ rest \subseteq Ids
  BY FiniteIds, SeenIds
<1>1. /\ Len(evs) \in Nat /\ Len(more) = Len(evs) + 1
      /\ \A i \in 1..Len(evs) : more[i] = evs[i]
      /\ more[Len(evs) + 1] = e
  BY AppendedElements
<1> HIDE DEF more
<1>2. ASSUME NEW i \in 1..(Len(evs) + 1) PROVE Seen(list, more, i) = Seen(list, evs, i)
  <2>1. \A j \in 1..(i - 1) : j \in 1..Len(evs)
    BY <1>1
  <2> QED BY <1>1, <2>1 DEF Seen
<1>3. AllSeen(list, more) = all \cup Range(e.records)
  <2>1. 1..(Len(more) + 1 - 1) = (1..(Len(evs) + 1 - 1)) \cup {Len(evs) + 1}
    BY <1>1
  <2>2. \A j \in 1..(Len(evs) + 1 - 1) : j \in 1..Len(evs)
    BY <1>1
  <2> QED BY <1>1, <2>1, <2>2 DEF AllSeen, Seen
<1>4. /\ InTime(list)
      /\ \A i \in 1..Len(evs) : \A n \in Range(evs[i].records) : Fits(Seen(list, evs, i), n)
      /\ \A n \in coming : Fits(all, n)
      /\ \A n \in asked : n \in all \cup coming \/ Latest(all \cup coming, n)
      /\ answered => asked \subseteq all \cup coming
  BY DEF Orderly
<1>5. Seen(list, evs, Len(evs) + 1) = all
  BY DEF AllSeen
<1> HIDE DEF all
<1>6. ASSUME NEW i \in 1..Len(more), NEW n \in Range(more[i].records) PROVE Fits(Seen(list, more, i), n)
  <2>1. CASE i \in 1..Len(evs)
    <3>1. i \in 1..(Len(evs) + 1)
      BY <1>1, <2>1
    <3> QED BY <1>1, <1>2, <1>4, <1>6, <2>1, <3>1
  <2>2. CASE i = Len(evs) + 1
    <3>1. n \in coming /\ i \in 1..(Len(evs) + 1)
      BY <1>1, <1>6, <2>2
    <3> QED BY <1>2, <1>4, <1>5, <2>2, <3>1
  <2> QED BY <1>1, <2>1, <2>2
<1>7. ASSUME NEW n \in rest PROVE Fits(AllSeen(list, more), n)
  <2>1. Fits(all, n) /\ n \in Nat /\ all \subseteq Nat /\ Range(e.records) \subseteq Nat
    BY <1>0, <1>4
  <2>2. \A r \in Range(e.records) : r < n
    OBVIOUS
  <2>3. Fits(all \cup Range(e.records), n)
    BY <2>1, <2>2, FitsAfter
  <2> QED BY <1>3, <2>3
<1>8. AllSeen(list, more) \cup rest = all \cup coming
  BY <1>3
<1> QED BY <1>4, <1>6, <1>7, <1>8 DEF Orderly, more

(* A record that the daemon would replay has no room-taking newer ones.    *)
LEMMA AskedHasRoom ==
  ASSUME RingInv, Retained, ReplayPerSource <= MaxPerSource, NEW n \in Asked, NEW S \in SUBSET Ids
  PROVE  ~Enough(S, n)
<1> DEFINE Had == {m \in ring : m > n /\ taken[m].source = taken[n].source}
<1>1. n \in ring /\ Cardinality(Had) < ReplayPerSource
  BY DEF Asked, NewestOf
<1>2. Newer(S, n) \subseteq Had /\ Had \subseteq Ids
  BY <1>1 DEF Newer, Retained, RingInv
<1> HIDE DEF Had
<1>3. IsFiniteSet(Had) /\ Cardinality(Had) \in Nat
  BY <1>2, FiniteIds
<1>4. Cardinality(Newer(S, n)) <= Cardinality(Had) /\ Cardinality(Newer(S, n)) \in Nat
  BY <1>2, <1>3, FS_Subset, FS_CardinalityType
<1>5. Cardinality(Newer(S, n)) < MaxPerSource
  BY <1>1, <1>3, <1>4, SubscriptionAssumption, TuiAssumption
<1> QED BY <1>4, <1>5, TuiAssumption DEF Enough

(* Rows go: those that must give way, and those that are forgotten and do  *)
(* not come again.                                                         *)
LEMMA OrderlyShown ==
  ASSUME RingInv, Retained, ReplayPerSource <= MaxPerSource,
         NEW list \in Seq(Ids), NEW evs \in Seq(Messages(Ids)),
         NEW coming, NEW answered, Orderly(list, evs, coming, Asked, answered),
         NEW new \in Seq(Ids), InTime(new), NEW left \in Seq(Messages(Ids)), NEW d \in {0, 1},
         Len(evs) = Len(left) + d, \A i \in 1..Len(left) : left[i] = evs[i + d],
         NEW gone, gone \cap coming = {}, gone \cap Asked = {},
         \A i \in 1..Len(left) : gone \cap Range(left[i].records) = {},
         \A i \in 1..(Len(left) + 1) : Thinned(Seen(list, evs, i + d), Seen(new, left, i), gone)
  PROVE  Orderly(new, left, coming, Asked, answered)
<1> DEFINE all == AllSeen(list, evs)
           now == AllSeen(new, left)
<1>0. /\ Len(left) \in Nat /\ Len(evs) \in Nat
      /\ all \subseteq Ids /\ now \subseteq Ids
      /\ \A i \in 1..(Len(evs) + 1) : Seen(list, evs, i) \subseteq Ids
  BY SeenIds
<1>1. Thinned(all, now, gone)
  <2>1. Len(left) + 1 \in 1..(Len(left) + 1) /\ Len(left) + 1 + d = Len(evs) + 1
    BY <1>0
  <2> QED BY <2>1 DEF AllSeen
<1>2. /\ \A i \in 1..Len(evs) : \A n \in Range(evs[i].records) : Fits(Seen(list, evs, i), n)
      /\ \A n \in coming : Fits(all, n)
      /\ \A n \in Asked : n \in all \cup coming \/ Latest(all \cup coming, n)
      /\ answered => Asked \subseteq all \cup coming
  BY DEF Orderly
<1> HIDE DEF all, now
<1>3. ASSUME NEW i \in 1..Len(left), NEW n \in Range(left[i].records) PROVE Fits(Seen(new, left, i), n)
  <2>1. i + d \in 1..Len(evs) /\ i + d \in 1..(Len(evs) + 1) /\ i \in 1..(Len(left) + 1)
    BY <1>0
  <2>2. Fits(Seen(list, evs, i + d), n) /\ n \notin gone
    BY <1>2, <1>3, <2>1
  <2>3. Thinned(Seen(list, evs, i + d), Seen(new, left, i), gone) /\ Seen(list, evs, i + d) \subseteq Ids
    BY <1>0, <2>1
  <2> QED BY <2>2, <2>3, FitsThinned
<1>4. ASSUME NEW n \in coming PROVE Fits(now, n)
  <2>1. Fits(all, n) /\ n \notin gone
    BY <1>2
  <2> QED BY <1>0, <1>1, <2>1, FitsThinned
<1>5. now \subseteq all
  BY <1>1 DEF Thinned
<1>6. ASSUME NEW n \in Asked, n \in all PROVE n \in now
  <2>1. n \notin gone /\ ~Enough(now, n)
    BY <1>0, AskedHasRoom
  <2> QED BY <1>1, <1>6, <2>1 DEF Thinned
<1>7. \A n \in Asked : Latest(all \cup coming, n) => Latest(now \cup coming, n)
  BY <1>5 DEF Latest
<1>8. \A n \in Asked : n \in now \cup coming \/ Latest(now \cup coming, n)
  BY <1>2, <1>6, <1>7
<1>9. answered => Asked \subseteq now \cup coming
  BY <1>2, <1>6
<1> QED BY <1>3, <1>4, <1>8, <1>9 DEF Orderly, now

(* The daemon answers, and what it would replay comes.                     *)
LEMMA OrderlyAnswered ==
  ASSUME RingInv, Retained, ReplayPerSource <= MaxPerSource,
         NEW list \in Seq(Ids), NEW evs \in Seq(Messages(Ids)),
         NEW answered, Orderly(list, evs, {}, Asked, answered)
  PROVE  Orderly(list, evs, Asked, Asked, TRUE)
<1> DEFINE all == AllSeen(list, evs)
<1>1. all \subseteq Ids
  BY SeenIds
<1>2. \A n \in Asked : n \in all \/ Latest(all, n)
  BY DEF Orderly
<1>3. \A n \in Asked : ~Enough(all, n)
  BY <1>1, AskedHasRoom
<1> HIDE DEF all
<1>4. \A n \in Asked : Fits(all, n)
  BY <1>2, <1>3 DEF Fits
<1> QED BY <1>4 DEF Orderly, all

(* A record is published: it comes, unless the daemon has not answered.    *)
LEMMA OrderlyPublished ==
  ASSUME RingInv, Retained, NEW s \in Sources, Publish(s),
         NEW list \in Seq(Ids), NEW evs \in Seq(Messages(Ids)), NEW coming \in SUBSET Ids, NEW answered \in BOOLEAN,
         Orderly(list, evs, coming, Asked, answered),
         NEW more, more = coming \cup IF answered THEN {Len(taken')} ELSE {}
  PROVE  Orderly(list, evs, more, Asked, answered)'
<1> DEFINE N == Len(taken')
           all == AllSeen(list, evs)
<1>0. /\ Len(evs) \in Nat /\ \A i \in 1..Len(evs) : Range(evs[i].records) \subseteq Ids
      /\ \A i \in 1..(Len(evs) + 1) : Seen(list, evs, i) \subseteq Ids
      /\ all \subseteq Ids
  BY SeenIds
<1>1. \A n \in Ids : n < N /\ taken'[n] = taken[n]
  BY PublishTakes
<1>2. Asked' \subseteq Asked \cup {N}
  BY PublishKeeps
<1> HIDE DEF N
<1>3. ASSUME NEW S \in SUBSET Ids, NEW n \in Ids, Fits(S, n) PROVE Fits(S, n)'
  <2>1. Newer(S, n)' = Newer(S, n)
    BY <1>1 DEF Newer
  <2>2. Enough(S, n)' <=> Enough(S, n)
    BY <2>1 DEF Enough
  <2> QED BY <1>3, <2>2 DEF Fits, Latest
<1>4. /\ InTime(list)
      /\ \A i \in 1..Len(evs) : \A n \in Range(evs[i].records) : Fits(Seen(list, evs, i), n)
      /\ \A n \in coming : Fits(all, n)
      /\ \A n \in Asked : n \in all \cup coming \/ Latest(all \cup coming, n)
      /\ answered => Asked \subseteq all \cup coming
  BY DEF Orderly
<1> HIDE DEF all
<1>5. ASSUME NEW i \in 1..Len(evs), NEW n \in Range(evs[i].records) PROVE Fits(Seen(list, evs, i), n)'
  <2>1. i \in 1..(Len(evs) + 1)
    BY <1>0
  <2>2. Seen(list, evs, i) \subseteq Ids /\ n \in Ids /\ Fits(Seen(list, evs, i), n)
    BY <1>0, <1>4, <2>1
  <2> QED BY <1>3, <2>2
<1>6. \A S \in SUBSET Ids : Latest(S, N)
  BY <1>1 DEF Latest
<1>7. ASSUME NEW n \in more PROVE Fits(all, n)'
  <2>1. CASE n \in coming
    BY <1>0, <1>3, <1>4, <2>1
  <2>2. CASE n = N
    <3>1. Latest(all, n)
      BY <1>0, <1>6, <2>2
    <3> QED BY <3>1 DEF Fits, Latest
  <2> QED BY <2>1, <2>2 DEF N
<1>8. ASSUME NEW n \in Asked' PROVE n \in all \cup more \/ Latest(all \cup more, n)
  <2>1. CASE n \in Asked /\ answered
    BY <1>4, <2>1
  <2>2. CASE n \in Asked /\ more = coming
    BY <1>4, <2>2
  <2>3. CASE n = N
    BY <1>0, <1>6, <2>3 DEF N
  <2> QED BY <1>2, <2>1, <2>2, <2>3
<1>9. answered => Asked' \subseteq all \cup more
  BY <1>2, <1>4 DEF N
<1>10. all' = all
  BY DEF all, AllSeen, Seen
<1> QED BY <1>4, <1>5, <1>7, <1>8, <1>9 DEF Orderly, all, Latest
-----------------------------------------------------------------------------
(* The records on their way to an event of the goroutine,                  *)
InHand == Range(got) \cup Range(records) \cup (({item} \cup Range(pipe)) \ {Complete})

(* as long as it still takes them.                                         *)
Coming == IF work \in Listening THEN InHand ELSE {}

Answered == serving \in {"replaying", "live"}

OrderInv == Undisturbed => Orderly(rows, events, Coming, Asked, Answered)

(* A step may lose the last of the records that are coming, when the       *)
(* connection is gone;                                                     *)
Idle ==
  /\ UNCHANGED <<taken, events, rows>> /\ ring' \in {ring, {}}
  /\ Coming' \subseteq Coming /\ \A c \in Coming', x \in Coming \ Coming' : c < x
  /\ Answered' => Answered /\ Coming' = Coming

(* tell the program of the first of them;                                  *)
Telling ==
  /\ UNCHANGED <<taken, ring, rows, serving>>
  /\ \E e \in Messages(Ids) :
       /\ events' = Append(events, e)
       /\ Coming = Range(e.records) \cup Coming' /\ \A r \in Range(e.records), c \in Coming' : r < c

(* show the records of an event or clear the rows;                         *)
Displaying ==
  /\ UNCHANGED <<taken, ring, serving, pipe, item, records, got, work>>
  /\ \/ ClearAll /\ events' = events
     \/ /\ events # <<>> /\ events' = Tail(events) /\ rows' = HandleRecords(Head(events).records)
        /\ holes' = IF paused /\ ComesAgain(Head(events).records, Tail(events)) THEN "now" ELSE holes

(* or answer the subscription, or publish a record.                        *)
Answering == Accept /\ UNCHANGED <<streamVars, events, viewVars>>

Publishing == (\E s \in Sources : Publish(s)) /\ UNCHANGED <<streamVars, events, viewVars>>

LEMMA HandIds ==
  ASSUME ListsInv
  PROVE  InHand \subseteq Ids /\ Coming \subseteq Ids /\ Complete \notin InHand
<1>1. Range(got) \subseteq Ids /\ Range(records) \subseteq Ids /\ Range(pipe) \subseteq {Complete} \cup Ids
      /\ item \in {Complete} \cup Ids
  BY ElementsOf DEF ListsInv, PipeInv, RowsInv
<1>2. Complete \notin Ids
  BY DEF Ids, Complete
<1> QED BY <1>1, <1>2 DEF InHand, Coming

LEMMA TellingStep ==
  ASSUME TypeInv, LineInv, Announce
  PROVE  Telling
<1>0. ListsInv /\ WorkInv /\ UNCHANGED <<taken, ring, rows, serving, pipe, item, records>>
  BY DEF TypeInv, Announce, subscriptionVars, daemonVars, readerVars, connection, viewVars
<1>1. PICK e \in Messages(Ids) :
        /\ events' = Append(events, e)
        /\ \/ e.records = got /\ work \in {"deliver", "forward"} /\ work' = "follow" /\ got' = <<>>
           \/ /\ e.records = <<>> /\ got' \in {got, <<>>}
              /\ work \in {"start", "announce", "unreachable", "report"}
  BY <1>0, AnnounceSends
<1>2. CASE e.records = got /\ work \in {"deliver", "forward"} /\ work' = "follow" /\ got' = <<>>
  <2>1. Coming = Range(got) \cup Coming' /\ Coming' = Range(records) \cup (({item} \cup Range(pipe)) \ {Complete})
    BY <1>0, <1>2, RangeOfNothing DEF Coming, InHand, Listening
  <2>2. ASSUME NEW r \in Range(got), NEW c \in Coming' PROVE r < c
    <3>1. r # Complete /\ c # Complete
      <4>1. Range(got) \subseteq InHand /\ Coming' \subseteq InHand
        BY <2>1 DEF InHand
      <4> QED BY <1>0, <4>1, HandIds
    <3> QED BY <2>1, <3>1 DEF LineInv, Ahead
  <2> QED BY <1>0, <1>1, <1>2, <2>1, <2>2 DEF Telling
<1>3. CASE /\ e.records = <<>> /\ got' \in {got, <<>>}
           /\ work \in {"start", "announce", "unreachable", "report"}
  <2>1. Range(e.records) = {}
    BY <1>3, RangeOfNothing
  <2>2. Coming' = Coming
    <3>1. CASE work = "announce"
      <4>1. got = <<>> /\ got' = <<>>
        BY <1>0, <1>3, <3>1 DEF WorkInv
      <4>2. work' \in Listening
        BY <3>1 DEF Announce, Emit, Listening
      <4> QED BY <1>0, <3>1, <4>1, <4>2 DEF Coming, InHand, Listening
    <3>2. CASE work \in {"start", "unreachable", "report"}
      <4>1. work' \notin Listening /\ work \notin Listening
        BY <3>2 DEF Announce, Emit, Listening
      <4> QED BY <4>1 DEF Coming
    <3> QED BY <1>3, <3>1, <3>2
  <2> QED BY <1>0, <1>1, <2>1, <2>2 DEF Telling
<1> QED BY <1>1, <1>2, <1>3

LEMMA CuttingIsIdle ==
  ASSUME TypeInv, LineInv, Cut, UNCHANGED <<taken, item, records, got, work, events, rows>>, ring' \in {ring, {}}
  PROVE  Idle
<1>1. pipe \in Seq({Complete} \cup Ids) /\ ListsInv
  BY DEF TypeInv, ListsInv, PipeInv
<1>2. /\ Range(pipe') \subseteq Range(pipe)
      /\ \A x \in Range(pipe) \ Range(pipe'), y \in Range(pipe') :
           \E i, j \in 1..Len(pipe) : i < j /\ pipe[i] = y /\ pipe[j] = x
  BY <1>1, CutPipe
<1>3. ~Answered'
  BY DEF Cut, Answered
<1>4. Coming' \subseteq Coming
  BY <1>2 DEF Coming, InHand
<1>5. ASSUME NEW c \in Coming', NEW x \in Coming \ Coming' PROVE c < x
  <2>1. /\ work \in Listening /\ c \in InHand' /\ x \in InHand /\ x \notin InHand'
    BY <1>5 DEF Coming
  <2>2. x # Complete /\ c # Complete
    BY <1>1, <1>4, <2>1, HandIds DEF Coming
  <2>3. x \in Range(pipe) \ Range(pipe')
    BY <2>1, <2>2 DEF InHand
  <2>4. CASE c \in Range(pipe')
    <3>1. PICK i, j \in 1..Len(pipe) : i < j /\ pipe[i] = c /\ pipe[j] = x
      BY <1>2, <2>3, <2>4
    <3> QED BY <2>2, <3>1 DEF LineInv, Ordered
  <2>5. c \in Range(pipe') \/ c \in Range(got) \/ c \in Range(records) \/ c = item
    BY <2>1 DEF InHand
  <2> QED BY <2>2, <2>3, <2>4, <2>5 DEF LineInv, Ahead
<1> QED BY <1>3, <1>4, <1>5 DEF Idle

LEMMA Steps ==
  ASSUME TypeInv, LineInv, FollowInv, [Next]_vars
  PROVE  Idle \/ Telling \/ Displaying \/ Answering \/ Publishing
<1>0. /\ ListsInv /\ SideInv /\ WorkInv /\ (linked <=> serving # "none")
      /\ work \in {"start", "dial", "unreachable", "announce", "sleep", "follow"} => got = <<>>
      /\ (~linked => ~Answered)
      /\ (work \notin Listening => Coming = {} /\ ~linked)
  BY DEF TypeInv, SideInv, WorkInv, Answered, Coming, FollowInv
<1> USE DEF subscriptionVars, daemonVars, readerVars, connection, streamVars, viewVars
<1> DEFINE Kept == UNCHANGED <<taken, events, rows>> /\ ring' \in {ring, {}}
<1>1. ASSUME Kept, Coming' = Coming \/ (Coming' = {} /\ ~Answered'), Answered' => Answered PROVE Idle
  BY <1>1 DEF Idle
<1>2. ASSUME Kept, UNCHANGED <<got, records, item, pipe, work>>, Answered' => Answered PROVE Idle
  <2>1. Coming' = Coming
    BY <1>2 DEF Coming, InHand
  <2> HIDE DEF Kept
  <2> QED BY <1>1, <1>2, <2>1
<1>3. ASSUME Kept, work' \notin Listening, ~Answered' PROVE Idle
  <2>1. Coming' = {}
    BY <1>3 DEF Coming
  <2> HIDE DEF Kept
  <2> QED BY <1>1, <1>3, <2>1
<1>4. CASE Dial
  <2>1. pipe' = <<>> /\ records' = <<>> /\ item' = Complete /\ got' = <<>> /\ serving' = "waiting"
    BY <1>0, <1>4 DEF Dial, Subscribed, Complete
  <2>2. Coming' = {} /\ ~Answered'
    BY <2>1, RangeOfNothing DEF Coming, InHand, Answered
  <2>3. Kept
    BY <1>4 DEF Dial, Subscribed
  <2> HIDE DEF Kept
  <2> QED BY <1>1, <2>2, <2>3
<1>5. CASE DialFails
  <2>1. Kept /\ work' \notin Listening /\ work \notin Listening /\ UNCHANGED <<linked, serving>>
    BY <1>5 DEF DialFails, Listening
  <2>2. ~Answered'
    BY <1>0, <2>1 DEF Answered
  <2> HIDE DEF Kept
  <2> QED BY <1>3, <2>1, <2>2
<1>6. ASSUME Load \/ Follow PROVE Idle
  <2>1. Kept /\ UNCHANGED <<serving, linked, pipe, item>>
    BY <1>6 DEF Load, Follow, TakeRecord, TakeError, ReplayEnds, Drained
  <2>2. Answered' => Answered
    BY <2>1 DEF Answered
  <2> HIDE DEF Kept
  <2>3. CASE TakeError("load") \/ TakeError("follow")
    <3>1. ~linked
      BY <2>3 DEF FollowInv, TakeError, ErrorsClosed, RecordsClosed
    <3>2. work' \notin Listening
      BY <2>3 DEF TakeError, Listening
    <3>3. ~Answered'
      BY <1>0, <2>2, <3>1
    <3> QED BY <1>3, <2>1, <3>2, <3>3
  <2>4. CASE TakeRecord("load", "load") \/ TakeRecord("drain", "drain") \/ TakeRecord("follow", "forward")
    <3>1. /\ records # <<>> /\ got' = Append(got, Head(records)) /\ records' = Tail(records)
          /\ work \in Listening /\ work' \in Listening
      BY <2>4 DEF TakeRecord, Listening
    <3>2. Range(records) = {Head(records)} \cup Range(records') /\ Head(records) \in Ids
      BY <1>0, <3>1, RangeOfTail, TailOfSequence DEF ListsInv, PipeInv
    <3>3. Range(got') = Range(got) \cup {Head(records)}
      BY <1>0, <3>1, <3>2, RangeOfAppend DEF ListsInv, RowsInv
    <3>4. Coming' = Coming
      BY <2>1, <3>1, <3>2, <3>3 DEF Coming, InHand
    <3> QED BY <1>1, <2>1, <2>2, <3>4
  <2>5. CASE ReplayEnds \/ Drained
    <3>1. UNCHANGED <<got, records>> /\ work \in Listening /\ work' \in Listening
      BY <2>5 DEF ReplayEnds, Drained, Listening
    <3>2. Coming' = Coming
      BY <2>1, <3>1 DEF Coming, InHand
    <3> QED BY <1>1, <2>1, <2>2, <3>2
  <2> QED BY <1>6, <2>3, <2>4, <2>5 DEF Load, Follow
<1>7. CASE Reconnect
  <2>1. Kept /\ work \notin Listening /\ work' \notin Listening
    BY <1>7 DEF Reconnect, Listening
  <2>2. ~linked /\ UNCHANGED serving
    BY <1>0, <1>7, <2>1 DEF Reconnect, Closed
  <2>3. ~Answered'
    BY <1>0, <2>2 DEF Answered
  <2> HIDE DEF Kept
  <2> QED BY <1>3, <2>1, <2>3
<1>8. CASE Cancel
  <2>1. Kept /\ work' \notin Listening
    BY <1>8 DEF Cancel, Listening
  <2>2. ~Answered'
    BY <1>0, <1>8 DEF Cancel, Closed, Cut, Answered
  <2> HIDE DEF Kept
  <2> QED BY <1>3, <2>1, <2>2
<1>9. ASSUME UpdateClosed \/ TogglePause \/ ExpungeKey \/ Quit \/ ExpungeServed \/ ExpungeFails \/ UNCHANGED vars
      PROVE  Idle
  <2>1. Kept /\ UNCHANGED <<got, records, item, pipe, work, serving>>
    BY <1>9 DEF UpdateClosed, TogglePause, ExpungeKey, Quit, ExpungeServed, ExpungeFails, vars
  <2>2. Answered' => Answered
    BY <2>1 DEF Answered
  <2> HIDE DEF Kept
  <2> QED BY <1>2, <2>1, <2>2
<1>10. Update \/ ClearKey => Displaying
  BY DEF Update, ClearKey, Displaying
<1>11. CASE ExpungeEnds
  <2>1. CASE expunge = "answered" /\ ClearAll
    BY <1>11, <2>1 DEF ExpungeEnds, Displaying
  <2>2. CASE expunge = "failed" /\ UNCHANGED <<rows, holes>>
    <3>1. Kept /\ UNCHANGED <<got, records, item, pipe, work, serving>>
      BY <1>11, <2>2 DEF ExpungeEnds
    <3>2. Answered' => Answered
      BY <3>1 DEF Answered
    <3> HIDE DEF Kept
    <3> QED BY <1>2, <3>1, <3>2
  <2> QED BY <1>11, <2>1, <2>2 DEF ExpungeEnds
<1>12. ASSUME Read \/ Serve \/ Environment, UNCHANGED <<streamVars, events, viewVars>>
       PROVE  Idle \/ Answering \/ Publishing
  <2>0. UNCHANGED <<work, got, events, rows>>
    BY <1>12
  <2>1. CASE Decode
    <3>1. Kept /\ pipe # <<>> /\ pipe' = Tail(pipe) /\ records' = records /\ serving' = serving
          /\ item = Complete /\ (IF Head(pipe) = Complete THEN item' = item ELSE item' = Head(pipe))
      BY <1>0, <2>0, <2>1 DEF Decode, SideInv
    <3>2. Range(pipe) = {Head(pipe)} \cup Range(pipe')
      BY <1>0, <3>1, RangeOfTail DEF ListsInv, PipeInv
    <3>3. (({item} \cup Range(pipe)) \ {Complete}) = (({item'} \cup Range(pipe')) \ {Complete})
      BY <3>1, <3>2
    <3>4. Coming' = Coming /\ (Answered' => Answered)
      BY <2>0, <3>1, <3>3 DEF Coming, InHand, Answered
    <3> HIDE DEF Kept
    <3> QED BY <1>1, <3>1, <3>4
  <2>2. CASE Send
    <3>1. Kept /\ pipe' = pipe /\ records' = Append(records, item) /\ serving' = serving /\ item' = Complete
          /\ item # Complete
      BY <1>0, <2>0, <2>2 DEF Send, SideInv, Complete
    <3>2. Range(records') = Range(records) \cup {item}
      BY <1>0, <3>1, RangeOfAppend DEF ListsInv, PipeInv
    <3>3. InHand' = InHand
      BY <2>0, <3>1, <3>2 DEF InHand
    <3>4. Coming' = Coming /\ (Answered' => Answered)
      BY <2>0, <3>1, <3>3 DEF Coming, Answered
    <3> HIDE DEF Kept
    <3> QED BY <1>1, <3>1, <3>4
  <2>3. CASE DecodeFails \/ Release \/ Join \/ Restart
    <3>1. Kept /\ UNCHANGED <<got, records, item, pipe, work>>
      BY <2>0, <2>3 DEF DecodeFails, Release, Join, Restart
    <3>2. Answered' => Answered
      BY <2>3 DEF DecodeFails, Release, Join, Restart, Answered
    <3> HIDE DEF Kept
    <3> QED BY <1>2, <3>1, <3>2
  <2>4. CASE Lose \/ Crash
    <3>1. Cut /\ UNCHANGED <<taken, item, records, got, work, events, rows>> /\ ring' \in {ring, {}}
      BY <2>0, <2>4 DEF Lose, Crash
    <3> QED BY <3>1, CuttingIsIdle
  <2>5. CASE Accept
    BY <1>12, <2>5 DEF Answering
  <2>6. ASSUME NEW s \in Sources, Publish(s) PROVE Publishing
    BY <1>12, <2>6 DEF Publishing
  <2> QED BY <1>12, <2>1, <2>2, <2>3, <2>4, <2>5, <2>6 DEF Read, Serve, Environment
<1> QED BY <1>4, <1>5, <1>6, <1>7, <1>8, <1>9, <1>10, <1>11, <1>12, TellingStep
        DEF Next, Work, User, Expunging
-----------------------------------------------------------------------------
(* What is kept from the viewer, or forgotten, is remembered.              *)
LEMMA UndisturbedBefore ==
  ASSUME TypeInv, [Next]_vars, Undisturbed'
  PROVE  Undisturbed
<1> USE DEF subscriptionVars, daemonVars, readerVars, connection, streamVars, viewVars
<1> DEFINE Goal == (missed' = "never" => missed = "never") /\ (holes' = "never" => holes = "never")
<1>1. Announce \/ Dial \/ DialFails \/ Load \/ Follow \/ Reconnect \/ Cancel => Goal
  BY DEF Announce, Dial, Subscribed, DialFails, Load, Follow, Reconnect, Cancel
<1>2. Update \/ UpdateClosed \/ User => Goal
  BY DEF Update, UpdateClosed, User, TogglePause, ClearKey, ClearAll, ExpungeKey, Quit
<1>3. Expunging \/ UNCHANGED vars => Goal
  BY DEF Expunging, ExpungeServed, ExpungeFails, ExpungeEnds, ClearAll, vars
<1>4. (Read \/ Serve) /\ UNCHANGED <<streamVars, events, viewVars>> => Goal
  BY DEF Read, Decode, Send, DecodeFails, Release, Serve, Accept, Join
<1>5. Environment /\ UNCHANGED <<streamVars, events, viewVars>> => Goal
  BY DEF Environment, Publish, Lose, Crash, Restart
<1>6. Goal
  BY <1>1, <1>2, <1>3, <1>4, <1>5 DEF Next, Work
<1>7. Ids \subseteq Ids' /\ \A n \in Ids : taken'[n] = taken[n]
  BY TakenStays DEF TypeInv, ListsInv
<1>8. ASSUME NEW m \in Ids, NEW n \in Ids, m # n PROVE Id(m) # Id(n)
  BY <1>7, <1>8 DEF Undisturbed, Ids, Id
<1>9. missed = "never" /\ holes = "never" /\ ReplayPerSource <= MaxPerSource
  BY <1>6 DEF Undisturbed
<1> QED BY <1>8, <1>9 DEF Undisturbed, Ids

(* Rows that are forgotten and do not come again.                          *)
LEMMA NotToCome ==
  ASSUME ListsInv, NEW rs, NEW later \in Seq(Messages(Ids)), ~ComesAgain(rs, later)
  PROVE  /\ Range(rs) \cap Coming = {} /\ Range(rs) \cap Asked = {}
         /\ \A i \in 1..Len(later) : Range(rs) \cap Range(later[i].records) = {}
<1> DEFINE way == UNION {Range(e.records) : e \in Range(later)}
<1>1. Range(rs) \cap (ring \cup Range(pipe) \cup {item} \cup Range(records) \cup Range(got) \cup way) = {}
  BY DEF ComesAgain
<1>2. Range(rs) \cap Coming = {}
  BY <1>1 DEF Coming, InHand
<1>3. Range(rs) \cap Asked = {}
  BY <1>1 DEF Asked, NewestOf
<1>4. \A i \in 1..Len(later) : later[i] \in Range(later)
  BY ElementsOf
<1> QED BY <1>1, <1>2, <1>3, <1>4

LEMMA RestOfEvents ==
  ASSUME NEW list, NEW new, NEW evs \in Seq(Messages(Ids)), evs # <<>>,
         RingInv, NEW gone, Range(list) \subseteq Ids, Range(evs[1].records) \subseteq Ids,
         Thinned(Range(list) \cup Range(evs[1].records), Range(new), gone),
         NEW i \in 1..(Len(Tail(evs)) + 1), Seen(list, evs, i + 1) \subseteq Ids
  PROVE  Thinned(Seen(list, evs, i + 1), Seen(new, Tail(evs), i), gone)
<1> DEFINE rest == Tail(evs)
           more == UNION {Range(rest[j].records) : j \in 1..(i - 1)}
<1>1. /\ Len(evs) \in Nat /\ Len(rest) = Len(evs) - 1
      /\ \A j \in 1..Len(rest) : rest[j] = evs[j + 1]
  BY TailOfSequence
<1> HIDE DEF rest
<1>2. \A j \in 1..(i - 1) : j \in 1..Len(rest) /\ j + 1 \in 1..i
  BY <1>1 DEF rest
<1>3. \A j \in 1..i : j = 1 \/ (j - 1 \in 1..(i - 1) /\ (j - 1) + 1 = j)
  OBVIOUS
<1>4. 1 \in 1..i /\ (i + 1) - 1 = i
  BY <1>1 DEF rest
<1>5. UNION {Range(evs[j].records) : j \in 1..i} = Range(evs[1].records) \cup more
  <2>1. ASSUME NEW x, NEW j \in 1..i, x \in Range(evs[j].records)
        PROVE  x \in Range(evs[1].records) \cup more
    BY <1>1, <1>2, <1>3, <2>1
  <2>2. ASSUME NEW x, x \in Range(evs[1].records) \cup more
        PROVE  \E j \in 1..i : x \in Range(evs[j].records)
    BY <1>1, <1>2, <1>4, <2>2
  <2> QED BY <2>1, <2>2
<1> HIDE DEF more
<1>6. Seen(list, evs, i + 1) = Range(list) \cup Range(evs[1].records) \cup more
  BY <1>4, <1>5 DEF Seen
<1>7. Seen(new, rest, i) = Range(new) \cup more
  BY DEF Seen, more
<1>8. Range(new) \cup more \subseteq Ids
  BY <1>6 DEF Thinned
<1>9. \A m : Enough(Range(new), m) => Enough(Range(new) \cup more, m)
  BY <1>8, MoreIsEnough
<1> QED BY <1>6, <1>7, <1>9 DEF Thinned, rest

LEMMA DisplayingStep ==
  ASSUME TypeInv, DistinctRows(rows), LineInv, Retained, Undisturbed, Displaying, holes' = "never",
         Orderly(rows, events, Coming, Asked, Answered), rows' \in Seq(Ids), events' \in Seq(Messages(Ids))
  PROVE  Orderly(rows', events', Coming, Asked, Answered)
<1>0. /\ ListsInv /\ RingInv /\ rows \in Seq(Ids) /\ events \in Seq(Messages(Ids))
      /\ ReplayPerSource <= MaxPerSource /\ UniqueIds
      /\ Len(events) \in Nat /\ Range(rows) \subseteq Ids
      /\ \A i \in 1..(Len(events) + 1) : Seen(rows, events, i) \subseteq Ids
      /\ \A i \in 1..Len(events) : Range(events[i].records) \subseteq Ids
  <2>1. ListsInv /\ RingInv /\ rows \in Seq(Ids) /\ events \in Seq(Messages(Ids))
    BY DEF TypeInv, ListsInv, RowsInv
  <2>2. ReplayPerSource <= MaxPerSource /\ UniqueIds
    BY DEF Undisturbed, UniqueIds, Ids
  <2> QED BY <2>1, <2>2, SeenIds, ElementsOf
<1>1. InTime(rows)
  BY DEF Orderly
<1>2. CASE ClearAll /\ events' = events
  <2>1. rows' = <<>> /\ ~ComesAgain(rows, events) /\ Range(rows') = {} /\ InTime(rows')
    BY <1>2, RangeOfNothing DEF ClearAll, InTime
  <2>2. /\ Range(rows) \cap Coming = {} /\ Range(rows) \cap Asked = {}
        /\ \A i \in 1..Len(events) : Range(rows) \cap Range(events[i].records) = {}
    BY <1>0, <2>1, NotToCome
  <2>3. \A i \in 1..(Len(events) + 1) : Thinned(Seen(rows, events, i + 0), Seen(rows', events, i), Range(rows))
    <3> SUFFICES ASSUME NEW i \in 1..(Len(events) + 1)
                 PROVE  Thinned(Seen(rows, events, i + 0), Seen(rows', events, i), Range(rows))
      OBVIOUS
    <3>1. i + 0 = i
      BY <1>0
    <3> QED BY <2>1, <3>1 DEF Thinned, Seen
  <2>4. 0 \in {0, 1} /\ Len(events) = Len(events) + 0 /\ \A i \in 1..Len(events) : events[i] = events[i + 0]
    BY <1>0
  <2>5. Orderly(rows', events, Coming, Asked, Answered)
    BY <1>0, <2>1, <2>2, <2>3, <2>4, OrderlyShown
  <2> QED BY <1>2, <2>5
<1>3. CASE /\ events # <<>> /\ events' = Tail(events) /\ rows' = HandleRecords(Head(events).records)
           /\ holes' = IF paused /\ ComesAgain(Head(events).records, Tail(events)) THEN "now" ELSE holes
  <2> DEFINE rs == events[1].records
             rest == Tail(events)
             gone == IF paused THEN Range(rs) ELSE {}
  <2>1. /\ 1 \in 1..Len(events) /\ Head(events) = events[1] /\ rest \in Seq(Messages(Ids))
        /\ Len(rest) = Len(events) - 1 /\ \A i \in 1..Len(rest) : rest[i] = events[i + 1]
        /\ rs \in Seq(Ids) /\ InTime(rs) /\ Range(rs) \subseteq Ids
    BY <1>0, <1>3, EventRecords DEF LineInv
  <2>2. \A n \in Range(rs) : Fits(Range(rows), n)
    <3>1. Seen(rows, events, 1) = Range(rows)
      <4>1. 1..(1 - 1) = {}
        OBVIOUS
      <4> QED BY <4>1 DEF Seen
    <3>2. \A n \in Range(events[1].records) : Fits(Seen(rows, events, 1), n)
      BY <2>1 DEF Orderly
    <3> QED BY <3>1, <3>2
  <2>3. rows' = HandleRecords(rs) /\ (paused => ~ComesAgain(rs, rest))
    BY <1>3, <2>1
  <2> HIDE DEF rs, rest
  <2>4. InTime(rows') /\ Thinned(Range(rows) \cup Range(rs), Range(rows'), gone)
    <3>1. CASE paused
      BY <1>1, <2>3, <3>1 DEF HandleRecords, Thinned
    <3>2. CASE ~paused
      <4>1. InTime(MergeAll(rows, rs)) /\ Thinned(Range(rows) \cup Range(rs), Range(MergeAll(rows, rs)), {})
        BY <1>0, <1>1, <2>1, <2>2, MergeInTime
      <4> QED BY <2>3, <3>2, <4>1 DEF HandleRecords
    <3> QED BY <3>1, <3>2
  <2>5. /\ gone \cap Coming = {} /\ gone \cap Asked = {}
        /\ \A i \in 1..Len(rest) : gone \cap Range(rest[i].records) = {}
    BY <1>0, <2>1, <2>3, NotToCome
  <2> HIDE DEF gone
  <2>6. ASSUME NEW i \in 1..(Len(rest) + 1)
        PROVE  Thinned(Seen(rows, events, i + 1), Seen(rows', rest, i), gone)
    <3>1. i + 1 \in 1..(Len(events) + 1)
      BY <1>0, <2>1
    <3>2. Seen(rows, events, i + 1) \subseteq Ids
      BY <1>0, <3>1
    <3>3. Range(events[1].records) \subseteq Ids
      BY <1>0, <2>1
    <3>4. Thinned(Range(rows) \cup Range(events[1].records), Range(rows'), gone)
      BY <2>4 DEF rs
    <3> QED BY <1>0, <1>3, <2>6, <3>2, <3>3, <3>4, RestOfEvents DEF rest
  <2>7. 1 \in {0, 1} /\ Len(events) = Len(rest) + 1
    BY <1>0, <2>1
  <2>8. Orderly(rows', rest, Coming, Asked, Answered)
    BY <1>0, <2>1, <2>4, <2>5, <2>6, <2>7, OrderlyShown
  <2> QED BY <1>3, <2>8 DEF rest
<1> QED BY <1>2, <1>3 DEF Displaying

LEMMA OrderStep ==
  ASSUME TypeInv, DistinctRows(rows), LineInv, FollowInv, Retained, OrderInv, [Next]_vars
  PROVE  OrderInv'
<1> SUFFICES ASSUME Undisturbed' PROVE Orderly(rows, events, Coming, Asked, Answered)'
  BY DEF OrderInv
<1>0. /\ ListsInv /\ RingInv /\ rows \in Seq(Ids) /\ events \in Seq(Messages(Ids))
      /\ Coming \in SUBSET Ids /\ Answered \in BOOLEAN
  <2>1. ListsInv /\ RingInv /\ rows \in Seq(Ids) /\ events \in Seq(Messages(Ids))
    BY DEF TypeInv, ListsInv, RowsInv
  <2> QED BY <2>1, HandIds DEF Answered
<1>1. /\ Undisturbed /\ Orderly(rows, events, Coming, Asked, Answered)
      /\ missed' = "never" /\ holes' = "never" /\ ReplayPerSource <= MaxPerSource
  BY UndisturbedBefore DEF OrderInv, Undisturbed
<1>2. ASSUME taken' = taken, Orderly(rows', events', Coming', Asked', Answered')
      PROVE  Orderly(rows, events, Coming, Asked, Answered)'
  <2>1. PICK list, evs, coming, asked, answered :
          list = rows' /\ evs = events' /\ coming = Coming' /\ asked = Asked' /\ answered = Answered'
    OBVIOUS
  <2>2. \A S, n : Fits(S, n)' <=> Fits(S, n)
    BY <1>2 DEF Fits, Latest, Enough, Newer
  <2>3. Orderly(list, evs, coming, asked, answered)
    BY <1>2, <2>1
  <2>4. Orderly(list, evs, coming, asked, answered)'
    BY <2>2, <2>3 DEF Orderly, AllSeen, Seen, Latest, InTime
  <2> QED BY <2>1, <2>4 DEF Orderly, AllSeen, Seen
<1>3. taken' = taken /\ ring' = ring => Asked' = Asked
  BY DEF Asked, NewestOf
<1>4. CASE Idle
  <2>1. /\ UNCHANGED <<taken, events, rows>> /\ Coming' \in SUBSET Coming
        /\ \A c \in Coming', x \in Coming \ Coming' : c < x
        /\ (Answered' => Answered /\ Coming' = Coming)
    BY <1>4 DEF Idle
  <2>2. Asked' \in SUBSET Asked
    <3>1. ring' = {} => Asked' = {}
      BY DEF Asked, NewestOf
    <3> QED BY <1>3, <1>4, <3>1 DEF Idle
  <2>3. Answered' \in BOOLEAN
    BY DEF Answered
  <2>4. Orderly(rows, events, Coming', Asked', Answered')
    BY <1>0, <1>1, <2>1, <2>2, <2>3, OrderlyLost
  <2> QED BY <1>2, <2>1, <2>4
<1>5. CASE Telling
  <2>1. PICK e \in Messages(Ids) :
          /\ events' = Append(events, e)
          /\ Coming = Range(e.records) \cup Coming' /\ \A r \in Range(e.records), c \in Coming' : r < c
    BY <1>5 DEF Telling
  <2>2. UNCHANGED <<taken, ring, rows, serving>>
    BY <1>5 DEF Telling
  <2>3. Asked' = Asked /\ Answered' = Answered
    BY <1>3, <2>2 DEF Answered
  <2>4. Orderly(rows, Append(events, e), Coming', Asked, Answered)
    BY <1>0, <1>1, <2>1, OrderlyTold
  <2> QED BY <1>2, <2>1, <2>2, <2>3, <2>4
<1>6. CASE Displaying
  <2>1. UNCHANGED <<taken, ring, serving, pipe, item, records, got, work>>
    BY <1>6 DEF Displaying
  <2>2. Asked' = Asked /\ Answered' = Answered /\ Coming' = Coming
    BY <1>3, <2>1 DEF Answered, Coming, InHand
  <2>3. rows' \in Seq(Ids) /\ events' \in Seq(Messages(Ids))
    <3>1. RowsInv'
      BY RowsStep DEF TypeInv
    <3>2. Ids' = Ids /\ Messages(Ids') = Messages(Ids)
      BY <2>1 DEF Ids
    <3> QED BY <3>1, <3>2 DEF RowsInv
  <2>4. Orderly(rows', events', Coming, Asked, Answered)
    BY <1>1, <1>6, <2>3, DisplayingStep
  <2> QED BY <1>2, <2>1, <2>2, <2>4
<1>7. CASE Answering
  <2>1. /\ serving = "waiting" /\ serving' = "replaying" /\ pipe' = Append(InOrder(Asked), Complete)
        /\ UNCHANGED <<taken, ring, rows, events, work, got, records, item>>
    BY <1>7 DEF Answering, Accept, Asked, readerVars, streamVars, viewVars
  <2>2. pipe = <<>> /\ records = <<>> /\ item = Complete /\ got = <<>> /\ work \in Listening
    BY <2>1 DEF FollowInv, TypeInv, SideInv
  <2>3. Asked' = Asked /\ Coming = {} /\ Answered' = TRUE
    BY <1>3, <2>1, <2>2, RangeOfNothing DEF Coming, InHand, Answered
  <2>4. Coming' = Asked
    <3>1. /\ InOrder(Asked) \in Seq({Complete} \cup Ids) /\ Range(InOrder(Asked)) = Asked
          /\ Complete \notin Asked
      <4>1. Asked \subseteq Ids /\ InOrder(Asked) \in Seq(Ids) /\ Range(InOrder(Asked)) = Asked
        BY <1>0, ReplayOfAsked
      <4>2. InOrder(Asked) \in Seq({Complete} \cup Ids)
        BY <4>1, WiderElements
      <4> QED BY <4>1, <4>2 DEF Ids, Complete
    <3>2. Range(pipe') = Asked \cup {Complete}
      BY <2>1, <3>1, RangeOfAppend
    <3> QED BY <2>1, <2>2, <3>1, <3>2, RangeOfNothing DEF Coming, InHand
  <2>5. Orderly(rows, events, {}, Asked, Answered)
    BY <1>1, <2>3
  <2>6. Orderly(rows, events, Asked, Asked, TRUE)
    BY <1>0, <1>1, <2>5, OrderlyAnswered
  <2> QED BY <1>2, <2>1, <2>3, <2>4, <2>6
<1>8. CASE Publishing
  <2>1. PICK s \in Sources : Publish(s)
    BY <1>8 DEF Publishing
  <2>2. UNCHANGED <<rows, events, work, got, records, item, serving>>
    BY <1>8, <2>1 DEF Publishing, Publish, readerVars, streamVars, viewVars
  <2>3. Coming' = Coming \cup IF Answered THEN {Len(taken')} ELSE {}
    <3>1. CASE Answered
      <4>1. serving = "live" /\ pipe' = Append(pipe, Len(taken'))
        BY <1>1, <2>1, <3>1 DEF Publish, Answered
      <4>2. work \in Listening
        BY <4>1 DEF TypeInv, SideInv, FollowInv
      <4>3. pipe \in Seq({Complete} \cup Ids') /\ Len(taken') \in Ids' /\ Len(taken') # Complete
        <5>1. Ids' = Ids \cup {Len(taken')} /\ {Complete} \cup Ids \subseteq {Complete} \cup Ids'
          BY <1>0, <2>1, PublishTakes
        <5>2. pipe \in Seq({Complete} \cup Ids')
          BY <5>1, WiderElements DEF TypeInv, ListsInv, PipeInv
        <5>3. Complete \notin Ids'
          BY DEF Ids, Complete
        <5> QED BY <5>1, <5>2, <5>3
      <4>4. Range(pipe') = Range(pipe) \cup {Len(taken')}
        BY <4>1, <4>3, RangeOfAppend
      <4> QED BY <2>2, <3>1, <4>2, <4>3, <4>4 DEF Coming, InHand
    <3>2. CASE ~Answered
      <4>1. pipe' = pipe
        BY <2>1, <3>2 DEF Publish, Answered
      <4> QED BY <2>2, <3>2, <4>1 DEF Coming, InHand
    <3> QED BY <3>1, <3>2
  <2>4. Answered' = Answered /\ rows' = rows /\ events' = events
    BY <2>2 DEF Answered
  <2>5. PICK more : more = Coming'
    OBVIOUS
  <2>6. PICK list, evs, answered : list = rows /\ evs = events /\ answered = Answered
    OBVIOUS
  <2>7. Orderly(list, evs, more, Asked, answered)'
    BY <1>0, <1>1, <2>1, <2>3, <2>5, <2>6, OrderlyPublished
  <2> QED BY <2>4, <2>5, <2>6, <2>7 DEF Orderly, AllSeen, Seen
<1> QED BY <1>4, <1>5, <1>6, <1>7, <1>8, Steps

(* The inductive invariant of the order of the rows.                       *)
LEMMA OrderKept ==
  Spec => [](TypeInv /\ DistinctRows(rows) /\ LineInv /\ FollowInv /\ Retained /\ OrderInv)
<1> DEFINE Inv == TypeInv /\ DistinctRows(rows) /\ LineInv /\ FollowInv /\ Retained /\ OrderInv
<1>1. Init => LineInv /\ FollowInv /\ Retained /\ OrderInv
  <2> SUFFICES ASSUME Init PROVE LineInv /\ FollowInv /\ Retained /\ OrderInv
    OBVIOUS
  <2>1. /\ events = <<>> /\ rows = <<>> /\ got = <<>> /\ records = <<>> /\ pipe = <<>> /\ item = Complete
        /\ ring = {} /\ serving = "none" /\ linked = FALSE
    BY DEF Init, SubscriptionInit, Complete
  <2>2. Range(<<>>) = {} /\ Len(<<>>) = 0 /\ InTime(<<>>) /\ Ordered(<<>>) /\ 1..0 = {}
    BY RangeOfNothing DEF InTime, Ordered
  <2>3. LineInv
    BY <2>1, <2>2 DEF LineInv, Ahead
  <2>4. FollowInv /\ Retained
    BY <2>1 DEF FollowInv, Retained
  <2>5. Coming = {} /\ Asked = {} /\ ~Answered
    BY <2>1, <2>2 DEF Coming, InHand, Asked, NewestOf, Answered
  <2>6. Orderly(rows, events, Coming, Asked, Answered)
    BY <2>1, <2>2, <2>5 DEF Orderly
  <2> QED BY <2>3, <2>4, <2>6 DEF OrderInv
<1>2. (TypeInv /\ DistinctRows(rows)) /\ (LineInv /\ FollowInv /\ Retained /\ OrderInv) /\ [Next]_vars
        => (LineInv /\ FollowInv /\ Retained /\ OrderInv)'
  <2> SUFFICES ASSUME TypeInv, DistinctRows(rows), LineInv, FollowInv, Retained, OrderInv, [Next]_vars
               PROVE  (LineInv /\ FollowInv /\ Retained /\ OrderInv)'
    OBVIOUS
  <2>1. LineInv' /\ FollowInv' /\ OrderInv'
    BY LineStep, FollowStep, OrderStep
  <2>2. Retained'
    BY RetainedStep DEF TypeInv, ListsInv
  <2> QED BY <2>1, <2>2
<1> QED BY <1>1, <1>2, Typed, PTL DEF Spec

(* The rows are in the order of time, whatever connections are lost and    *)
(* replayed, if nothing was kept from the viewer or forgotten before it    *)
(* came again and no daemon began its ids again (mergeTUIRecord,           *)
(* streamTUIRecords).                                                      *)
THEOREM RowsInTime == Spec => []Chronological
<1>1. OrderInv => Chronological
  BY DEF OrderInv, Orderly, InTime, Chronological
<1> QED BY <1>1, OrderKept, PTL
-----------------------------------------------------------------------------
(* The records of the daemon that is up, or was last, have ids in their    *)
(* order: those it retains and those on their way on a connection that     *)
(* stands are among them.                                                  *)
LastBefore == Len(taken) + 1 - next

Life == {n \in Ids : n > LastBefore}

LifeInv ==
  /\ next \in 1..(Len(taken) + 1)
  /\ \A n \in Life : Id(n) = n - LastBefore
  /\ ring \subseteq Life
  /\ linked => InHand \subseteq Life

LEMMA LifeMoves ==
  [Next]_vars
    => \/ UNCHANGED <<taken, next>> /\ ring' \in {ring, {}} /\ (linked' => linked \/ Dial)
       \/ UNCHANGED taken /\ next' = 1 /\ ring' = {} /\ ~linked'
       \/ \E s \in Sources : Publish(s)
<1> DEFINE Same == UNCHANGED <<taken, next>> /\ ring' \in {ring, {}} /\ (linked' => linked \/ Dial)
           Ends == UNCHANGED taken /\ next' = 1 /\ ring' = {} /\ ~linked'
           Goal == Same \/ Ends \/ \E s \in Sources : Publish(s)
<1> SUFFICES ASSUME [Next]_vars PROVE Goal
  OBVIOUS
<1> USE DEF subscriptionVars, daemonVars, connection
<1>1. Work \/ Cancel => Goal
  <2>1. Announce \/ Dial \/ DialFails => Same
    BY DEF Announce, Dial, Subscribed, DialFails
  <2>2. Load \/ Follow \/ Reconnect \/ Cancel => Same
    BY DEF Load, Follow, Reconnect, Cancel, Closed, Cut
  <2> QED BY <2>1, <2>2 DEF Work
<1>2. Update \/ UpdateClosed \/ User => Same
  BY DEF Update, UpdateClosed, User, TogglePause, ClearKey, ExpungeKey, Quit
<1>3. Expunging \/ UNCHANGED vars => Same
  BY DEF Expunging, ExpungeServed, ExpungeFails, ExpungeEnds, vars
<1>4. Read \/ Serve => Same
  BY DEF Read, Decode, Send, DecodeFails, Release, Serve, Accept, Join
<1>5. Environment => Goal
  <2>1. Crash => Ends
    BY DEF Crash, Cut
  <2>2. Lose \/ Restart => Same
    BY DEF Lose, Restart, Cut
  <2> QED BY <2>1, <2>2 DEF Environment
<1> QED BY <1>1, <1>2, <1>3, <1>4, <1>5 DEF Next

(* What comes into the line of records: what the daemon sends.             *)
LEMMA HandMoves ==
  ASSUME TypeInv, FollowInv, [Next]_vars
  PROVE  \/ InHand' \subseteq InHand
         \/ taken' = taken /\ InHand' \subseteq Asked
         \/ (\E s \in Sources : Publish(s)) /\ InHand' \subseteq InHand \cup {Len(taken')}
<1>0. ListsInv /\ RingInv /\ got \in Seq(Ids) /\ records \in Seq(Ids) /\ pipe \in Seq({Complete} \cup Ids)
  BY DEF TypeInv, ListsInv, PipeInv, RowsInv
<1>1. CASE Quiet \/ Showing
  BY <1>1, RangeOfNothing DEF Quiet, Showing, InHand
<1>2. CASE Cutting
  <2>1. Range(pipe') \subseteq Range(pipe)
    BY <1>0, <1>2, CutPipe DEF Cutting
  <2> QED BY <1>2, <2>1, RangeOfNothing DEF Cutting, InHand
<1>3. CASE Taking
  <2>1. Range(records) = {Head(records)} \cup Range(records') /\ Head(records) \in Ids
    BY <1>0, <1>3, RangeOfTail, TailOfSequence DEF Taking
  <2>2. Range(got') = Range(got) \cup {Head(records)}
    BY <1>0, <1>3, <2>1, RangeOfAppend DEF Taking
  <2> QED BY <1>3, <2>1, <2>2 DEF Taking, InHand
<1>4. CASE Announce
  <2>1. got' \in {got, <<>>} /\ UNCHANGED <<pipe, item, records>>
    BY <1>4, <1>0 DEF Announce, subscriptionVars, readerVars, connection
  <2> QED BY <2>1, RangeOfNothing DEF InHand
<1>5. CASE Dial
  <2>1. pipe' = <<>> /\ records' = <<>> /\ item' = Complete /\ got' = got
    BY <1>5 DEF Dial, Subscribed, Complete
  <2> QED BY <2>1, RangeOfNothing DEF InHand
<1>6. CASE Decode /\ UNCHANGED <<got, events, rows>>
  <2>1. pipe # <<>> /\ pipe' = Tail(pipe) /\ item' \in {item, Head(pipe)} /\ records' = records
    BY <1>6 DEF Decode
  <2>2. Range(pipe) = {Head(pipe)} \cup Range(pipe')
    BY <1>0, <2>1, RangeOfTail
  <2> QED BY <1>6, <2>1, <2>2 DEF InHand
<1>7. CASE Send /\ UNCHANGED <<got, events, rows>>
  <2>1. pipe' = pipe /\ records' = Append(records, item) /\ item' = Complete /\ item \in Ids /\ item # Complete
    BY <1>7 DEF Send, TypeInv, ListsInv, PipeInv, SideInv, connection, Complete
  <2>2. Range(records') = Range(records) \cup {item}
    BY <1>0, <2>1, RangeOfAppend
  <2> QED BY <1>7, <2>1, <2>2 DEF InHand
<1>8. CASE Accept /\ UNCHANGED <<got, events, rows>>
  <2>1. pipe' = Append(InOrder(Asked), Complete) /\ UNCHANGED <<taken, item, records>>
    BY <1>8 DEF Accept, Asked, readerVars
  <2>2. records = <<>> /\ item = Complete /\ got = <<>>
    BY <1>8 DEF Accept, FollowInv
  <2>3. InOrder(Asked) \in Seq({Complete} \cup Ids) /\ Range(InOrder(Asked)) = Asked
    BY <1>0, ReplayOfAsked, WiderElements
  <2>4. Range(pipe') = Asked \cup {Complete}
    BY <2>1, <2>3, RangeOfAppend
  <2> QED BY <1>8, <2>1, <2>2, <2>4, RangeOfNothing DEF InHand
<1>9. ASSUME NEW s \in Sources, Publish(s), UNCHANGED <<got, events, rows>>
      PROVE  InHand' \subseteq InHand \cup {Len(taken')}
  <2>1. UNCHANGED <<item, records>> /\ pipe' \in {pipe, Append(pipe, Len(taken'))}
    BY <1>9 DEF Publish, readerVars
  <2>2. Len(taken') \in Ids' /\ {Complete} \cup Ids \subseteq {Complete} \cup Ids'
    BY <1>0, <1>9, PublishTakes
  <2>3. pipe \in Seq({Complete} \cup Ids')
    BY <1>0, <2>2, WiderElements
  <2> DEFINE N == Len(taken')
  <2>4. N \in {Complete} \cup Ids'
    BY <2>2
  <2> HIDE DEF N
  <2>5. Range(Append(pipe, N)) = Range(pipe) \cup {N}
    BY <2>3, <2>4, RangeOfAppend
  <2>6. Range(pipe') \subseteq Range(pipe) \cup {N}
    BY <2>1, <2>5 DEF N
  <2> QED BY <1>9, <2>1, <2>6 DEF InHand, N
<1> QED BY <1>1, <1>2, <1>3, <1>4, <1>5, <1>6, <1>7, <1>8, <1>9, ListMoves DEF Moves

LEMMA LifeStep ==
  ASSUME TypeInv, FollowInv, LifeInv, [Next]_vars
  PROVE  LifeInv'
<1>0. RingInv /\ ListsInv /\ Len(taken) \in Nat /\ next \in Nat
  BY ElementsOf DEF TypeInv, ListsInv, RingInv
<1>1. CASE UNCHANGED <<taken, next>> /\ ring' \in {ring, {}} /\ (linked' => linked \/ Dial)
  <2>1. Life' = Life /\ LastBefore' = LastBefore /\ Ids' = Ids
    BY <1>1 DEF Life, LastBefore, Ids
  <2>2. /\ next' \in 1..(Len(taken') + 1) /\ ring' \subseteq Life
        /\ \A n \in Life : Id(n)' = n - LastBefore
    BY <1>1 DEF LifeInv, Id
  <2>3. ASSUME linked' PROVE InHand' \subseteq Life
    <3>1. CASE Dial
      <4>1. pipe' = <<>> /\ records' = <<>> /\ item' = Complete /\ got' = <<>>
        BY <3>1 DEF Dial, Subscribed, Complete, TypeInv, WorkInv
      <4> QED BY <4>1, RangeOfNothing DEF InHand
    <3>2. CASE linked
      <4>1. Asked \subseteq ring
        BY DEF Asked, NewestOf
      <4>2. InHand \subseteq Life /\ Asked \subseteq Life
        BY <3>2, <4>1 DEF LifeInv
      <4>3. ASSUME NEW s \in Sources, Publish(s) PROVE FALSE
        <5>1. Len(taken') = Len(taken) + 1
          BY <1>0, <4>3, PublishTakes
        <5> QED BY <1>0, <1>1, <5>1
      <4> QED BY <4>2, <4>3, HandMoves
    <3> QED BY <1>1, <2>3, <3>1, <3>2
  <2> QED BY <2>1, <2>2, <2>3 DEF LifeInv
<1>2. CASE UNCHANGED taken /\ next' = 1 /\ ring' = {} /\ ~linked'
  <2>1. Life' = {}
    BY <1>0, <1>2 DEF Life, LastBefore, Ids
  <2>2. next' \in 1..(Len(taken') + 1)
    BY <1>0, <1>2
  <2> QED BY <1>2, <2>1, <2>2 DEF LifeInv
<1>3. ASSUME NEW s \in Sources, Publish(s) PROVE LifeInv'
  <2> DEFINE N == Len(taken')
  <2>1. /\ N = Len(taken) + 1 /\ taken'[N] = [id |-> next, source |-> s] /\ Ids' = Ids \cup {N}
        /\ \A n \in Ids : n < N /\ taken'[n] = taken[n]
    BY <1>0, <1>3, PublishTakes
  <2>2. next' = next + 1 /\ ring' \subseteq ring \cup {N} /\ linked' = linked
    BY <1>3 DEF Publish
  <2> HIDE DEF N
  <2>3. LastBefore' = LastBefore /\ LastBefore \in Int /\ LastBefore < N /\ next = N - LastBefore /\ N \in Nat
    <3>1. LastBefore' = N + 1 - next'
      BY DEF LastBefore, N
    <3>2. next >= 1
      BY <1>0 DEF LifeInv
    <3>3. PICK b, l, x : b = LastBefore /\ l = Len(taken) /\ x = next
      OBVIOUS
    <3>4. l \in Nat /\ x \in Nat /\ x >= 1 /\ b = l + 1 - x /\ N = l + 1
      BY <1>0, <2>1, <3>2, <3>3 DEF LastBefore
    <3>5. b \in Int /\ b < N /\ x = N - b /\ N \in Nat /\ N + 1 - (x + 1) = b
      BY <3>4
    <3> QED BY <2>2, <3>1, <3>3, <3>5
  <2>4. Life' = Life \cup {N}
    BY <2>1, <2>3 DEF Life
  <2>5. next' \in 1..(Len(taken') + 1)
    BY <1>0, <2>1, <2>2 DEF LifeInv, N
  <2>6. ASSUME NEW n \in Life' PROVE Id(n)' = n - LastBefore
    <3>1. CASE n \in Life
      BY <2>1, <3>1 DEF LifeInv, Life, Id
    <3>2. CASE n = N
      <4>1. taken'[n].id = next
        BY <2>1, <3>2
      <4> QED BY <2>3, <3>2, <4>1 DEF Id
    <3> QED BY <2>4, <2>6, <3>1, <3>2
  <2>7. linked' => InHand' \subseteq Life'
    <3>1. Asked \subseteq ring
      BY DEF Asked, NewestOf
    <3>2. linked => InHand \subseteq Life /\ Asked \subseteq Life
      BY <3>1 DEF LifeInv
    <3> QED BY <2>2, <2>4, <3>2, HandMoves DEF N
  <2>8. ring' \subseteq Life'
    BY <2>2, <2>4 DEF LifeInv
  <2>9. \A n \in Life' : Id(n)' = n - LastBefore'
    BY <2>3, <2>6
  <2> QED BY <2>5, <2>7, <2>8, <2>9 DEF LifeInv
<1> QED BY <1>1, <1>2, <1>3, LifeMoves

LEMMA OneIdInLife ==
  ASSUME RingInv, LifeInv, NEW m \in Life, NEW n \in Life, Id(m) = Id(n)
  PROVE  m = n
<1>1. m \in Nat /\ n \in Nat /\ LastBefore \in Int
  <2>1. Len(taken) \in Nat /\ Ids \subseteq Nat
    BY ElementsOf, FiniteIds DEF RingInv
  <2> QED BY <2>1 DEF Life, LastBefore, RingInv
<1>2. m - LastBefore = n - LastBefore
  BY DEF LifeInv
<1> QED BY <1>1, <1>2
-----------------------------------------------------------------------------
(* A record is shown, or will be with one of the events, and no later one  *)
(* has another record of its id.                                           *)
Stage(list, evs, i) == IF i = 0 THEN Range(list) ELSE Range(evs[i].records)

Alone(set, n) == \A m \in set : Id(m) = Id(n) => m = n

Stands(list, evs, n) ==
  \E i \in 0..Len(evs) : n \in Stage(list, evs, i) /\ \A j \in i..Len(evs) : Alone(Stage(list, evs, j), n)

(* As long as there are no more records than rows of a source, a viewer    *)
(* that is answered has all the records it asked for or will have them.    *)
Sound == missed # "now" /\ holes # "now" /\ Len(taken) <= MaxPerSource

KeptInv == Answered /\ Sound => \A n \in Asked : n \in Coming \/ Stands(rows, events, n)

(* The rows keep a record that no other record of its id is merged with.   *)
LEMMA MergeKeeps ==
  ASSUME RingInv, Len(taken) <= MaxPerSource, NEW old \in Seq(Ids), DistinctRows(old),
         NEW rs \in Seq(Ids), NEW n \in Range(old) \cup Range(rs), Alone(Range(rs), n)
  PROVE  n \in Range(MergeAll(old, rs))
<1>0. /\ Len(rs) \in Nat /\ \A k \in 1..Len(rs) : rs[k] \in Ids /\ rs[k] \in Range(rs)
      /\ \A x \in Range(rs) : \E k \in 1..Len(rs) : rs[k] = x
  BY ElementsOf
<1>1. PICK f : Stages(f, old, rs)
  BY StagesOfMerge
<1> DEFINE Good(k) == /\ f[k] \in Seq(Ids) /\ DistinctRows(f[k])
                      /\ n \in Range(f[k]) \/ \E j \in (k + 1)..Len(rs) : rs[j] = n
           good == {k \in 0..Len(rs) : Good(k)}
<1>2. Good(0)
  <2>1. f[0] = old
    BY <1>1 DEF Stages
  <2>2. n \in Range(old) \/ \E j \in (0 + 1)..Len(rs) : rs[j] = n
    BY <1>0
  <2> QED BY <2>1, <2>2
<1>3. ASSUME NEW k \in 1..Len(rs), Good(k - 1) PROVE Good(k)
  <2> DEFINE was == f[k - 1]
             now == f[k]
             r == rs[k]
  <2>1. /\ was \in Seq(Ids) /\ DistinctRows(was)
        /\ n \in Range(was) \/ \E j \in k..Len(rs) : rs[j] = n
    <3>1. (k - 1) + 1 = k
      BY <1>0
    <3> QED BY <1>3, <3>1
  <2>2. now = MergeTUIRecord(was, r) /\ r \in Ids /\ r \in Range(rs)
    BY <1>0, <1>1 DEF Stages
  <2>3. \A j \in k..Len(rs) : j = k \/ j \in (k + 1)..Len(rs)
    BY <1>0
  <2>4. (\E j \in k..Len(rs) : rs[j] = n) => r = n \/ \E j \in (k + 1)..Len(rs) : rs[j] = n
    BY <2>3
  <2> HIDE DEF was, now, r, Good
  <2>5. /\ now \in Seq(Ids) /\ DistinctRows(now) /\ r \in Range(now)
        /\ \A m \in Range(was) : m \in Range(now) \/ (Id(m) = Id(r) /\ m # r)
    BY <2>1, <2>2, MergeOne
  <2>6. n \in Range(was) => n \in Range(now)
    BY <2>2, <2>5 DEF Alone
  <2>7. n \in Range(now) \/ \E j \in (k + 1)..Len(rs) : rs[j] = n
    BY <2>1, <2>4, <2>5, <2>6
  <2> QED BY <2>5, <2>7 DEF Good, now
<1>4. Good(Len(rs))
  <2>1. 0 \in good
    BY <1>0, <1>2
  <2>2. \A k \in 1..Len(rs) : k - 1 \in good => k \in good
    <3> SUFFICES ASSUME NEW k \in 1..Len(rs), k - 1 \in good PROVE k \in good
      OBVIOUS
    <3>1. Good(k - 1) /\ k \in 0..Len(rs)
      BY <1>0
    <3> HIDE DEF Good
    <3> QED BY <1>3, <3>1
  <2> HIDE DEF good
  <2>3. \A k \in 0..Len(rs) : k \in good
    BY <1>0, <2>1, <2>2, StepByStep
  <2>4. Len(rs) \in good
    BY <1>0, <2>3
  <2> USE DEF good
  <2> HIDE DEF Good
  <2> QED BY <2>4
<1>5. (Len(rs) + 1)..Len(rs) = {}
  BY <1>0
<1> QED BY <1>1, <1>4, <1>5 DEF Stages

LEMMA DistinctIsAlone ==
  ASSUME NEW list \in Seq(Ids), DistinctRows(list), NEW n \in Range(list)
  PROVE  Alone(Range(list), n)
<1>1. \A x \in Range(list) : \E i \in 1..Len(list) : list[i] = x
  BY ElementsOf
<1> QED BY <1>1 DEF Alone, DistinctRows

(* Another event comes that has no other record of its id,                 *)
LEMMA StandsTold ==
  ASSUME NEW list, NEW evs \in Seq(Messages(Ids)), NEW n, NEW e \in Messages(Ids),
         Alone(Range(e.records), n), Stands(list, evs, n) \/ n \in Range(e.records)
  PROVE  Stands(list, Append(evs, e), n)
<1> DEFINE more == Append(evs, e)
           L == Len(evs)
<1>1. /\ L \in Nat /\ Len(more) = L + 1
      /\ \A i \in 1..L : more[i] = evs[i]
      /\ more[L + 1] = e
  BY AppendedElements
<1> HIDE DEF more, L
<1>2. \A i \in 0..L : Stage(list, more, i) = Stage(list, evs, i)
  BY <1>1 DEF Stage
<1>3. Stage(list, more, L + 1) = Range(e.records)
  BY <1>1 DEF Stage
<1>4. CASE Stands(list, evs, n)
  <2>1. PICK i \in 0..L : n \in Stage(list, evs, i) /\ \A j \in i..L : Alone(Stage(list, evs, j), n)
    BY <1>4 DEF Stands, L
  <2>2. i \in 0..Len(more) /\ \A j \in i..Len(more) : j = L + 1 \/ (j \in i..L /\ j \in 0..L)
    BY <1>1
  <2>3. \A j \in i..Len(more) : Alone(Stage(list, more, j), n)
    BY <1>2, <1>3, <2>1, <2>2
  <2> QED BY <1>2, <2>1, <2>2, <2>3 DEF Stands, more
<1>5. CASE n \in Range(e.records)
  <2>1. L + 1 \in 0..Len(more) /\ \A j \in (L + 1)..Len(more) : j = L + 1
    BY <1>1
  <2> QED BY <1>3, <1>5, <2>1 DEF Stands, more
<1> QED BY <1>4, <1>5

(* or the first event is shown and the rows keep the record.               *)
LEMMA StandsShown ==
  ASSUME NEW list, NEW new, NEW evs \in Seq(Messages(Ids)), evs # <<>>, NEW n, Stands(list, evs, n),
         n \in Range(list) \cup Range(evs[1].records) /\ Alone(Range(evs[1].records), n)
           => n \in Range(new) /\ Alone(Range(new), n)
  PROVE  Stands(new, Tail(evs), n)
<1> DEFINE rest == Tail(evs)
           L == Len(rest)
<1>1. /\ L \in Nat /\ Len(evs) = L + 1
      /\ \A i \in 1..L : rest[i] = evs[i + 1]
  <2>1. Len(evs) \in Nat /\ Len(rest) = Len(evs) - 1 /\ Len(evs) >= 1 /\ \A i \in 1..Len(rest) : rest[i] = evs[i + 1]
    BY TailOfSequence
  <2> QED BY <2>1
<1> HIDE DEF rest, L
<1>2. \A i \in 1..L : Stage(new, rest, i) = Stage(list, evs, i + 1)
  BY <1>1 DEF Stage
<1>3. PICK i \in 0..(L + 1) :
        n \in Stage(list, evs, i) /\ \A j \in i..(L + 1) : Alone(Stage(list, evs, j), n)
  BY <1>1 DEF Stands
<1>4. CASE i \in {0, 1}
  <2>1. 1 \in i..(L + 1) /\ 0 \in 0..L /\ \A j \in 0..L : j = 0 \/ (j \in 1..L /\ j + 1 \in i..(L + 1))
    BY <1>1, <1>4
  <2>2. n \in Range(list) \cup Range(evs[1].records) /\ Alone(Range(evs[1].records), n)
    BY <1>3, <1>4, <2>1 DEF Stage
  <2>3. n \in Range(new) /\ Alone(Range(new), n) /\ Stage(new, rest, 0) = Range(new)
    BY <2>2 DEF Stage
  <2>4. \A j \in 0..L : Alone(Stage(new, rest, j), n)
    BY <1>2, <1>3, <2>1, <2>3
  <2> QED BY <2>1, <2>3, <2>4 DEF Stands, L, rest
<1>5. CASE i \notin {0, 1}
  <2>1. /\ i - 1 \in 0..L /\ i - 1 \in 1..L /\ (i - 1) + 1 = i
        /\ \A j \in (i - 1)..L : j \in 1..L /\ j + 1 \in i..(L + 1)
    BY <1>1, <1>5
  <2>2. \A j \in (i - 1)..L : Alone(Stage(new, rest, j), n)
    BY <1>2, <1>3, <2>1
  <2>3. n \in Stage(new, rest, i - 1)
    BY <1>2, <1>3, <2>1
  <2> QED BY <2>1, <2>2, <2>3 DEF Stands, L, rest
<1> QED BY <1>4, <1>5

LEMMA SoundBefore ==
  ASSUME TypeInv, [Next]_vars, Answered', Sound'
  PROVE  Sound
<1> USE DEF subscriptionVars, daemonVars, readerVars, connection, streamVars, viewVars
<1> DEFINE Goal == (missed' # "now" => missed # "now") /\ (holes' # "now" => holes # "now")
<1>1. Announce \/ DialFails \/ Load \/ Follow \/ Reconnect \/ Cancel => Goal
  BY DEF Announce, DialFails, Load, Follow, Reconnect, Cancel
<1>2. Update \/ UpdateClosed \/ User => Goal
  BY DEF Update, UpdateClosed, User, TogglePause, ClearKey, ClearAll, ExpungeKey, Quit
<1>3. Expunging \/ UNCHANGED vars => Goal
  BY DEF Expunging, ExpungeServed, ExpungeFails, ExpungeEnds, ClearAll, vars
<1>4. (Read \/ Serve) /\ UNCHANGED <<streamVars, events, viewVars>> => Goal
  BY DEF Read, Decode, Send, DecodeFails, Release, Serve, Accept, Join
<1>5. Environment /\ UNCHANGED <<streamVars, events, viewVars>> => Goal
  BY DEF Environment, Publish, Lose, Crash, Restart
<1>6. ~Dial
  BY DEF Dial, Subscribed, Answered
<1>7. Goal
  BY <1>1, <1>2, <1>3, <1>4, <1>5, <1>6 DEF Next, Work
<1>8. Len(taken) <= Len(taken') /\ Len(taken) \in Nat /\ Len(taken') \in Nat
  <2>1. Ids \subseteq Ids' /\ RingInv /\ RingInv'
    BY TakenStays, RingStep DEF TypeInv, ListsInv
  <2>2. Len(taken) \in Nat /\ Len(taken') \in Nat
    <3>1. taken \in Seq(Taken) /\ taken' \in Seq(Taken)
      BY <2>1 DEF RingInv, Taken
    <3> QED BY <3>1, ElementsOf
  <2>3. Len(taken) # 0 => Len(taken) \in 1..Len(taken')
    BY <2>1, <2>2 DEF Ids
  <2> QED BY <2>2, <2>3
<1>9. MaxPerSource \in Nat
  BY TuiAssumption
<1> QED BY <1>7, <1>8, <1>9 DEF Sound

LEMMA KeptStep ==
  ASSUME TypeInv, DistinctRows(rows), LineInv, FollowInv, Retained, LifeInv, KeptInv, [Next]_vars
  PROVE  KeptInv'
<1> SUFFICES ASSUME Answered', Sound' PROVE (\A n \in Asked : n \in Coming \/ Stands(rows, events, n))'
  BY DEF KeptInv
<1>0. /\ ListsInv /\ RingInv /\ rows \in Seq(Ids) /\ events \in Seq(Messages(Ids))
      /\ Sound /\ Len(taken) <= MaxPerSource /\ (linked <=> serving # "none") /\ ring \subseteq Life
  BY SoundBefore DEF TypeInv, ListsInv, RowsInv, Sound, SideInv, LifeInv
<1>1. ASSUME taken' = taken, \A n \in Asked' : n \in Coming' \/ Stands(rows', events', n)
      PROVE  (\A n \in Asked : n \in Coming \/ Stands(rows, events, n))'
  BY <1>1 DEF Stands, Stage, Alone, Id
<1>2. taken' = taken /\ ring' = ring => Asked' = Asked
  BY DEF Asked, NewestOf
<1>3. Answered => Coming \subseteq Life /\ \A n \in Asked : n \in Coming \/ Stands(rows, events, n)
  BY <1>0 DEF KeptInv, LifeInv, Coming, Answered
<1>4. Asked \subseteq ring /\ Asked \subseteq Life
  BY <1>0 DEF Asked, NewestOf
<1>5. CASE Idle
  <2>1. Asked' \subseteq Asked
    <3>1. ring' = {} => Asked' = {}
      BY DEF Asked, NewestOf
    <3> QED BY <1>2, <1>5, <3>1 DEF Idle
  <2>2. UNCHANGED <<taken, rows, events>> /\ Coming' = Coming /\ Answered
    BY <1>5 DEF Idle
  <2> QED BY <1>1, <1>3, <2>1, <2>2
<1>6. CASE Telling
  <2>1. PICK e \in Messages(Ids) : events' = Append(events, e) /\ Coming = Range(e.records) \cup Coming'
    BY <1>6 DEF Telling
  <2>2. UNCHANGED <<taken, rows>> /\ Asked' = Asked /\ Answered
    BY <1>2, <1>6 DEF Telling, Answered
  <2>3. ASSUME NEW n \in Asked PROVE n \in Coming' \/ Stands(rows, Append(events, e), n)
    <3>1. Alone(Range(e.records), n)
      BY <1>0, <1>3, <1>4, <2>1, <2>2, OneIdInLife DEF Alone
    <3>2. n \in Coming' \/ n \in Range(e.records) \/ Stands(rows, events, n)
      BY <1>3, <2>1, <2>2
    <3> QED BY <1>0, <3>1, <3>2, StandsTold
  <2> QED BY <1>1, <2>1, <2>2, <2>3
<1>7. CASE Displaying
  <2>1. UNCHANGED <<taken, ring, serving, pipe, item, records, got, work>>
    BY <1>7 DEF Displaying
  <2>2. Asked' = Asked /\ Answered /\ Coming' = Coming
    BY <1>2, <2>1 DEF Answered, Coming, InHand
  <2>3. \A n \in Asked : n \in Coming \/ Stands(rows, events, n)
    BY <1>3, <2>2
  <2>4. CASE ClearAll /\ events' = events
    <3>1. ~ComesAgain(rows, events)
      BY <2>4 DEF ClearAll, Sound
    <3>2. Range(rows) \cap Asked = {}
      BY <1>0, <3>1, NotToCome
    <3>3. ASSUME NEW n \in Asked, Stands(rows, events, n) PROVE Stands(rows', events, n)
      <4>1. PICK i \in 0..Len(events) :
              n \in Stage(rows, events, i) /\ \A j \in i..Len(events) : Alone(Stage(rows, events, j), n)
        BY <3>3 DEF Stands
      <4>2. i # 0
        BY <3>2, <4>1 DEF Stage
      <4>3. \A j \in i..Len(events) : j # 0
        BY <4>2
      <4>4. \A j \in i..Len(events) : Stage(rows', events, j) = Stage(rows, events, j)
        BY <4>3 DEF Stage
      <4>5. i \in i..Len(events)
        OBVIOUS
      <4> QED BY <4>1, <4>4, <4>5 DEF Stands
    <3> QED BY <1>1, <2>1, <2>2, <2>3, <2>4, <3>3
  <2>5. CASE /\ events # <<>> /\ events' = Tail(events) /\ rows' = HandleRecords(Head(events).records)
             /\ holes' = IF paused /\ ComesAgain(Head(events).records, Tail(events)) THEN "now" ELSE holes
    <3> DEFINE rs == events[1].records
    <3>1. Head(events) = events[1] /\ Tail(events) \in Seq(Messages(Ids)) /\ rs \in Seq(Ids)
      BY <1>0, <2>5, EventRecords
    <3> HIDE DEF rs
    <3>2. rows' = HandleRecords(rs) /\ (paused => ~ComesAgain(rs, Tail(events)))
      BY <2>5, <3>1 DEF Sound, rs
    <3>3. ASSUME NEW n \in Asked, n \in Range(rows) \cup Range(rs), Alone(Range(rs), n)
          PROVE  n \in Range(rows') /\ Alone(Range(rows'), n)
      <4>1. CASE paused
        <5>1. Range(rs) \cap Asked = {}
          BY <1>0, <3>1, <3>2, <4>1, NotToCome
        <5>2. rows' = rows
          BY <3>2, <4>1 DEF HandleRecords
        <5>3. n \in Range(rows)
          BY <3>3, <5>1
        <5> QED BY <1>0, <5>2, <5>3, DistinctIsAlone
      <4>2. CASE ~paused
        <5>1. rows' = MergeAll(rows, rs)
          BY <3>2, <4>2 DEF HandleRecords
        <5>2. n \in Range(rows')
          BY <1>0, <3>1, <3>3, <5>1, MergeKeeps
        <5>3. rows' \in Seq(Ids) /\ DistinctRows(rows')
          BY <1>0, <3>1, <5>1, MergeList
        <5> QED BY <5>2, <5>3, DistinctIsAlone
      <4> QED BY <4>1, <4>2
    <3>4. ASSUME NEW n \in Asked, Stands(rows, events, n) PROVE Stands(rows', Tail(events), n)
      BY <1>0, <2>5, <3>3, <3>4, StandsShown DEF rs
    <3> QED BY <1>1, <2>1, <2>2, <2>3, <2>5, <3>4
  <2> QED BY <1>7, <2>4, <2>5 DEF Displaying
<1>8. CASE Answering
  <2>1. /\ pipe' = Append(InOrder(Asked), Complete) /\ serving = "waiting"
        /\ UNCHANGED <<taken, ring, rows, events, work, got, records, item>>
    BY <1>8 DEF Answering, Accept, Asked, readerVars, streamVars, viewVars
  <2>2. work \in Listening
    BY <1>0, <2>1 DEF FollowInv
  <2>3. InOrder(Asked) \in Seq({Complete} \cup Ids) /\ Range(InOrder(Asked)) = Asked /\ Complete \notin Asked
    <3>1. Asked \subseteq Ids /\ InOrder(Asked) \in Seq(Ids) /\ Range(InOrder(Asked)) = Asked
      BY <1>0, ReplayOfAsked
    <3>2. InOrder(Asked) \in Seq({Complete} \cup Ids)
      BY <3>1, WiderElements
    <3> QED BY <3>1, <3>2 DEF Ids, Complete
  <2>4. Range(pipe') = Asked \cup {Complete}
    BY <2>1, <2>3, RangeOfAppend
  <2>5. Asked \subseteq Coming' /\ Asked' = Asked
    BY <1>2, <2>1, <2>2, <2>3, <2>4 DEF Coming, InHand
  <2> QED BY <1>1, <2>1, <2>5
<1>9. CASE Publishing
  <2>1. PICK s \in Sources : Publish(s)
    BY <1>9 DEF Publishing
  <2>2. UNCHANGED <<rows, events, work, got, records, item, serving>>
    BY <1>9, <2>1 DEF Publishing, Publish, readerVars, streamVars, viewVars
  <2> DEFINE N == Len(taken')
  <2>3. /\ N \in Ids' /\ \A n \in Ids : n < N /\ taken'[n] = taken[n]
        /\ {Complete} \cup Ids \subseteq {Complete} \cup Ids'
    BY <1>0, <2>1, PublishTakes
  <2>4. Answered /\ pipe' = Append(pipe, N) /\ Asked' \subseteq Asked \cup {N}
    <3>1. Asked' \subseteq Asked \cup {N}
      BY <1>0, <2>1, PublishKeeps
    <3>2. Answered /\ pipe' = Append(pipe, N)
      BY <2>1, <2>2 DEF Publish, Answered, Sound
    <3> QED BY <3>1, <3>2
  <2>5. work \in Listening
    BY <1>0, <2>4 DEF FollowInv, Answered
  <2> HIDE DEF N
  <2>6. Coming \cup {N} \subseteq Coming'
    <3>1. pipe \in Seq({Complete} \cup Ids')
      BY <2>3, WiderElements DEF TypeInv, ListsInv, PipeInv
    <3>2. Range(pipe') = Range(pipe) \cup {N} /\ N # Complete
      BY <2>3, <2>4, <3>1, RangeOfAppend DEF Ids, Complete
    <3> QED BY <2>2, <2>5, <3>2 DEF Coming, InHand
  <2>7. ASSUME NEW n \in Ids, NEW S \in SUBSET Ids, Alone(S, n) PROVE Alone(S, n)'
    BY <2>3, <2>7 DEF Alone, Id
  <2>8. ASSUME NEW n \in Asked, Stands(rows, events, n) PROVE Stands(rows, events, n)'
    <3>1. PICK i \in 0..Len(events) :
            n \in Stage(rows, events, i) /\ \A j \in i..Len(events) : Alone(Stage(rows, events, j), n)
      BY <2>8 DEF Stands
    <3>2. \A j \in 0..Len(events) : Stage(rows, events, j) \subseteq Ids
      <4>1. \A j \in 0..Len(events) : j = 0 \/ j \in 1..Len(events)
        BY <1>0, ElementsOf
      <4>2. \A j \in 1..Len(events) : Range(events[j].records) \subseteq Ids
        BY <1>0, SeenIds
      <4>3. Range(rows) \subseteq Ids
        BY <1>0, ElementsOf
      <4> QED BY <4>1, <4>2, <4>3 DEF Stage
    <3>3. n \in Ids
      BY <1>4 DEF Life
    <3>4. ASSUME NEW j \in i..Len(events), NEW m \in Stage(rows, events, j), taken'[m].id = taken'[n].id
          PROVE  m = n
      <4>1. j \in 0..Len(events)
        BY <1>0, ElementsOf
      <4>2. m \in Ids /\ Alone(Stage(rows, events, j), n)
        BY <3>1, <3>2, <4>1
      <4> QED BY <2>3, <3>3, <3>4, <4>2 DEF Alone, Id
    <3> QED BY <2>2, <3>1, <3>4 DEF Stands, Stage, Alone, Id
  <2> QED BY <1>3, <2>4, <2>6, <2>8
<1> QED BY <1>5, <1>6, <1>7, <1>8, <1>9, Steps

(* All that the rows are made of, in every reachable state.                *)
LEMMA RowsKept ==
  Spec => [](TypeInv /\ FollowInv /\ OrderInv /\ LifeInv /\ KeptInv)
<1>1. Init => LifeInv /\ KeptInv
  <2> SUFFICES ASSUME Init PROVE LifeInv /\ KeptInv
    OBVIOUS
  <2>1. taken = <<>> /\ next = 1 /\ ring = {} /\ linked = FALSE /\ serving = "none" /\ Len(<<>>) = 0
    BY DEF Init, SubscriptionInit
  <2>2. Life = {}
    BY <2>1 DEF Life, Ids
  <2> QED BY <2>1, <2>2 DEF LifeInv, KeptInv, Answered
<1>2. (TypeInv /\ DistinctRows(rows) /\ LineInv /\ FollowInv /\ Retained /\ OrderInv)
        /\ (LifeInv /\ KeptInv) /\ [Next]_vars
        => (LifeInv /\ KeptInv)'
  BY LifeStep, KeptStep
<1> QED BY <1>1, <1>2, OrderKept, PTL DEF Spec

(* A viewer that has followed the stream to its present end shows the      *)
(* newest records the daemon retains, with those that earlier connections  *)
(* lost (mergeTUIRecord, streamTUIRecords, Subscribe).                     *)
THEOREM AllRetainedShown == Spec => []CaughtUp
<1> DEFINE Inv == TypeInv /\ FollowInv /\ OrderInv /\ LifeInv /\ KeptInv
           k == SmallerOf(ReplayPerSource, MaxPerSource)
<1>1. Inv => CaughtUp
  <2> SUFFICES ASSUME Inv, work = "follow", serving = "live", pipe = <<>>, reader = "decode",
                      records = <<>>, events = <<>>, missed # "now", holes # "now",
                      Len(taken) <= MaxPerSource \/ Undisturbed
               PROVE  NewestOf(ring, k) \subseteq {rows[i] : i \in 1..Len(rows)}
    BY DEF CaughtUp
  <2>1. item = Complete /\ got = <<>> /\ Answered /\ rows \in Seq(Ids) /\ RingInv
    BY DEF TypeInv, SideInv, WorkInv, Answered, ListsInv, RowsInv
  <2>2. Coming = {} /\ Len(<<>>) = 0
    BY <2>1, RangeOfNothing DEF Coming, InHand
  <2>3. Asked \subseteq Range(rows)
    <3>1. CASE Len(taken) <= MaxPerSource
      <4>1. \A n \in Asked : Stands(rows, <<>>, n)
        BY <2>1, <2>2, <3>1 DEF KeptInv, Sound
      <4>2. \A i \in 0..Len(<<>>) : i = 0
        OBVIOUS
      <4> QED BY <4>1, <4>2 DEF Stands, Stage
    <3>2. CASE Undisturbed
      <4>1. Asked \subseteq AllSeen(rows, <<>>)
        BY <2>1, <2>2, <3>2 DEF OrderInv, Orderly
      <4>2. 1..(Len(<<>>) + 1 - 1) = {}
        OBVIOUS
      <4> QED BY <4>1, <4>2 DEF AllSeen, Seen
    <3> QED BY <3>1, <3>2
  <2>4. NewestOf(ring, k) \subseteq Asked
    <3>1. k \in Nat /\ k <= ReplayPerSource /\ ReplayPerSource \in Nat
      BY SubscriptionAssumption, TuiAssumption DEF SmallerOf
    <3> DEFINE Had(n) == {m \in ring : m > n /\ taken[m].source = taken[n].source}
    <3>2. \A n \in ring : Had(n) \subseteq Ids
      BY <2>1 DEF RingInv
    <3> HIDE DEF k, Had
    <3>3. \A n \in ring : Cardinality(Had(n)) \in Nat
      BY <2>1, <3>2, FiniteIds
    <3>4. \A n \in ring : Cardinality(Had(n)) < k => Cardinality(Had(n)) < ReplayPerSource
      BY <3>1, <3>3
    <3> QED BY <3>4 DEF NewestOf, Asked, Had
  <2>5. \A x \in Range(rows) : \E i \in 1..Len(rows) : rows[i] = x
    BY <2>1, ElementsOf
  <2> QED BY <2>3, <2>4, <2>5
<1> QED BY <1>1, RowsKept, PTL
=============================================================================
