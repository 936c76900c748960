---------------------------- MODULE RuntimeProofs ----------------------------
(***************************************************************************)
(* The safety properties of the reconfigurable runtime, and of the slog    *)
(* handler, which has the same queue and publisher: proved for any         *)
(* goroutines, brokers, queue size and number of reconfigurations.         *)
(***************************************************************************)
EXTENDS Runtime, ListProofs

Line == InLine(log, sent, held, queue)

Records == [by : Loggers, at : Nat]

(* The parts of UplinkTypeOK that the steps need.                          *)
LEMMA UplinkTypes ==
  ASSUME UplinkTypeOK
  PROVE  /\ log \in Seq(Records) /\ Len(log) \in Nat
         /\ queue \in Seq(Numbers) /\ Len(queue) \in Nat /\ Len(queue) <= QueueSize
         /\ sent \in Seq(Departures) /\ Len(sent) \in Nat
         /\ dials \in Seq(Brokers) /\ Len(dials) \in Nat
         /\ held \in Nat /\ link \in Nat
BY DEF UplinkTypeOK, Records, Departures, Numbers

(* An offer keeps the queue's type and bound.                              *)
LEMMA OfferKeepsType ==
  ASSUME UplinkTypeOK, NEW n \in Numbers, Offer(n)
  PROVE  queue' \in Seq(Numbers) /\ Len(queue') <= QueueSize
<1>1. CASE Len(queue) < QueueSize
  BY <1>1, UplinkTypes, AppendedElements, UplinkAssumption DEF Offer
<1>2. CASE ~(Len(queue) < QueueSize)
  BY <1>2, UplinkTypes DEF Offer
<1> QED BY <1>1, <1>2

USE DEF Records, Departures, Numbers

(* The actions of Configure, Enable, Disable and SetEndpoint.              *)
Reconfigures == \E on \in BOOLEAN, e \in Brokers : Reconfigured(on, e)

(* What a finished call of Publish leaves.                                 *)
Publishes == PublishSucceeds \/ PublishFails

(* The cases of a step.                                                    *)
LEMMA Steps ==
  ASSUME TypeOK, [Next]_vars
  PROVE  \/ Reconfigures
         \/ \E g \in Loggers : Handle(g)
         \/ \E g \in Loggers : Enqueue(g)
         \/ Take \/ Snapshot \/ DialSucceeds \/ DialFails \/ Publishes
         \/ Stop \/ Close \/ CloseReturns \/ UNCHANGED vars
<1>1. enabled \in BOOLEAN /\ endpoint \in Brokers
  BY DEF TypeOK
<1>2. (Enable \/ Disable) => Reconfigures
  BY <1>1 DEF Enable, Disable, Reconfigures
<1>3. ASSUME NEW e \in Brokers PROVE SetEndpoint(e) => Reconfigures
  BY <1>1 DEF SetEndpoint, Reconfigures
<1>4. ASSUME NEW on \in BOOLEAN, NEW e \in Brokers PROVE Configure(on, e) => Reconfigures
  BY DEF Configure, Reconfigures
<1> QED BY <1>2, <1>3, <1>4 DEF Next, Work, Publishes

(* The effect of a finished call of Publish.                               *)
LEMMA PublishEnds ==
  ASSUME TypeOK, Publishes
  PROVE  /\ sent' = sent \/ sent' = Append(sent, [record |-> held, link |-> link])
         /\ link' = link \/ link' = 0
         /\ held # 0 /\ work = "publish" /\ held' = 0 /\ work' = "select"
         /\ late' = IF ~enabled /\ sent' # sent THEN late + 1 ELSE late
         /\ lastError' \in BOOLEAN
         /\ UNCHANGED <<log, queue, dials, config, cfg, linkGeneration, todo, stop, closed>>
<1>1. work = "publish" /\ held # 0
  BY DEF TypeOK, Publishes, PublishSucceeds, PublishFails, TurnEnds
<1> QED BY <1>1 DEF Publishes, PublishSucceeds, PublishFails, Published, PublishFailed, TurnEnds
-----------------------------------------------------------------------------
(* Every variable always has its type, the queue its bound, and the worker *)
(* a record exactly during its turn.                                       *)
THEOREM TypeCorrect == Spec => []TypeOK
<1>1. Init => TypeOK
  <2> SUFFICES ASSUME Init PROVE TypeOK
    OBVIOUS
  <2>1. UplinkTypeOK
    BY UplinkAssumption DEF Init, UplinkInit, UplinkTypeOK
  <2>2. configs \in Seq(Config)
    <3>1. [enabled |-> enabled, endpoint |-> endpoint] \in Config
      BY DEF Init, Config
    <3> QED BY <3>1 DEF Init
  <2>3. cfg \in [to : Brokers, generation : Nat] /\ todo \in [Loggers -> Nat]
    BY DEF Init
  <2>4. held # 0 <=> work \in {"snapshot", "dial", "publish"}
    BY DEF Init, UplinkInit
  <2> QED BY <2>1, <2>2, <2>3, <2>4 DEF Init, TypeOK, Works
<1>2. TypeOK /\ [Next]_vars => TypeOK'
  <2> SUFFICES ASSUME TypeOK, [Next]_vars PROVE TypeOK'
    OBVIOUS
  <2>0. UplinkTypeOK
    BY DEF TypeOK
  <2>1. ASSUME NEW on \in BOOLEAN, NEW e \in Brokers, Reconfigured(on, e) PROVE TypeOK'
    <3>1. configs \in Seq(Config) /\ [enabled |-> on, endpoint |-> e] \in Config
      BY DEF TypeOK, Config
    <3>2. configs' \in Seq(Config)
      BY <2>1, <3>1, AppendedElements DEF Reconfigured
    <3>3. generation' \in Nat /\ late' \in Nat
      BY <2>1 DEF Reconfigured, TypeOK
    <3>4. enabled' = on /\ endpoint' = e
          /\ UNCHANGED <<uplinkVars, lastError, work, cfg, linkGeneration, todo, stop, closed>>
      BY <2>1 DEF Reconfigured
    <3> QED BY <3>2, <3>3, <3>4 DEF TypeOK, UplinkTypeOK, uplinkVars
  <2>2. ASSUME NEW g \in Loggers, Handle(g) PROVE TypeOK'
    <3>1. generation \in Nat /\ [by |-> g, at |-> generation] \in Records
      BY DEF TypeOK
    <3>2. log' \in Seq(Records) /\ Len(log') \in Nat
      BY <2>0, <2>2, <3>1, UplinkTypes, AppendedElements DEF Handle
    <3>3. todo' \in [Loggers -> Nat]
      BY <2>2, <3>2 DEF Handle, TypeOK
    <3>4. UNCHANGED <<queue, config, worker, stop, closed>>
      BY <2>2 DEF Handle
    <3> QED BY <3>2, <3>3, <3>4 DEF TypeOK, UplinkTypeOK, config, worker
  <2>3. ASSUME NEW g \in Loggers, Enqueue(g) PROVE TypeOK'
    <3>1. todo[g] \in Numbers
      BY <2>3 DEF Enqueue, TypeOK
    <3>2. queue' \in Seq(Numbers) /\ Len(queue') <= QueueSize
      BY <2>0, <2>3, <3>1, UplinkTypes, OfferKeepsType DEF Enqueue
    <3>3. todo' \in [Loggers -> Nat]
      BY <2>3 DEF Enqueue, TypeOK
    <3>4. UNCHANGED <<log, config, worker, stop, closed>>
      BY <2>3 DEF Enqueue
    <3> QED BY <3>2, <3>3, <3>4 DEF TypeOK, UplinkTypeOK, config, worker
  <2>4. CASE Take
    <3>1. queue' \in Seq(Numbers) /\ Len(queue') <= QueueSize /\ held' \in Numbers
      BY <2>0, <2>4, UplinkTypes, TailOfSequence, UplinkAssumption DEF Take
    <3>2. /\ work' = "snapshot"
          /\ UNCHANGED <<log, dials, link, sent, config, lastError, cfg, linkGeneration,
                         late, todo, stop, closed>>
      BY <2>4 DEF Take
    <3> QED BY <3>1, <3>2 DEF TypeOK, UplinkTypeOK, Works, config
  <2>5. CASE Snapshot
    <3>1. cfg' \in [to : Brokers, generation : Nat] /\ link' \in Nat
      BY <2>5 DEF Snapshot, TypeOK, UplinkTypeOK
    <3>2. /\ held' \in Nat /\ work' \in Works
          /\ held' # 0 <=> work' \in {"snapshot", "dial", "publish"}
      BY <2>5 DEF Snapshot, TypeOK, UplinkTypeOK, Works
    <3>3. UNCHANGED <<log, queue, dials, sent, config, lastError, linkGeneration,
                      late, todo, stop, closed>>
      BY <2>5 DEF Snapshot
    <3> QED BY <3>1, <3>2, <3>3 DEF TypeOK, UplinkTypeOK, config
  <2>6. CASE DialSucceeds
    <3>1. cfg.to \in Brokers /\ cfg.generation \in Nat
      BY DEF TypeOK
    <3>2. dials' \in Seq(Brokers) /\ link' \in Nat /\ linkGeneration' \in Nat
      BY <2>0, <2>6, <3>1, UplinkTypes, AppendedElements DEF DialSucceeds, Dialled
    <3>3. /\ work = "dial" /\ work' = "publish"
          /\ UNCHANGED <<log, queue, held, sent, config, lastError, cfg, late, todo, stop, closed>>
      BY <2>6 DEF DialSucceeds
    <3> QED BY <3>2, <3>3 DEF TypeOK, UplinkTypeOK, Works, config
  <2>7. CASE DialFails
    BY <2>7 DEF DialFails, TypeOK, UplinkTypeOK, Works, config
  <2>8. CASE Publishes
    <3>1. held \in Nat /\ link \in Nat /\ sent \in Seq(Departures) /\ late \in Nat
      BY <2>0, UplinkTypes DEF TypeOK
    <3>2. sent' \in Seq(Departures)
      BY <2>8, <3>1, PublishEnds, AppendedElements
    <3>3. late' \in Nat /\ link' \in Nat
      BY <2>8, <3>1, PublishEnds
    <3> QED BY <2>8, <3>2, <3>3, PublishEnds DEF TypeOK, UplinkTypeOK, Works, config
  <2>9. CASE Stop
    BY <2>9 DEF Stop, TypeOK, UplinkTypeOK, Works, config
  <2>10. CASE Close \/ CloseReturns
    BY <2>10 DEF Close, CloseReturns, TypeOK, UplinkTypeOK, config, uplinkVars
  <2>11. CASE UNCHANGED vars
    BY <2>11 DEF vars, uplinkVars, config, worker, TypeOK, UplinkTypeOK
  <2> QED BY <2>1, <2>2, <2>3, <2>4, <2>5, <2>6, <2>7, <2>8, <2>9, <2>10, <2>11, Steps DEF Reconfigures
<1> QED BY <1>1, <1>2, PTL DEF Spec
-----------------------------------------------------------------------------
(* What a record that may follow the line may still do when the line moves *)
(* up: it may follow the shorter line too.                                 *)
LEMMA MovesUp ==
  ASSUME NEW records, NEW out, NEW hand, NEW waiting, NEW n,
         MayFollow(records, out, hand, waiting, n)
  PROVE  MayFollow(records, out, 0, waiting, n)
BY DEF MayFollow

(* It may when the head of the queue is taken in hand.                     *)
LEMMA FollowsTaken ==
  ASSUME NEW records, NEW out, NEW waiting \in Seq(Numbers), waiting # <<>>, NEW n,
         MayFollow(records, out, 0, waiting, n)
  PROVE  MayFollow(records, out, Head(waiting), Tail(waiting), n)
<1>1. /\ Len(waiting) \in Nat /\ Len(waiting) >= 1 /\ Len(Tail(waiting)) = Len(waiting) - 1
      /\ \A i \in 1..Len(Tail(waiting)) : Tail(waiting)[i] = waiting[i + 1]
      /\ Head(waiting) = waiting[1]
  BY TailOfSequence
<1>2. \A j \in 1..Len(Tail(waiting)) : j + 1 \in 1..Len(waiting)
  BY <1>1
<1>3. \A j \in 1..Len(Tail(waiting)) : Before(records, Tail(waiting)[j], n)
  BY <1>1, <1>2 DEF MayFollow
<1>4. Before(records, Head(waiting), n)
  BY <1>1 DEF MayFollow
<1> QED BY <1>3, <1>4 DEF MayFollow

(* It may when the record in hand departs.                                 *)
LEMMA FollowsDeparted ==
  ASSUME NEW records, NEW out \in Seq(Departures), NEW hand \in Nat, hand # 0,
         NEW l \in Nat, NEW waiting, NEW n, MayFollow(records, out, hand, waiting, n)
  PROVE  MayFollow(records, Append(out, [record |-> hand, link |-> l]), 0, waiting, n)
<1> DEFINE new == Append(out, [record |-> hand, link |-> l])
<1>1. [record |-> hand, link |-> l] \in Departures
  OBVIOUS
<1>2. /\ Len(out) \in Nat /\ Len(new) = Len(out) + 1
      /\ \A i \in 1..Len(out) : new[i] = out[i]
      /\ new[Len(out) + 1] = [record |-> hand, link |-> l]
  BY <1>1, AppendedElements
<1> HIDE DEF new
<1>3. \A i \in 1..Len(new) :
        \/ i \in 1..Len(out) /\ new[i].record = out[i].record
        \/ new[i].record = hand
  BY <1>2
<1>4. \A i \in 1..Len(new) : Before(records, new[i].record, n)
  BY <1>3 DEF MayFollow
<1>5. MayFollow(records, new, 0, waiting, n)
  BY <1>4 DEF MayFollow
<1> QED BY <1>5 DEF new

(* It may when another record, which it may follow, joins the line.        *)
LEMMA FollowsJoined ==
  ASSUME NEW records, NEW out, NEW hand, NEW waiting \in Seq(Numbers), NEW m \in Numbers,
         NEW n, Before(records, m, n), MayFollow(records, out, hand, waiting, n)
  PROVE  MayFollow(records, out, hand, Append(waiting, m), n)
<1> DEFINE new == Append(waiting, m)
<1>1. /\ Len(waiting) \in Nat /\ Len(new) = Len(waiting) + 1
      /\ \A i \in 1..Len(waiting) : new[i] = waiting[i]
      /\ new[Len(waiting) + 1] = m
  BY AppendedElements
<1> HIDE DEF new
<1>2. \A j \in 1..Len(new) : Before(records, new[j], n)
  <2> SUFFICES ASSUME NEW j \in 1..Len(new) PROVE Before(records, new[j], n)
    OBVIOUS
  <2>1. CASE j \in 1..Len(waiting)
    BY <2>1, <1>1 DEF MayFollow
  <2>2. CASE j = Len(waiting) + 1
    BY <2>2, <1>1
  <2> QED BY <1>1, <2>1, <2>2
<1>3. MayFollow(records, out, hand, new, n)
  BY <1>2 DEF MayFollow
<1> QED BY <1>3 DEF new

(* It may when the log grows.                                              *)
LEMMA FollowsLogged ==
  ASSUME NEW records \in Seq(Records), NEW r \in Records, NEW out, NEW hand, NEW waiting,
         NEW n, InLine(records, out, hand, waiting), MayFollow(records, out, hand, waiting, n)
  PROVE  MayFollow(Append(records, r), out, hand, waiting, n)
<1> DEFINE more == Append(records, r)
<1>1. /\ Len(records) \in Nat /\ Len(more) = Len(records) + 1
      /\ \A i \in 1..Len(records) : more[i] = records[i]
  BY AppendedElements
<1> HIDE DEF more
<1>2. \A i, j \in 1..Len(records) : Before(records, i, j) => Before(more, i, j)
  BY <1>1 DEF Before
<1>3. n \in 1..Len(records) /\ n \in 1..Len(more)
  BY <1>1 DEF MayFollow
<1>4. \A i \in 1..Len(out) : out[i].record \in 1..Len(records) /\ Before(records, out[i].record, n)
  BY DEF InLine, MayFollow
<1>5. hand # 0 => hand \in 1..Len(records) /\ Before(records, hand, n)
  BY <1>1 DEF InLine, MayFollow
<1>6. \A j \in 1..Len(waiting) : waiting[j] \in 1..Len(records) /\ Before(records, waiting[j], n)
  BY DEF InLine, MayFollow
<1>7. MayFollow(more, out, hand, waiting, n)
  BY <1>2, <1>3, <1>4, <1>5, <1>6 DEF MayFollow
<1> QED BY <1>7 DEF more

(* The record a goroutine is about to queue is its own and may follow the  *)
(* line.                                                                   *)
MayJoin(g) == todo[g] # 0 => log[todo[g]].by = g /\ MayFollow(log, sent, held, queue, todo[g])

Ordered == Line /\ \A g \in Loggers : MayJoin(g)

(* Every step keeps the order.                                             *)
LEMMA OrderedKept ==
  ASSUME TypeOK, Ordered, [Next]_vars
  PROVE  Ordered'
<1>0. UplinkTypeOK
  BY DEF TypeOK
<1>1. /\ log \in Seq(Records) /\ queue \in Seq(Numbers) /\ sent \in Seq(Departures)
      /\ held \in Nat /\ link \in Nat /\ todo \in [Loggers -> Nat] /\ generation \in Nat
  BY <1>0, UplinkTypes DEF TypeOK
<1>2. InLine(log, sent, held, queue) /\ \A g \in Loggers : MayJoin(g)
  BY DEF Ordered, Line
<1>3. ASSUME NEW g \in Loggers, Handle(g) PROVE Ordered'
  <2> DEFINE r == [by |-> g, at |-> generation]
  <2>1. /\ r \in Records /\ log' = Append(log, r) /\ UNCHANGED <<held, sent, queue>>
        /\ todo' = [todo EXCEPT ![g] = Len(log')]
    BY <1>1, <1>3 DEF Handle, worker
  <2>2. /\ Len(log) \in Nat /\ Len(log') = Len(log) + 1
        /\ \A n \in 1..Len(log) : log'[n] = log[n]
        /\ log'[Len(log) + 1].by = g
    BY <1>1, <2>1, AppendedElements
  <2> HIDE DEF r
  <2>3. InLine(log', sent, held, queue)
    BY <1>1, <1>2, <2>1, LogKeepsLine
  <2>4. MayJoin(g)'
    <3>1. MayFollow(log', sent, held, queue, Len(log) + 1)
      BY <1>1, <1>2, <2>1, NewestFollows
    <3>2. todo'[g] = Len(log) + 1
      BY <1>1, <2>1, <2>2
    <3> QED BY <3>1, <3>2, <2>1, <2>2 DEF MayJoin
  <2>5. ASSUME NEW h \in Loggers, h # g PROVE MayJoin(h)'
    <3> SUFFICES ASSUME todo'[h] # 0
                 PROVE  log'[todo'[h]].by = h /\ MayFollow(log', sent', held', queue', todo'[h])
      BY DEF MayJoin
    <3>1. todo'[h] = todo[h] /\ todo[h] # 0
      BY <1>1, <2>1, <2>5
    <3>2. log[todo[h]].by = h /\ MayFollow(log, sent, held, queue, todo[h])
      BY <1>2, <3>1 DEF MayJoin
    <3>3. MayFollow(log', sent, held, queue, todo[h])
      BY <1>1, <1>2, <2>1, <3>2, FollowsLogged
    <3>4. log'[todo[h]] = log[todo[h]]
      BY <2>2, <3>2 DEF MayFollow
    <3> QED BY <2>1, <3>1, <3>2, <3>3, <3>4
  <2> QED BY <2>1, <2>3, <2>4, <2>5 DEF Ordered, Line
<1>4. ASSUME NEW g \in Loggers, Enqueue(g) PROVE Ordered'
  <2>1. /\ todo[g] # 0 /\ todo' = [todo EXCEPT ![g] = 0]
        /\ queue' = queue \/ queue' = Append(queue, todo[g])
        /\ UNCHANGED <<log, held, sent>>
    BY <1>4 DEF Enqueue, Offer, worker
  <2>2. log[todo[g]].by = g /\ MayFollow(log, sent, held, queue, todo[g])
    BY <1>2, <2>1 DEF MayJoin
  <2>3. InLine(log, sent, held, queue')
    <3>1. InLine(log, sent, held, Append(queue, todo[g]))
      BY <1>1, <1>2, <2>2, JoinKeepsLine
    <3> QED BY <1>2, <2>1, <3>1
  <2>4. ASSUME NEW h \in Loggers PROVE MayJoin(h)'
    <3> SUFFICES ASSUME todo'[h] # 0
                 PROVE  log[todo'[h]].by = h /\ MayFollow(log, sent, held, queue', todo'[h])
      BY <2>1 DEF MayJoin
    <3>1. h # g /\ todo'[h] = todo[h] /\ todo[h] # 0
      BY <1>1, <2>1
    <3>2. log[todo[h]].by = h /\ MayFollow(log, sent, held, queue, todo[h])
      BY <1>2, <3>1 DEF MayJoin
    <3>3. Before(log, todo[g], todo[h])
      BY <2>2, <3>1, <3>2 DEF Before
    <3>4. MayFollow(log, sent, held, Append(queue, todo[g]), todo[h])
      BY <1>1, <2>1, <3>2, <3>3, FollowsJoined
    <3> QED BY <2>1, <3>1, <3>2, <3>4
  <2> QED BY <2>1, <2>3, <2>4 DEF Ordered, Line
<1>5. CASE Take
  <2>1. /\ held = 0 /\ queue # <<>> /\ held' = Head(queue) /\ queue' = Tail(queue)
        /\ UNCHANGED <<log, sent, todo>>
    BY <1>5 DEF Take, TypeOK
  <2>2. InLine(log, sent, Head(queue), Tail(queue))
    BY <1>1, <1>2, <2>1, TakeKeepsLine
  <2>3. ASSUME NEW g \in Loggers PROVE MayJoin(g)'
    BY <1>1, <1>2, <2>1, FollowsTaken DEF MayJoin
  <2> QED BY <2>1, <2>2, <2>3 DEF Ordered, Line
<1>6. CASE Snapshot \/ DialSucceeds \/ DialFails
  <2>1. (held' = held \/ held' = 0) /\ UNCHANGED <<log, sent, queue, todo>>
    BY <1>6 DEF Snapshot, DialSucceeds, DialFails
  <2>2. InLine(log, sent, 0, queue)
    BY <1>1, <1>2, DropKeepsLine
  <2>3. ASSUME NEW g \in Loggers PROVE MayJoin(g)'
    BY <1>2, <2>1, MovesUp DEF MayJoin
  <2> QED BY <1>2, <2>1, <2>2, <2>3 DEF Ordered, Line
<1>7. CASE Publishes
  <2> DEFINE new == Append(sent, [record |-> held, link |-> link])
  <2>1. /\ sent' = sent \/ sent' = new
        /\ held # 0 /\ held' = 0 /\ UNCHANGED <<log, queue, todo>>
    BY <1>7, PublishEnds
  <2>2. InLine(log, sent, 0, queue) /\ InLine(log, new, 0, queue)
    BY <1>1, <1>2, <2>1, DropKeepsLine, LeaveKeepsLine
  <2>3. ASSUME NEW g \in Loggers PROVE MayJoin(g)'
    <3>1. ASSUME todo[g] # 0
          PROVE  MayFollow(log, sent, 0, queue, todo[g]) /\ MayFollow(log, new, 0, queue, todo[g])
      BY <1>1, <1>2, <2>1, <3>1, MovesUp, FollowsDeparted DEF MayJoin
    <3> HIDE DEF new
    <3> QED BY <1>2, <2>1, <3>1 DEF MayJoin
  <2> HIDE DEF new
  <2> QED BY <2>1, <2>2, <2>3 DEF Ordered, Line
<1>8. CASE Reconfigures \/ Stop \/ Close \/ CloseReturns \/ UNCHANGED vars
  <2>1. UNCHANGED <<log, sent, held, queue, todo>>
    BY <1>8 DEF Reconfigures, Reconfigured, Stop, Close, CloseReturns, vars, uplinkVars, worker
  <2>2. \A g \in Loggers : MayJoin(g)'
    BY <1>2, <2>1 DEF MayJoin
  <2> QED BY <1>2, <2>1, <2>2 DEF Ordered, Line
<1> QED BY <1>3, <1>4, <1>5, <1>6, <1>7, <1>8, Steps

(* No record leaves the process twice, and the records of a goroutine      *)
(* leave in the order it logged them, however the runtime is reconfigured. *)
THEOREM OnceInOrder == Spec => []LeavesOnceInOrder
<1>1. Init => Ordered
  BY DEF Init, UplinkInit, Ordered, Line, InLine, MayJoin
<1>2. TypeOK /\ Ordered /\ [Next]_vars => Ordered'
  BY OrderedKept
<1>3. Ordered => LeavesOnceInOrder
  BY DEF Ordered, Line, InLine, LeavesOnceInOrder
<1> QED BY <1>1, <1>2, <1>3, TypeCorrect, PTL DEF Spec
-----------------------------------------------------------------------------
(* While publishing is disabled, a worker that is still in a turn has      *)
(* written nothing since: its one record is the last.                      *)
Quiet == ~enabled => late <= 1 /\ (work \in {"dial", "publish"} => late = 0)

(* After Disable at most the one record the worker had already looked up   *)
(* the configuration for is still written.                                 *)
THEOREM QuietWhenDisabled == Spec => []DisabledIsQuiet
<1>1. Init => Quiet
  BY DEF Init, Quiet
<1>2. TypeOK /\ Quiet /\ [Next]_vars => Quiet'
  <2> SUFFICES ASSUME TypeOK, Quiet, [Next]_vars PROVE Quiet'
    OBVIOUS
  <2>0. late \in Nat /\ enabled \in BOOLEAN
    BY DEF TypeOK
  <2>1. ASSUME NEW on \in BOOLEAN, NEW e \in Brokers, Reconfigured(on, e) PROVE Quiet'
    <3>1. CASE enabled
      BY <2>1, <3>1 DEF Reconfigured, Quiet
    <3>2. CASE ~enabled
      BY <2>1, <3>2 DEF Reconfigured, Quiet
    <3> QED BY <3>1, <3>2
  <2>2. CASE Snapshot
    BY <2>2 DEF Snapshot, Quiet, config
  <2>3. CASE Publishes
    <3>1. /\ work = "publish" /\ work' = "select" /\ enabled' = enabled
          /\ late' = late \/ (~enabled /\ late' = late + 1)
      BY <2>3, PublishEnds DEF config
    <3>2. ~enabled => late = 0
      BY <3>1 DEF Quiet
    <3>3. ~enabled => late' <= 1
      BY <3>1, <3>2
    <3> QED BY <3>1, <3>3 DEF Quiet
  <2>4. CASE Take \/ DialSucceeds \/ DialFails \/ Stop
    BY <2>4 DEF Take, DialSucceeds, DialFails, Stop, Quiet, config
  <2>5. CASE (\E g \in Loggers : Handle(g) \/ Enqueue(g)) \/ Close \/ CloseReturns \/ UNCHANGED vars
    <3>1. UNCHANGED <<enabled, late, work>>
      BY <2>5 DEF Handle, Enqueue, Close, CloseReturns, vars, config, worker
    <3> QED BY <3>1 DEF Quiet
  <2> QED BY <2>1, <2>2, <2>3, <2>4, <2>5, Steps DEF Reconfigures
<1>3. Quiet => DisabledIsQuiet
  BY DEF Quiet, DisabledIsQuiet
<1> QED BY <1>1, <1>2, <1>3, TypeCorrect, PTL DEF Spec
-----------------------------------------------------------------------------
(* Some configuration from generation first on has publishing enabled and  *)
(* broker b as its endpoint.                                               *)
Configured(history, first, b) ==
  \E c \in (first + 1)..Len(history) : history[c] = [enabled |-> TRUE, endpoint |-> b]

(* The history ends with the configuration there is, and no record is of a *)
(* generation that is still to come.                                       *)
Current ==
  /\ Len(configs) = generation + 1
  /\ configs[generation + 1] = [enabled |-> enabled, endpoint |-> endpoint]
  /\ \A n \in 1..Len(log) : log[n].at <= generation

(* What the snapshot says was configured when the worker took it, after    *)
(* the record in hand was logged.                                          *)
Snapped ==
  work \in {"dial", "publish"} =>
    /\ cfg.generation <= generation
    /\ log[held].at <= cfg.generation
    /\ configs[cfg.generation + 1] = [enabled |-> TRUE, endpoint |-> cfg.to]

(* A publisher is a connection to the endpoint of its generation, and the  *)
(* one that is written to is of the snapshot's generation.                 *)
Connected ==
  /\ link # 0 =>
       /\ link \in 1..Len(dials)
       /\ linkGeneration <= generation
       /\ configs[linkGeneration + 1].endpoint = dials[link]
  /\ work = "publish" => link # 0 /\ linkGeneration = cfg.generation

(* Every record went over a connection that was made, to a broker that was *)
(* configured since the record was logged.                                 *)
Delivered ==
  \A i \in 1..Len(sent) :
    /\ sent[i].record \in 1..Len(log)
    /\ sent[i].link \in 1..Len(dials)
    /\ Configured(configs, log[sent[i].record].at, dials[sent[i].link])

Addressed == Current /\ Snapped /\ Connected /\ Delivered

(* A longer history still has every configuration.                         *)
LEMMA ConfiguredStays ==
  ASSUME NEW history \in Seq(Config), NEW c \in Config, NEW first \in Nat, NEW b,
         Configured(history, first, b)
  PROVE  Configured(Append(history, c), first, b)
<1> DEFINE longer == Append(history, c)
<1>1. /\ Len(history) \in Nat /\ Len(longer) = Len(history) + 1
      /\ \A i \in 1..Len(history) : longer[i] = history[i]
  BY AppendedElements
<1> HIDE DEF longer
<1>2. PICK i \in (first + 1)..Len(history) : history[i] = [enabled |-> TRUE, endpoint |-> b]
  BY DEF Configured
<1>3. i \in 1..Len(history) /\ i \in (first + 1)..Len(longer)
  BY <1>1
<1>4. longer[i] = [enabled |-> TRUE, endpoint |-> b]
  BY <1>1, <1>2, <1>3
<1>5. Configured(longer, first, b)
  BY <1>3, <1>4 DEF Configured
<1> QED BY <1>5 DEF longer

(* The types the steps need.                                               *)
LEMMA AddressTypes ==
  ASSUME TypeOK, Line, Addressed
  PROVE  /\ generation \in Nat /\ enabled \in BOOLEAN /\ endpoint \in Brokers
         /\ cfg.generation \in Nat /\ cfg.to \in Brokers /\ linkGeneration \in Nat
         /\ configs \in Seq(Config) /\ Len(configs) \in Nat
         /\ log \in Seq(Records) /\ Len(log) \in Nat
         /\ dials \in Seq(Brokers) /\ Len(dials) \in Nat
         /\ sent \in Seq(Departures) /\ Len(sent) \in Nat
         /\ link \in Nat /\ held \in Nat
         /\ \A n \in 1..Len(log) : log[n].at \in Nat
         /\ work \in {"snapshot", "dial", "publish"} => held \in 1..Len(log)
<1>1. UplinkTypeOK
  BY DEF TypeOK
<1>2. configs \in Seq(Config) /\ Len(configs) \in Nat
  BY DEF TypeOK
<1>3. generation \in Nat /\ linkGeneration \in Nat /\ enabled \in BOOLEAN /\ endpoint \in Brokers
      /\ cfg.generation \in Nat /\ cfg.to \in Brokers
  BY DEF TypeOK
<1>4. work \in {"snapshot", "dial", "publish"} => held # 0
  BY DEF TypeOK
<1>5. held # 0 => held \in 1..Len(log)
  BY <1>1, UplinkTypes DEF Line, InLine
<1>6. \A n \in 1..Len(log) : log[n].at \in Nat
  <2>1. \A n \in 1..Len(log) : log[n] \in Records
    <3>1. log \in Seq(Records)
      BY <1>1, UplinkTypes
    <3> QED BY <3>1, SequenceElements
  <2> QED BY <2>1
<1> QED BY <1>1, <1>2, <1>3, <1>4, <1>5, <1>6, UplinkTypes

(* A change of the configuration keeps the addresses.                      *)
LEMMA ReconfiguredKeepsAddresses ==
  ASSUME TypeOK, Line, Addressed, NEW on \in BOOLEAN, NEW e \in Brokers, Reconfigured(on, e)
  PROVE  Addressed'
<1> DEFINE c == [enabled |-> on, endpoint |-> e]
<1>1. /\ c \in Config /\ configs' = Append(configs, c) /\ generation' = generation + 1
      /\ enabled' = on /\ endpoint' = e
      /\ UNCHANGED <<log, held, dials, link, sent, work, cfg, linkGeneration>>
  BY DEF Reconfigured, uplinkVars, Config
<1>2. /\ Len(configs) = generation + 1 /\ Len(configs') = generation + 2
      /\ \A i \in 1..(generation + 1) : configs'[i] = configs[i]
      /\ configs'[generation + 2] = c
  BY <1>1, AddressTypes, AppendedElements DEF Addressed, Current
<1>3. Current'
  <2>1. configs'[generation' + 1] = [enabled |-> enabled', endpoint |-> endpoint']
    BY <1>1, <1>2, AddressTypes
  <2>2. \A n \in 1..Len(log) : log[n].at <= generation + 1
    BY AddressTypes DEF Addressed, Current
  <2>3. Len(configs') = generation' + 1
    BY <1>1, <1>2, AddressTypes
  <2> QED BY <1>1, <2>1, <2>2, <2>3 DEF Current
<1>4. \A n \in Nat : n <= generation =>
        n <= generation + 1 /\ configs'[n + 1] = configs[n + 1]
  BY <1>2, AddressTypes
<1>5. Snapped'
  BY <1>1, <1>4, AddressTypes DEF Addressed, Snapped
<1>6. Connected'
  BY <1>1, <1>4, AddressTypes DEF Addressed, Connected
<1>7. Delivered'
  <2>1. configs \in Seq(Config) /\ \A n \in 1..Len(log) : log[n].at \in Nat
    BY AddressTypes
  <2> QED BY <1>1, <2>1, ConfiguredStays DEF Addressed, Delivered
<1> QED BY <1>3, <1>5, <1>6, <1>7 DEF Addressed

(* So does a new record.                                                   *)
LEMMA HandleKeepsAddresses ==
  ASSUME TypeOK, Line, Addressed, NEW g \in Loggers, Handle(g)
  PROVE  Addressed'
<1> DEFINE r == [by |-> g, at |-> generation]
<1>1. /\ r \in Records /\ r.at = generation /\ log' = Append(log, r)
      /\ UNCHANGED <<config, worker>>
  BY AddressTypes DEF Handle
<1> HIDE DEF r
<1>2. /\ Len(log') = Len(log) + 1 /\ log'[Len(log) + 1] = r
      /\ \A n \in 1..Len(log) : log'[n] = log[n]
  BY <1>1, AddressTypes, AppendedElements
<1>3. \A n \in 1..Len(log') : n \in 1..Len(log) \/ n = Len(log) + 1
  BY <1>2, AddressTypes
<1>4. \A n \in 1..Len(log) : n \in 1..Len(log')
  BY <1>2, AddressTypes
<1>5. Current'
  BY <1>1, <1>2, <1>3, AddressTypes DEF Addressed, Current, config
<1>6. Snapped'
  BY <1>1, <1>2, AddressTypes DEF Addressed, Snapped, config, worker
<1>7. Connected'
  BY <1>1 DEF Addressed, Connected, config, worker
<1>8. Delivered'
  BY <1>1, <1>2, <1>4 DEF Addressed, Delivered, config, worker
<1> QED BY <1>5, <1>6, <1>7, <1>8 DEF Addressed

(* The snapshot is of the present configuration, and a publisher of        *)
(* another generation is given up.                                         *)
LEMMA SnapshotKeepsAddresses ==
  ASSUME TypeOK, Line, Addressed, Snapshot
  PROVE  Addressed'
<1>1. /\ UNCHANGED <<log, dials, sent, enabled, endpoint, generation, configs, linkGeneration>>
      /\ cfg' = [to |-> endpoint, generation |-> generation] /\ work = "snapshot"
  BY DEF Snapshot, config
<1>2. /\ work' \in {"dial", "publish"} => enabled /\ held' = held
      /\ link' # 0 => link' = link /\ linkGeneration = generation
      /\ work' = "publish" => link' # 0
  BY DEF Snapshot
<1>3. Current' /\ Delivered'
  BY <1>1 DEF Addressed, Current, Delivered
<1>4. Snapped'
  <2>1. held \in 1..Len(log)
    BY <1>1, AddressTypes
  <2>2. log[held].at <= generation
    BY <2>1 DEF Addressed, Current
  <2>3. enabled => configs[generation + 1] = [enabled |-> TRUE, endpoint |-> endpoint]
    BY AddressTypes DEF Addressed, Current
  <2> QED BY <1>1, <1>2, <2>2, <2>3, AddressTypes DEF Snapped
<1>5. Connected'
  BY <1>1, <1>2, AddressTypes DEF Addressed, Connected
<1> QED BY <1>3, <1>4, <1>5 DEF Addressed

(* A dial goes where the snapshot says.                                    *)
LEMMA DialKeepsAddresses ==
  ASSUME TypeOK, Line, Addressed, DialSucceeds
  PROVE  Addressed'
<1>1. /\ work = "dial" /\ work' = "publish" /\ dials' = Append(dials, cfg.to) /\ link' = Len(dials')
      /\ linkGeneration' = cfg.generation /\ UNCHANGED <<log, held, sent, config, cfg>>
  BY DEF DialSucceeds, Dialled
<1>2. /\ Len(dials') = Len(dials) + 1 /\ dials'[Len(dials) + 1] = cfg.to
      /\ \A i \in 1..Len(dials) : dials'[i] = dials[i] /\ i \in 1..Len(dials')
  BY <1>1, AddressTypes, AppendedElements
<1>3. Current' /\ Snapped'
  BY <1>1 DEF Addressed, Current, Snapped, config
<1>4. Connected'
  <2>1. configs[cfg.generation + 1] = [enabled |-> TRUE, endpoint |-> cfg.to]
        /\ cfg.generation <= generation
    BY <1>1 DEF Addressed, Snapped
  <2>2. link' # 0 /\ link' \in 1..Len(dials') /\ dials'[link'] = cfg.to
    BY <1>1, <1>2, AddressTypes
  <2> QED BY <1>1, <2>1, <2>2 DEF Connected, config
<1>5. Delivered'
  BY <1>1, <1>2 DEF Addressed, Delivered, config
<1> QED BY <1>3, <1>4, <1>5 DEF Addressed

(* What is written goes over a connection to the snapshot's broker.        *)
LEMMA PublishKeepsAddresses ==
  ASSUME TypeOK, Line, Addressed, Publishes
  PROVE  Addressed'
<1> DEFINE d == [record |-> held, link |-> link]
<1>1. /\ sent' = sent \/ sent' = Append(sent, d)
      /\ link' = link \/ link' = 0
      /\ work = "publish" /\ work' = "select"
      /\ UNCHANGED <<log, dials, config, cfg, linkGeneration>>
  BY PublishEnds
<1>2. d \in Departures /\ d.record = held /\ d.link = link
  BY AddressTypes
<1> HIDE DEF d
<1>3. /\ held \in 1..Len(log) /\ link \in 1..Len(dials)
      /\ log[held].at <= cfg.generation /\ cfg.generation <= generation
      /\ configs[cfg.generation + 1] = [enabled |-> TRUE, endpoint |-> dials[link]]
  <2>1. held \in 1..Len(log)
    BY <1>1, AddressTypes
  <2>2. /\ log[held].at <= cfg.generation /\ cfg.generation <= generation
        /\ configs[cfg.generation + 1] = [enabled |-> TRUE, endpoint |-> cfg.to]
    BY <1>1 DEF Addressed, Snapped
  <2>3. link \in 1..Len(dials) /\ configs[cfg.generation + 1].endpoint = dials[link]
    BY <1>1 DEF Addressed, Connected
  <2>4. cfg.to = dials[link]
    BY <2>2, <2>3
  <2> QED BY <2>1, <2>2, <2>3, <2>4
<1>4. Configured(configs, log[held].at, dials[link])
  <2>1. Len(configs) = generation + 1
    BY DEF Addressed, Current
  <2>2. log[held].at \in Nat /\ cfg.generation \in Nat /\ generation \in Nat
    BY <1>3, AddressTypes
  <2>3. cfg.generation + 1 \in (log[held].at + 1)..Len(configs)
    BY <1>3, <2>1, <2>2
  <2> QED BY <1>3, <2>3 DEF Configured
<1>5. Delivered'
  <2>1. CASE sent' = sent
    BY <1>1, <2>1 DEF Addressed, Delivered, config
  <2>2. CASE sent' = Append(sent, d)
    <3>1. \A i \in 1..Len(sent') : (i \in 1..Len(sent) /\ sent'[i] = sent[i]) \/ sent'[i] = d
      BY <1>2, <2>2, AddressTypes, AppendedElements
    <3> QED BY <1>1, <1>2, <1>3, <1>4, <3>1 DEF Addressed, Delivered, config
  <2> QED BY <1>1, <2>1, <2>2
<1>6. Current' /\ Snapped'
  BY <1>1 DEF Addressed, Current, Snapped, config
<1>7. Connected'
  BY <1>1 DEF Addressed, Connected, config
<1> QED BY <1>5, <1>6, <1>7 DEF Addressed

(* A record only goes to a broker that was configured, with publishing     *)
(* enabled, at some time between its logging and its writing.              *)
THEOREM RightBroker == Spec => []SentWhereConfigured
<1>1. Init => Addressed
  BY DEF Init, UplinkInit, Addressed, Current, Snapped, Connected, Delivered
<1>2. TypeOK /\ Ordered /\ Addressed /\ [Next]_vars => Addressed'
  <2> SUFFICES ASSUME TypeOK, Ordered, Addressed, [Next]_vars PROVE Addressed'
    OBVIOUS
  <2>0. Line
    BY DEF Ordered
  <2>1. CASE Reconfigures
    BY <2>0, <2>1, ReconfiguredKeepsAddresses DEF Reconfigures
  <2>2. CASE \E g \in Loggers : Handle(g)
    BY <2>0, <2>2, HandleKeepsAddresses
  <2>3. CASE Snapshot
    BY <2>0, <2>3, SnapshotKeepsAddresses
  <2>4. CASE DialSucceeds
    BY <2>0, <2>4, DialKeepsAddresses
  <2>5. CASE Publishes
    BY <2>0, <2>5, PublishKeepsAddresses
  <2>6. CASE Take \/ DialFails \/ Stop
    <3>1. /\ work' \notin {"dial", "publish"} /\ link' \in {link, 0}
          /\ UNCHANGED <<log, dials, sent, config, cfg, linkGeneration>>
      BY <2>6 DEF Take, DialFails, Stop
    <3> QED BY <3>1 DEF Addressed, Current, Snapped, Connected, Delivered, config
  <2>7. CASE (\E g \in Loggers : Enqueue(g)) \/ Close \/ CloseReturns \/ UNCHANGED vars
    <3>1. UNCHANGED <<log, config, worker>>
      BY <2>7 DEF Enqueue, Close, CloseReturns, vars, uplinkVars, worker
    <3> QED BY <3>1 DEF Addressed, Current, Snapped, Connected, Delivered, config, worker
  <2> QED BY <2>1, <2>2, <2>3, <2>4, <2>5, <2>6, <2>7, Steps
<1>3. Addressed => SentWhereConfigured
  BY DEF Addressed, Delivered, Configured, SentWhereConfigured
<1>4. Init => Ordered
  BY DEF Init, UplinkInit, Ordered, Line, InLine, MayJoin
<1>5. TypeOK /\ Ordered /\ [Next]_vars => Ordered'
  BY OrderedKept
<1> QED BY <1>1, <1>2, <1>3, <1>4, <1>5, TypeCorrect, PTL DEF Spec
-----------------------------------------------------------------------------
(* Close returns only when the worker has ended, and it has then ended for *)
(* good.                                                                   *)
Ended == closed => work = "done"

(* Nothing leaves the process once Close has returned.                     *)
THEOREM ClosedIsSilent == Spec => NothingAfterClose
<1>1. Init => Ended
  BY DEF Init, Ended
<1>2. TypeOK /\ Ended /\ [Next]_vars =>
        Ended' /\ (closed => UNCHANGED <<dials, link, sent>>)
  <2> SUFFICES ASSUME TypeOK, Ended, [Next]_vars
               PROVE  Ended' /\ (closed => UNCHANGED <<dials, link, sent>>)
    OBVIOUS
  <2>1. CASE Take \/ Snapshot \/ DialSucceeds \/ DialFails \/ Stop
    <3>1. work # "done" /\ closed' = closed
      BY <2>1 DEF Take, Snapshot, DialSucceeds, DialFails, Stop
    <3> QED BY <3>1 DEF Ended
  <2>2. CASE Publishes
    <3>1. work # "done" /\ closed' = closed
      BY <2>2, PublishEnds
    <3> QED BY <3>1 DEF Ended
  <2>3. CASE CloseReturns
    BY <2>3 DEF CloseReturns, Ended, uplinkVars
  <2>4. CASE Reconfigures
    BY <2>4 DEF Reconfigures, Reconfigured, Ended, uplinkVars
  <2>5. CASE (\E g \in Loggers : Handle(g) \/ Enqueue(g)) \/ Close \/ UNCHANGED vars
    <3>1. UNCHANGED <<dials, link, sent, work, closed>>
      BY <2>5 DEF Handle, Enqueue, Close, vars, uplinkVars, worker
    <3> QED BY <3>1 DEF Ended
  <2> QED BY <2>1, <2>2, <2>3, <2>4, <2>5, Steps
<1>3. TypeOK /\ Ended /\ [Next]_vars => [closed => UNCHANGED <<dials, link, sent>>]_vars
  BY <1>2
<1> QED BY <1>1, <1>2, <1>3, TypeCorrect, PTL DEF Spec, NothingAfterClose
-----------------------------------------------------------------------------
(* The slog handler, whose worker is simpler: it has one broker, and gives *)
(* a record up at the first failure.                                       *)
CONSTANT Endpoint  \* the broker of Options

Sink == INSTANCE SlogSink

(* It shares the types and the queue of module Uplink.                     *)
LEMMA SinkTypes == Sink!TypeOK => UplinkTypeOK
BY DEF Sink!TypeOK, Sink!UplinkTypeOK, UplinkTypeOK

LEMMA SinkOffer == \A n : Sink!Offer(n) <=> Offer(n)
BY DEF Sink!Offer, Offer

(* What a finished call of Publish leaves.                                 *)
LEMMA SinkPublishEnds ==
  ASSUME Sink!TypeOK, Sink!PublishSucceeds \/ Sink!PublishFails
  PROVE  /\ sent' = sent \/ sent' = Append(sent, [record |-> held, link |-> link])
         /\ link' \in Nat /\ held # 0 /\ held' = 0 /\ work' = "take"
         /\ UNCHANGED <<log, queue, dials>>
<1>1. link \in Nat /\ held # 0
  BY DEF Sink!TypeOK, Sink!UplinkTypeOK, Sink!PublishSucceeds, Sink!PublishFails
<1> QED BY <1>1 DEF Sink!PublishSucceeds, Sink!PublishFails, Sink!Published, Sink!PublishFailed

(* Every variable always has its type, the queue its bound, and the worker *)
(* a record exactly while it dials or publishes.                           *)
THEOREM SinkTypeCorrect ==
  ASSUME Endpoint \in Brokers PROVE Sink!Spec => []Sink!TypeOK
<1>1. Sink!Init => Sink!TypeOK
  BY UplinkAssumption DEF Sink!Init, Sink!UplinkInit, Sink!TypeOK, Sink!UplinkTypeOK, Sink!Works
<1>2. Sink!TypeOK /\ [Sink!Next]_Sink!vars => Sink!TypeOK'
  <2> SUFFICES ASSUME Sink!TypeOK, [Sink!Next]_Sink!vars PROVE Sink!TypeOK'
    OBVIOUS
  <2>0. UplinkTypeOK
    BY SinkTypes
  <2> USE DEF Records, Departures, Numbers
  <2>1. ASSUME NEW g \in Loggers, Sink!Handle(g) PROVE Sink!TypeOK'
    <3>1. log' \in Seq(Records) /\ Len(log') \in Numbers
      BY <2>0, <2>1, UplinkTypes, AppendedElements DEF Sink!Handle
    <3>2. queue' \in Seq(Numbers) /\ Len(queue') <= QueueSize
      BY <2>0, <2>1, <3>1, OfferKeepsType, SinkOffer DEF Sink!Handle
    <3>3. UNCHANGED <<held, dials, link, sent, work>>
      BY <2>1 DEF Sink!Handle
    <3> QED BY <3>1, <3>2, <3>3 DEF Sink!TypeOK, Sink!UplinkTypeOK
  <2>2. CASE Sink!Take
    <3>1. queue' \in Seq(Numbers) /\ Len(queue') <= QueueSize /\ held' \in Numbers
      BY <2>0, <2>2, UplinkTypes, TailOfSequence, UplinkAssumption DEF Sink!Take
    <3> QED BY <2>2, <3>1 DEF Sink!Take, Sink!TypeOK, Sink!UplinkTypeOK, Sink!Works
  <2>3. CASE Sink!DialSucceeds
    <3>1. dials' \in Seq(Brokers) /\ link' \in Numbers
      BY <2>0, <2>3, UplinkTypes, AppendedElements DEF Sink!DialSucceeds, Sink!Dialled
    <3> QED BY <2>3, <3>1 DEF Sink!DialSucceeds, Sink!TypeOK, Sink!UplinkTypeOK, Sink!Works
  <2>4. CASE Sink!DialFails
    BY <2>4 DEF Sink!DialFails, Sink!TypeOK, Sink!UplinkTypeOK, Sink!Works
  <2>5. CASE Sink!PublishSucceeds \/ Sink!PublishFails
    <3>1. [record |-> held, link |-> link] \in Departures
      BY <2>0, UplinkTypes
    <3>2. Append(sent, [record |-> held, link |-> link]) \in Seq(Departures)
      BY <2>0, <3>1, UplinkTypes, AppendedElements
    <3>3. sent' \in Seq(Departures)
      BY <2>0, <2>5, <3>2, UplinkTypes, SinkPublishEnds
    <3> QED BY <2>5, <3>3, SinkPublishEnds DEF Sink!TypeOK, Sink!UplinkTypeOK, Sink!Works
  <2>6. CASE UNCHANGED Sink!vars
    BY <2>6 DEF Sink!vars, Sink!uplinkVars, Sink!TypeOK, Sink!UplinkTypeOK
  <2> QED BY <2>1, <2>2, <2>3, <2>4, <2>5, <2>6 DEF Sink!Next, Sink!Work
<1> QED BY <1>1, <1>2, PTL DEF Sink!Spec

(* No record leaves the process twice, and the records of a goroutine      *)
(* leave in the order it logged them.                                      *)
THEOREM SinkOnceInOrder ==
  ASSUME Endpoint \in Brokers PROVE Sink!Spec => []LeavesOnceInOrder
<1>1. Sink!Init => Line
  BY DEF Sink!Init, Sink!UplinkInit, Line, InLine
<1>2. Sink!TypeOK /\ Line /\ [Sink!Next]_Sink!vars => Line'
  <2> SUFFICES ASSUME Sink!TypeOK, Line, [Sink!Next]_Sink!vars PROVE Line'
    OBVIOUS
  <2>0. UplinkTypeOK
    BY SinkTypes
  <2>1. ASSUME NEW g \in Loggers, Sink!Handle(g) PROVE Line'
    <3> DEFINE r == [by |-> g, at |-> 0]
    <3>1. /\ r \in Records /\ log' = Append(log, r) /\ Len(log') = Len(log) + 1
          /\ held' = held /\ sent' = sent
      BY <2>0, <2>1, UplinkTypes, AppendedElements DEF Sink!Handle, Records
    <3> HIDE DEF r
    <3>2. InLine(log', sent, held, queue)
      BY <2>0, <3>1, UplinkTypes, LogKeepsLine DEF Line
    <3>3. MayFollow(log', sent, held, queue, Len(log'))
      BY <2>0, <3>1, UplinkTypes, NewestFollows DEF Line
    <3>4. log' \in Seq(Records)
      BY <2>0, <3>1, UplinkTypes, AppendedElements
    <3>5. InLine(log', sent, held, Append(queue, Len(log')))
      BY <2>0, <3>2, <3>3, <3>4, UplinkTypes, JoinKeepsLine
    <3>6. queue' = queue \/ queue' = Append(queue, Len(log'))
      BY <2>1 DEF Sink!Handle, Sink!Offer
    <3> QED BY <3>1, <3>2, <3>5, <3>6 DEF Line
  <2>2. CASE Sink!Take
    <3>1. /\ held = 0 /\ queue # <<>> /\ held' = Head(queue) /\ queue' = Tail(queue)
          /\ log' = log /\ sent' = sent
      BY <2>2 DEF Sink!Take, Sink!TypeOK
    <3> QED BY <2>0, <3>1, UplinkTypes, TakeKeepsLine DEF Line
  <2>3. CASE Sink!DialSucceeds
    BY <2>3 DEF Sink!DialSucceeds, Line
  <2>4. CASE Sink!DialFails
    BY <2>0, <2>4, UplinkTypes, DropKeepsLine DEF Sink!DialFails, Line
  <2>5. CASE Sink!PublishSucceeds \/ Sink!PublishFails
    <3>1. held \in Nat /\ link \in Nat /\ log \in Seq(Records) /\ sent \in Seq(Departures)
      BY <2>0, UplinkTypes
    <3> QED BY <2>5, <3>1, SinkPublishEnds, LeaveKeepsLine, DropKeepsLine DEF Line
  <2>6. CASE UNCHANGED Sink!vars
    BY <2>6 DEF Sink!vars, Sink!uplinkVars, Line
  <2> QED BY <2>1, <2>2, <2>3, <2>4, <2>5, <2>6 DEF Sink!Next, Sink!Work
<1>3. Line => LeavesOnceInOrder
  BY DEF Line, InLine, LeavesOnceInOrder
<1> QED BY <1>1, <1>2, <1>3, SinkTypeCorrect, PTL DEF Sink!Spec
=============================================================================
