------------------------------ MODULE Runtime -------------------------------
(***************************************************************************)
(* The reconfigurable publisher of pkg/runtime/runtime.go: goroutines that *)
(* log, callers that enable, disable, reconfigure and close, and the       *)
(* worker goroutine, which works from a snapshot of the configuration.     *)
(***************************************************************************)
EXTENDS Uplink

CONSTANT MaxGeneration  \* bound of the model: changes of the configuration

VARIABLES
  enabled, endpoint, generation,  \* the configuration
  lastError,       \* whether Status reports an error
  todo,            \* per goroutine, the record Handle is about to queue, or 0
  work,            \* where the worker is
  cfg,             \* the worker's snapshot
  linkGeneration,  \* publisherGeneration
  stop,            \* whether the stop channel is closed
  closed,          \* whether a call of Close has returned
  configs,         \* history: the configuration of each generation, from 0
  late             \* history: records written since publishing was disabled

config == <<enabled, endpoint, generation, configs>>
worker == <<held, dials, link, sent, lastError, work, cfg, linkGeneration, late>>
vars == <<uplinkVars, config, worker, todo, stop, closed>>

Works == {"select", "snapshot", "dial", "publish", "done"}

Config == [enabled : BOOLEAN, endpoint : Brokers]

Init ==
  /\ UplinkInit
  /\ enabled \in BOOLEAN
  /\ endpoint \in Brokers
  /\ generation = 0
  /\ lastError = FALSE
  /\ todo = [g \in Loggers |-> 0]
  /\ work = "select"
  /\ cfg = [to |-> endpoint, generation |-> 0]
  /\ linkGeneration = 0
  /\ stop = FALSE
  /\ closed = FALSE
  /\ configs = <<[enabled |-> enabled, endpoint |-> endpoint]>>
  /\ late = 0
-----------------------------------------------------------------------------
(* A change of the configuration, under the lock; late counts from the     *)
(* change that disables.                                                   *)
Reconfigured(on, e) ==
  /\ generation < MaxGeneration
  /\ enabled' = on
  /\ endpoint' = e
  /\ generation' = generation + 1
  /\ configs' = Append(configs, [enabled |-> on, endpoint |-> e])
  /\ late' = IF enabled THEN 0 ELSE late
  /\ UNCHANGED <<uplinkVars, lastError, work, cfg, linkGeneration, todo, stop, closed>>

Configure(on, e) == Reconfigured(on, e)

Enable == ~enabled /\ Reconfigured(TRUE, endpoint)

Disable == enabled /\ Reconfigured(FALSE, endpoint)

(* Variant: the endpoint changes within the generation.                    *)
SetEndpointQuietly(e) ==
  /\ endpoint # e
  /\ endpoint' = e
  /\ configs' = [configs EXCEPT ![Len(configs)] = [enabled |-> enabled, endpoint |-> e]]
  /\ UNCHANGED <<uplinkVars, worker, enabled, generation, todo, stop, closed>>

SetEndpoint(e) == endpoint # e /\ Reconfigured(enabled, e)

(* Handle, up to the snapshot; with publishing disabled it returns.        *)
Handle(g) ==
  /\ todo[g] = 0
  /\ enabled
  /\ Len(log) < MaxLogged
  /\ log' = Append(log, [by |-> g, at |-> generation])
  /\ todo' = [todo EXCEPT ![g] = Len(log')]
  /\ UNCHANGED <<queue, config, worker, stop, closed>>

(* Handle, the select: any ready case, and the default when none is.       *)
Enqueue(g) ==
  /\ todo[g] # 0
  /\ todo' = [todo EXCEPT ![g] = 0]
  /\ \/ Offer(todo[g])
     \/ stop /\ UNCHANGED queue
  /\ UNCHANGED <<log, config, worker, stop, closed>>
-----------------------------------------------------------------------------
(* Variant: the worker looks at stop only when a record has come.          *)
StopOnRecord ==
  /\ work = "select"
  /\ stop
  /\ queue # <<>>
  /\ work' = "done"
  /\ link' = 0
  /\ UNCHANGED <<log, queue, held, dials, sent, config, lastError, cfg, linkGeneration, late, todo, stop, closed>>

(* The worker's select sees stop: it closes its publisher and ends.        *)
Stop ==
  /\ work = "select"
  /\ stop
  /\ work' = "done"
  /\ link' = 0
  /\ UNCHANGED <<log, queue, held, dials, sent, config, lastError, cfg, linkGeneration, late, todo, stop, closed>>

Take ==
  /\ work = "select"
  /\ queue # <<>>
  /\ held' = Head(queue)
  /\ queue' = Tail(queue)
  /\ work' = "snapshot"
  /\ UNCHANGED <<log, dials, link, sent, config, lastError, cfg, linkGeneration, late, todo, stop, closed>>

(* Variant: publishing is found disabled only when a dial is needed.       *)
SnapshotBeforeDial ==
  /\ work = "snapshot"
  /\ cfg' = [to |-> endpoint, generation |-> generation]
  /\ IF link = 0 /\ ~enabled
     THEN work' = "select" /\ held' = 0
     ELSE work' = (IF link = 0 THEN "dial" ELSE "publish") /\ UNCHANGED held
  /\ UNCHANGED <<log, queue, dials, link, sent, config, lastError, linkGeneration, late, todo, stop, closed>>

(* The worker publishes from the snapshot, or drops the record when it     *)
(* finds publishing disabled; a publisher of another generation is closed. *)
Snapshot ==
  /\ work = "snapshot"
  /\ cfg' = [to |-> endpoint, generation |-> generation]
  /\ IF enabled
     THEN /\ link' = IF linkGeneration = generation THEN link ELSE 0
          /\ work' = IF link' = 0 THEN "dial" ELSE "publish"
          /\ UNCHANGED held
     ELSE link' = 0 /\ work' = "select" /\ held' = 0
  /\ UNCHANGED <<log, queue, dials, sent, config, lastError, linkGeneration, late, todo, stop, closed>>

DialSucceeds ==
  /\ work = "dial"
  /\ Dialled(cfg.to)
  /\ linkGeneration' = cfg.generation
  /\ work' = "publish"
  /\ UNCHANGED <<log, queue, held, sent, config, lastError, cfg, late, todo, stop, closed>>

DialFails ==
  /\ work = "dial"
  /\ lastError' = TRUE
  /\ held' = 0
  /\ work' = "select"
  /\ UNCHANGED <<log, queue, dials, link, sent, config, cfg, linkGeneration, late, todo, stop, closed>>

(* The rest of a turn: the record is done with, and late counts it if it   *)
(* was written after publishing was disabled.                              *)
TurnEnds ==
  /\ work = "publish"
  /\ held' = 0
  /\ work' = "select"
  /\ late' = IF ~enabled /\ sent' # sent THEN late + 1 ELSE late
  /\ UNCHANGED <<log, queue, dials, config, cfg, linkGeneration, todo, stop, closed>>

PublishSucceeds == Published /\ lastError' = FALSE /\ TurnEnds

(* Variant: the record goes back to the queue to be tried again.           *)
PublishFailsAndRequeues ==
  /\ work = "publish"
  /\ PublishFailed
  /\ Offer(held)
  /\ held' = 0 /\ work' = "select" /\ lastError' = TRUE
  /\ late' = IF ~enabled /\ sent' # sent THEN late + 1 ELSE late
  /\ UNCHANGED <<log, dials, config, cfg, linkGeneration, todo, stop, closed>>

PublishFails == PublishFailed /\ lastError' = TRUE /\ TurnEnds

Work == Take \/ Snapshot \/ DialSucceeds \/ DialFails \/ PublishSucceeds \/ PublishFails
-----------------------------------------------------------------------------
(* Close, up to its wait for the worker; a later call only waits.          *)
Close ==
  /\ stop' = TRUE
  /\ UNCHANGED <<uplinkVars, config, lastError, work, cfg, linkGeneration, late, todo, closed>>

(* Variant: Close does not wait for the worker.                            *)
CloseReturnsAtOnce ==
  /\ stop
  /\ closed' = TRUE
  /\ UNCHANGED <<uplinkVars, config, lastError, work, cfg, linkGeneration, late, todo, stop>>

CloseReturns ==
  /\ stop
  /\ work = "done"
  /\ closed' = TRUE
  /\ UNCHANGED <<uplinkVars, config, lastError, work, cfg, linkGeneration, late, todo, stop>>

Next ==
  \/ \E on \in BOOLEAN, e \in Brokers : Configure(on, e)
  \/ Enable \/ Disable \/ (\E e \in Brokers : SetEndpoint(e))
  \/ \E g \in Loggers : Handle(g) \/ Enqueue(g)
  \/ Work \/ Stop \/ Close \/ CloseReturns

(* The worker is scheduled, publishTimeout ends its dials and writes, and  *)
(* its select, which picks at random, takes the stop case in the end.      *)
Spec == Init /\ [][Next]_vars /\ WF_vars(Work) /\ SF_vars(Stop) /\ WF_vars(CloseReturns)
-----------------------------------------------------------------------------
(* The variables have their types, and the worker has a record in hand     *)
(* from the moment it takes it to the end of its turn.                     *)
TypeOK ==
  /\ UplinkTypeOK
  /\ enabled \in BOOLEAN /\ endpoint \in Brokers /\ generation \in Nat
  /\ lastError \in BOOLEAN /\ stop \in BOOLEAN /\ closed \in BOOLEAN
  /\ todo \in [Loggers -> Nat]
  /\ work \in Works
  /\ cfg \in [to : Brokers, generation : Nat]
  /\ linkGeneration \in Nat
  /\ configs \in Seq(Config)
  /\ late \in Nat
  /\ held # 0 <=> work \in {"snapshot", "dial", "publish"}

(* A record only ever goes to a broker that was configured, with           *)
(* publishing enabled, at some time between its logging and its writing:   *)
(* neither a stale publisher nor a stale snapshot sends it elsewhere       *)
(* (SetEndpoint, Configure, run).                                          *)
SentWhereConfigured ==
  \A i \in 1..Len(sent) : \E c \in (log[sent[i].record].at + 1)..Len(configs) :
    configs[c] = [enabled |-> TRUE, endpoint |-> dials[sent[i].link]]

(* After Disable at most the one record the worker had already looked up   *)
(* the configuration for is still written; all that is queued is dropped.  *)
DisabledIsQuiet == ~enabled => late <= 1

(* Nothing leaves the process once Close has returned.                     *)
NothingAfterClose == [][closed => UNCHANGED <<dials, link, sent>>]_vars

(* Close returns, with records still queued or a broker that is away.      *)
CloseIsAnswered == stop ~> closed

(* What the comment on Disable says, that it closes the current publisher. *)
DisableClosesPublisher == (~enabled /\ link # 0) ~> (enabled \/ link = 0)
=============================================================================
