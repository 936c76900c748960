------------------------------ MODULE MCBroker ------------------------------
(***************************************************************************)
(* Small instances of Broker: two publishers of either kind, a stream of   *)
(* either kind, two sources and subscriptions that take everything or one  *)
(* source.                                                                 *)
(***************************************************************************)
EXTENDS BrokerInv

Subscription(sources, minLevel, replay, replayPerSource) ==
  [sources |-> sources, minLevel |-> minLevel,
   replay |-> replay, replayPerSource |-> replayPerSource]

(* Everything; and what "tail --source --level warn --replay 1" asks for.  *)
MCFilters == {Subscription({}, "", 0, 0), Subscription({"app"}, "warn", 1, 0)}

MCAll == {Subscription({}, "", 0, 0)}
=============================================================================
