---------------------------- MODULE MCRingArray -----------------------------
(* RingArray with every combination of source filter, level and limits.    *)
EXTENDS RingArray

MCFilters ==
  [sources : {{}, {"app"}, {"app", "db"}}, minLevel : {"", "warning"},
   replay : {-1, 0, 1, 3}, replayPerSource : {0, 1}]
=============================================================================
