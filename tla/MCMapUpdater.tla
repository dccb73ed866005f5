---------------------------- MODULE MCMapUpdater ----------------------------
(* Two base maps, one of them a MapInstanced that owns all the instances.  *)
EXTENDS MapUpdater

CONSTANTS m1, m2

MCOwner == [i \in Instances |-> m2]
=============================================================================
