-------------------------- MODULE MCEventLedger --------------------------
(* Instances of EventLedger for TLC: an upstream that goes by timestamp (the  *)
(* ERP, source 1) and one whose cursor holds an id (the mesh gateway, source  *)
(* 2); the ERP records one row more than a batch holds.                       *)
EXTENDS EventLedger, TLC

CONSTANTS order, broken, wip   \* events of the ERP: one that is not normalised,
                               \* one that an SLA posting is derived from
CONSTANTS decision             \* an entry of the mesh's decision log

TheSource == [e \in Events |-> IF e = decision THEN 2 ELSE 1]
PollSymmetry == Permutations(Polls)
=============================================================================
