--------------------------- MODULE MCMeshApproval ---------------------------
(* Instances of MeshApproval for TLC: one actor below the threshold of the    *)
(* seeded governance rules and two above it, and operations that differ in    *)
(* route, in rule and in fingerprint.                                         *)
EXTENDS MeshApproval, TLC

CONSTANTS alice, bob, carol   \* actors
CONSTANTS
  bigContract,    \* approve a contract over the limit, drafted by carol
  amendable,      \* approve a contract whose draft may come to exceed the limit
  cancelProject,  \* force-cancel a project by its resource route ...
  forceCancel,    \* ... and by the governed operation: one fingerprint
  newOrder        \* create an order, for which no rule asks approval

\* Tier 0 requests, tier 1 (tier 3 of the rules) approves.
TheTiers == {[a \in Actors |-> IF a = alice THEN 0 ELSE 1]}

TheKind == [op \in Ops |->
  IF op = newOrder THEN "create"
  ELSE IF op = forceCancel THEN "nested" ELSE "resource"]
TheKey == [op \in Ops |-> IF op = cancelProject THEN forceCancel ELSE op]
TheSodOps == {bigContract, amendable} \cap Ops
TheOwner == [op \in Ops |-> IF op = newOrder THEN NoActor ELSE carol]
TheMinTier == [op \in Ops |-> 0]
TheApprovalTier == [op \in Ops |-> [v \in Versions |->
  IF op = newOrder \/ (op = amendable /\ v = 0) THEN 0 ELSE 1]]

CallSymmetry == Permutations(Calls)
=============================================================================
