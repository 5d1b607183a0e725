-------------------------- MODULE MCProcessGraph --------------------------
(* Instances of ProcessGraph for TLC: an object of any type that the ERP and the *)
(* graph have in common, requests about it, and one call more that can only     *)
(* resolve tasks.                                                               *)
EXTENDS ProcessGraph, TLC

CONSTANTS c1, c2, c3

\* Two requests are made about one type, one about some others.
TheRequesters ==
  [k \in Kinds |-> CASE k = "goodsReceipt" -> {c1, c2}
                     [] k \in {"requisition", "supplier", "journal", "fiscalPeriod", "credential"} -> {c1}
                     [] OTHER              -> {}]
=============================================================================
