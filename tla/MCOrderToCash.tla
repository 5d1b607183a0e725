--------------------------- MODULE MCOrderToCash ---------------------------
(* Instances of OrderToCash for TLC: an order of goods and one of services   *)
(* that is billed in two milestones.  The tax rate and the amounts are       *)
(* chosen so that an invoice can be paid in part, in full and in excess, and *)
(* that shares of the labour do not come out even.                           *)
EXTENDS OrderToCash, TLC

CONSTANTS goods, services, first, second

TheTotal == [o \in Orders |-> IF o = goods THEN 2 ELSE 5]
\* Either all lines of both orders carry the tax code, or none.
AllTaxed == TheTotal
Untaxed == [o \in Orders |-> 0]
TheOrder == [m \in Milestones |-> services]
TheAmount == [m \in Milestones |-> IF m = first THEN 3 ELSE 2]

FreshNames == Permutations(Invoices) \cup Permutations(Payments)
=============================================================================
