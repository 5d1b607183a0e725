---------------------------- MODULE OrderToCash ----------------------------
(***************************************************************************)
(* services/foundation-erp: sales orders, project milestones, receivable   *)
(* invoices and payments (domain/o2c, domain/proj), with the two control   *)
(* accounts they post to: trade receivables (SYS-110-ASSET-AR) and         *)
(* unbilled receivables (SYS-130-ASSET-UNBILLED-AR).                       *)
(*                                                                         *)
(* An order of goods is invoiced as a whole once it is shipped.  An order  *)
(* of services is invoiced milestone by milestone: approving a milestone   *)
(* accrues its revenue as unbilled, releases project work in progress and  *)
(* drafts an invoice; posting the invoice moves the amount from unbilled   *)
(* to trade receivables; payments settle those.                            *)
(*                                                                         *)
(* Handlers never await, so each is one step here.  Some run several       *)
(* SQLite transactions one after another, and can end between two of them: *)
(* the process dies, or a later transaction throws (no posting account,    *)
(* say).  Such an action has a parameter "done", the number of its         *)
(* transactions that were committed; "cuts" counts the handlers that did   *)
(* not reach their end.                                                    *)
(***************************************************************************)
EXTENDS Integers, FiniteSets, Functions

CONSTANTS
  Orders, Services,   \* all sales orders; those with service lines only
  OrderTotal,         \* total_amount: the sum of the order's lines
  TaxedTotal,         \* ... of those that carry a tax code
  RatePercent,        \* rate of that tax code, added to the price
  Milestones, OrderOf, BillingAmount,
  ContractValue,      \* of the contract version of the project and its orders
  Invoices, NoInvoice, NoMilestone,
  Payments, PaymentAmounts,
  LaborCosts,
  MaxLabor,           \* bound on the labour posted to the project
  MaxCuts             \* bound on the handlers cut short

VARIABLES
  order,      \* o2c_sales_order
  milestone,  \* proj_project_milestone
  gateReady,  \* proj_stage_gate.is_ready of the milestones' phase
  invoice,    \* o2c_invoice, and its pending tax lines
  payment,    \* o2c_payment
  ar,         \* ar[i]: balance of trade receivables on account of invoice i
  unbilled,   \* unbilled[m]: ... of unbilled receivables, of milestone m
  labor,      \* sum of proj_labor_entry
  wip,        \* proj_wip.wip_labor_balance
  cuts

vars == <<order, milestone, gateReady, invoice, payment, ar, unbilled, labor, wip,
          cuts>>

-----------------------------------------------------------------------------
Goods == Orders \ Services

ASSUME OrdersAssumption ==
  /\ Orders # {} /\ Services \subseteq Orders
  /\ OrderTotal \in [Orders -> Nat \ {0}]
  /\ TaxedTotal \in [Orders -> Nat]
  /\ RatePercent \in Nat
ASSUME MilestonesAssumption ==
  /\ OrderOf \in [Milestones -> Services]
  /\ BillingAmount \in [Milestones -> Nat \ {0}]
  /\ ContractValue \in Nat \ {0}
ASSUME NamesAssumption ==
  /\ IsFiniteSet(Invoices) /\ NoInvoice \notin Invoices
  /\ IsFiniteSet(Milestones) /\ NoMilestone \notin Milestones
ASSUME InputsAssumption ==
  /\ PaymentAmounts \subseteq Nat \ {0}
  /\ LaborCosts \subseteq Nat \ {0}
  /\ MaxLabor \in Nat
  /\ MaxCuts \in Nat

OrderMoves ==
  [Draft     |-> {"Confirmed", "Cancelled"},
   Confirmed |-> {"Allocated", "Cancelled"},
   Allocated |-> {"Shipped", "Cancelled"},
   Shipped   |-> {"Invoiced", "Cancelled"},
   Invoiced  |-> {"Paid"},
   Paid      |-> {"Closed"},
   Closed    |-> {},
   Cancelled |-> {}]
OrderStates == DOMAIN OrderMoves
BillingStates == {"Unbilled", "PartiallyInvoiced", "Invoiced"}

\* amount and tax add up to amount_due; taxable: what the invoice's tax lines
\* are about, 0 if it has none; posted: it has an accounting_journal_id.
Invoice == [state : {"None", "Draft", "Posted", "Paid", "Cancelled"},
            order : Orders, milestone : Milestones \cup {NoMilestone},
            amount : Nat, tax : Nat, taxable : Nat, paid : Nat, posted : BOOLEAN]
NoneYet == [state |-> "None", order |-> CHOOSE o \in Orders : TRUE,
            milestone |-> NoMilestone, amount |-> 0, tax |-> 0, taxable |-> 0,
            paid |-> 0, posted |-> FALSE]
\* accrued: it has a revenue_journal_id; released: wip_released_amount.
Milestone == [status : {"None", "Planned", "Approved"},
              invoice : Invoices \cup {NoInvoice},
              accrued : BOOLEAN, released : Int]
Payment == [state : {"None", "Applied", "Reconciled", "Cancelled"},
            amount : Nat]

TypeOK ==
  /\ order \in [Orders -> [state : OrderStates, billing : BillingStates]]
  /\ milestone \in [Milestones -> Milestone]
  /\ gateReady \in BOOLEAN
  /\ invoice \in [Invoices -> Invoice]
  /\ payment \in [Payments -> Payment]
  /\ ar \in [Invoices -> Int]
  /\ unbilled \in [Milestones -> Int]
  /\ labor \in Nat
  /\ wip \in Int
  /\ cuts \in Nat

Init ==
  /\ order = [o \in Orders |-> [state |-> "Draft", billing |-> "Unbilled"]]
  /\ milestone = [m \in Milestones |->
       [status |-> "None", invoice |-> NoInvoice, accrued |-> FALSE, released |-> 0]]
  /\ gateReady = FALSE
  /\ invoice = [i \in Invoices |-> NoneYet]
  /\ payment = [p \in Payments |-> [state |-> "None", amount |-> 0]]
  /\ ar = [i \in Invoices |-> 0]
  /\ unbilled = [m \in Milestones |-> 0]
  /\ labor = 0
  /\ wip = 0
  /\ cuts = 0

-----------------------------------------------------------------------------
(* Amounts.                                                                *)

Least(a, b) == IF a < b THEN a ELSE b
Most(a, b) == IF a < b THEN b ELSE a

\* a / b to the nearest unit, halves upwards (Math.round)
RoundedDiv(a, b) == (2 * a + b) \div (2 * b)

Tax(amount) == RoundedDiv(amount * RatePercent, 100)

Live(i) == invoice[i].state \notin {"None", "Cancelled"}
Due(i) == invoice[i].amount + invoice[i].tax

\* What the invoices of an order, and of the whole contract, that are not
\* cancelled amount to.
Billed(o) == SumFunctionOnSet([i \in Invoices |-> invoice[i].amount],
                              {i \in Invoices : Live(i) /\ invoice[i].order = o})
BilledOnContract ==
  SumFunctionOnSet([o \in Services |-> Billed(o)], Services)

Planned(ms) == SumFunctionOnSet(BillingAmount, ms)
Existing == {m \in Milestones : milestone[m].status # "None"}
Approved == {m \in Milestones : milestone[m].status = "Approved"}

Released == SumFunctionOnSet([m \in Milestones |-> milestone[m].released], Milestones)

\* Labour that may have left work in progress when the given milestones are
\* complete: its share in proportion to what they bill.
ReleaseTarget(complete) ==
  RoundedDiv(labor * Least(Planned(complete), ContractValue), ContractValue)

\* What completing m, the given milestones being approved by now, releases; at
\* most once for each milestone.
Release(m, complete) ==
  IF milestone[m].released # 0 THEN 0
  ELSE Least(wip, Most(0, ReleaseTarget(complete) - Released))

CutShort(done, all) == cuts' = cuts + (IF done < all THEN 1 ELSE 0) /\ cuts' <= MaxCuts

-----------------------------------------------------------------------------
(* Orders.                                                                 *)

\* confirm, allocate, ship, close and cancel; "Invoiced" and "Paid" are set by
\* invoices and payments only.
MoveOrder(o, to) ==
  /\ to \in OrderMoves[order[o].state] \ {"Invoiced", "Paid"}
  /\ order' = [order EXCEPT ![o].state = to]
  /\ UNCHANGED <<milestone, gateReady, invoice, payment, ar, unbilled, labor, wip, cuts>>

-----------------------------------------------------------------------------
(* Milestones.                                                             *)

CreateMilestone(m) ==
  LET o == OrderOf[m] IN
  /\ milestone[m].status = "None"
  /\ order[o].state \in {"Confirmed", "Allocated", "Shipped"}
  /\ Planned({n \in Existing : OrderOf[n] = o}) + BillingAmount[m] <= OrderTotal[o]
  /\ Billed(o) <= OrderTotal[o]
  /\ Planned(Existing) + BillingAmount[m] <= ContractValue
  /\ milestone' = [milestone EXCEPT ![m].status = "Planned"]
  /\ UNCHANGED <<order, gateReady, invoice, payment, ar, unbilled, labor, wip, cuts>>

\* The sign-offs of the phase are entered anew, whatever has been approved.
UpsertStageGate ==
  /\ gateReady' = ~gateReady
  /\ UNCHANGED <<order, milestone, invoice, payment, ar, unbilled, labor, wip, cuts>>

PostLaborCost(c) ==
  /\ labor + c <= MaxLabor
  /\ labor' = labor + c
  /\ wip' = wip + c
  /\ UNCHANGED <<order, milestone, gateReady, invoice, payment, ar, unbilled, cuts>>

\* Approving is possible again and again, and is how an invoice is drafted
\* anew after the first one was cancelled.
Approvable(m) == milestone[m].status # "None" /\ gateReady

Billable(m) ==
  LET o == OrderOf[m] IN
  /\ order[o].state \in {"Confirmed", "Allocated", "Shipped"}
  /\ Billed(o) + BillingAmount[m] <= OrderTotal[o]
  /\ BilledOnContract + BillingAmount[m] <= ContractValue

BillingState(o, billed) ==
  IF billed >= OrderTotal[o] THEN "Invoiced" ELSE "PartiallyInvoiced"

\* The milestone's record: approved and linked to a draft ...
Drafted(m, i) ==
  [status |-> "Approved", invoice |-> i,
   accrued |-> milestone[m].accrued, released |-> milestone[m].released]
\* ... and after accountProjectMilestoneCompletion.
Completed(m, i) ==
  [status |-> "Approved", invoice |-> i, accrued |-> TRUE,
   released |-> milestone[m].released + Release(m, Approved \cup {m})]
\* Mutant: without the look at revenue_journal_id, each approval accrues.
PostCompletionEachTime(m) ==
  /\ unbilled' = [unbilled EXCEPT ![m] = @ + BillingAmount[m]]
  /\ wip' = wip - Release(m, Approved \cup {m})

\* Mutant: a milestone whose invoice is being drafted is not accrued yet.
PostCompletionOfBilled(m) ==
  /\ unbilled' = IF milestone[m].accrued \/ milestone[m].invoice = NoInvoice THEN unbilled
                 ELSE [unbilled EXCEPT ![m] = @ + BillingAmount[m]]
  /\ wip' = wip - Release(m, Approved \cup {m})

\* ... and its postings: the revenue accrual, once, and the release.
PostCompletion(m) ==
  /\ unbilled' = IF milestone[m].accrued THEN unbilled
                 ELSE [unbilled EXCEPT ![m] = @ + BillingAmount[m]]
  /\ wip' = wip - Release(m, Approved \cup {m})

\* The milestone is approved, but no invoice comes of it: the order or what is
\* left to bill does not allow one, or the handler is cut short.
ApproveUnbilled(m) ==
  /\ Approvable(m)
  /\ milestone[m].invoice = NoInvoice
  /\ milestone' = [milestone EXCEPT ![m].status = "Approved"]
  /\ CutShort(0, IF Billable(m) THEN 1 ELSE 0)
  /\ UNCHANGED <<order, gateReady, invoice, payment, ar, unbilled, labor, wip>>

\* Mutant: an invoice is drafted whether or not the milestone has one.
ApproveAndBillAnew(m, i, done) ==
  LET o == OrderOf[m] IN
  /\ Approvable(m)
  /\ Billable(m)
  /\ invoice[i].state = "None"
  /\ CutShort(done, 2)
  /\ done = 2
  /\ invoice' = [invoice EXCEPT ![i] =
       [state |-> "Draft", order |-> o, milestone |-> m, amount |-> BillingAmount[m],
        tax |-> 0, taxable |-> 0, paid |-> 0, posted |-> FALSE]]
  /\ order' = [order EXCEPT ![o].billing = BillingState(o, Billed(o) + BillingAmount[m])]
  /\ milestone' = [milestone EXCEPT ![m] = Completed(m, i)]
  /\ PostCompletion(m)
  /\ UNCHANGED <<gateReady, payment, ar, labor>>

\* Three transactions: the draft; the completion; the tax line, if any.
ApproveAndBill(m, i, done) ==
  LET o == OrderOf[m]
      amount == BillingAmount[m]
      taxed == TaxedTotal[o] > 0 /\ Tax(amount) > 0
  IN
  /\ Approvable(m)
  /\ milestone[m].invoice = NoInvoice
  /\ Billable(m)
  /\ invoice[i].state = "None"
  /\ CutShort(done, IF taxed THEN 3 ELSE 2)
  /\ invoice' = [invoice EXCEPT ![i] =
       [state |-> "Draft", order |-> o, milestone |-> m, amount |-> amount,
        tax |-> IF taxed THEN Tax(amount) ELSE 0,
        taxable |-> IF taxed /\ done = 3 THEN amount ELSE 0,
        paid |-> 0, posted |-> FALSE]]
  /\ order' = [order EXCEPT ![o].billing = BillingState(o, Billed(o) + amount)]
  /\ \/ /\ done = 1
        /\ milestone' = [milestone EXCEPT ![m] = Drafted(m, i)]
        /\ UNCHANGED <<unbilled, wip>>
     \/ /\ done = 2 \/ (done = 3 /\ taxed)
        /\ milestone' = [milestone EXCEPT ![m] = Completed(m, i)]
        /\ PostCompletion(m)
  /\ UNCHANGED <<gateReady, payment, ar, labor>>

\* The milestone has an invoice already, which is returned; what a handler cut
\* short has left undone of the completion is made up for.
ApproveAgain(m) ==
  /\ Approvable(m)
  /\ milestone[m].invoice # NoInvoice
  /\ milestone' = [milestone EXCEPT ![m] = Completed(m, milestone[m].invoice)]
  /\ PostCompletion(m)
  /\ UNCHANGED <<order, gateReady, invoice, payment, ar, labor, cuts>>

-----------------------------------------------------------------------------
(* Invoices.                                                               *)

\* generateInvoice: the draft in one transaction, its tax lines after it.
GenerateInvoice(o, i, done) ==
  LET taxed == TaxedTotal[o] > 0 IN
  /\ o \in Goods
  /\ order[o].state = "Shipped"
  /\ invoice[i].state = "None"
  /\ done = 1 \/ (done = 2 /\ taxed)
  /\ CutShort(done, IF taxed THEN 2 ELSE 1)
  /\ invoice' = [invoice EXCEPT ![i] =
       [state |-> "Draft", order |-> o, milestone |-> NoMilestone,
        amount |-> OrderTotal[o], tax |-> Tax(TaxedTotal[o]),
        taxable |-> IF done = 2 THEN TaxedTotal[o] ELSE 0,
        paid |-> 0, posted |-> FALSE]]
  /\ order' = [order EXCEPT ![o] = [state |-> "Invoiced", billing |-> "Invoiced"]]
  /\ UNCHANGED <<milestone, gateReady, payment, ar, unbilled, labor, wip>>

\* What the journal of invoice i debits to trade receivables, and credits to
\* revenue or unbilled receivables: if there are tax lines, what they add up to.
Debited(i) ==
  IF invoice[i].taxable > 0 THEN invoice[i].taxable + invoice[i].tax
  ELSE invoice[i].amount
Credited(i) ==
  IF invoice[i].taxable > 0 THEN invoice[i].taxable ELSE invoice[i].amount

\* Adds x to the unbilled receivables of the milestone of i, if it has one.
AddUnbilled(i, x) ==
  unbilled' = [m \in Milestones |->
                 IF m = invoice[i].milestone THEN unbilled[m] + x ELSE unbilled[m]]

PostInvoice(i) ==
  /\ invoice[i].state = "Draft"
  /\ ~invoice[i].posted
  /\ invoice' = [invoice EXCEPT ![i].state = "Posted", ![i].posted = TRUE]
  /\ ar' = [ar EXCEPT ![i] = @ + Debited(i)]
  /\ AddUnbilled(i, -Credited(i))
  /\ UNCHANGED <<order, milestone, gateReady, payment, labor, wip, cuts>>

\* Mutant: an invoice is cancelled in spite of payments.
CancelPaidInvoice(i, done) ==
  LET m == invoice[i].milestone IN
  /\ invoice[i].state \in {"Draft", "Posted"}
  /\ done = 1
  /\ CutShort(done, IF m # NoMilestone THEN 2 ELSE 1)
  /\ invoice' = [invoice EXCEPT ![i].state = "Cancelled"]
  /\ IF invoice[i].posted
     THEN ar' = [ar EXCEPT ![i] = @ - Debited(i)] /\ AddUnbilled(i, Credited(i))
     ELSE UNCHANGED <<ar, unbilled>>
  /\ UNCHANGED <<gateReady, payment, labor, wip, milestone, order>>

\* Mutant: billed_amount is read before the invoice is cancelled.
CancelInvoiceOldSum(i, done) ==
  LET o == invoice[i].order IN
  /\ invoice[i].state \in {"Draft", "Posted"}
  /\ invoice[i].paid = 0
  /\ invoice[i].milestone # NoMilestone
  /\ done = 2
  /\ CutShort(done, 2)
  /\ invoice' = [invoice EXCEPT ![i].state = "Cancelled"]
  /\ IF invoice[i].posted
     THEN ar' = [ar EXCEPT ![i] = @ - Debited(i)] /\ AddUnbilled(i, Credited(i))
     ELSE UNCHANGED <<ar, unbilled>>
  /\ milestone' = [n \in Milestones |->
       IF milestone[n].invoice = i
       THEN [milestone[n] EXCEPT !.invoice = NoInvoice] ELSE milestone[n]]
  /\ order' = [order EXCEPT ![o].billing = BillingState(o, Billed(o))]
  /\ UNCHANGED <<gateReady, payment, labor, wip>>

\* cancelARInvoice: the invoice and the reversal of its journal in one
\* transaction, the milestone's link and the order's billing in a second one.
CancelInvoice(i, done) ==
  LET o == invoice[i].order
      m == invoice[i].milestone
      left == Billed(o) - invoice[i].amount
  IN
  /\ invoice[i].state \in {"Draft", "Posted"}
  /\ invoice[i].paid = 0
  /\ done = 1 \/ (done = 2 /\ m # NoMilestone)
  /\ CutShort(done, IF m # NoMilestone THEN 2 ELSE 1)
  /\ invoice' = [invoice EXCEPT ![i].state = "Cancelled"]
  /\ IF invoice[i].posted
     THEN ar' = [ar EXCEPT ![i] = @ - Debited(i)] /\ AddUnbilled(i, Credited(i))
     ELSE UNCHANGED <<ar, unbilled>>
  /\ IF done = 2
     THEN /\ milestone' = [n \in Milestones |->
               IF milestone[n].invoice = i
               THEN [milestone[n] EXCEPT !.invoice = NoInvoice] ELSE milestone[n]]
          /\ order' = [order EXCEPT ![o].billing =
               IF left <= 0 THEN "Unbilled" ELSE BillingState(o, left)]
     ELSE UNCHANGED <<milestone, order>>
  /\ UNCHANGED <<gateReady, payment, labor, wip>>

-----------------------------------------------------------------------------
(* Payments.                                                               *)

\* Mutant: what was paid is compared with the amount before tax.
RegisterPaymentNet(p, i, amount) ==
  LET paid == invoice[i].paid + amount
      full == paid >= invoice[i].amount
  IN
  /\ payment[p].state = "None"
  /\ invoice[i].state \in {"Posted", "Paid"}
  /\ payment' = [payment EXCEPT ![p] = [state |-> "Applied", amount |-> amount]]
  /\ ar' = [ar EXCEPT ![i] = @ - amount]
  /\ invoice' = [invoice EXCEPT ![i].paid = paid,
                                ![i].state = IF full THEN "Paid" ELSE "Posted"]
  /\ order' = IF full THEN [order EXCEPT ![invoice[i].order].state = "Paid"] ELSE order
  /\ UNCHANGED <<milestone, gateReady, unbilled, labor, wip, cuts>>

\* Received, posted against trade receivables and applied in one transaction;
\* an invoice that is paid in full makes its order Paid.
RegisterPayment(p, i, amount) ==
  LET paid == invoice[i].paid + amount
      full == paid >= Due(i)
  IN
  /\ payment[p].state = "None"
  /\ invoice[i].state \in {"Posted", "Paid"}
  /\ payment' = [payment EXCEPT ![p] = [state |-> "Applied", amount |-> amount]]
  /\ ar' = [ar EXCEPT ![i] = @ - amount]
  /\ invoice' = [invoice EXCEPT ![i].paid = paid,
                                ![i].state = IF full THEN "Paid" ELSE "Posted"]
  /\ order' = IF full THEN [order EXCEPT ![invoice[i].order].state = "Paid"] ELSE order
  /\ UNCHANGED <<milestone, gateReady, unbilled, labor, wip, cuts>>

\* reconcileARPayment and cancelARPayment change nothing but the payment;
\* applyARPayment finds every payment applied.
MovePayment(p, to) ==
  /\ payment[p].state = "Applied"
  /\ to \in {"Reconciled", "Cancelled"}
  /\ payment' = [payment EXCEPT ![p].state = to]
  /\ UNCHANGED <<order, milestone, gateReady, invoice, ar, unbilled, labor, wip, cuts>>

-----------------------------------------------------------------------------
OrderStep == \E o \in Orders, to \in OrderStates : MoveOrder(o, to)

MilestoneStep ==
  \/ UpsertStageGate
  \/ \E m \in Milestones :
       \/ CreateMilestone(m)
       \/ ApproveUnbilled(m)
       \/ ApproveAgain(m)
       \/ \E i \in Invoices, done \in 1 .. 3 : ApproveAndBill(m, i, done)
  \/ \E c \in LaborCosts : PostLaborCost(c)

InvoiceStep ==
  \E i \in Invoices :
    \/ PostInvoice(i)
    \/ \E done \in 1 .. 2 : CancelInvoice(i, done)
    \/ \E o \in Orders, done \in 1 .. 2 : GenerateInvoice(o, i, done)

PaymentStep ==
  \E p \in Payments :
    \/ \E i \in Invoices, amount \in PaymentAmounts : RegisterPayment(p, i, amount)
    \/ \E to \in {"Reconciled", "Cancelled"} : MovePayment(p, to)

Next == OrderStep \/ MilestoneStep \/ InvoiceStep \/ PaymentStep

Spec == Init /\ [][Next]_vars

-----------------------------------------------------------------------------
(* Properties.                                                             *)

\* Every invoice that is in force is the one its milestone refers to: however
\* often a milestone is approved, cancelled and approved anew, and wherever a
\* handler ends, it is never billed twice (invoiceService.ts:411, :483, :769).
MilestoneBilledOnce ==
  \A i \in Invoices :
    Live(i) /\ invoice[i].milestone # NoMilestone
      => milestone[invoice[i].milestone].invoice = i

\* Trade receivables hold, for every invoice, what its journal debited less
\* what was paid, and nothing for an invoice that is not posted or cancelled: a
\* journal is reversed once, and never under a payment (invoiceService.ts:684).
ReceivableOfInvoice ==
  \A i \in Invoices :
    ar[i] = IF Live(i) /\ invoice[i].posted THEN Debited(i) - invoice[i].paid ELSE 0

\* The invoices in force that have moved milestone m out of unbilled.
Reclassified(m) ==
  {i \in Invoices : Live(i) /\ invoice[i].posted /\ invoice[i].milestone = m}

\* Unbilled receivables hold a milestone's amount while its revenue is accrued
\* and no posted invoice stands for it, through any number of cancellations and
\* new invoices (invoiceService.ts:613, :722, :693).
UnbilledOfMilestone ==
  \A m \in Milestones :
    unbilled[m] = (IF milestone[m].accrued THEN BillingAmount[m] ELSE 0)
                    - (IF Reclassified(m) # {} THEN BillingAmount[m] ELSE 0)

\* The reports of accountingReconciliationService.ts: what the control accounts
\* differ by from the open items they stand for.
OpenItems ==
  SumFunctionOnSet([i \in Invoices |-> Most(0, Due(i) - invoice[i].paid)],
                   {i \in Invoices : Live(i) /\ invoice[i].posted})
ReceivablesDifference == SumFunction(ar) - OpenItems
UnbilledDifference ==
  SumFunction(unbilled)
    - (SumFunctionOnSet(BillingAmount, {m \in Approved : milestone[m].accrued})
       - SumFunctionOnSet([i \in Invoices |-> invoice[i].amount],
           {i \in Invoices : Live(i) /\ invoice[i].posted
                             /\ invoice[i].milestone # NoMilestone}))

\* Trade receivables agree with the open items unless a customer paid too much
\* (the open item is floored at 0) or a handler lost an invoice's tax lines.
ReceivablesReconcile ==
  (\A i \in Invoices : Live(i) /\ invoice[i].posted
                         => Debited(i) = Due(i) /\ invoice[i].paid <= Due(i))
    => ReceivablesDifference = 0

\* Unbilled receivables agree with what was earned less what was billed, even
\* with handlers cut short.
UnbilledReconciles == UnbilledDifference = 0

\* An invoice never moves out of unbilled receivables what has not been accrued
\* there, unless a handler was cut short between the two.
AccruedBeforeReclassified ==
  cuts = 0 => \A m \in Milestones : unbilled[m] >= 0

\* billing_state of a service order tells how much of it is billed, whatever
\* invoices were drafted and cancelled (invoiceService.ts:527, :762).
BillingStateAgrees ==
  cuts = 0 =>
    \A o \in Services :
      order[o].billing = IF Billed(o) = 0 THEN "Unbilled" ELSE BillingState(o, Billed(o))

\* An order is Paid or Closed only if an invoice of it that still stands is
\* settled in full.
PaidOrderIsSettled ==
  \A o \in Orders : order[o].state \in {"Paid", "Closed"} =>
    \E i \in Invoices : invoice[i].order = o /\ Live(i) /\ invoice[i].posted
                          /\ invoice[i].paid >= Due(i)

\* Work in progress holds the labour that was not released, and no more was
\* released than the approved milestones' share of it, in spite of the rounding
\* and of labour posted between two approvals (invoiceService.ts:640-642).
WipReleasedInProportion ==
  /\ wip = labor - Released
  /\ Released <= ReleaseTarget(Approved)

\* Both follow what is approved and billed of the milestones: the state of the order,
\* and the work in progress that is released.
BillingAgrees == BillingStateAgrees /\ WipReleasedInProportion

\* "docs/Service Contracts Roadmap.md":20 has customer invoices generated the
\* moment a milestone is marked Approved.  So an approved milestone of an order
\* that stands has an invoice, or had one that was cancelled.
ApprovedMilestoneBilled ==
  \A m \in Approved :
    \/ order[OrderOf[m]].state = "Cancelled"
    \/ \E i \in Invoices : invoice[i].milestone = m

\* taxPostingService.ts:339: the journal of a customer invoice debits trade
\* receivables with the gross amount.  Here: with what the customer owes.
PostedGross ==
  \A i \in Invoices :
    Live(i) /\ invoice[i].posted /\ invoice[i].paid = 0 => ar[i] = Due(i)

=============================================================================
