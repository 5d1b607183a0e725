----------------------------- MODULE Contractors -----------------------------
(***************************************************************************)
(* Contractors' work from the timesheet to the payment, in services/       *)
(* foundation-erp: a line of an approved timesheet becomes labour of its   *)
(* project and, for a contractor, an accrued liability                     *)
(* (domain/h2r/timesheetService.ts, domain/proj/projectService.ts); a      *)
(* supplier's invoice is matched to such accruals, posted and paid         *)
(* (domain/p2p/invoice/supplierInvoiceService.ts,                          *)
(* domain/p2p/payment/apPaymentService.ts).                                *)
(*                                                                         *)
(* Every handler runs to its end without yielding, and its writes are one  *)
(* transaction, except for the approval of a timesheet, which has one per  *)
(* line.  Amounts are whole; taxes are left out.                           *)
(***************************************************************************)
EXTENDS Integers, Sequences, FiniteSets, Functions

CONSTANTS
  Timesheets,
  Lines,            \* the lines that may be entered
  LineKind,         \* "contractor", "unrated" (no active vendor rate of a supplier),
                    \* "employee", "internal" (no project)
  LineCost,         \* hours times rate
  LineSupplier,     \* the supplier of a contractor line's rate
  SupplierInvoices, NoSupplierInvoice, ApPayments,
  InvoiceSupplier,  \* the supplier of the order an invoice is made from
  Amounts           \* totals of orders, amounts of payments and of allocations

ASSUME ContractorsAssumption ==
  /\ IsFiniteSet(Lines) /\ IsFiniteSet(SupplierInvoices)
  /\ Amounts \subseteq Nat \ {0} /\ NoSupplierInvoice \notin SupplierInvoices
  /\ LineKind \in [Lines -> {"contractor", "unrated", "employee", "internal"}]
  /\ LineCost \in [Lines -> Nat]

VARIABLES
  sheet,         \* h2r_timesheet and its lines, in the order of their numbers
  labour,        \* how often a line was posted as labour of its project
  accrual,       \* h2r_contractor_accrual: the status, by line
  projectActive, \* the lines' project is Active and its WIP is open
  invoice,       \* p2p_supplier_invoice and its matched amounts, by line
  apPayment,     \* p2p_ap_payment
  liability,     \* balance of SYS-205, accrued contractors
  payable        \* balance of SYS-200, accounts payable

invoicing == <<invoice, apPayment, payable>>
timesheets == <<sheet, labour, projectActive>>
contractorVars == <<sheet, labour, accrual, projectActive, invoice, apPayment,
                    liability, payable>>

-----------------------------------------------------------------------------
Set(s) == {s[k] : k \in DOMAIN s}
Total(f, S) == SumFunctionOnSet(f, S)
InvoiceStates == {"None", "Draft", "Validated", "Posted", "Paid", "Cancelled"}
NoInvoice == [state |-> "None", due |-> 0, paid |-> 0, journal |-> "none",
              matched |-> [l \in Lines |-> 0]]
NoPayment == [state |-> "None", invoice |-> NoSupplierInvoice, amount |-> 0]

Matched(i) == {l \in Lines : invoice[i].matched[l] > 0}

\* What of an accrual's amount the standing invoices other than i leave.
Available(l, i) ==
  LineCost[l] - Total([j \in SupplierInvoices |-> invoice[j].matched[l]],
                      {j \in SupplierInvoices \ {i} : invoice[j].state # "Cancelled"})

-----------------------------------------------------------------------------
\* Timesheets.

ContractorsInit ==
  /\ sheet = [t \in Timesheets |-> [status |-> "Draft", lines |-> <<>>]]
  /\ labour = [l \in Lines |-> 0]
  /\ accrual = [l \in Lines |-> "None"]
  /\ projectActive = TRUE
  /\ invoice = [i \in SupplierInvoices |-> NoInvoice]
  /\ apPayment = [p \in ApPayments |-> NoPayment]
  /\ liability = 0 /\ payable = 0

AddTimesheetLine(t, l) ==
  /\ sheet[t].status = "Draft"
  /\ \A u \in Timesheets : l \notin Set(sheet[u].lines)
  /\ sheet' = [sheet EXCEPT ![t].lines = Append(@, l)]
  /\ UNCHANGED <<labour, accrual, projectActive, liability, invoicing>>

\* submitTimesheet, rejectTimesheet and reopenRejectedTimesheet.
MoveTimesheet(t, from, to) ==
  /\ sheet[t].status = from
  /\ sheet' = [sheet EXCEPT ![t].status = to]
  /\ UNCHANGED <<labour, accrual, projectActive, liability, invoicing>>
SubmitTimesheet(t) == MoveTimesheet(t, "Draft", "Submitted")
RejectTimesheet(t) == MoveTimesheet(t, "Submitted", "Rejected")
ReopenTimesheet(t) == MoveTimesheet(t, "Rejected", "Draft")

OfProject(l) == LineKind[l] # "internal"
\* Mutant: lines that have been posted already are posted again.
UncostedForgets(t) == {l \in Set(sheet[t].lines) : OfProject(l)}
\* The project lines that no labour entry exists for.
Uncosted(t) == {l \in Set(sheet[t].lines) : OfProject(l) /\ labour[l] = 0}

\* Nothing is posted of an amount of zero.
Postable(l) == projectActive /\ LineKind[l] # "unrated" /\ LineCost[l] > 0
Contracted(ls) == {l \in ls : LineKind[l] = "contractor"}

\* postLaborCost of some lines: labour, the journal and the accrual of each.
PostLabour(ls) ==
  /\ labour' = [l \in Lines |-> IF l \in ls THEN labour[l] + 1 ELSE labour[l]]
  /\ accrual' = [l \in Lines |-> IF l \in Contracted(ls) THEN "Accrued" ELSE accrual[l]]
  /\ liability' = liability + Total(LineCost, Contracted(ls))

\* The lines are posted one by one, in their order, up to the first that throws, or up
\* to a crash; the timesheet is approved after the last.
ApproveTimesheet(t) ==
  /\ sheet[t].status = "Submitted"
  /\ \E n \in 0..Len(sheet[t].lines) :
       LET posted == Uncosted(t) \cap {sheet[t].lines[k] : k \in 1..n} IN
       /\ \A l \in posted : Postable(l)
       /\ PostLabour(posted)
       /\ sheet' = [sheet EXCEPT ![t].status = IF n = Len(sheet[t].lines) THEN "Approved" ELSE @]
  /\ UNCHANGED <<projectActive, invoicing>>

\* A project is put on hold and resumed.
HoldOrResume ==
  /\ projectActive' = ~projectActive
  /\ UNCHANGED <<sheet, labour, accrual, liability, invoicing>>

-----------------------------------------------------------------------------
\* Supplier invoices.

CreateSupplierInvoice(i) ==
  /\ invoice[i].state = "None"
  /\ \E a \in Amounts : invoice' = [invoice EXCEPT ![i].state = "Draft", ![i].due = a]
  /\ UNCHANGED <<timesheets, accrual, apPayment, liability, payable>>

Allocatable(i, alloc) ==
  /\ \A l \in DOMAIN alloc :
       /\ accrual[l] \in {"Accrued", "Invoiced"} /\ LineSupplier[l] = InvoiceSupplier[i]
       /\ alloc[l] <= Available(l, i)
  /\ SumFunction(alloc) = invoice[i].due

MatchInvoice(i) ==
  /\ invoice[i].state \in {"Draft", "Validated"}
  /\ Matched(i) = {}
  /\ \E ls \in SUBSET Lines \ {{}} : \E alloc \in [ls -> Amounts] :
       /\ Allocatable(i, alloc)
       /\ invoice' = [invoice EXCEPT ![i].matched =
                        [l \in Lines |-> IF l \in ls THEN alloc[l] ELSE 0]]
  /\ UNCHANGED <<timesheets, accrual, apPayment, liability, payable>>

ValidateInvoice(i) ==
  /\ invoice[i].state = "Draft"
  /\ invoice' = [invoice EXCEPT ![i].state = "Validated"]
  /\ UNCHANGED <<timesheets, accrual, apPayment, liability, payable>>

\* refreshContractorAccrualStatus: the status of an accrual that is not Paid yet; inv
\* are the invoices.
Refreshed(l, inv) ==
  LET of == {j \in SupplierInvoices : inv[j].matched[l] > 0}
      full == Total([j \in SupplierInvoices |-> inv[j].matched[l]], of) >= LineCost[l]
  IN  CASE full /\ \A j \in of : inv[j].state = "Paid" -> "Paid"
        [] full /\ (\A j \in of : inv[j].state \in {"Posted", "Paid"})
             /\ (\E j \in of : inv[j].state # "Paid") -> "Invoiced"
        [] OTHER -> "Accrued"
Refresh(ls, inv) ==
  accrual' = [l \in Lines |-> IF l \in ls /\ accrual[l] # "Paid" THEN Refreshed(l, inv)
                                                               ELSE accrual[l]]

\* Mutant: the invoice is expensed, although it is matched.
PostInvoiceExpensed(i) ==
  LET inv == [invoice EXCEPT ![i].state = "Posted", ![i].journal = "posted"] IN
  /\ invoice[i].state = "Validated"
  /\ invoice' = inv
  /\ payable' = payable + invoice[i].due
  /\ Refresh(Matched(i), inv)
  /\ UNCHANGED <<timesheets, apPayment, liability>>
\* Posting moves what was matched out of the accrued liability.
PostInvoice(i) ==
  LET inv == [invoice EXCEPT ![i].state = "Posted", ![i].journal = "posted"] IN
  /\ invoice[i].state = "Validated"
  /\ invoice' = inv
  /\ liability' = liability - Total(invoice[i].matched, Lines)
  /\ payable' = payable + invoice[i].due
  /\ Refresh(Matched(i), inv)
  /\ UNCHANGED <<timesheets, apPayment>>

CancelInvoiceOf(i) ==
  LET inv == [invoice EXCEPT ![i].state = "Cancelled",
                             ![i].journal = IF @ = "posted" THEN "reversed" ELSE @,
                             ![i].matched = [l \in Lines |-> 0]]
      sign == IF invoice[i].journal = "posted" THEN 1 ELSE 0
  IN  /\ invoice[i].state \in {"Draft", "Validated", "Posted"} /\ invoice[i].paid = 0
      /\ invoice' = inv
      /\ liability' = liability + sign * Total(invoice[i].matched, Lines)
      /\ payable' = payable - sign * invoice[i].due
      /\ Refresh(Matched(i), inv)
      /\ UNCHANGED <<timesheets, apPayment>>

-----------------------------------------------------------------------------
\* Payments to suppliers.

CreateApPayment(p, i) ==
  /\ apPayment[p].state = "None" /\ invoice[i].state # "None"
  /\ \E a \in Amounts :
       apPayment' = [apPayment EXCEPT ![p] = [state |-> "Draft", invoice |-> i, amount |-> a]]
  /\ UNCHANGED <<timesheets, accrual, invoice, liability, payable>>

MoveApPayment(p, to) ==
  /\ to \in CASE apPayment[p].state = "Draft"    -> {"Received", "Cancelled"}
              [] apPayment[p].state = "Received" -> {"Cancelled"}
              [] apPayment[p].state = "Applied"  -> {"Reconciled"}
              [] OTHER -> {}
  /\ apPayment' = [apPayment EXCEPT ![p].state = to]
  /\ UNCHANGED <<timesheets, accrual, invoice, liability, payable>>

\* The invoice becomes Paid or Posted, whatever it was.
ApplyApPayment(p) ==
  LET i == apPayment[p].invoice
      paid == invoice[i].paid + apPayment[p].amount
      inv == [invoice EXCEPT ![i].paid = paid,
                             ![i].state = IF paid >= invoice[i].due THEN "Paid" ELSE "Posted"]
  IN  /\ apPayment[p].state = "Received"
      /\ apPayment' = [apPayment EXCEPT ![p].state = "Applied"]
      /\ invoice' = inv
      /\ payable' = payable - apPayment[p].amount
      /\ Refresh(Matched(i), inv)
      /\ UNCHANGED <<timesheets, liability>>

-----------------------------------------------------------------------------
ContractorsNext ==
  \/ \E t \in Timesheets :
       \/ \E l \in Lines : AddTimesheetLine(t, l)
       \/ SubmitTimesheet(t)
       \/ RejectTimesheet(t)
       \/ ReopenTimesheet(t)
       \/ ApproveTimesheet(t)
  \/ HoldOrResume
  \/ \E i \in SupplierInvoices :
       \/ CreateSupplierInvoice(i)
       \/ MatchInvoice(i)
       \/ ValidateInvoice(i)
       \/ PostInvoice(i)
       \/ CancelInvoiceOf(i)
  \/ \E p \in ApPayments :
       \/ \E i \in SupplierInvoices : CreateApPayment(p, i)
       \/ \E to \in {"Received", "Cancelled", "Reconciled"} : MoveApPayment(p, to)
       \/ ApplyApPayment(p)

ContractorsSpec == ContractorsInit /\ [][ContractorsNext]_contractorVars

-----------------------------------------------------------------------------
ContractorsTypeOK ==
  /\ \A t \in Timesheets :
       /\ sheet[t].status \in {"Draft", "Submitted", "Approved", "Rejected"}
       /\ \A k \in DOMAIN sheet[t].lines : sheet[t].lines[k] \in Lines
  /\ labour \in [Lines -> Nat]
  /\ accrual \in [Lines -> {"None", "Accrued", "Invoiced", "Paid"}]
  /\ projectActive \in BOOLEAN
  /\ invoice \in [SupplierInvoices ->
       [state : InvoiceStates, due : Nat, paid : Nat,
        journal : {"none", "posted", "reversed"}, matched : [Lines -> Nat]]]
  /\ apPayment \in [ApPayments ->
       [state : {"None", "Draft", "Received", "Applied", "Reconciled", "Cancelled"},
        invoice : SupplierInvoices \cup {NoSupplierInvoice}, amount : Nat]]
  /\ liability \in Int /\ payable \in Int

\* A line becomes labour of its project at most once, and a contractor's line an
\* accrual exactly then; and an approved timesheet has no line left out: however often
\* its approval was cut short, rejected, reopened and extended in between.
LabourCosted ==
  /\ \A l \in Lines :
       /\ labour[l] \in {0, 1}
       /\ (accrual[l] # "None") = (labour[l] = 1 /\ LineKind[l] = "contractor")
  /\ \A t \in Timesheets : sheet[t].status = "Approved" =>
       \A l \in Set(sheet[t].lines) : OfProject(l) => labour[l] = 1

\* No accrual is invoiced beyond its amount, and its status tells what the invoices
\* that hold it have come to, whichever of them was posted, cancelled or paid last.
AccrualStatusAgrees ==
  \A l \in Lines :
    /\ Total([i \in SupplierInvoices |-> invoice[i].matched[l]], SupplierInvoices)
         <= LineCost[l]
    /\ accrual[l] # "None" => accrual[l] = Refreshed(l, invoice)

\* The accrued liability is the labour that no posted invoice has taken over; and if
\* payments were applied only to posted invoices, accounts payable is what they
\* leave open.
PayablesReconcile ==
  LET posted == {i \in SupplierInvoices : invoice[i].journal = "posted"}
      open == {i \in SupplierInvoices : invoice[i].state \in {"Posted", "Paid"}}
  IN  /\ liability =
           Total(LineCost, Contracted({l \in Lines : labour[l] > 0}))
             - Total([i \in SupplierInvoices |-> Total(invoice[i].matched, Lines)], posted)
      /\ open \subseteq posted =>
           payable = Total([i \in SupplierInvoices |-> invoice[i].due - invoice[i].paid], open)

\* What is owed to contractors' agencies agrees from the labour to the payment: for
\* each accrual, and in the two control accounts.
PayablesAgree == AccrualStatusAgrees /\ PayablesReconcile

\* docs/Service Contracts Roadmap.md:10: an accrual is Paid only after its full
\* allocation is settled, and posting moves it to accounts payable.  Here: a paid
\* accrual is no liability any more.
PaidAccrualCleared ==
  \A l \in Lines, i \in SupplierInvoices :
    accrual[l] = "Paid" /\ invoice[i].matched[l] > 0 => invoice[i].journal = "posted"
=============================================================================
