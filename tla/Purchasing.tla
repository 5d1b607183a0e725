----------------------------- MODULE Purchasing -----------------------------
(* From what is wanted to what a supplier bills, in foundation-erp/domain/p2p:  *)
(* requisitions, purchase orders, both with their lines, goods receipts, and    *)
(* the invoice that a receipt leads to; and the requisition lines that a        *)
(* project's shortages become (domain/proj/projectService.ts).  Handlers do not *)
(* wait; each makes its changes in one transaction, but for the last, which     *)
(* makes one for each line.  Of a line only quantity times price matters; taxes  *)
(* are left out.  What follows an invoice is Contractors'.                      *)
EXTENDS Naturals, Sequences, SequencesExt, FiniteSets, FiniteSetsExt

CONSTANTS
  Requisitions, Receipts,
  NoRequisition,
  Totals,       \* what a line, or an order without lines, may come to
  MaxTotal,     \* bound on the total of a requisition or an order
  MaxPurchases  \* bound on the orders; an order is known by its number

VARIABLES
  requisition,  \* p2p_requisition and its lines
  purchase,     \* p2p_purchase_order and its lines
  receipt,      \* p2p_goods_receipt
  billed        \* the amounts due of the invoices that a receipt has led to

ASSUME PurchasingAssumption ==
  NoRequisition \notin Requisitions /\ Totals \subseteq Nat /\ MaxTotal \in Nat

purchasingVars == <<requisition, purchase, receipt, billed>>

Tables == INSTANCE ProcessTables

Missing == [state |-> "Missing"]

SumOf(lines) == SumFunction(lines)

\* updateRequisitionTotals, updatePOTotal
Totalled(row, lines) == [row EXCEPT !.lines = lines, !.total = SumOf(lines)]

\* Mutant: lines may still be changed when the requisition was submitted.
IsOpenLonger(state) == state \in {"Draft", "Submitted"}

\* assertDraftState
IsOpen(state) == state = "Draft"

-----------------------------------------------------------------------------
(* Requisitions                                                                 *)

\* asked (history): the lines that were submitted.  All are of one project; one of
\* no project, or of another, only never gets the lines that are generated.
NewRequisition == [state |-> "Draft", lines |-> <<>>, total |-> 0, asked |-> <<>>]

CreateRequisition(r) ==
  /\ requisition[r] = Missing
  /\ requisition' = [requisition EXCEPT ![r] = NewRequisition]
  /\ UNCHANGED <<purchase, receipt, billed>>

AddRequisitionLine(r) ==
  /\ IsOpen(requisition[r].state)
  /\ \E amount \in Totals :
       /\ requisition[r].total + amount <= MaxTotal
       /\ requisition' = [requisition EXCEPT ![r] = Totalled(@, Append(@.lines, amount))]
  /\ UNCHANGED <<purchase, receipt, billed>>

UpdateRequisitionLine(r) ==
  /\ IsOpen(requisition[r].state)
  /\ \E k \in DOMAIN requisition[r].lines, amount \in Totals :
       LET lines == [requisition[r].lines EXCEPT ![k] = amount] IN
       /\ SumOf(lines) <= MaxTotal
       /\ requisition' = [requisition EXCEPT ![r] = Totalled(@, lines)]
  /\ UNCHANGED <<purchase, receipt, billed>>

RemoveRequisitionLine(r) ==
  /\ IsOpen(requisition[r].state)
  /\ \E k \in DOMAIN requisition[r].lines :
       requisition' = [requisition EXCEPT ![r] = Totalled(@, RemoveAt(@.lines, k))]
  /\ UNCHANGED <<purchase, receipt, billed>>

\* updateRequisitionState
MoveRequisition(r) ==
  /\ \E move \in Tables!RequisitionMoves :
       /\ move[1] = requisition[r].state /\ move[2] # "convertToPO"
       /\ requisition' = [requisition EXCEPT ![r].state = move[3],
            ![r].asked = IF move[2] = "submit" THEN requisition[r].lines ELSE @]
  /\ UNCHANGED <<purchase, receipt, billed>>

\* generateProjectRequisitionLinesFromPreview: a line for each shortage, in a new
\* requisition or one of the project's own; whoever looks, or a crash, may find
\* only the first of them, or none.
GenerateLines(r) ==
  /\ requisition[r] = Missing \/ IsOpen(requisition[r].state)
  /\ \E shortages \in BoundedSeq(Totals, MaxTotal) :
       LET row == IF requisition[r] = Missing THEN NewRequisition ELSE requisition[r]
           lines == row.lines \o shortages IN
       /\ SumOf(lines) <= MaxTotal
       /\ requisition' = [requisition EXCEPT ![r] = Totalled(row, lines)]
  /\ UNCHANGED <<purchase, receipt, billed>>

-----------------------------------------------------------------------------
(* Purchase orders.  edited (history): its lines were changed since it was made. *)

NewOrder(r, lines, total) ==
  [state |-> "Draft", converts |-> r, lines |-> lines, total |-> total, edited |-> FALSE]

\* createPurchaseOrder.  It may name a requisition, in whatever state that is, and
\* has nothing else to do with it.
CreatePurchaseOrder ==
  /\ Len(purchase) < MaxPurchases
  /\ \E total \in Totals \cup {0} :
       purchase' = Append(purchase, NewOrder(NoRequisition, <<>>, total))
  /\ UNCHANGED <<requisition, receipt, billed>>

\* createPurchaseOrderFromRequisition
ConvertRequisition(r) ==
  /\ Len(purchase) < MaxPurchases
  /\ requisition[r].state = "Approved"
  /\ LET lines == requisition[r].lines
         total == IF lines = <<>> THEN requisition[r].total ELSE SumOf(lines) IN
     purchase' = Append(purchase, NewOrder(r, lines, total))
  /\ requisition' = [requisition EXCEPT ![r].state = "ConvertedToPO"]
  /\ UNCHANGED <<receipt, billed>>

\* What each of the three does to the lines
ChangedLines(lines) ==
  {Append(lines, amount) : amount \in Totals}
    \cup {[lines EXCEPT ![k] = amount] : k \in DOMAIN lines, amount \in Totals}
    \cup {RemoveAt(lines, k) : k \in DOMAIN lines}

\* addPurchaseOrderLine, updatePurchaseOrderLine, removePurchaseOrderLine
ChangePurchaseOrderLines(o) ==
  /\ IsOpen(purchase[o].state)
  /\ \E lines \in ChangedLines(purchase[o].lines) :
       /\ SumOf(lines) <= MaxTotal
       /\ purchase' = [purchase EXCEPT ![o] = [Totalled(@, lines) EXCEPT !.edited = TRUE]]
  /\ UNCHANGED <<requisition, receipt, billed>>

\* updatePOState
MovePurchaseOrder(o) ==
  /\ \E move \in Tables!PurchaseOrderMoves \ Tables!ReceiptMovesOrder :
       move[1] = purchase[o].state /\ purchase' = [purchase EXCEPT ![o].state = move[3]]
  /\ UNCHANGED <<requisition, receipt, billed>>

-----------------------------------------------------------------------------
(* Goods receipts                                                               *)

CreateGoodsReceipt(g, o) ==
  /\ receipt[g] = Missing
  /\ purchase[o].state \in {"Sent", "PartiallyReceived"}
  /\ receipt' = [receipt EXCEPT ![g] = [state |-> "Draft", of |-> o]]
  /\ UNCHANGED <<requisition, purchase, billed>>

\* updateGoodsReceiptState.  The order's state is not looked at.
MoveGoodsReceipt(g) ==
  /\ \E move \in Tables!GoodsReceiptMoves :
       /\ move[1] = receipt[g].state
       /\ receipt' = [receipt EXCEPT ![g].state = move[3]]
       /\ IF move[3] = "Accepted"
          THEN \E state \in {"PartiallyReceived", "FullyReceived"} :
                 purchase' = [purchase EXCEPT ![receipt[g].of].state = state]
          ELSE UNCHANGED purchase
  /\ UNCHANGED <<requisition, billed>>

\* createSupplierInvoiceFromReceipt, before tax
CreateInvoiceFromReceipt(g) ==
  /\ receipt[g].state = "Accepted"
  /\ billed' = [billed EXCEPT ![g] = @ \cup {purchase[receipt[g].of].total}]
  /\ UNCHANGED <<requisition, purchase, receipt>>

-----------------------------------------------------------------------------
PurchasingInit ==
  /\ requisition = [r \in Requisitions |-> Missing]
  /\ purchase = <<>>
  /\ receipt = [g \in Receipts |-> Missing]
  /\ billed = [g \in Receipts |-> {}]

PurchasingNext ==
  \/ \E r \in Requisitions :
       \/ CreateRequisition(r) \/ MoveRequisition(r) \/ GenerateLines(r)
       \/ AddRequisitionLine(r) \/ UpdateRequisitionLine(r) \/ RemoveRequisitionLine(r)
       \/ ConvertRequisition(r)
  \/ CreatePurchaseOrder
  \/ \E o \in DOMAIN purchase :
       \/ ChangePurchaseOrderLines(o) \/ MovePurchaseOrder(o)
       \/ \E g \in Receipts : CreateGoodsReceipt(g, o)
  \/ \E g \in Receipts : MoveGoodsReceipt(g) \/ CreateInvoiceFromReceipt(g)

PurchasingSpec == PurchasingInit /\ [][PurchasingNext]_purchasingVars

RequisitionStates ==
  {"Draft", "Submitted", "Approved", "Rejected", "ConvertedToPO", "Cancelled"}
PurchaseStates ==
  {"Draft", "Approved", "Sent", "PartiallyReceived", "FullyReceived", "Closed", "Cancelled"}

PurchasingTypeOK ==
  /\ \A r \in Requisitions : requisition[r] = Missing \/
       requisition[r] \in [state : RequisitionStates, lines : Seq(Nat), total : Nat,
                          asked : Seq(Nat)]
  /\ \A o \in DOMAIN purchase :
       purchase[o] \in [state : PurchaseStates, converts : Requisitions \cup {NoRequisition},
                        lines : Seq(Nat), total : Nat, edited : BOOLEAN]
  /\ \A g \in Receipts : receipt[g] = Missing \/
       receipt[g] \in [state : {"Draft", "Received", "Accepted"}, of : DOMAIN purchase]
  /\ billed \in [Receipts -> SUBSET Nat]

(* What is ordered is what was approved.  A requisition's total is that of its   *)
(* lines, and neither changes once it is submitted; a purchase order's is, as    *)
(* soon as it has lines or had some; one order at most is made by conversion of  *)
(* a requisition, exactly one of a converted one, and if nobody edits it it has  *)
(* the lines and the total that were approved; and every invoice for goods that  *)
(* were received is for the total of their order, whatever has happened to the   *)
(* order in between.                                                            *)
PurchasesAgree ==
  /\ \A r \in Requisitions : requisition[r] # Missing =>
       LET row == requisition[r]
           made == {o \in DOMAIN purchase : purchase[o].converts = r} IN
       /\ row.total = SumOf(row.lines)
       /\ row.state \notin {"Draft", "Cancelled"} => row.lines = row.asked
       /\ Cardinality(made) = IF row.state = "ConvertedToPO" THEN 1 ELSE 0
       /\ \A o \in made : ~purchase[o].edited =>
            purchase[o].lines = row.asked /\ purchase[o].total = SumOf(row.asked)
  /\ \A o \in DOMAIN purchase :
       purchase[o].lines # <<>> \/ purchase[o].edited =>
         purchase[o].total = SumOf(purchase[o].lines)
  /\ \A g \in Receipts : receipt[g] # Missing => billed[g] \subseteq {purchase[receipt[g].of].total}
=============================================================================
