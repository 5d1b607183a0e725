------------------------- MODULE OrderToCash_proofs -------------------------
(***************************************************************************)
(* Theorems about OrderToCash, for any number of orders, milestones,       *)
(* invoices and payments, any amounts and tax rate, and handlers cut short *)
(* as often as one likes: what is true of each document, and what is true  *)
(* of the sums over the invoices of an order and the milestones of a       *)
(* project.                                                                *)
(***************************************************************************)
EXTENDS OrderToCash, SetLemmas

-----------------------------------------------------------------------------
(* The inductive invariant.                                                *)

\* TypeOK without the fields that are computed from sums.
DocumentTypes ==
  /\ order \in [Orders -> [state : OrderStates, billing : BillingStates]]
  /\ invoice \in [Invoices -> Invoice]
  /\ ar \in [Invoices -> Int]
  /\ unbilled \in [Milestones -> Int]
  /\ milestone = [m \in Milestones |-> milestone[m]]
  /\ \A m \in Milestones :
       /\ milestone[m] = [status |-> milestone[m].status,
                          invoice |-> milestone[m].invoice,
                          accrued |-> milestone[m].accrued,
                          released |-> milestone[m].released]
       /\ milestone[m].status \in {"None", "Planned", "Approved"}
       /\ milestone[m].invoice \in Invoices \cup {NoInvoice}
       /\ milestone[m].accrued \in BOOLEAN

\* An invoice is posted as its state says, and what the invoice of a milestone
\* takes out of unbilled receivables is the milestone's amount.
Sound(i) ==
  /\ invoice[i].state \in {"None", "Draft"} => invoice[i].posted = FALSE
  /\ invoice[i].state \in {"Posted", "Paid"} => invoice[i].posted = TRUE
  /\ invoice[i].state = "Draft" => invoice[i].paid = 0
  /\ invoice[i].state # "None" => invoice[i].amount > 0
  /\ invoice[i].state # "None" /\ invoice[i].milestone # NoMilestone
       => Credited(i) = BillingAmount[invoice[i].milestone]
InvoicesSound == \A i \in Invoices : Sound(i)

\* Unless a handler was cut short, the revenue of a milestone is accrued with
\* its first invoice.
AccruedWithInvoice ==
  /\ cuts \in Nat
  /\ cuts = 0 => \A m \in Milestones :
       milestone[m].invoice # NoInvoice => milestone[m].accrued = TRUE

\* The inductive invariant: the types, the properties, and what keeps them.
DocumentsInv ==
  /\ DocumentTypes
  /\ InvoicesSound
  /\ AccruedWithInvoice
  /\ MilestoneBilledOnce
  /\ ReceivableOfInvoice
  /\ UnbilledOfMilestone
  /\ PaidOrderIsSettled

-----------------------------------------------------------------------------
(* Types.                                                                  *)

LEMMA TaxType == ASSUME NEW a \in Nat PROVE Tax(a) \in Nat
<1>1. a * RatePercent \in Nat
  BY OrdersAssumption
<1>2. ASSUME NEW b \in Nat PROVE RoundedDiv(b, 100) \in Nat
  BY DEF RoundedDiv
<1> QED BY <1>1, <1>2 DEF Tax

LEMMA BillingStateType ==
  ASSUME NEW o, NEW x PROVE BillingState(o, x) \in BillingStates
BY DEF BillingState, BillingStates

LEMMA SettledType ==
  ASSUME NEW f \in [Invoices -> Invoice], NEW i \in Invoices,
         NEW s \in {"Posted", "Paid"}, NEW x \in Nat
  PROVE  [f EXCEPT ![i].paid = x, ![i].state = s] \in [Invoices -> Invoice]
<1>1. [f EXCEPT ![i].paid = x] \in [Invoices -> Invoice]
  BY DEF Invoice
<1>2. ASSUME NEW g \in [Invoices -> Invoice]
      PROVE  [g EXCEPT ![i].state = s] \in [Invoices -> Invoice]
  BY DEF Invoice
<1> QED BY <1>1, <1>2

\* What leaves the documents and the two control accounts as they are.
DocumentsStill == UNCHANGED <<order, milestone, invoice, ar, unbilled>>

LEMMA StillSteps ==
  ASSUME \/ UpsertStageGate
         \/ \E c \in LaborCosts : PostLaborCost(c)
         \/ \E p \in Payments, to \in {"Reconciled", "Cancelled"} : MovePayment(p, to)
         \/ UNCHANGED vars
  PROVE  DocumentsStill
BY DEF UpsertStageGate, PostLaborCost, MovePayment, vars, DocumentsStill

\* What a step can be.
LEMMA StepCases ==
  ASSUME [Next]_vars
  PROVE  \/ DocumentsStill
         \/ \E o \in Orders, to \in OrderStates : MoveOrder(o, to)
         \/ \E m \in Milestones : CreateMilestone(m) \/ ApproveUnbilled(m) \/ ApproveAgain(m)
         \/ \E m \in Milestones, i \in Invoices, done \in 1 .. 3 : ApproveAndBill(m, i, done)
         \/ \E o \in Orders, i \in Invoices, done \in 1 .. 2 : GenerateInvoice(o, i, done)
         \/ \E i \in Invoices : PostInvoice(i)
         \/ \E i \in Invoices, done \in 1 .. 2 : CancelInvoice(i, done)
         \/ \E p \in Payments, i \in Invoices, amount \in PaymentAmounts :
              RegisterPayment(p, i, amount)
BY StillSteps DEF Next, OrderStep, MilestoneStep, InvoiceStep, PaymentStep

LEMMA TypesStep ==
  ASSUME DocumentTypes, [Next]_vars
  PROVE  DocumentTypes'
<1> USE DEF DocumentTypes
<1>1. CASE DocumentsStill
  BY <1>1 DEF DocumentsStill
<1>2. ASSUME NEW o \in Orders, NEW to \in OrderStates, MoveOrder(o, to)
      PROVE  DocumentTypes'
  BY <1>2 DEF MoveOrder
<1>3. ASSUME NEW m \in Milestones, CreateMilestone(m)
      PROVE  DocumentTypes'
  BY <1>3 DEF CreateMilestone
<1>4. ASSUME NEW m \in Milestones, ApproveUnbilled(m)
      PROVE  DocumentTypes'
  BY <1>4 DEF ApproveUnbilled
<1>5. ASSUME NEW m \in Milestones, NEW i \in Invoices \cup {NoInvoice}, PostCompletion(m),
             milestone' = [milestone EXCEPT ![m] = Completed(m, i)]
      PROVE  /\ unbilled' \in [Milestones -> Int]
             /\ milestone' = [n \in Milestones |-> milestone'[n]]
             /\ \A n \in Milestones :
                  /\ milestone'[n] = [status |-> milestone'[n].status,
                                      invoice |-> milestone'[n].invoice,
                                      accrued |-> milestone'[n].accrued,
                                      released |-> milestone'[n].released]
                  /\ milestone'[n].status \in {"None", "Planned", "Approved"}
                  /\ milestone'[n].invoice \in Invoices \cup {NoInvoice}
                  /\ milestone'[n].accrued \in BOOLEAN
  <2>1. unbilled' \in [Milestones -> Int]
    BY <1>5, MilestonesAssumption DEF PostCompletion
  <2>2. milestone' = [n \in Milestones |-> IF n = m THEN Completed(m, i) ELSE milestone[n]]
    BY <1>5
  <2>3. /\ Completed(m, i) = [status |-> Completed(m, i).status,
                             invoice |-> Completed(m, i).invoice,
                             accrued |-> Completed(m, i).accrued,
                             released |-> Completed(m, i).released]
        /\ Completed(m, i).status = "Approved"
        /\ Completed(m, i).invoice = i
        /\ Completed(m, i).accrued = TRUE
    BY DEF Completed
  <2> HIDE DEF DocumentTypes
  <2>4. \A n \in Milestones :
          /\ milestone[n] = [status |-> milestone[n].status,
                             invoice |-> milestone[n].invoice,
                             accrued |-> milestone[n].accrued,
                             released |-> milestone[n].released]
          /\ milestone[n].status \in {"None", "Planned", "Approved"}
          /\ milestone[n].invoice \in Invoices \cup {NoInvoice}
          /\ milestone[n].accrued \in BOOLEAN
    BY DEF DocumentTypes
  <2>5. ASSUME NEW n \in Milestones
        PROVE  /\ milestone'[n] = [status |-> milestone'[n].status,
                                   invoice |-> milestone'[n].invoice,
                                   accrued |-> milestone'[n].accrued,
                                   released |-> milestone'[n].released]
               /\ milestone'[n].status \in {"None", "Planned", "Approved"}
               /\ milestone'[n].invoice \in Invoices \cup {NoInvoice}
               /\ milestone'[n].accrued \in BOOLEAN
    <3>1. CASE n = m
      <4>1. milestone'[n] = Completed(m, i)
        BY <2>2, <3>1
      <4> QED BY <2>3, <4>1
    <3>2. CASE n # m
      <4>1. milestone'[n] = milestone[n]
        BY <2>2, <3>2
      <4> QED BY <2>4, <4>1
    <3> QED BY <3>1, <3>2
  <2> QED BY <2>1, <2>2, <2>5
<1>6. ASSUME NEW m \in Milestones, ApproveAgain(m)
      PROVE  DocumentTypes'
  BY <1>6, <1>5 DEF ApproveAgain
<1>7. ASSUME NEW m \in Milestones, NEW i \in Invoices, NEW done \in 1 .. 3,
             ApproveAndBill(m, i, done)
      PROVE  DocumentTypes'
  <2> DEFINE o == OrderOf[m]
  <2>1. o \in Orders /\ BillingAmount[m] \in Nat /\ Tax(BillingAmount[m]) \in Nat
    BY TaxType, MilestonesAssumption, OrdersAssumption
  <2>2. invoice' \in [Invoices -> Invoice]
    BY <1>7, <2>1 DEF ApproveAndBill, Invoice
  <2>3. order' \in [Orders -> [state : OrderStates, billing : BillingStates]]
    <3>1. order' = [order EXCEPT ![o].billing =
                     BillingState(o, Billed(o) + BillingAmount[m])]
      BY <1>7 DEF ApproveAndBill
    <3> QED BY <2>1, <3>1, BillingStateType
  <2>4. CASE milestone' = [milestone EXCEPT ![m] = Drafted(m, i)] /\ UNCHANGED <<unbilled, wip>>
    BY <1>7, <2>2, <2>3, <2>4 DEF ApproveAndBill, Drafted
  <2>5. CASE milestone' = [milestone EXCEPT ![m] = Completed(m, i)] /\ PostCompletion(m)
    BY <1>7, <1>5, <2>2, <2>3, <2>5 DEF ApproveAndBill
  <2> QED BY <1>7, <2>4, <2>5 DEF ApproveAndBill
<1>8. ASSUME NEW o \in Orders, NEW i \in Invoices, NEW done \in 1 .. 2,
             GenerateInvoice(o, i, done)
      PROVE  DocumentTypes'
  <2>1. OrderTotal[o] \in Nat /\ TaxedTotal[o] \in Nat /\ Tax(TaxedTotal[o]) \in Nat
    BY TaxType, OrdersAssumption
  <2>2. invoice' \in [Invoices -> Invoice]
    BY <1>8, <2>1 DEF GenerateInvoice, Invoice
  <2> QED BY <1>8, <2>2 DEF GenerateInvoice, OrderStates, OrderMoves, BillingStates
<1>9. ASSUME NEW i \in Invoices
      PROVE  Debited(i) \in Int /\ Credited(i) \in Int
  BY DEF Debited, Credited, Invoice
<1>10. ASSUME NEW i \in Invoices, NEW x \in Int, AddUnbilled(i, x)
       PROVE  unbilled' \in [Milestones -> Int]
  BY <1>10 DEF AddUnbilled
<1>11. ASSUME NEW i \in Invoices, PostInvoice(i)
       PROVE  DocumentTypes'
  <2>1. invoice' \in [Invoices -> Invoice]
    BY <1>11 DEF PostInvoice, Invoice
  <2>2. unbilled' \in [Milestones -> Int]
    BY <1>9, <1>10, <1>11 DEF PostInvoice
  <2> QED BY <1>9, <1>11, <2>1, <2>2 DEF PostInvoice
<1>12. ASSUME NEW i \in Invoices, NEW done \in 1 .. 2, CancelInvoice(i, done)
       PROVE  DocumentTypes'
  <2>1. invoice' \in [Invoices -> Invoice]
    BY <1>12 DEF CancelInvoice, Invoice
  <2>2. ar' \in [Invoices -> Int] /\ unbilled' \in [Milestones -> Int]
    <3>1. CASE invoice[i].posted = TRUE
      <4>1. ar' = [ar EXCEPT ![i] = @ - Debited(i)] /\ AddUnbilled(i, Credited(i))
        BY <1>12, <3>1 DEF CancelInvoice
      <4> QED BY <1>9, <1>10, <4>1
    <3>2. CASE invoice[i].posted = FALSE
      BY <1>12, <3>2 DEF CancelInvoice
    <3> QED BY <3>1, <3>2 DEF Invoice
  <2>3. order' \in [Orders -> [state : OrderStates, billing : BillingStates]]
    <3>1. "Unbilled" \in BillingStates
      BY DEF BillingStates
    <3>2. invoice[i].order \in Orders
      BY DEF Invoice
    <3>3. \/ order' = order
          \/ \E b \in BillingStates : order' = [order EXCEPT ![invoice[i].order].billing = b]
      BY <1>12, <3>1, BillingStateType DEF CancelInvoice
    <3> QED BY <3>2, <3>3
  <2>4. CASE done = 2
    BY <1>12, <2>1, <2>2, <2>3, <2>4 DEF CancelInvoice
  <2>5. CASE done # 2
    BY <1>12, <2>1, <2>2, <2>3, <2>5 DEF CancelInvoice
  <2> QED BY <2>4, <2>5
<1>13. ASSUME NEW p \in Payments, NEW i \in Invoices, NEW amount \in PaymentAmounts,
              RegisterPayment(p, i, amount)
       PROVE  DocumentTypes'
  <2>1. amount \in Nat
    BY InputsAssumption
  <2> DEFINE paid == invoice[i].paid + amount
  <2>2. paid \in Nat /\ invoice[i].order \in Orders
    BY <2>1 DEF Invoice
  <2>3. PICK s \in {"Posted", "Paid"}, x \in Nat :
          invoice' = [invoice EXCEPT ![i].paid = x, ![i].state = s]
    BY <1>13, <2>2 DEF RegisterPayment
  <2>4. invoice' \in [Invoices -> Invoice]
    BY <2>3, SettledType
  <2>5. order' \in [Orders -> [state : OrderStates, billing : BillingStates]]
    BY <1>13, <2>2 DEF RegisterPayment, OrderStates, OrderMoves
  <2> QED BY <1>13, <2>1, <2>4, <2>5 DEF RegisterPayment
<1> QED
  BY StepCases, <1>1, <1>2, <1>3, <1>4, <1>6, <1>7, <1>8, <1>11, <1>12, <1>13

-----------------------------------------------------------------------------
(* What the actions do to invoices.                                        *)

\* Invoice j keeps all but its state and what was paid of it.
SameBill(j) ==
  /\ invoice'[j].order = invoice[j].order
  /\ invoice'[j].milestone = invoice[j].milestone
  /\ invoice'[j].amount = invoice[j].amount
  /\ invoice'[j].tax = invoice[j].tax
  /\ invoice'[j].taxable = invoice[j].taxable

LEMMA SameBillAmounts ==
  ASSUME NEW j \in Invoices, SameBill(j)
  PROVE  Debited(j)' = Debited(j) /\ Credited(j)' = Credited(j) /\ Due(j)' = Due(j)
BY DEF SameBill, Debited, Credited, Due

LEMMA OtherInvoice ==
  ASSUME NEW j \in Invoices, invoice'[j] = invoice[j]
  PROVE  SameBill(j)
BY DEF SameBill

LEMMA PostEffect ==
  ASSUME DocumentTypes, NEW i \in Invoices, PostInvoice(i)
  PROVE  /\ \A j \in Invoices \ {i} : invoice'[j] = invoice[j]
         /\ SameBill(i)
         /\ invoice[i].state = "Draft" /\ invoice[i].posted = FALSE
         /\ invoice'[i].state = "Posted" /\ invoice'[i].posted = TRUE
         /\ invoice'[i].paid = invoice[i].paid
         /\ order' = order /\ milestone' = milestone
         /\ ar' = [ar EXCEPT ![i] = @ + Debited(i)]
         /\ unbilled' = [m \in Milestones |->
              IF m = invoice[i].milestone THEN unbilled[m] - Credited(i) ELSE unbilled[m]]
<1>1. Credited(i) \in Int
  BY DEF DocumentTypes, Credited, Invoice
<1>2. \A m \in Milestones : unbilled[m] + -Credited(i) = unbilled[m] - Credited(i)
  BY <1>1 DEF DocumentTypes
<1> QED BY <1>2 DEF PostInvoice, DocumentTypes, Invoice, SameBill, AddUnbilled

LEMMA CancelEffect ==
  ASSUME DocumentTypes, NEW i \in Invoices, NEW done \in 1 .. 2, CancelInvoice(i, done)
  PROVE  /\ \A j \in Invoices \ {i} : invoice'[j] = invoice[j]
         /\ SameBill(i)
         /\ invoice[i].state \in {"Draft", "Posted"}
         /\ invoice[i].paid = 0
         /\ invoice'[i].state = "Cancelled"
         /\ invoice'[i].posted = invoice[i].posted
         /\ invoice'[i].paid = 0
BY DEF CancelInvoice, DocumentTypes, Invoice, SameBill

LEMMA RegisterEffect ==
  ASSUME DocumentTypes, NEW p \in Payments, NEW i \in Invoices,
         NEW amount \in PaymentAmounts, RegisterPayment(p, i, amount)
  PROVE  /\ \A j \in Invoices \ {i} : invoice'[j] = invoice[j]
         /\ SameBill(i)
         /\ invoice[i].state \in {"Posted", "Paid"}
         /\ invoice'[i].state \in {"Posted", "Paid"}
         /\ invoice'[i].posted = invoice[i].posted
         /\ invoice'[i].paid = invoice[i].paid + amount
         /\ milestone' = milestone /\ unbilled' = unbilled
         /\ ar' = [ar EXCEPT ![i] = @ - amount]
<1>1. PICK s \in {"Posted", "Paid"} :
        invoice' = [invoice EXCEPT ![i].paid = invoice[i].paid + amount, ![i].state = s]
  BY DEF RegisterPayment
<1>2. PICK x : x = invoice[i].paid + amount
  OBVIOUS
<1>3. invoice' = [invoice EXCEPT ![i].paid = x, ![i].state = s]
  BY <1>1, <1>2
<1>4. /\ \A j \in Invoices \ {i} : invoice'[j] = invoice[j]
      /\ SameBill(i)
      /\ invoice'[i].state = s
      /\ invoice'[i].posted = invoice[i].posted
      /\ invoice'[i].paid = x
  BY <1>3 DEF DocumentTypes, Invoice, SameBill
<1> QED BY <1>2, <1>4 DEF RegisterPayment

LEMMA BillEffect ==
  ASSUME DocumentTypes, NEW m \in Milestones, NEW i \in Invoices, NEW done \in 1 .. 3,
         ApproveAndBill(m, i, done)
  PROVE  /\ \A j \in Invoices \ {i} : invoice'[j] = invoice[j]
         /\ invoice[i].state = "None"
         /\ invoice'[i].state = "Draft" /\ invoice'[i].posted = FALSE
         /\ invoice'[i].paid = 0
         /\ invoice'[i].milestone = m
BY DEF ApproveAndBill, DocumentTypes

LEMMA BillLinks ==
  ASSUME DocumentTypes, NEW m \in Milestones, NEW i \in Invoices, NEW done \in 1 .. 3,
         ApproveAndBill(m, i, done)
  PROVE  /\ milestone[m].invoice = NoInvoice
         /\ milestone'[m].invoice = i
         /\ \A n \in Milestones \ {m} : milestone'[n] = milestone[n]
<1>1. PICK r : /\ r.invoice = i
               /\ milestone' = [milestone EXCEPT ![m] = r]
  BY DEF ApproveAndBill, Drafted, Completed
<1>2. milestone'[m].invoice = i /\ \A n \in Milestones \ {m} : milestone'[n] = milestone[n]
  BY <1>1 DEF DocumentTypes
<1> QED BY <1>2 DEF ApproveAndBill

LEMMA BillOrders ==
  ASSUME DocumentTypes, NEW m \in Milestones, NEW i \in Invoices, NEW done \in 1 .. 3,
         ApproveAndBill(m, i, done)
  PROVE  \A o \in Orders : order'[o].state = order[o].state
<1>1. OrderOf[m] \in Orders
  BY MilestonesAssumption, OrdersAssumption
<1>2. PICK b \in BillingStates : order' = [order EXCEPT ![OrderOf[m]].billing = b]
  BY BillingStateType DEF ApproveAndBill
<1> QED BY <1>1, <1>2 DEF DocumentTypes

LEMMA BillAmount ==
  ASSUME DocumentTypes, NEW m \in Milestones, NEW i \in Invoices, NEW done \in 1 .. 3,
         ApproveAndBill(m, i, done)
  PROVE  /\ invoice'[i].amount > 0
         /\ Credited(i)' = BillingAmount[m]
<1>1. BillingAmount[m] \in Nat /\ BillingAmount[m] > 0
  BY MilestonesAssumption
<1>2. /\ invoice'[i].amount = BillingAmount[m]
      /\ invoice'[i].taxable \in {0, BillingAmount[m]}
  BY DEF ApproveAndBill, DocumentTypes
<1> QED BY <1>1, <1>2 DEF Credited

LEMMA GenerateEffect ==
  ASSUME DocumentTypes, NEW o \in Orders, NEW i \in Invoices, NEW done \in 1 .. 2,
         GenerateInvoice(o, i, done)
  PROVE  /\ \A j \in Invoices \ {i} : invoice'[j] = invoice[j]
         /\ invoice[i].state = "None"
         /\ invoice'[i].state = "Draft" /\ invoice'[i].posted = FALSE
         /\ invoice'[i].paid = 0
         /\ invoice'[i].milestone = NoMilestone
         /\ invoice'[i].amount = OrderTotal[o]
         /\ order'[o].state = "Invoiced"
         /\ \A n \in Orders \ {o} : order'[n] = order[n]
         /\ milestone' = milestone /\ unbilled' = unbilled /\ ar' = ar
BY DEF GenerateInvoice, DocumentTypes

\* Every other step leaves the invoices alone.
LEMMA InvoiceCases ==
  ASSUME [Next]_vars
  PROVE  \/ invoice' = invoice
         \/ \E m \in Milestones, i \in Invoices, done \in 1 .. 3 : ApproveAndBill(m, i, done)
         \/ \E o \in Orders, i \in Invoices, done \in 1 .. 2 : GenerateInvoice(o, i, done)
         \/ \E i \in Invoices : PostInvoice(i)
         \/ \E i \in Invoices, done \in 1 .. 2 : CancelInvoice(i, done)
         \/ \E p \in Payments, i \in Invoices, amount \in PaymentAmounts :
              RegisterPayment(p, i, amount)
BY StepCases DEF DocumentsStill, MoveOrder, CreateMilestone, ApproveUnbilled, ApproveAgain

LEMMA SoundStep ==
  ASSUME DocumentTypes, InvoicesSound, [Next]_vars
  PROVE  InvoicesSound'
<1>1. ASSUME NEW j \in Invoices, invoice'[j] = invoice[j]
      PROVE  Sound(j)'
  <2>1. Credited(j)' = Credited(j)
    BY <1>1, OtherInvoice, SameBillAmounts
  <2>2. Sound(j)
    BY DEF InvoicesSound
  <2> QED BY <1>1, <2>1, <2>2 DEF Sound
<1>2. ASSUME NEW i \in Invoices, SameBill(i), invoice[i].state # "None",
             \/ invoice'[i].state \in {"Posted", "Paid"} /\ invoice'[i].posted = TRUE
             \/ invoice'[i].state = "Cancelled"
      PROVE  Sound(i)'
  <2>1. Credited(i)' = Credited(i)
    BY <1>2, SameBillAmounts
  <2>2. Sound(i)
    BY DEF InvoicesSound
  <2> QED BY <1>2, <2>1, <2>2 DEF Sound, SameBill
<1>3. CASE invoice' = invoice
  BY <1>1, <1>3 DEF InvoicesSound
<1>4. ASSUME NEW m \in Milestones, NEW i \in Invoices, NEW done \in 1 .. 3,
             ApproveAndBill(m, i, done)
      PROVE  InvoicesSound'
  <2>1. /\ \A j \in Invoices \ {i} : invoice'[j] = invoice[j]
        /\ invoice'[i].state = "Draft" /\ invoice'[i].posted = FALSE
        /\ invoice'[i].paid = 0
        /\ invoice'[i].milestone = m
    BY <1>4, BillEffect
  <2>2. Credited(i)' = BillingAmount[invoice'[i].milestone] /\ invoice'[i].amount > 0
    BY <1>4, <2>1, BillAmount
  <2>3. Sound(i)'
    BY <2>1, <2>2 DEF Sound
  <2> QED BY <1>1, <2>1, <2>3 DEF InvoicesSound
<1>5. ASSUME NEW o \in Orders, NEW i \in Invoices, NEW done \in 1 .. 2,
             GenerateInvoice(o, i, done)
      PROVE  InvoicesSound'
  <2>1. OrderTotal[o] > 0
    BY OrdersAssumption
  <2>2. /\ \A j \in Invoices \ {i} : invoice'[j] = invoice[j]
        /\ invoice'[i].state = "Draft" /\ invoice'[i].posted = FALSE
        /\ invoice'[i].paid = 0
        /\ invoice'[i].milestone = NoMilestone
        /\ invoice'[i].amount = OrderTotal[o]
    BY <1>5, GenerateEffect
  <2>3. Sound(i)'
    BY <2>1, <2>2 DEF Sound
  <2> QED BY <1>1, <2>2, <2>3 DEF InvoicesSound
<1>6. ASSUME NEW i \in Invoices, PostInvoice(i)
      PROVE  InvoicesSound'
  <2>1. /\ \A j \in Invoices \ {i} : invoice'[j] = invoice[j]
        /\ SameBill(i) /\ invoice[i].state = "Draft"
        /\ invoice'[i].state = "Posted" /\ invoice'[i].posted = TRUE
    BY <1>6, PostEffect
  <2> QED BY <1>1, <1>2, <2>1 DEF InvoicesSound
<1>7. ASSUME NEW i \in Invoices, NEW done \in 1 .. 2, CancelInvoice(i, done)
      PROVE  InvoicesSound'
  <2>1. /\ \A j \in Invoices \ {i} : invoice'[j] = invoice[j]
        /\ SameBill(i) /\ invoice[i].state \in {"Draft", "Posted"}
        /\ invoice'[i].state = "Cancelled"
    BY <1>7, CancelEffect
  <2> QED BY <1>1, <1>2, <2>1 DEF InvoicesSound
<1>8. ASSUME NEW p \in Payments, NEW i \in Invoices, NEW amount \in PaymentAmounts,
             RegisterPayment(p, i, amount)
      PROVE  InvoicesSound'
  <2>1. /\ \A j \in Invoices \ {i} : invoice'[j] = invoice[j]
        /\ SameBill(i) /\ invoice[i].state \in {"Posted", "Paid"}
        /\ invoice'[i].state \in {"Posted", "Paid"}
        /\ invoice'[i].posted = invoice[i].posted
    BY <1>8, RegisterEffect
  <2>2. Sound(i)
    BY DEF InvoicesSound
  <2>3. invoice'[i].posted = TRUE
    BY <2>1, <2>2 DEF Sound
  <2> QED BY <1>1, <1>2, <2>1, <2>3 DEF InvoicesSound
<1> QED BY InvoiceCases, <1>3, <1>4, <1>5, <1>6, <1>7, <1>8

-----------------------------------------------------------------------------
(* A milestone is billed once.                                             *)

\* Steps that leave the links of milestones alone.
LEMMA LinksKept ==
  ASSUME DocumentTypes, [Next]_vars
  PROVE  \/ \A m \in Milestones : milestone'[m].invoice = milestone[m].invoice
         \/ \E m \in Milestones, i \in Invoices, done \in 1 .. 3 : ApproveAndBill(m, i, done)
         \/ \E i \in Invoices, done \in 1 .. 2 : CancelInvoice(i, done)
<1>1. ASSUME NEW m \in Milestones, CreateMilestone(m)
      PROVE  \A n \in Milestones : milestone'[n].invoice = milestone[n].invoice
  BY <1>1 DEF CreateMilestone, DocumentTypes
<1>2. ASSUME NEW m \in Milestones, ApproveUnbilled(m)
      PROVE  \A n \in Milestones : milestone'[n].invoice = milestone[n].invoice
  BY <1>2 DEF ApproveUnbilled, DocumentTypes
<1>3. ASSUME NEW m \in Milestones, ApproveAgain(m)
      PROVE  \A n \in Milestones : milestone'[n].invoice = milestone[n].invoice
  <2>1. PICK r : /\ r.invoice = milestone[m].invoice
                 /\ milestone' = [milestone EXCEPT ![m] = r]
    BY <1>3 DEF ApproveAgain, Completed
  <2> QED BY <2>1 DEF DocumentTypes
<1>4. CASE milestone' = milestone
  BY <1>4
<1> QED
  BY StepCases, <1>1, <1>2, <1>3, <1>4
     DEF DocumentsStill, MoveOrder, GenerateInvoice, PostInvoice, RegisterPayment

\* Cancelling an invoice touches no other invoice's milestone.
LEMMA CancelLinks ==
  ASSUME DocumentTypes, NEW i \in Invoices, NEW done \in 1 .. 2, CancelInvoice(i, done)
  PROVE  /\ \A m \in Milestones :
              milestone[m].invoice # i => milestone'[m] = milestone[m]
         /\ \A m \in Milestones : milestone'[m].accrued = milestone[m].accrued
<1>1. CASE milestone' = milestone
  BY <1>1
<1>2. CASE milestone' = [n \in Milestones |->
               IF milestone[n].invoice = i
               THEN [milestone[n] EXCEPT !.invoice = NoInvoice] ELSE milestone[n]]
  <2>1. ASSUME NEW m \in Milestones, milestone[m].invoice # i
        PROVE  milestone'[m] = milestone[m]
    BY <1>2, <2>1
  <2>2. ASSUME NEW m \in Milestones, milestone[m].invoice = i
        PROVE  milestone'[m].accrued = milestone[m].accrued
    <3>1. milestone'[m] = [milestone[m] EXCEPT !.invoice = NoInvoice]
      BY <1>2, <2>2
    <3>2. PICK s, j, a, r :
            milestone[m] = [status |-> s, invoice |-> j, accrued |-> a, released |-> r]
      BY DEF DocumentTypes
    <3>3. milestone'[m] = [status |-> s, invoice |-> NoInvoice, accrued |-> a, released |-> r]
      BY <3>1, <3>2
    <3> QED BY <3>2, <3>3
  <2> QED BY <2>1, <2>2
<1> QED BY <1>1, <1>2 DEF CancelInvoice

LEMMA BilledOnceStep ==
  ASSUME DocumentTypes, MilestoneBilledOnce, [Next]_vars
  PROVE  MilestoneBilledOnce'
<1> DEFINE Linked(j) ==
      Live(j) /\ invoice[j].milestone # NoMilestone
        => milestone[invoice[j].milestone].invoice = j
<1> USE DEF Live
<1>1. ASSUME NEW j \in Invoices, invoice'[j] = invoice[j],
             \A m \in Milestones : milestone'[m].invoice = milestone[m].invoice
      PROVE  Linked(j)'
  BY <1>1 DEF MilestoneBilledOnce, DocumentTypes, Invoice
<1>2. ASSUME NEW i \in Invoices, SameBill(i), Live(i),
             \A j \in Invoices \ {i} : invoice'[j] = invoice[j],
             \A m \in Milestones : milestone'[m].invoice = milestone[m].invoice
      PROVE  MilestoneBilledOnce'
  <2>1. Linked(i)'
    BY <1>2 DEF MilestoneBilledOnce, DocumentTypes, Invoice, SameBill
  <2> QED BY <1>1, <1>2, <2>1 DEF MilestoneBilledOnce
<1>3. ASSUME NEW m \in Milestones, NEW i \in Invoices, NEW done \in 1 .. 3,
             ApproveAndBill(m, i, done)
      PROVE  MilestoneBilledOnce'
  <2>1. /\ \A j \in Invoices \ {i} : invoice'[j] = invoice[j]
        /\ invoice'[i].milestone = m
    BY <1>3, BillEffect
  <2>2. /\ milestone[m].invoice = NoInvoice
        /\ milestone'[m].invoice = i
        /\ \A n \in Milestones \ {m} : milestone'[n] = milestone[n]
    BY <1>3, BillLinks
  <2>3. ASSUME NEW j \in Invoices \ {i}
        PROVE  Linked(j)'
    <3>1. invoice'[j] = invoice[j]
      BY <2>1
    <3>2. Live(j) => invoice[j].milestone # m
      BY <2>2, NamesAssumption DEF MilestoneBilledOnce
    <3> QED BY <2>2, <3>1, <3>2 DEF MilestoneBilledOnce, DocumentTypes, Invoice
  <2> QED BY <2>1, <2>2, <2>3 DEF MilestoneBilledOnce
<1>4. ASSUME NEW i \in Invoices, NEW done \in 1 .. 2, CancelInvoice(i, done)
      PROVE  MilestoneBilledOnce'
  <2>1. ASSUME NEW j \in Invoices \ {i}
        PROVE  Linked(j)'
    <3>1. invoice'[j] = invoice[j]
      BY <1>4, CancelEffect
    <3>2. Live(j) /\ invoice[j].milestone # NoMilestone
            => milestone'[invoice[j].milestone] = milestone[invoice[j].milestone]
      BY <1>4, CancelLinks DEF MilestoneBilledOnce, DocumentTypes, Invoice
    <3> QED BY <3>1, <3>2 DEF MilestoneBilledOnce
  <2>2. invoice'[i].state = "Cancelled"
    BY <1>4, CancelEffect
  <2> QED BY <2>1, <2>2 DEF MilestoneBilledOnce
<1>5. ASSUME \A m \in Milestones : milestone'[m].invoice = milestone[m].invoice
      PROVE  MilestoneBilledOnce'
  <2>1. CASE invoice' = invoice
    BY <1>1, <1>5, <2>1 DEF MilestoneBilledOnce
  <2>2. ASSUME NEW o \in Orders, NEW i \in Invoices, NEW done \in 1 .. 2,
               GenerateInvoice(o, i, done)
        PROVE  MilestoneBilledOnce'
    <3>1. /\ \A j \in Invoices \ {i} : invoice'[j] = invoice[j]
          /\ invoice'[i].milestone = NoMilestone
      BY <2>2, GenerateEffect
    <3> QED BY <1>1, <1>5, <3>1 DEF MilestoneBilledOnce
  <2>3. ASSUME NEW i \in Invoices, PostInvoice(i)
        PROVE  MilestoneBilledOnce'
    <3>1. /\ \A j \in Invoices \ {i} : invoice'[j] = invoice[j]
          /\ SameBill(i) /\ invoice[i].state = "Draft"
      BY <2>3, PostEffect
    <3> QED BY <1>2, <1>5, <3>1
  <2>4. ASSUME NEW p \in Payments, NEW i \in Invoices, NEW amount \in PaymentAmounts,
               RegisterPayment(p, i, amount)
        PROVE  MilestoneBilledOnce'
    <3>1. /\ \A j \in Invoices \ {i} : invoice'[j] = invoice[j]
          /\ SameBill(i) /\ invoice[i].state \in {"Posted", "Paid"}
      BY <2>4, RegisterEffect
    <3> QED BY <1>2, <1>5, <3>1
  <2> QED BY InvoiceCases, <1>3, <1>4, <2>1, <2>2, <2>3, <2>4
<1> QED BY LinksKept, <1>3, <1>4, <1>5

-----------------------------------------------------------------------------
(* Trade receivables.                                                      *)

LEMMA CancelReceivable ==
  ASSUME DocumentTypes, NEW i \in Invoices, NEW done \in 1 .. 2, CancelInvoice(i, done)
  PROVE  ar' = IF invoice[i].posted = TRUE THEN [ar EXCEPT ![i] = @ - Debited(i)] ELSE ar
BY DEF CancelInvoice, DocumentTypes, Invoice

LEMMA DebitedType ==
  ASSUME DocumentTypes, NEW i \in Invoices
  PROVE  Debited(i) \in Int /\ Credited(i) \in Int /\ invoice[i].paid \in Int /\ ar[i] \in Int
BY DEF DocumentTypes, Debited, Credited, Invoice

\* Steps that leave trade receivables alone.
LEMMA ReceivablesKept ==
  ASSUME [Next]_vars
  PROVE  \/ ar' = ar
         \/ \E i \in Invoices : PostInvoice(i)
         \/ \E i \in Invoices, done \in 1 .. 2 : CancelInvoice(i, done)
         \/ \E p \in Payments, i \in Invoices, amount \in PaymentAmounts :
              RegisterPayment(p, i, amount)
BY StepCases DEF DocumentsStill, MoveOrder, CreateMilestone, ApproveUnbilled,
                 ApproveAgain, ApproveAndBill, GenerateInvoice

LEMMA ReceivableStep ==
  ASSUME DocumentTypes, InvoicesSound, ReceivableOfInvoice, [Next]_vars
  PROVE  ReceivableOfInvoice'
<1> DEFINE Open(j) == Live(j) /\ invoice[j].posted = TRUE
           Booked(j) == ar[j] = IF Open(j) THEN Debited(j) - invoice[j].paid ELSE 0
<1>1. \A j \in Invoices : Booked(j)
  BY DEF ReceivableOfInvoice, DocumentTypes, Invoice
<1>2. ASSUME \A j \in Invoices : Booked(j)' PROVE ReceivableOfInvoice'
  BY <1>2, TypesStep DEF ReceivableOfInvoice, DocumentTypes, Invoice
<1>3. ASSUME NEW j \in Invoices, invoice'[j] = invoice[j], ar'[j] = ar[j]
      PROVE  Booked(j)'
  <2>1. Debited(j)' = Debited(j)
    BY <1>3, OtherInvoice, SameBillAmounts
  <2> QED BY <1>1, <1>3, <2>1 DEF Live
<1>4. CASE invoice' = invoice /\ ar' = ar
  BY <1>2, <1>3, <1>4
<1>5. ASSUME NEW i \in Invoices, ar' = ar,
             \A j \in Invoices \ {i} : invoice'[j] = invoice[j],
             invoice[i].state = "None", invoice'[i].posted = FALSE
      PROVE  ReceivableOfInvoice'
  <2>1. Booked(i)'
    BY <1>1, <1>5 DEF Live
  <2> QED BY <1>2, <1>3, <1>5, <2>1
<1>6. ASSUME NEW i \in Invoices, PostInvoice(i)
      PROVE  ReceivableOfInvoice'
  <2>1. /\ \A j \in Invoices \ {i} : invoice'[j] = invoice[j]
        /\ SameBill(i)
        /\ invoice[i].state = "Draft" /\ invoice[i].posted = FALSE
        /\ invoice'[i].state = "Posted" /\ invoice'[i].posted = TRUE
        /\ invoice'[i].paid = invoice[i].paid
        /\ ar' = [ar EXCEPT ![i] = @ + Debited(i)]
    BY <1>6, PostEffect
  <2>2. invoice[i].paid = 0 /\ ar[i] = 0 /\ Debited(i)' = Debited(i)
    BY <1>1, <2>1, SameBillAmounts DEF InvoicesSound, Sound
  <2>3. ar'[i] = Debited(i) /\ \A j \in Invoices \ {i} : ar'[j] = ar[j]
    BY <2>1, <2>2, DebitedType DEF DocumentTypes
  <2>4. Booked(i)'
    BY <2>1, <2>2, <2>3, DebitedType DEF Live
  <2> QED BY <1>2, <1>3, <2>1, <2>3, <2>4
<1>7. ASSUME NEW i \in Invoices, NEW done \in 1 .. 2, CancelInvoice(i, done)
      PROVE  ReceivableOfInvoice'
  <2>1. /\ \A j \in Invoices \ {i} : invoice'[j] = invoice[j]
        /\ invoice[i].state \in {"Draft", "Posted"}
        /\ invoice[i].paid = 0
        /\ invoice'[i].state = "Cancelled"
    BY <1>7, CancelEffect
  <2>2. ar' = IF invoice[i].posted = TRUE THEN [ar EXCEPT ![i] = @ - Debited(i)] ELSE ar
    BY <1>7, CancelReceivable
  <2>3. ar'[i] = 0 /\ \A j \in Invoices \ {i} : ar'[j] = ar[j]
    <3>1. CASE invoice[i].posted = TRUE
      <4>1. ar[i] = Debited(i)
        BY <1>1, <2>1, <3>1, DebitedType DEF Live
      <4> QED BY <2>2, <3>1, <4>1, DebitedType DEF DocumentTypes
    <3>2. CASE invoice[i].posted # TRUE
      <4>1. ar[i] = 0
        BY <1>1, <3>2
      <4> QED BY <2>2, <3>2, <4>1
    <3> QED BY <3>1, <3>2
  <2>4. Booked(i)'
    BY <2>1, <2>3 DEF Live
  <2> QED BY <1>2, <1>3, <2>1, <2>3, <2>4
<1>8. ASSUME NEW p \in Payments, NEW i \in Invoices, NEW amount \in PaymentAmounts,
             RegisterPayment(p, i, amount)
      PROVE  ReceivableOfInvoice'
  <2>1. /\ \A j \in Invoices \ {i} : invoice'[j] = invoice[j]
        /\ SameBill(i)
        /\ invoice[i].state \in {"Posted", "Paid"}
        /\ invoice'[i].state \in {"Posted", "Paid"}
        /\ invoice'[i].posted = invoice[i].posted
        /\ invoice'[i].paid = invoice[i].paid + amount
        /\ ar' = [ar EXCEPT ![i] = @ - amount]
    BY <1>8, RegisterEffect
  <2>2. invoice[i].posted = TRUE /\ Debited(i)' = Debited(i) /\ amount \in Int
    BY <2>1, SameBillAmounts, InputsAssumption DEF InvoicesSound, Sound
  <2>3. ar[i] = Debited(i) - invoice[i].paid
    BY <1>1, <2>1, <2>2 DEF Live
  <2>4. /\ ar'[i] = Debited(i) - (invoice[i].paid + amount)
        /\ \A j \in Invoices \ {i} : ar'[j] = ar[j]
    BY <2>1, <2>2, <2>3, DebitedType DEF DocumentTypes
  <2>5. Booked(i)'
    BY <2>1, <2>2, <2>4 DEF Live
  <2> QED BY <1>2, <1>3, <2>1, <2>4, <2>5
<1>9. ASSUME NEW m \in Milestones, NEW i \in Invoices, NEW done \in 1 .. 3,
             ApproveAndBill(m, i, done)
      PROVE  ReceivableOfInvoice'
  <2>1. ar' = ar
    BY <1>9 DEF ApproveAndBill
  <2>2. /\ \A j \in Invoices \ {i} : invoice'[j] = invoice[j]
        /\ invoice[i].state = "None" /\ invoice'[i].posted = FALSE
    BY <1>9, BillEffect
  <2> QED BY <1>5, <2>1, <2>2
<1>10. ASSUME NEW o \in Orders, NEW i \in Invoices, NEW done \in 1 .. 2,
              GenerateInvoice(o, i, done)
       PROVE  ReceivableOfInvoice'
  <2>1. /\ \A j \in Invoices \ {i} : invoice'[j] = invoice[j]
        /\ invoice[i].state = "None" /\ invoice'[i].posted = FALSE
        /\ ar' = ar
    BY <1>10, GenerateEffect
  <2> QED BY <1>5, <2>1
<1> QED BY InvoiceCases, ReceivablesKept, <1>4, <1>6, <1>7, <1>8, <1>9, <1>10

-----------------------------------------------------------------------------
(* Unbilled receivables.                                                   *)

Standing(j) == Live(j) /\ invoice[j].posted

\* The same invoices have moved milestones out of unbilled receivables.
LEMMA ReclassifiedKept ==
  ASSUME \A j \in Invoices : Standing(j)' = Standing(j),
         \A j \in Invoices : Standing(j) => invoice'[j].milestone = invoice[j].milestone,
         NEW m \in Milestones
  PROVE  Reclassified(m)' = Reclassified(m)
BY DEF Reclassified, Standing

\* While milestones are billed once, an invoice that stands is the only one.
LEMMA OnlyInvoice ==
  ASSUME MilestoneBilledOnce, NEW i \in Invoices, Live(i), invoice[i].milestone \in Milestones,
         NEW j \in Reclassified(invoice[i].milestone)
  PROVE  j = i
BY NamesAssumption DEF MilestoneBilledOnce, Reclassified

LEMMA PostCompletionEffect ==
  ASSUME DocumentTypes, NEW m \in Milestones, NEW i \in Invoices, PostCompletion(m),
         milestone' = [milestone EXCEPT ![m] = Completed(m, i)]
  PROVE  /\ milestone'[m].accrued = TRUE
         /\ unbilled'[m] = unbilled[m]
                             + (IF milestone[m].accrued = TRUE THEN 0 ELSE BillingAmount[m])
         /\ \A n \in Milestones \ {m} :
              milestone'[n] = milestone[n] /\ unbilled'[n] = unbilled[n]
<1>1. milestone'[m] = Completed(m, i) /\ \A n \in Milestones \ {m} : milestone'[n] = milestone[n]
  BY DEF DocumentTypes
<1>2. milestone'[m].accrued = TRUE
  BY <1>1 DEF Completed
<1>3. CASE milestone[m].accrued = TRUE
  BY <1>1, <1>2, <1>3 DEF PostCompletion, DocumentTypes
<1>4. CASE milestone[m].accrued = FALSE
  BY <1>1, <1>2, <1>4, MilestonesAssumption DEF PostCompletion, DocumentTypes
<1> QED BY <1>3, <1>4 DEF DocumentTypes

\* Unbilled receivables of m are what was accrued less what was reclassified.
Accrual(m) == IF milestone[m].accrued = TRUE THEN BillingAmount[m] ELSE 0
Reclass(m) == IF Reclassified(m) # {} THEN BillingAmount[m] ELSE 0

LEMMA UnbilledSplit ==
  ASSUME DocumentTypes
  PROVE  UnbilledOfMilestone <=> \A m \in Milestones : unbilled[m] = Accrual(m) - Reclass(m)
BY DEF UnbilledOfMilestone, Accrual, Reclass, DocumentTypes

LEMMA AmountsType ==
  ASSUME NEW m \in Milestones
  PROVE  BillingAmount[m] \in Int /\ Accrual(m) \in Int /\ Reclass(m) \in Int
BY MilestonesAssumption DEF Accrual, Reclass

\* Approving a milestone accrues, and does not reclassify.
LEMMA AccrualStep ==
  ASSUME DocumentTypes, UnbilledOfMilestone, DocumentTypes',
         NEW m \in Milestones, NEW i \in Invoices, PostCompletion(m),
         milestone' = [milestone EXCEPT ![m] = Completed(m, i)],
         \A n \in Milestones : Reclassified(n)' = Reclassified(n)
  PROVE  UnbilledOfMilestone'
<1>1. \A n \in Milestones : unbilled[n] = Accrual(n) - Reclass(n)
  BY UnbilledSplit
<1>2. \A n \in Milestones : Reclass(n)' = Reclass(n)
  BY DEF Reclass
<1>3. /\ milestone'[m].accrued = TRUE
      /\ unbilled'[m] = unbilled[m]
                          + (IF milestone[m].accrued = TRUE THEN 0 ELSE BillingAmount[m])
      /\ \A n \in Milestones \ {m} :
           milestone'[n] = milestone[n] /\ unbilled'[n] = unbilled[n]
  BY PostCompletionEffect
<1>4. ASSUME NEW n \in Milestones
      PROVE  unbilled'[n] = Accrual(n)' - Reclass(n)'
  <2>1. CASE n # m
    <3>1. Accrual(n)' = Accrual(n)
      BY <1>3, <2>1 DEF Accrual
    <3> QED BY <1>1, <1>2, <1>3, <2>1, <3>1
  <2>2. CASE n = m
    <3>1. Accrual(m)' = BillingAmount[m]
      BY <1>3 DEF Accrual
    <3>2. CASE milestone[m].accrued = TRUE
      <4>1. Accrual(m) = BillingAmount[m]
        BY <3>2 DEF Accrual
      <4> QED BY <1>1, <1>2, <1>3, <2>2, <3>1, <3>2, <4>1, AmountsType
    <3>3. CASE milestone[m].accrued # TRUE
      <4>1. Accrual(m) = 0
        BY <3>3 DEF Accrual
      <4>2. unbilled'[m] = unbilled[m] + BillingAmount[m]
        BY <1>3, <3>3
      <4>3. unbilled'[m] = BillingAmount[m] - Reclass(m)
        BY <1>1, <4>1, <4>2, AmountsType
      <4> QED BY <1>2, <2>2, <3>1, <4>3
    <3> QED BY <3>2, <3>3
  <2> QED BY <2>1, <2>2
<1>5. DocumentTypes' /\ (\A n \in Milestones : unbilled[n] = Accrual(n) - Reclass(n))'
        => UnbilledOfMilestone'
  BY DEF UnbilledOfMilestone, Accrual, Reclass, DocumentTypes
<1> QED BY <1>4, <1>5

LEMMA CancelUnbilled ==
  ASSUME DocumentTypes, NEW i \in Invoices, NEW done \in 1 .. 2, CancelInvoice(i, done)
  PROVE  unbilled' =
           IF invoice[i].posted = TRUE
           THEN [m \in Milestones |-> IF m = invoice[i].milestone
                                      THEN unbilled[m] + Credited(i) ELSE unbilled[m]]
           ELSE unbilled
BY DEF CancelInvoice, DocumentTypes, Invoice, AddUnbilled

\* Posting and cancelling reclassify, and do not accrue.
LEMMA ReclassStep ==
  ASSUME DocumentTypes, InvoicesSound, MilestoneBilledOnce, UnbilledOfMilestone,
         DocumentTypes', NEW i \in Invoices, Live(i),
         \A j \in Invoices \ {i} : invoice'[j] = invoice[j],
         SameBill(i),
         \A m \in Milestones : milestone'[m].accrued = milestone[m].accrued,
         \/ /\ ~Standing(i) /\ Standing(i)'
            /\ unbilled' = [m \in Milestones |->
                 IF m = invoice[i].milestone THEN unbilled[m] - Credited(i) ELSE unbilled[m]]
         \/ /\ Standing(i) /\ ~Standing(i)'
            /\ unbilled' = [m \in Milestones |->
                 IF m = invoice[i].milestone THEN unbilled[m] + Credited(i) ELSE unbilled[m]]
  PROVE  UnbilledOfMilestone'
<1>1. \A n \in Milestones : unbilled[n] = Accrual(n) - Reclass(n)
  BY UnbilledSplit
<1>2. \A n \in Milestones : Accrual(n)' = Accrual(n)
  BY DEF Accrual
<1>3. ASSUME NEW n \in Milestones, n # invoice[i].milestone
      PROVE  unbilled'[n] = Accrual(n)' - Reclass(n)'
  <2>1. Reclassified(n)' = Reclassified(n)
    BY <1>3 DEF Reclassified, SameBill, Live
  <2>2. Reclass(n)' = Reclass(n)
    BY <2>1 DEF Reclass
  <2>3. unbilled'[n] = unbilled[n]
    BY <1>3
  <2> QED BY <1>1, <1>2, <2>2, <2>3
<1>4. ASSUME NEW n \in Milestones, n = invoice[i].milestone
      PROVE  unbilled'[n] = Accrual(n)' - Reclass(n)'
  <2>1. \A j \in Reclassified(n) : j = i
    BY <1>4, OnlyInvoice
  <2>2. Credited(i) = BillingAmount[n]
    BY <1>4, NamesAssumption DEF InvoicesSound, Sound, Live
  <2>3. CASE ~Standing(i) /\ Standing(i)'
    <3>1. Reclassified(n) = {}
      BY <2>1, <2>3 DEF Reclassified, Standing
    <3>2. i \in Reclassified(n)'
      BY <1>4, <2>3 DEF Reclassified, Standing, SameBill
    <3>3. Reclass(n) = 0 /\ Reclass(n)' = BillingAmount[n]
      BY <3>1, <3>2 DEF Reclass
    <3>4. unbilled'[n] = unbilled[n] - BillingAmount[n]
      BY <1>4, <2>2, <2>3
    <3> QED BY <1>1, <1>2, <3>3, <3>4, AmountsType
  <2>4. CASE Standing(i) /\ ~Standing(i)'
    <3>1. i \in Reclassified(n)
      BY <1>4, <2>4 DEF Reclassified, Standing
    <3>2. Reclassified(n)' = {}
      <4>1. ASSUME NEW j \in Invoices, j \in Reclassified(n)'
            PROVE  FALSE
        <5>1. j # i
          BY <2>4, <4>1 DEF Reclassified, Standing
        <5>2. j \in Reclassified(n)
          BY <4>1, <5>1 DEF Reclassified, Live
        <5> QED BY <2>1, <5>1, <5>2
      <4> QED BY <4>1 DEF Reclassified
    <3>3. Reclass(n) = BillingAmount[n] /\ Reclass(n)' = 0
      BY <3>1, <3>2 DEF Reclass
    <3>4. unbilled'[n] = unbilled[n] + BillingAmount[n]
      BY <1>4, <2>2, <2>4
    <3> QED BY <1>1, <1>2, <3>3, <3>4, AmountsType
  <2> QED BY <2>3, <2>4
<1>5. DocumentTypes' /\ (\A n \in Milestones : unbilled[n] = Accrual(n) - Reclass(n))'
        => UnbilledOfMilestone'
  BY DEF UnbilledOfMilestone, Accrual, Reclass, DocumentTypes
<1> QED BY <1>3, <1>4, <1>5

LEMMA UnbilledKept ==
  ASSUME DocumentTypes, UnbilledOfMilestone, DocumentTypes', unbilled' = unbilled,
         \A m \in Milestones : milestone'[m].accrued = milestone[m].accrued,
         \A m \in Milestones : Reclassified(m)' = Reclassified(m)
  PROVE  UnbilledOfMilestone'
BY DEF UnbilledOfMilestone

\* A draft stands for nothing yet.
LEMMA DraftKeeps ==
  ASSUME NEW i \in Invoices, \A j \in Invoices \ {i} : invoice'[j] = invoice[j],
         invoice[i].state = "None", invoice'[i].posted = FALSE
  PROVE  \A m \in Milestones : Reclassified(m)' = Reclassified(m)
BY DEF Reclassified, Live

LEMMA UnbilledStep ==
  ASSUME DocumentTypes, InvoicesSound, MilestoneBilledOnce, UnbilledOfMilestone, [Next]_vars
  PROVE  UnbilledOfMilestone'
<1>0. DocumentTypes'
  BY TypesStep
<1>1. ASSUME invoice' = invoice
      PROVE  \A m \in Milestones : Reclassified(m)' = Reclassified(m)
  BY <1>1 DEF Reclassified, Live
<1>2. CASE DocumentsStill
  BY <1>0, <1>1, <1>2, UnbilledKept DEF DocumentsStill
<1>3. ASSUME NEW o \in Orders, NEW to \in OrderStates, MoveOrder(o, to)
      PROVE  UnbilledOfMilestone'
  BY <1>0, <1>1, <1>3, UnbilledKept DEF MoveOrder
<1>4. ASSUME NEW m \in Milestones, CreateMilestone(m)
      PROVE  UnbilledOfMilestone'
  <2>1. \A n \in Milestones : milestone'[n].accrued = milestone[n].accrued
    BY <1>4 DEF CreateMilestone, DocumentTypes
  <2> QED BY <1>0, <1>1, <1>4, <2>1, UnbilledKept DEF CreateMilestone
<1>5. ASSUME NEW m \in Milestones, ApproveUnbilled(m)
      PROVE  UnbilledOfMilestone'
  <2>1. \A n \in Milestones : milestone'[n].accrued = milestone[n].accrued
    BY <1>5 DEF ApproveUnbilled, DocumentTypes
  <2> QED BY <1>0, <1>1, <1>5, <2>1, UnbilledKept DEF ApproveUnbilled
<1>6. ASSUME NEW m \in Milestones, ApproveAgain(m)
      PROVE  UnbilledOfMilestone'
  <2>1. milestone[m].invoice \in Invoices
    BY <1>6 DEF ApproveAgain, DocumentTypes
  <2>2. /\ milestone' = [milestone EXCEPT ![m] = Completed(m, milestone[m].invoice)]
        /\ PostCompletion(m)
        /\ invoice' = invoice
    BY <1>6 DEF ApproveAgain
  <2> QED BY <1>0, <1>1, <2>1, <2>2, AccrualStep
<1>7. ASSUME NEW m \in Milestones, NEW i \in Invoices, NEW done \in 1 .. 3,
             ApproveAndBill(m, i, done)
      PROVE  UnbilledOfMilestone'
  <2>1. \A n \in Milestones : Reclassified(n)' = Reclassified(n)
    <3>1. /\ \A j \in Invoices \ {i} : invoice'[j] = invoice[j]
          /\ invoice[i].state = "None" /\ invoice'[i].posted = FALSE
      BY <1>7, BillEffect
    <3> QED BY <3>1, DraftKeeps
  <2>2. CASE milestone' = [milestone EXCEPT ![m] = Drafted(m, i)] /\ unbilled' = unbilled
    <3>1. \A n \in Milestones : milestone'[n].accrued = milestone[n].accrued
      BY <2>2 DEF Drafted, DocumentTypes
    <3> QED BY <1>0, <2>1, <2>2, <3>1, UnbilledKept
  <2>3. CASE milestone' = [milestone EXCEPT ![m] = Completed(m, i)] /\ PostCompletion(m)
    BY <1>0, <2>1, <2>3, AccrualStep
  <2> QED BY <1>7, <2>2, <2>3 DEF ApproveAndBill
<1>8. ASSUME NEW o \in Orders, NEW i \in Invoices, NEW done \in 1 .. 2,
             GenerateInvoice(o, i, done)
      PROVE  UnbilledOfMilestone'
  <2>1. /\ \A j \in Invoices \ {i} : invoice'[j] = invoice[j]
        /\ invoice[i].state = "None" /\ invoice'[i].posted = FALSE
        /\ milestone' = milestone /\ unbilled' = unbilled
    BY <1>8, GenerateEffect
  <2>2. \A m \in Milestones : Reclassified(m)' = Reclassified(m)
    BY <2>1, DraftKeeps
  <2> QED BY <1>0, <2>1, <2>2, UnbilledKept
<1>9. ASSUME NEW i \in Invoices, PostInvoice(i)
      PROVE  UnbilledOfMilestone'
  <2>1. /\ \A j \in Invoices \ {i} : invoice'[j] = invoice[j]
        /\ SameBill(i)
        /\ invoice[i].state = "Draft" /\ invoice[i].posted = FALSE
        /\ invoice'[i].state = "Posted" /\ invoice'[i].posted = TRUE
        /\ milestone' = milestone
        /\ unbilled' = [m \in Milestones |->
             IF m = invoice[i].milestone THEN unbilled[m] - Credited(i) ELSE unbilled[m]]
    BY <1>9, PostEffect
  <2>2. Live(i) /\ ~Standing(i) /\ Standing(i)'
    BY <2>1 DEF Live, Standing
  <2> QED BY <1>0, <2>1, <2>2, ReclassStep
<1>10. ASSUME NEW i \in Invoices, NEW done \in 1 .. 2, CancelInvoice(i, done)
       PROVE  UnbilledOfMilestone'
  <2>1. /\ \A j \in Invoices \ {i} : invoice'[j] = invoice[j]
        /\ SameBill(i)
        /\ invoice[i].state \in {"Draft", "Posted"}
        /\ invoice'[i].state = "Cancelled"
    BY <1>10, CancelEffect
  <2>2. \A m \in Milestones : milestone'[m].accrued = milestone[m].accrued
    BY <1>10, CancelLinks
  <2>3. Live(i) /\ ~Standing(i)'
    BY <2>1 DEF Live, Standing
  <2>4. CASE invoice[i].posted = TRUE
    <3>1. Standing(i)
      BY <2>3, <2>4 DEF Standing
    <3>2. unbilled' = [m \in Milestones |->
             IF m = invoice[i].milestone THEN unbilled[m] + Credited(i) ELSE unbilled[m]]
      BY <1>10, <2>4, CancelUnbilled
    <3> QED BY <1>0, <2>1, <2>2, <2>3, <3>1, <3>2, ReclassStep
  <2>5. CASE invoice[i].posted = FALSE
    <3>1. unbilled' = unbilled
      BY <1>10, <2>5, CancelUnbilled
    <3>2. \A m \in Milestones : Reclassified(m)' = Reclassified(m)
      BY <2>1, <2>5 DEF Reclassified, Live
    <3> QED BY <1>0, <2>2, <3>1, <3>2, UnbilledKept
  <2> QED BY <2>4, <2>5 DEF DocumentTypes, Invoice
<1>11. ASSUME NEW p \in Payments, NEW i \in Invoices, NEW amount \in PaymentAmounts,
              RegisterPayment(p, i, amount)
       PROVE  UnbilledOfMilestone'
  <2>1. /\ \A j \in Invoices \ {i} : invoice'[j] = invoice[j]
        /\ SameBill(i)
        /\ invoice[i].state \in {"Posted", "Paid"}
        /\ invoice'[i].state \in {"Posted", "Paid"}
        /\ invoice'[i].posted = invoice[i].posted
        /\ milestone' = milestone /\ unbilled' = unbilled
    BY <1>11, RegisterEffect
  <2>2. \A m \in Milestones : Reclassified(m)' = Reclassified(m)
    BY <2>1 DEF Reclassified, Live, SameBill
  <2> QED BY <1>0, <2>1, <2>2, UnbilledKept
<1> QED
  BY StepCases, <1>2, <1>3, <1>4, <1>5, <1>6, <1>7, <1>8, <1>9, <1>10, <1>11

-----------------------------------------------------------------------------
(* Orders that are paid.                                                   *)

\* Invoice i stands and is settled in full.
Settles(i, o) ==
  /\ invoice[i].order = o
  /\ Live(i) /\ invoice[i].posted = TRUE
  /\ invoice[i].paid >= Due(i)

LEMMA SettledSplit ==
  ASSUME DocumentTypes
  PROVE  PaidOrderIsSettled <=>
           \A o \in Orders : order[o].state \in {"Paid", "Closed"} =>
             \E i \in Invoices : Settles(i, o)
BY DEF PaidOrderIsSettled, Settles, DocumentTypes, Invoice

\* What is settled stays settled: there is no way back from a payment.
LEMMA SettledForGood ==
  ASSUME DocumentTypes, InvoicesSound, [Next]_vars,
         NEW o \in Orders, NEW k \in Invoices, Settles(k, o)
  PROVE  Settles(k, o)'
<1>1. ASSUME invoice'[k] = invoice[k]
      PROVE  Settles(k, o)'
  BY <1>1 DEF Settles, Live, Due
<1>2. invoice[k].amount > 0 /\ invoice[k].paid # 0
  BY DEF InvoicesSound, Sound, Settles, Live, Due, DocumentTypes, Invoice
<1>3. invoice[k].state \notin {"None", "Draft"}
  BY DEF InvoicesSound, Sound, Settles
<1>4. ASSUME NEW i \in Invoices, NEW done \in 1 .. 2, CancelInvoice(i, done)
      PROVE  Settles(k, o)'
  <2>1. /\ \A j \in Invoices \ {i} : invoice'[j] = invoice[j]
        /\ invoice[i].paid = 0
    BY <1>4, CancelEffect
  <2> QED BY <1>1, <1>2, <2>1
<1>5. ASSUME NEW p \in Payments, NEW i \in Invoices, NEW amount \in PaymentAmounts,
             RegisterPayment(p, i, amount)
      PROVE  Settles(k, o)'
  <2>1. /\ \A j \in Invoices \ {i} : invoice'[j] = invoice[j]
        /\ SameBill(i)
        /\ invoice'[i].state \in {"Posted", "Paid"}
        /\ invoice'[i].posted = invoice[i].posted
        /\ invoice'[i].paid = invoice[i].paid + amount
    BY <1>5, RegisterEffect
  <2>2. CASE k = i
    <3>1. Due(k)' = Due(k) /\ Due(k) \in Int /\ invoice[k].paid \in Int
      BY <2>1, <2>2, SameBillAmounts DEF Due, DocumentTypes, Invoice
    <3>2. invoice'[k].paid >= Due(k)'
      BY <2>1, <2>2, <3>1, InputsAssumption DEF Settles
    <3> QED BY <2>1, <2>2, <3>2 DEF Settles, Live, SameBill
  <2>3. CASE k # i
    BY <1>1, <2>1, <2>3
  <2> QED BY <2>2, <2>3
<1>6. ASSUME NEW i \in Invoices, PostInvoice(i)
      PROVE  Settles(k, o)'
  <2>1. /\ \A j \in Invoices \ {i} : invoice'[j] = invoice[j]
        /\ invoice[i].state = "Draft"
    BY <1>6, PostEffect
  <2> QED BY <1>1, <1>3, <2>1
<1>7. ASSUME NEW i \in Invoices, invoice[i].state = "None",
             \A j \in Invoices \ {i} : invoice'[j] = invoice[j]
      PROVE  Settles(k, o)'
  BY <1>1, <1>3, <1>7
<1>8. ASSUME NEW m \in Milestones, NEW i \in Invoices, NEW done \in 1 .. 3,
             ApproveAndBill(m, i, done)
      PROVE  Settles(k, o)'
  <2>1. /\ \A j \in Invoices \ {i} : invoice'[j] = invoice[j]
        /\ invoice[i].state = "None"
    BY <1>8, BillEffect
  <2> QED BY <1>7, <2>1
<1>9. ASSUME NEW q \in Orders, NEW i \in Invoices, NEW done \in 1 .. 2,
             GenerateInvoice(q, i, done)
      PROVE  Settles(k, o)'
  <2>1. /\ \A j \in Invoices \ {i} : invoice'[j] = invoice[j]
        /\ invoice[i].state = "None"
    BY <1>9, GenerateEffect
  <2> QED BY <1>7, <2>1
<1>10. CASE invoice' = invoice
  BY <1>1, <1>10
<1> QED BY InvoiceCases, <1>4, <1>5, <1>6, <1>8, <1>9, <1>10

\* An order becomes Paid only with the payment that settles an invoice of it.
LEMMA BecomesPaid ==
  ASSUME DocumentTypes, InvoicesSound, [Next]_vars,
         NEW o \in Orders, order'[o].state \in {"Paid", "Closed"}
  PROVE  \/ order[o].state \in {"Paid", "Closed"}
         \/ \E i \in Invoices : Settles(i, o)'
<1>1. ASSUME order'[o].state = order[o].state
      PROVE  order[o].state \in {"Paid", "Closed"}
  BY <1>1
<1>2. ASSUME NEW q \in Orders, NEW to \in OrderStates, MoveOrder(q, to)
      PROVE  order[o].state \in {"Paid", "Closed"}
  BY <1>2 DEF MoveOrder, DocumentTypes, OrderMoves, OrderStates
<1>3. ASSUME NEW m \in Milestones, NEW i \in Invoices, NEW done \in 1 .. 3,
             ApproveAndBill(m, i, done)
      PROVE  order[o].state \in {"Paid", "Closed"}
  BY <1>1, <1>3, BillOrders
<1>4. ASSUME NEW q \in Orders, NEW i \in Invoices, NEW done \in 1 .. 2,
             GenerateInvoice(q, i, done)
      PROVE  order[o].state \in {"Paid", "Closed"}
  <2>1. order'[q].state = "Invoiced" /\ \A n \in Orders \ {q} : order'[n] = order[n]
    BY <1>4, GenerateEffect
  <2> QED BY <1>1, <2>1
<1>5. ASSUME NEW i \in Invoices, NEW done \in 1 .. 2, CancelInvoice(i, done)
      PROVE  order[o].state \in {"Paid", "Closed"}
  <2>1. \/ order' = order
        \/ \E b : order' = [order EXCEPT ![invoice[i].order].billing = b]
    BY <1>5 DEF CancelInvoice
  <2>2. CASE order' = order
    BY <1>1, <2>2
  <2>3. ASSUME NEW b, order' = [order EXCEPT ![invoice[i].order].billing = b]
        PROVE  order'[o].state = order[o].state
    BY <2>3 DEF DocumentTypes
  <2> QED BY <1>1, <2>1, <2>2, <2>3
<1>6. ASSUME NEW p \in Payments, NEW i \in Invoices, NEW amount \in PaymentAmounts,
             RegisterPayment(p, i, amount)
      PROVE  order[o].state \in {"Paid", "Closed"} \/ Settles(i, o)'
  <2>1. /\ SameBill(i)
        /\ invoice[i].state \in {"Posted", "Paid"}
        /\ invoice'[i].state \in {"Posted", "Paid"}
        /\ invoice'[i].posted = invoice[i].posted
        /\ invoice'[i].paid = invoice[i].paid + amount
    BY <1>6, RegisterEffect
  <2>2. CASE order' = order
    BY <2>2
  <2>3. CASE /\ order' = [order EXCEPT ![invoice[i].order].state = "Paid"]
             /\ invoice[i].paid + amount >= Due(i)
    <3>1. CASE o = invoice[i].order
      <4>1. Due(i)' = Due(i)
        BY <2>1, SameBillAmounts
      <4>2. invoice[i].posted = TRUE
        BY <2>1 DEF InvoicesSound, Sound
      <4>3. invoice'[i].paid >= Due(i)'
        BY <2>1, <2>3, <4>1
      <4> QED BY <2>1, <3>1, <4>2, <4>3 DEF Settles, Live, SameBill
    <3>2. CASE o # invoice[i].order
      BY <2>3, <3>2 DEF DocumentTypes
    <3> QED BY <3>1, <3>2
  <2> QED BY <1>6, <2>2, <2>3 DEF RegisterPayment
<1>7. CASE order' = order
  BY <1>7
<1> QED
  BY StepCases, <1>2, <1>3, <1>4, <1>5, <1>6, <1>7
     DEF DocumentsStill, CreateMilestone, ApproveUnbilled, ApproveAgain, PostInvoice

LEMMA PaidStep ==
  ASSUME DocumentTypes, InvoicesSound, PaidOrderIsSettled, [Next]_vars
  PROVE  PaidOrderIsSettled'
<1>1. \A o \in Orders : order[o].state \in {"Paid", "Closed"} =>
        \E i \in Invoices : Settles(i, o)
  BY SettledSplit
<1>2. ASSUME NEW o \in Orders, order'[o].state \in {"Paid", "Closed"}
      PROVE  \E i \in Invoices : Settles(i, o)'
  <2>1. CASE order[o].state \in {"Paid", "Closed"}
    <3>1. PICK i \in Invoices : Settles(i, o)
      BY <1>1, <2>1
    <3> QED BY <3>1, SettledForGood
  <2> QED BY <1>2, <2>1, BecomesPaid
<1>3. DocumentTypes'
  BY TypesStep
<1> QED BY <1>2, <1>3 DEF PaidOrderIsSettled, Settles, DocumentTypes, Invoice

-----------------------------------------------------------------------------
(* Accrual and reclassification.                                           *)

LEMMA CutShortEffect ==
  ASSUME cuts \in Nat, NEW done \in Int, NEW all \in Int, CutShort(done, all)
  PROVE  /\ cuts' \in Nat
         /\ cuts' = 0 => cuts = 0 /\ done >= all
<1>1. CASE done < all
  BY <1>1 DEF CutShort
<1>2. CASE ~(done < all)
  BY <1>2 DEF CutShort
<1> QED BY <1>1, <1>2

LEMMA CutsKept ==
  ASSUME cuts \in Nat, [Next]_vars
  PROVE  cuts' \in Nat /\ (cuts' = 0 => cuts = 0)
<1>1. ASSUME NEW m \in Milestones, ApproveUnbilled(m)
      PROVE  cuts' \in Nat /\ (cuts' = 0 => cuts = 0)
  <2>1. PICK all \in Int : CutShort(0, all)
    BY <1>1 DEF ApproveUnbilled
  <2> QED BY <2>1, CutShortEffect
<1>2. ASSUME NEW m \in Milestones, NEW i \in Invoices, NEW done \in 1 .. 3,
             ApproveAndBill(m, i, done)
      PROVE  cuts' \in Nat /\ (cuts' = 0 => cuts = 0)
  <2>1. PICK all \in Int : CutShort(done, all)
    BY <1>2 DEF ApproveAndBill
  <2> QED BY <2>1, CutShortEffect
<1>3. ASSUME NEW o \in Orders, NEW i \in Invoices, NEW done \in 1 .. 2,
             GenerateInvoice(o, i, done)
      PROVE  cuts' \in Nat /\ (cuts' = 0 => cuts = 0)
  <2>1. PICK all \in Int : CutShort(done, all)
    BY <1>3 DEF GenerateInvoice
  <2> QED BY <2>1, CutShortEffect
<1>4. ASSUME NEW i \in Invoices, NEW done \in 1 .. 2, CancelInvoice(i, done)
      PROVE  cuts' \in Nat /\ (cuts' = 0 => cuts = 0)
  <2>1. PICK all \in Int : CutShort(done, all)
    BY <1>4 DEF CancelInvoice
  <2> QED BY <2>1, CutShortEffect
<1>5. CASE cuts' = cuts
  BY <1>5
<1>6. \/ cuts' = cuts
      \/ \E m \in Milestones : ApproveUnbilled(m)
      \/ \E m \in Milestones, i \in Invoices, done \in 1 .. 3 : ApproveAndBill(m, i, done)
      \/ \E o \in Orders, i \in Invoices, done \in 1 .. 2 : GenerateInvoice(o, i, done)
      \/ \E i \in Invoices, done \in 1 .. 2 : CancelInvoice(i, done)
  BY DEF Next, OrderStep, MilestoneStep, InvoiceStep, PaymentStep, vars, MoveOrder,
         CreateMilestone, UpsertStageGate, PostLaborCost, ApproveAgain, PostInvoice,
         RegisterPayment, MovePayment
<1> QED BY <1>1, <1>2, <1>3, <1>4, <1>5, <1>6

LEMMA AccruedStep ==
  ASSUME DocumentTypes, AccruedWithInvoice, [Next]_vars
  PROVE  AccruedWithInvoice'
<1>1. cuts' \in Nat /\ (cuts' = 0 => cuts = 0)
  BY CutsKept DEF AccruedWithInvoice
<1> SUFFICES ASSUME cuts' = 0, NEW n \in Milestones, milestone'[n].invoice # NoInvoice
             PROVE  milestone'[n].accrued = TRUE
  BY <1>1 DEF AccruedWithInvoice
<1>2. milestone[n].invoice # NoInvoice => milestone[n].accrued = TRUE
  BY <1>1 DEF AccruedWithInvoice
<1>3. CASE milestone'[n] = milestone[n]
  BY <1>2, <1>3
<1>4. CASE /\ milestone'[n].invoice = milestone[n].invoice
           /\ milestone'[n].accrued = milestone[n].accrued
  BY <1>2, <1>4
<1>5. ASSUME NEW m \in Milestones, CreateMilestone(m)
      PROVE  milestone'[n].accrued = TRUE
  <2>1. /\ milestone'[n].invoice = milestone[n].invoice
        /\ milestone'[n].accrued = milestone[n].accrued
    BY <1>5 DEF CreateMilestone, DocumentTypes
  <2> QED BY <1>4, <2>1
<1>6. ASSUME NEW m \in Milestones, ApproveUnbilled(m)
      PROVE  milestone'[n].accrued = TRUE
  <2>1. /\ milestone'[n].invoice = milestone[n].invoice
        /\ milestone'[n].accrued = milestone[n].accrued
    BY <1>6 DEF ApproveUnbilled, DocumentTypes
  <2> QED BY <1>4, <2>1
<1>7. ASSUME NEW m \in Milestones, NEW i,
             milestone' = [milestone EXCEPT ![m] = Completed(m, i)]
      PROVE  milestone'[n].accrued = TRUE
  <2>1. CASE n = m
    BY <1>7, <2>1 DEF Completed, DocumentTypes
  <2>2. CASE n # m
    BY <1>3, <1>7, <2>2 DEF DocumentTypes
  <2> QED BY <2>1, <2>2
<1>8. ASSUME NEW m \in Milestones, NEW i \in Invoices, NEW done \in 1 .. 3,
             ApproveAndBill(m, i, done)
      PROVE  milestone'[n].accrued = TRUE
  <2>1. PICK all \in {2, 3} : CutShort(done, all)
    BY <1>8 DEF ApproveAndBill
  <2>2. done # 1
    BY <2>1, CutShortEffect DEF AccruedWithInvoice
  <2>3. milestone' = [milestone EXCEPT ![m] = Completed(m, i)]
    BY <1>8, <2>2 DEF ApproveAndBill
  <2> QED BY <1>7, <2>3
<1>9. ASSUME NEW m \in Milestones, ApproveAgain(m)
      PROVE  milestone'[n].accrued = TRUE
  BY <1>7, <1>9 DEF ApproveAgain
<1>10. ASSUME NEW i \in Invoices, NEW done \in 1 .. 2, CancelInvoice(i, done)
       PROVE  milestone'[n].accrued = TRUE
  <2>1. /\ milestone[n].invoice # i => milestone'[n] = milestone[n]
        /\ milestone'[n].accrued = milestone[n].accrued
    BY <1>10, CancelLinks
  <2>2. milestone[n].invoice = i => milestone[n].accrued = TRUE
    BY <1>2, NamesAssumption
  <2> QED BY <1>3, <2>1, <2>2
<1> QED
  BY StepCases, <1>3, <1>5, <1>6, <1>8, <1>9, <1>10
     DEF DocumentsStill, MoveOrder, GenerateInvoice, PostInvoice, RegisterPayment

\* What was reclassified was accrued.
LEMMA AccruedBefore ==
  ASSUME DocumentTypes, AccruedWithInvoice, MilestoneBilledOnce, UnbilledOfMilestone
  PROVE  AccruedBeforeReclassified
<1> SUFFICES ASSUME cuts = 0, NEW m \in Milestones
             PROVE  unbilled[m] >= 0
  BY DEF AccruedBeforeReclassified
<1>1. unbilled[m] = Accrual(m) - Reclass(m)
  BY UnbilledSplit
<1>2. BillingAmount[m] \in Nat
  BY MilestonesAssumption
<1>3. CASE Reclassified(m) = {}
  <2>1. Reclass(m) = 0
    BY <1>3 DEF Reclass
  <2> QED BY <1>1, <1>2, <2>1 DEF Accrual
<1>4. CASE Reclassified(m) # {}
  <2>1. PICK i : i \in Reclassified(m)
    BY <1>4
  <2>2. i \in Invoices /\ milestone[m].invoice = i
    BY <2>1, NamesAssumption DEF Reclassified, MilestoneBilledOnce
  <2>3. Accrual(m) = BillingAmount[m]
    BY <2>2, NamesAssumption DEF AccruedWithInvoice, Accrual
  <2> QED BY <1>1, <1>2, <2>3 DEF Reclass
<1> QED BY <1>3, <1>4

-----------------------------------------------------------------------------
(* Theorems.                                                               *)

LEMMA DocumentsInit == Init => DocumentsInv
<1> SUFFICES ASSUME Init PROVE DocumentsInv
  OBVIOUS
<1> USE DEF Init
<1>1. NoneYet \in Invoice
  <2>1. (CHOOSE o \in Orders : TRUE) \in Orders
    BY OrdersAssumption
  <2> QED BY <2>1 DEF NoneYet, Invoice
<1>2. \A i \in Invoices : invoice[i].state = "None" /\ invoice[i].posted = FALSE
  BY DEF NoneYet
<1>3. DocumentTypes
  <2>1. order \in [Orders -> [state : OrderStates, billing : BillingStates]]
    BY DEF OrderStates, OrderMoves, BillingStates
  <2>2. invoice \in [Invoices -> Invoice]
    BY <1>1
  <2>3. ASSUME NEW m \in Milestones
        PROVE  milestone[m] = [status |-> "None", invoice |-> NoInvoice,
                               accrued |-> FALSE, released |-> 0]
    OBVIOUS
  <2>4. ar \in [Invoices -> Int] /\ unbilled \in [Milestones -> Int]
    OBVIOUS
  <2>5. milestone = [m \in Milestones |-> milestone[m]]
    OBVIOUS
  <2> QED BY <2>1, <2>2, <2>3, <2>4, <2>5 DEF DocumentTypes
<1>4. InvoicesSound
  BY <1>2 DEF InvoicesSound, Sound
<1>5. AccruedWithInvoice
  BY DEF AccruedWithInvoice
<1>6. MilestoneBilledOnce
  BY <1>2 DEF MilestoneBilledOnce, Live
<1>7. ReceivableOfInvoice
  BY <1>2 DEF ReceivableOfInvoice, Live
<1>8. UnbilledOfMilestone
  <2>1. \A m \in Milestones : Reclassified(m) = {}
    BY <1>2 DEF Reclassified, Live
  <2> QED BY <2>1 DEF UnbilledOfMilestone
<1>9. PaidOrderIsSettled
  BY DEF PaidOrderIsSettled
<1> QED BY <1>3, <1>4, <1>5, <1>6, <1>7, <1>8, <1>9 DEF DocumentsInv

LEMMA DocumentsStep == DocumentsInv /\ [Next]_vars => DocumentsInv'
BY TypesStep, SoundStep, AccruedStep, BilledOnceStep, ReceivableStep, UnbilledStep, PaidStep
   DEF DocumentsInv

LEMMA DocumentsInvariant == Spec => []DocumentsInv
BY DocumentsInit, DocumentsStep, PTL DEF Spec

\* The records of orders, invoices and balances keep their types, and those of
\* milestones theirs but for the amount of work in progress released.
THEOREM DocumentsTyped == Spec => []DocumentTypes
<1>1. DocumentsInv => DocumentTypes
  BY DEF DocumentsInv
<1> QED BY <1>1, DocumentsInvariant, PTL

\* No milestone is ever billed twice, however often it is approved
\* (invoiceService.ts:411, :483, :769).
THEOREM BilledOnce == Spec => []MilestoneBilledOnce
<1>1. DocumentsInv => MilestoneBilledOnce
  BY DEF DocumentsInv
<1> QED BY <1>1, DocumentsInvariant, PTL

\* Trade receivables are, invoice by invoice, what was debited less what was
\* paid (invoiceService.ts:722, :694, paymentService.ts).
THEOREM ReceivablesHold == Spec => []ReceivableOfInvoice
<1>1. DocumentsInv => ReceivableOfInvoice
  BY DEF DocumentsInv
<1> QED BY <1>1, DocumentsInvariant, PTL

\* Unbilled receivables are, milestone by milestone, what was accrued less what
\* was invoiced (invoiceService.ts:613, :726).
THEOREM UnbilledHolds == Spec => []UnbilledOfMilestone
<1>1. DocumentsInv => UnbilledOfMilestone
  BY DEF DocumentsInv
<1> QED BY <1>1, DocumentsInvariant, PTL

\* Without a handler cut short nothing is invoiced out of unbilled receivables
\* before it was accrued there.
THEOREM AccruedFirst == Spec => []AccruedBeforeReclassified
<1>1. DocumentsInv => AccruedBeforeReclassified
  BY AccruedBefore DEF DocumentsInv
<1> QED BY <1>1, DocumentsInvariant, PTL

\* An order that is Paid or Closed has an invoice in force that is settled
\* (paymentService.ts:117).
THEOREM PaidIsSettled == Spec => []PaidOrderIsSettled
<1>1. DocumentsInv => PaidOrderIsSettled
  BY DEF DocumentsInv
<1> QED BY <1>1, DocumentsInvariant, PTL

-----------------------------------------------------------------------------
(* What of an order is billed.                                             *)

\* What each invoice adds to what order o is billed.
BillOf(o) ==
  [i \in Invoices |-> IF Live(i) /\ invoice[i].order = o THEN invoice[i].amount ELSE 0]

LEMMA BillOfType ==
  ASSUME DocumentTypes, NEW o
  PROVE  \A i \in Invoices : BillOf(o)[i] \in Nat
BY DEF BillOf, DocumentTypes, Invoice

LEMMA BilledIs ==
  ASSUME DocumentTypes, NEW o
  PROVE  Billed(o) = SumFunctionOnSet(BillOf(o), Invoices) /\ Billed(o) \in Nat
<1> DEFINE f == [i \in Invoices |-> invoice[i].amount]
           T == {i \in Invoices : Live(i) /\ invoice[i].order = o}
           g == BillOf(o)
<1>1. Filtered(g, f, Invoices, T)
  BY DEF BillOf, Filtered, DocumentTypes, Invoice
<1>2. Invoices \cap T = T
  OBVIOUS
<1>3. Billed(o) = SumFunctionOnSet(f, T)
  BY DEF Billed
<1>4. IsFiniteSet(Invoices)
  BY NamesAssumption
<1>5. \A i \in Invoices : g[i] \in Nat
  BY BillOfType
<1> HIDE DEF f, T, g
<1>6. SumFunctionOnSet(g, Invoices) = SumFunctionOnSet(f, Invoices \cap T)
  BY <1>1, <1>4, SumFiltered
<1>7. SumFunctionOnSet(g, Invoices) \in Nat
  BY <1>4, <1>5, SumIsNat
<1>8. Billed(o) = SumFunctionOnSet(g, Invoices)
  BY <1>2, <1>3, <1>6, Zenon
<1> QED BY <1>7, <1>8, Zenon DEF g

LEMMA BilledAlways ==
  \A q : DocumentTypes => Billed(q) = SumFunctionOnSet(BillOf(q), Invoices)
                         /\ Billed(q) \in Nat
BY BilledIs

\* A step that changes one invoice changes what is billed by what it adds.
LEMMA BilledChanged ==
  ASSUME DocumentTypes, DocumentTypes', NEW o, NEW i \in Invoices,
         \A j \in Invoices \ {i} : invoice'[j] = invoice[j]
  PROVE  Billed(o)' = Billed(o) - BillOf(o)[i] + BillOf(o)'[i]
<1> DEFINE f == BillOf(o)
           g == BillOf(o)'
<1>1. \A j \in Invoices : f[j] \in Int
  BY BillOfType
<1>2. \A j \in Invoices : g[j] \in Int
  BY DEF BillOf, DocumentTypes, Invoice
<1>3. \A j \in Invoices \ {i} : g[j] = f[j]
  BY DEF BillOf, Live
<1>4. Billed(o) = SumFunctionOnSet(f, Invoices) /\ Billed(o)' = SumFunctionOnSet(g, Invoices)
  <2>1. Billed(o) = SumFunctionOnSet(f, Invoices)
    BY BilledIs
  <2>2. Billed(o)' = SumFunctionOnSet(BillOf(o), Invoices)'
    <3>1. (\A q : DocumentTypes => Billed(q) = SumFunctionOnSet(BillOf(q), Invoices)
                                   /\ Billed(q) \in Nat)'
      BY BilledAlways, PTL
    <3> QED BY <3>1
  <2> QED BY <2>1, <2>2
<1>5. IsFiniteSet(Invoices)
  BY NamesAssumption
<1> HIDE DEF f, g
<1>6. SumFunctionOnSet(g, Invoices) = SumFunctionOnSet(f, Invoices) - f[i] + g[i]
  BY <1>1, <1>2, <1>3, <1>5, SumChanged
<1> QED BY <1>4, <1>6 DEF f, g

\* The invoices with a milestone are those of service orders.
BillsOfServices ==
  \A i \in Invoices : invoice[i].state # "None" =>
    (invoice[i].order \in Services <=> invoice[i].milestone # NoMilestone)

\* What keeps the billing state in step with the bills.
BillingInv ==
  /\ DocumentsInv
  /\ BillsOfServices
  /\ BillingStateAgrees

LEMMA BillEntry ==
  ASSUME DocumentTypes, NEW m \in Milestones, NEW i \in Invoices, NEW done \in 1 .. 3,
         ApproveAndBill(m, i, done)
  PROVE  /\ invoice'[i].order = OrderOf[m]
         /\ invoice'[i].amount = BillingAmount[m]
         /\ order' = [order EXCEPT ![OrderOf[m]].billing =
                        BillingState(OrderOf[m], Billed(OrderOf[m]) + BillingAmount[m])]
BY DEF ApproveAndBill, DocumentTypes

LEMMA GenerateEntry ==
  ASSUME DocumentTypes, NEW o \in Orders, NEW i \in Invoices, NEW done \in 1 .. 2,
         GenerateInvoice(o, i, done)
  PROVE  invoice'[i].order = o /\ o \notin Services
BY DEF GenerateInvoice, DocumentTypes, Goods

LEMMA BillsStep ==
  ASSUME DocumentTypes, BillsOfServices, [Next]_vars
  PROVE  BillsOfServices'
<1> DEFINE Fits(j) == invoice[j].state # "None" =>
      (invoice[j].order \in Services <=> invoice[j].milestone # NoMilestone)
<1>0. \A j \in Invoices : Fits(j)
  BY DEF BillsOfServices
<1>1. ASSUME NEW i \in Invoices, \A j \in Invoices \ {i} : invoice'[j] = invoice[j], Fits(i)'
      PROVE  BillsOfServices'
  BY <1>0, <1>1 DEF BillsOfServices
<1>2. ASSUME NEW i \in Invoices, SameBill(i), invoice[i].state # "None"
      PROVE  Fits(i)'
  BY <1>0, <1>2 DEF SameBill
<1>3. CASE invoice' = invoice
  BY <1>0, <1>3 DEF BillsOfServices
<1>4. ASSUME NEW m \in Milestones, NEW i \in Invoices, NEW done \in 1 .. 3,
             ApproveAndBill(m, i, done)
      PROVE  BillsOfServices'
  <2>1. Fits(i)'
    <3>1. invoice'[i].order = OrderOf[m] /\ invoice'[i].milestone = m
      BY <1>4, BillEffect, BillEntry
    <3>2. OrderOf[m] \in Services /\ m # NoMilestone
      BY MilestonesAssumption, NamesAssumption
    <3> QED BY <3>1, <3>2
  <2> HIDE DEF Fits
  <2> QED BY <1>1, <1>4, <2>1, BillEffect
<1>5. ASSUME NEW o \in Orders, NEW i \in Invoices, NEW done \in 1 .. 2,
             GenerateInvoice(o, i, done)
      PROVE  BillsOfServices'
  <2>1. Fits(i)'
    BY <1>5, GenerateEffect, GenerateEntry
  <2> HIDE DEF Fits
  <2> QED BY <1>1, <1>5, <2>1, GenerateEffect
<1>6. ASSUME NEW i \in Invoices, PostInvoice(i)
      PROVE  BillsOfServices'
  <2> HIDE DEF Fits
  <2> QED BY <1>1, <1>2, <1>6, PostEffect
<1>7. ASSUME NEW i \in Invoices, NEW done \in 1 .. 2, CancelInvoice(i, done)
      PROVE  BillsOfServices'
  <2> HIDE DEF Fits
  <2> QED BY <1>1, <1>2, <1>7, CancelEffect
<1>8. ASSUME NEW p \in Payments, NEW i \in Invoices, NEW amount \in PaymentAmounts,
             RegisterPayment(p, i, amount)
      PROVE  BillsOfServices'
  <2> HIDE DEF Fits
  <2> QED BY <1>1, <1>2, <1>8, RegisterEffect
<1> QED BY InvoiceCases, <1>3, <1>4, <1>5, <1>6, <1>7, <1>8

\* The state billing would be given order o.
BillingIs(o) ==
  order[o].billing = IF Billed(o) = 0 THEN "Unbilled" ELSE BillingState(o, Billed(o))

LEMMA BillingKept ==
  ASSUME NEW o, order'[o].billing = order[o].billing, Billed(o)' = Billed(o), BillingIs(o)
  PROVE  BillingIs(o)'
BY DEF BillingIs, BillingState

\* An invoice that goes on being in force, or not to be, changes nothing of it.
LEMMA SameBilled ==
  ASSUME DocumentTypes, DocumentTypes', NEW o, NEW i \in Invoices,
         \A j \in Invoices \ {i} : invoice'[j] = invoice[j],
         BillOf(o)'[i] = BillOf(o)[i]
  PROVE  Billed(o)' = Billed(o)
<1>1. Billed(o) \in Nat /\ BillOf(o)[i] \in Nat
  BY BilledIs, BillOfType
<1> QED BY <1>1, BilledChanged

LEMMA BillingStep ==
  ASSUME BillingInv, [Next]_vars
  PROVE  BillingStateAgrees'
<1> USE DEF BillingInv, DocumentsInv
<1>0. DocumentTypes /\ DocumentTypes'
  BY TypesStep
<1> SUFFICES ASSUME cuts' = 0, NEW o \in Services
             PROVE  BillingIs(o)'
  BY DEF BillingStateAgrees, BillingIs
<1>1. o \in Orders /\ cuts = 0 /\ cuts \in Nat /\ BillingIs(o)
  BY CutsKept, OrdersAssumption DEF AccruedWithInvoice, BillingStateAgrees, BillingIs
<1>2. ASSUME invoice' = invoice PROVE Billed(o)' = Billed(o)
  BY <1>2 DEF Billed, Live
<1>3. CASE DocumentsStill
  BY <1>1, <1>2, <1>3, BillingKept DEF DocumentsStill
<1>4. ASSUME NEW q \in Orders, NEW to \in OrderStates, MoveOrder(q, to)
      PROVE  BillingIs(o)'
  <2>1. order'[o].billing = order[o].billing
    BY <1>0, <1>1, <1>4 DEF MoveOrder, DocumentTypes
  <2> QED BY <1>1, <1>2, <1>4, <2>1, BillingKept DEF MoveOrder
<1>5. ASSUME NEW m \in Milestones, CreateMilestone(m) \/ ApproveUnbilled(m) \/ ApproveAgain(m)
      PROVE  BillingIs(o)'
  BY <1>1, <1>2, <1>5, BillingKept DEF CreateMilestone, ApproveUnbilled, ApproveAgain
<1>6. ASSUME NEW m \in Milestones, NEW i \in Invoices, NEW done \in 1 .. 3,
             ApproveAndBill(m, i, done)
      PROVE  BillingIs(o)'
  <2>1. /\ \A j \in Invoices \ {i} : invoice'[j] = invoice[j]
        /\ invoice[i].state = "None" /\ invoice'[i].state = "Draft"
        /\ invoice'[i].order = OrderOf[m]
        /\ invoice'[i].amount = BillingAmount[m]
    BY <1>0, <1>6, BillEffect, BillEntry
  <2>2. order' = [order EXCEPT ![OrderOf[m]].billing =
                    BillingState(OrderOf[m], Billed(OrderOf[m]) + BillingAmount[m])]
    BY <1>0, <1>6, BillEntry
  <2>3. BillOf(o)[i] = 0 /\ BillOf(o)'[i] = IF OrderOf[m] = o THEN BillingAmount[m] ELSE 0
    BY <2>1 DEF BillOf, Live
  <2>4. Billed(o) \in Nat /\ BillingAmount[m] \in Nat /\ BillingAmount[m] > 0
    BY <1>0, BilledIs, MilestonesAssumption
  <2>5. CASE OrderOf[m] = o
    <3>1. Billed(o)' = Billed(o) - BillOf(o)[i] + BillOf(o)'[i]
      BY <1>0, <2>1, BilledChanged
    <3>2. Billed(o)' = Billed(o) + BillingAmount[m] /\ Billed(o)' # 0
      BY <2>3, <2>4, <2>5, <3>1
    <3>3. order'[o].billing = BillingState(o, Billed(o) + BillingAmount[m])
      BY <1>0, <1>1, <2>2, <2>5 DEF DocumentTypes
    <3> QED BY <3>2, <3>3 DEF BillingIs, BillingState
  <2>6. CASE OrderOf[m] # o
    <3>1. Billed(o)' = Billed(o)
      BY <1>0, <2>1, <2>3, <2>6, SameBilled
    <3>2. order'[o].billing = order[o].billing
      BY <1>0, <1>1, <2>2, <2>6 DEF DocumentTypes
    <3> QED BY <1>1, <3>1, <3>2, BillingKept
  <2> QED BY <2>5, <2>6
<1>7. ASSUME NEW q \in Orders, NEW i \in Invoices, NEW done \in 1 .. 2,
             GenerateInvoice(q, i, done)
      PROVE  BillingIs(o)'
  <2>1. /\ \A j \in Invoices \ {i} : invoice'[j] = invoice[j]
        /\ invoice[i].state = "None" /\ invoice'[i].order = q /\ q \notin Services
        /\ \A n \in Orders \ {q} : order'[n] = order[n]
    BY <1>0, <1>7, GenerateEffect, GenerateEntry
  <2>2. BillOf(o)'[i] = BillOf(o)[i]
    BY <2>1 DEF BillOf, Live
  <2>3. Billed(o)' = Billed(o)
    BY <1>0, <2>1, <2>2, SameBilled
  <2> QED BY <1>1, <2>1, <2>3, BillingKept
<1>8. ASSUME NEW i \in Invoices, PostInvoice(i)
      PROVE  BillingIs(o)'
  <2>1. /\ \A j \in Invoices \ {i} : invoice'[j] = invoice[j]
        /\ SameBill(i) /\ order' = order
        /\ invoice[i].state = "Draft" /\ invoice'[i].state = "Posted"
    BY <1>0, <1>8, PostEffect
  <2>2. BillOf(o)'[i] = BillOf(o)[i]
    BY <2>1 DEF BillOf, Live, SameBill
  <2>3. Billed(o)' = Billed(o)
    BY <1>0, <2>1, <2>2, SameBilled
  <2> QED BY <1>1, <2>1, <2>3, BillingKept
<1>9. ASSUME NEW p \in Payments, NEW i \in Invoices, NEW amount \in PaymentAmounts,
             RegisterPayment(p, i, amount)
      PROVE  BillingIs(o)'
  <2>1. /\ \A j \in Invoices \ {i} : invoice'[j] = invoice[j]
        /\ SameBill(i)
        /\ invoice[i].state \in {"Posted", "Paid"} /\ invoice'[i].state \in {"Posted", "Paid"}
    BY <1>0, <1>9, RegisterEffect
  <2>2. BillOf(o)'[i] = BillOf(o)[i]
    BY <2>1 DEF BillOf, Live, SameBill
  <2>3. Billed(o)' = Billed(o)
    BY <1>0, <2>1, <2>2, SameBilled
  <2>4. order'[o].billing = order[o].billing
    BY <1>0, <1>1, <1>9 DEF RegisterPayment, DocumentTypes
  <2> QED BY <1>1, <2>3, <2>4, BillingKept
<1>10. ASSUME NEW i \in Invoices, NEW done \in 1 .. 2, CancelInvoice(i, done)
       PROVE  BillingIs(o)'
  <2>1. /\ \A j \in Invoices \ {i} : invoice'[j] = invoice[j]
        /\ SameBill(i)
        /\ invoice[i].state \in {"Draft", "Posted"} /\ invoice'[i].state = "Cancelled"
    BY <1>0, <1>10, CancelEffect
  <2>2. /\ BillOf(o)[i] = IF invoice[i].order = o THEN invoice[i].amount ELSE 0
        /\ BillOf(o)'[i] = 0
    BY <2>1 DEF BillOf, Live
  <2>3. CASE invoice[i].order = o
    <3>1. invoice[i].milestone # NoMilestone
      BY <2>1, <2>3 DEF BillsOfServices
    <3>2. done = 2
      <4>1. CutShort(done, 2)
        BY <1>10, <3>1 DEF CancelInvoice
      <4> QED BY <1>1, <4>1, CutShortEffect
    <3>3. Billed(o) \in Nat /\ Billed(o)' \in Nat /\ invoice[i].amount \in Nat
      <4>1. Billed(o)' \in Nat
        <5>1. (\A q : DocumentTypes => Billed(q) = SumFunctionOnSet(BillOf(q), Invoices)
                                       /\ Billed(q) \in Nat)'
          BY BilledAlways, PTL
        <5> QED BY <1>0, <5>1
      <4> QED BY <1>0, <4>1, BilledIs DEF DocumentTypes, Invoice
    <3>4. Billed(o)' = Billed(o) - BillOf(o)[i] + BillOf(o)'[i]
      BY <1>0, <2>1, BilledChanged
    <3>5. Billed(o)' = Billed(o) - invoice[i].amount
      BY <2>2, <2>3, <3>3, <3>4
    <3>6. PICK left : left = Billed(o) - invoice[i].amount
      OBVIOUS
    <3>7. order' = [order EXCEPT ![o].billing =
                      IF left <= 0 THEN "Unbilled" ELSE BillingState(o, left)]
      BY <1>10, <2>3, <3>2, <3>6 DEF CancelInvoice
    <3>8. order'[o].billing = IF left <= 0 THEN "Unbilled" ELSE BillingState(o, left)
      BY <1>0, <1>1, <3>7 DEF DocumentTypes
    <3>9. Billed(o)' = left /\ (left <= 0 <=> left = 0)
      BY <3>3, <3>5, <3>6
    <3> QED BY <3>8, <3>9 DEF BillingIs, BillingState
  <2>4. CASE invoice[i].order # o
    <3>1. Billed(o)' = Billed(o)
      BY <1>0, <2>1, <2>2, <2>4, SameBilled
    <3>2. order'[o].billing = order[o].billing
      <4>1. \/ order' = order
            \/ \E b : order' = [order EXCEPT ![invoice[i].order].billing = b]
        BY <1>10 DEF CancelInvoice
      <4> QED BY <1>0, <1>1, <2>4, <4>1 DEF DocumentTypes
    <3> QED BY <1>1, <3>1, <3>2, BillingKept
  <2> QED BY <2>3, <2>4
<1> QED BY StepCases, <1>3, <1>4, <1>5, <1>6, <1>7, <1>8, <1>9, <1>10

LEMMA BillingInit == Init => BillingInv
<1> SUFFICES ASSUME Init PROVE BillingInv
  OBVIOUS
<1>1. DocumentsInv /\ \A i \in Invoices : invoice[i].state = "None"
  BY DocumentsInit DEF Init, NoneYet
<1>2. ASSUME NEW o \in Services PROVE Billed(o) = 0
  <2>1. \A i \in Invoices : BillOf(o)[i] = 0
    BY <1>1 DEF BillOf, Live
  <2>2. SumFunctionOnSet(BillOf(o), Invoices) = 0
    BY <2>1, NamesAssumption, SumZero
  <2> QED BY <1>1, <2>2, BilledIs DEF DocumentsInv
<1>3. \A o \in Services : order[o].billing = "Unbilled"
  BY OrdersAssumption DEF Init
<1> QED BY <1>1, <1>2, <1>3 DEF BillingInv, BillsOfServices, BillingStateAgrees

LEMMA BillingInvStep == BillingInv /\ [Next]_vars => BillingInv'
<1> SUFFICES ASSUME BillingInv, [Next]_vars PROVE BillingInv'
  OBVIOUS
<1>1. DocumentsInv'
  BY DocumentsStep DEF BillingInv
<1>2. BillsOfServices'
  BY BillsStep DEF BillingInv, DocumentsInv
<1> QED BY <1>1, <1>2, BillingStep DEF BillingInv

LEMMA BillingInvariant == Spec => []BillingInv
BY BillingInit, BillingInvStep, PTL DEF Spec

-----------------------------------------------------------------------------
(* Work in progress.                                                       *)

LEMMA QuotientBounds ==
  ASSUME NEW a \in Nat, NEW d \in Nat \ {0}
  PROVE  /\ a \div d \in Nat
         /\ d * (a \div d) <= a
         /\ a < d * (a \div d) + d
OBVIOUS

LEMMA QuotientMonotone ==
  ASSUME NEW a \in Nat, NEW b \in Nat, NEW d \in Nat \ {0}, a <= b
  PROVE  a \div d <= b \div d
<1> DEFINE p == a \div d
           q == b \div d
<1>1. /\ p \in Nat /\ q \in Nat
      /\ d * p <= a
      /\ b < d * q + d
  BY QuotientBounds
<1> HIDE DEF p, q
<1>2. SUFFICES ASSUME p > q PROVE FALSE
  BY <1>1 DEF p, q
<1>3. PICK k \in Nat : p = q + 1 + k
  <2>1. p - q - 1 \in Nat /\ p = q + 1 + (p - q - 1)
    BY <1>1, <1>2
  <2> QED BY <2>1
<1>4. d * p = d * q + d + d * k
  BY <1>1, <1>3
<1>5. d * k \in Nat /\ d * q \in Nat
  BY <1>1
<1> QED BY <1>1, <1>4, <1>5

\* Rounding to the nearest unit keeps the order of amounts.
LEMMA RoundedMonotone ==
  ASSUME NEW a \in Nat, NEW b \in Nat, NEW c \in Nat \ {0}, a <= b
  PROVE  RoundedDiv(a, c) \in Nat /\ RoundedDiv(a, c) <= RoundedDiv(b, c)
<1>1. 2 * a + c \in Nat /\ 2 * b + c \in Nat /\ 2 * c \in Nat \ {0} /\ 2 * a + c <= 2 * b + c
  OBVIOUS
<1>2. (2 * a + c) \div (2 * c) <= (2 * b + c) \div (2 * c)
  BY <1>1, QuotientMonotone
<1>3. (2 * a + c) \div (2 * c) \in Nat
  BY <1>1, QuotientBounds
<1> QED BY <1>2, <1>3 DEF RoundedDiv

\* The share of labour l that milestones which bill x, of the contract's value, may release.
Share(l, x) == RoundedDiv(l * Least(x, ContractValue), ContractValue)

LEMMA ShareMonotone ==
  ASSUME NEW l \in Nat, NEW k \in Nat, l <= k, NEW x \in Nat, NEW y \in Nat, x <= y
  PROVE  Share(l, x) \in Nat /\ Share(l, x) <= Share(k, y)
<1> DEFINE u == Least(x, ContractValue)
           v == Least(y, ContractValue)
<1>1. u \in Nat /\ v \in Nat /\ u <= v /\ ContractValue \in Nat \ {0}
  BY MilestonesAssumption DEF Least
<1> HIDE DEF u, v
<1>2. PICK d \in Nat, e \in Nat : k = l + d /\ v = u + e
  <2>1. k - l \in Nat /\ v - u \in Nat /\ k = l + (k - l) /\ v = u + (v - u)
    BY <1>1
  <2> QED BY <2>1
<1>3. k * v = l * u + l * e + d * v
  BY <1>1, <1>2
<1>4. l * u \in Nat /\ l * e \in Nat /\ d * v \in Nat
  BY <1>1, <1>2
<1>5. l * u \in Nat /\ k * v \in Nat /\ l * u <= k * v
  BY <1>3, <1>4
<1>6. RoundedDiv(l * u, ContractValue) \in Nat
      /\ RoundedDiv(l * u, ContractValue) <= RoundedDiv(k * v, ContractValue)
  BY <1>1, <1>5, RoundedMonotone
<1> QED BY <1>6 DEF Share, u, v

LEMMA PlannedMonotone ==
  ASSUME NEW S \in SUBSET Milestones, NEW T \in SUBSET Milestones, S \subseteq T
  PROVE  Planned(S) \in Nat /\ Planned(T) \in Nat /\ Planned(S) <= Planned(T)
<1>1. IsFiniteSet(S) /\ IsFiniteSet(T)
  BY NamesAssumption, FS_Subset
<1>2. \A m \in T : BillingAmount[m] \in Nat
  BY MilestonesAssumption
<1>3. \A m \in S : BillingAmount[m] \in Nat
  BY <1>2
<1>4. SumFunctionOnSet(BillingAmount, S) \in Nat
  BY <1>1, <1>3, SumIsNat
<1>5. SumFunctionOnSet(BillingAmount, T) \in Nat
  BY <1>1, <1>2, SumIsNat
<1>6. SumFunctionOnSet(BillingAmount, S) <= SumFunctionOnSet(BillingAmount, T)
  BY <1>1, <1>2, SumOfSubset
<1> QED BY <1>4, <1>5, <1>6 DEF Planned

\* Work in progress is the labour that was not released, and no more was released than
\* the approved milestones' share of it.
WipTypes ==
  /\ labor \in Nat /\ wip \in Int
  /\ \A m \in Milestones : milestone[m].released \in Int
WipInv == DocumentTypes /\ WipTypes /\ WipReleasedInProportion

LEMMA TargetIs == ASSUME NEW S PROVE ReleaseTarget(S) = Share(labor, Planned(S))
BY DEF ReleaseTarget, Share

LEMMA TargetGrows ==
  ASSUME labor \in Nat, labor' \in Nat, labor <= labor',
         NEW S \in SUBSET Milestones, NEW T \in SUBSET Milestones, S \subseteq T
  PROVE  /\ ReleaseTarget(S) \in Nat
         /\ ReleaseTarget(S) <= ReleaseTarget(T)
         /\ ReleaseTarget(S) <= Share(labor', Planned(T))
<1>1. Planned(S) \in Nat /\ Planned(T) \in Nat /\ Planned(S) <= Planned(T)
  BY PlannedMonotone
<1>2. ReleaseTarget(S) = Share(labor, Planned(S)) /\ ReleaseTarget(T) = Share(labor, Planned(T))
  BY TargetIs
<1>3. Share(labor, Planned(S)) \in Nat /\ Share(labor, Planned(S)) <= Share(labor, Planned(T))
  BY <1>1, ShareMonotone
<1>4. Share(labor, Planned(S)) <= Share(labor', Planned(T))
  BY <1>1, ShareMonotone
<1> QED BY <1>2, <1>3, <1>4

LEMMA ReleasedType == ASSUME WipTypes PROVE Released \in Int
<1> DEFINE f == [m \in Milestones |-> milestone[m].released]
<1>1. \A m \in Milestones : f[m] \in Int
  BY DEF WipTypes
<1> HIDE DEF f
<1>2. SumFunctionOnSet(f, Milestones) \in Int
  BY <1>1, NamesAssumption, SumType
<1> QED BY <1>2 DEF Released, f

LEMMA ReleasedChanged ==
  ASSUME WipTypes, WipTypes', NEW m \in Milestones,
         \A n \in Milestones \ {m} : milestone'[n].released = milestone[n].released
  PROVE  Released' = Released - milestone[m].released + milestone'[m].released
<1> DEFINE f == [n \in Milestones |-> milestone[n].released]
           g == [n \in Milestones |-> milestone'[n].released]
<1>1. /\ \A n \in Milestones : f[n] \in Int /\ g[n] \in Int
      /\ \A n \in Milestones \ {m} : g[n] = f[n]
      /\ f[m] = milestone[m].released /\ g[m] = milestone'[m].released
  BY DEF WipTypes
<1> HIDE DEF f, g
<1>2. SumFunctionOnSet(g, Milestones) = SumFunctionOnSet(f, Milestones) - f[m] + g[m]
  BY <1>1, NamesAssumption, SumChanged
<1>3. SumFunctionOnSet(g, Milestones)
        = SumFunctionOnSet(f, Milestones) - milestone[m].released + milestone'[m].released
  BY <1>1, <1>2
<1> QED BY <1>3 DEF Released, f, g

LEMMA ReleasedSame ==
  ASSUME \A n \in Milestones : milestone'[n].released = milestone[n].released
  PROVE  Released' = Released
<1>1. [n \in Milestones |-> milestone'[n].released] = [n \in Milestones |-> milestone[n].released]
  OBVIOUS
<1> QED BY <1>1 DEF Released

\* Steps that release nothing.
Unreleased ==
  /\ wip' = wip /\ labor' = labor
  /\ \A n \in Milestones :
       /\ milestone'[n].released = milestone[n].released
       /\ milestone[n].status = "Approved" => milestone'[n].status = "Approved"

\* Steps that complete a milestone.
Completes(m, i) ==
  /\ milestone' = [milestone EXCEPT ![m] = Completed(m, i)]
  /\ PostCompletion(m)
  /\ labor' = labor

LEMMA CancelReleased ==
  ASSUME DocumentTypes, NEW i \in Invoices, NEW done \in 1 .. 2, CancelInvoice(i, done)
  PROVE  Unreleased
<1>1. CASE milestone' = milestone
  BY <1>1 DEF CancelInvoice, Unreleased
<1>2. CASE milestone' = [n \in Milestones |->
               IF milestone[n].invoice = i
               THEN [milestone[n] EXCEPT !.invoice = NoInvoice] ELSE milestone[n]]
  <2>1. ASSUME NEW n \in Milestones
        PROVE  milestone'[n].released = milestone[n].released
               /\ milestone'[n].status = milestone[n].status
    <3>1. CASE milestone[n].invoice = i
      <4>1. milestone'[n] = [milestone[n] EXCEPT !.invoice = NoInvoice]
        BY <1>2, <3>1
      <4>2. milestone[n] = [status |-> milestone[n].status, invoice |-> milestone[n].invoice,
                            accrued |-> milestone[n].accrued, released |-> milestone[n].released]
        BY DEF DocumentTypes
      <4> QED BY <4>1, <4>2
    <3>2. CASE milestone[n].invoice # i
      BY <1>2, <3>2
    <3> QED BY <3>1, <3>2
  <2> QED BY <2>1 DEF CancelInvoice, Unreleased
<1> QED BY <1>1, <1>2 DEF CancelInvoice

LEMMA WipCases ==
  ASSUME DocumentTypes, [Next]_vars
  PROVE  \/ Unreleased
         \/ \E c \in LaborCosts : PostLaborCost(c)
         \/ \E i : \E m \in Milestones : Completes(m, i)
<1>1. CASE UNCHANGED vars \/ UpsertStageGate
  BY <1>1 DEF vars, UpsertStageGate, Unreleased
<1>2. ASSUME NEW o, NEW to, MoveOrder(o, to) PROVE Unreleased
  BY <1>2 DEF MoveOrder, Unreleased
<1>3. ASSUME NEW m \in Milestones, CreateMilestone(m) PROVE Unreleased
  BY <1>3 DEF CreateMilestone, Unreleased, DocumentTypes
<1>4. ASSUME NEW m \in Milestones, ApproveUnbilled(m) PROVE Unreleased
  BY <1>4 DEF ApproveUnbilled, Unreleased, DocumentTypes
<1>5. ASSUME NEW m \in Milestones, ApproveAgain(m) PROVE Completes(m, milestone[m].invoice)
  BY <1>5 DEF ApproveAgain, Completes
<1>6. ASSUME NEW m \in Milestones, NEW i \in Invoices, NEW done \in 1 .. 3,
             ApproveAndBill(m, i, done)
      PROVE  Unreleased \/ Completes(m, i)
  <2>1. CASE milestone' = [milestone EXCEPT ![m] = Drafted(m, i)] /\ UNCHANGED <<unbilled, wip>>
    <3>1. \A n \in Milestones : milestone'[n] = IF n = m THEN Drafted(m, i) ELSE milestone[n]
      BY <2>1 DEF DocumentTypes
    <3>2. Drafted(m, i).status = "Approved" /\ Drafted(m, i).released = milestone[m].released
      BY DEF Drafted
    <3> QED BY <1>6, <2>1, <3>1, <3>2 DEF ApproveAndBill, Unreleased
  <2>2. CASE milestone' = [milestone EXCEPT ![m] = Completed(m, i)] /\ PostCompletion(m)
    BY <1>6, <2>2 DEF ApproveAndBill, Completes
  <2> QED BY <1>6, <2>1, <2>2 DEF ApproveAndBill
<1>7. ASSUME NEW i \in Invoices, PostInvoice(i) PROVE Unreleased
  BY <1>7 DEF PostInvoice, Unreleased
<1>8. ASSUME NEW o, NEW i, NEW done, GenerateInvoice(o, i, done) PROVE Unreleased
  BY <1>8 DEF GenerateInvoice, Unreleased
<1>9. ASSUME NEW p, NEW i, NEW amount, RegisterPayment(p, i, amount) PROVE Unreleased
  BY <1>9 DEF RegisterPayment, Unreleased
<1>10. ASSUME NEW p, NEW to, MovePayment(p, to) PROVE Unreleased
  BY <1>10 DEF MovePayment, Unreleased
<1> QED
  BY CancelReleased, <1>1, <1>2, <1>3, <1>4, <1>5, <1>6, <1>7, <1>8, <1>9, <1>10
     DEF Next, OrderStep, MilestoneStep, InvoiceStep, PaymentStep

\* What completing milestone m moves from work in progress to its record.
LEMMA CompletesEffect ==
  ASSUME WipInv, NEW m \in Milestones, NEW i, Completes(m, i)
  PROVE  \E r \in Int :
           /\ Released + r <= ReleaseTarget(Approved \cup {m})
           /\ wip' = wip - r
           /\ milestone'[m].status = "Approved"
           /\ milestone'[m].released = milestone[m].released + r
           /\ \A n \in Milestones \ {m} : milestone'[n] = milestone[n]
<1> DEFINE both == Approved \cup {m}
           t == ReleaseTarget(both)
<1>1. both \in SUBSET Milestones /\ Approved \in SUBSET Milestones /\ Approved \subseteq both
  BY DEF Approved
<1>2. labor \in Nat /\ wip \in Int /\ milestone[m].released \in Int /\ Released \in Int
      /\ Released <= ReleaseTarget(Approved)
  BY ReleasedType DEF WipInv, WipTypes, WipReleasedInProportion
<1>3. t \in Nat /\ ReleaseTarget(Approved) \in Nat /\ ReleaseTarget(Approved) <= t
  <2>1. labor' = labor
    BY DEF Completes
  <2> HIDE DEF both
  <2>2. ReleaseTarget(Approved) \in Nat /\ ReleaseTarget(Approved) <= ReleaseTarget(both)
    BY <1>1, <1>2, <2>1, TargetGrows
  <2>3. ReleaseTarget(both) \in Nat
    BY <1>1, <1>2, <2>1, TargetGrows
  <2> QED BY <2>2, <2>3
<1>4. PICK r : r = Release(m, both)
  OBVIOUS
<1>5. r = IF milestone[m].released # 0 THEN 0 ELSE Least(wip, Most(0, t - Released))
  BY <1>4 DEF Release
<1>6. /\ wip' = wip - r
      /\ milestone' = [milestone EXCEPT ![m] =
           [status |-> "Approved", invoice |-> i, accrued |-> TRUE,
            released |-> milestone[m].released + r]]
  BY <1>4 DEF Completes, PostCompletion, Completed
<1> HIDE DEF both, t
<1>7. r \in Int /\ Released + r <= t
  BY <1>2, <1>3, <1>5 DEF Least, Most
<1>8. /\ milestone'[m].status = "Approved"
      /\ milestone'[m].released = milestone[m].released + r
      /\ \A n \in Milestones \ {m} : milestone'[n] = milestone[n]
  BY <1>6 DEF WipInv, DocumentTypes
<1> QED BY <1>6, <1>7, <1>8 DEF t, both

LEMMA WipStep ==
  ASSUME WipInv, [Next]_vars
  PROVE  WipTypes' /\ WipReleasedInProportion'
<1> USE DEF WipInv
<1>1. labor \in Nat /\ wip \in Int /\ Released \in Int
      /\ wip = labor - Released /\ Released <= ReleaseTarget(Approved)
  BY ReleasedType DEF WipTypes, WipReleasedInProportion
<1>2. Approved \in SUBSET Milestones /\ Approved' \in SUBSET Milestones
  BY DEF Approved
<1>3. ReleaseTarget(Approved)' = Share(labor', Planned(Approved'))
  BY DEF ReleaseTarget, Share, Planned, Approved
<1>4. CASE Unreleased
  <2>1. WipTypes'
    BY <1>4 DEF Unreleased, WipTypes
  <2>2. Released' = Released
    BY <1>4, ReleasedSame DEF Unreleased
  <2>3. Approved \subseteq Approved'
    BY <1>4 DEF Unreleased, Approved
  <2>4. labor' = labor /\ wip' = wip
    BY <1>4 DEF Unreleased
  <2>5. ReleaseTarget(Approved) \in Nat /\ ReleaseTarget(Approved) <= Share(labor', Planned(Approved'))
    BY <1>1, <1>2, <2>3, <2>4, TargetGrows
  <2>6. Share(labor', Planned(Approved')) \in Nat
    BY <1>1, <1>2, <2>4, PlannedMonotone, ShareMonotone
  <2>7. wip' = labor' - Released' /\ Released' <= ReleaseTarget(Approved)'
    BY <1>1, <1>3, <2>2, <2>4, <2>5, <2>6
  <2> QED BY <2>1, <2>7 DEF WipReleasedInProportion
<1>5. ASSUME NEW c \in LaborCosts, PostLaborCost(c)
      PROVE  WipTypes' /\ WipReleasedInProportion'
  <2>1. /\ labor' = labor + c /\ wip' = wip + c /\ milestone' = milestone
        /\ c \in Nat
    BY <1>5, InputsAssumption DEF PostLaborCost
  <2>2. Released' = Released /\ Approved' = Approved
    BY <2>1 DEF Released, Approved
  <2>3. WipTypes' /\ labor' \in Nat /\ labor <= labor'
    BY <1>1, <2>1 DEF WipTypes
  <2>4. ReleaseTarget(Approved) \in Nat /\ ReleaseTarget(Approved) <= Share(labor', Planned(Approved'))
    BY <1>1, <1>2, <2>2, <2>3, TargetGrows
  <2>6. Share(labor', Planned(Approved')) \in Nat
    BY <1>1, <1>2, <2>3, PlannedMonotone, ShareMonotone
  <2>7. wip' = labor' - Released' /\ Released' <= ReleaseTarget(Approved)'
    BY <1>1, <1>3, <2>1, <2>2, <2>4, <2>6
  <2> QED BY <2>3, <2>7 DEF WipReleasedInProportion
<1>6. ASSUME NEW m \in Milestones, NEW i, Completes(m, i)
      PROVE  WipTypes' /\ WipReleasedInProportion'
  <2>1. PICK r \in Int :
           /\ Released + r <= ReleaseTarget(Approved \cup {m})
           /\ wip' = wip - r
           /\ milestone'[m].status = "Approved"
           /\ milestone'[m].released = milestone[m].released + r
           /\ \A n \in Milestones \ {m} : milestone'[n] = milestone[n]
    BY <1>6, CompletesEffect
  <2>2. labor' = labor
    BY <1>6 DEF Completes
  <2>3. WipTypes'
    BY <2>1, <2>2 DEF WipTypes
  <2>4. Released' = Released - milestone[m].released + milestone'[m].released
    BY <2>1, <2>3, ReleasedChanged
  <2>5. Released' = Released + r
    BY <1>1, <2>1, <2>4 DEF WipTypes
  <2>6. Approved' = Approved \cup {m}
    BY <2>1 DEF Approved
  <2>7. ReleaseTarget(Approved)' = ReleaseTarget(Approved \cup {m})
    BY <1>3, <2>2, <2>6, TargetIs
  <2>8. wip' = labor' - Released' /\ Released' <= ReleaseTarget(Approved)'
    BY <1>1, <2>1, <2>2, <2>5, <2>7
  <2> QED BY <2>3, <2>8 DEF WipReleasedInProportion
<1> QED BY WipCases, <1>4, <1>5, <1>6

LEMMA WipInit == Init => WipInv
<1> SUFFICES ASSUME Init PROVE WipInv
  OBVIOUS
<1>1. DocumentTypes /\ WipTypes
  BY DocumentsInit DEF DocumentsInv, Init, WipTypes
<1>2. Released = 0
  <2>1. \A m \in Milestones : [n \in Milestones |-> milestone[n].released][m] = 0
    BY DEF Init
  <2> QED BY <2>1, NamesAssumption, SumZero DEF Released
<1>3. Approved \in SUBSET Milestones
  BY DEF Approved
<1>4. ReleaseTarget(Approved) \in Nat
  BY <1>1, <1>3, TargetIs, PlannedMonotone, ShareMonotone DEF WipTypes
<1>5. wip = labor - Released /\ Released <= ReleaseTarget(Approved)
  BY <1>2, <1>4 DEF Init
<1> QED BY <1>1, <1>5 DEF WipInv, WipReleasedInProportion

LEMMA WipInvariant == Spec => []WipInv
<1>1. WipInv /\ [Next]_vars => WipInv'
  BY WipStep, TypesStep DEF WipInv
<1> QED BY <1>1, WipInit, PTL DEF Spec

-----------------------------------------------------------------------------
(* All types, the amounts that come from sums included.                    *)

\* What belongs to no document of an order: the gate of the phase, and payments.
GateAndPayments ==
  /\ gateReady \in BOOLEAN
  /\ payment \in [Payments -> Payment]

LEMMA GateAndPaymentsStep ==
  ASSUME GateAndPayments, [Next]_vars PROVE GateAndPayments'
<1>1. CASE gateReady' = gateReady /\ payment' = payment
  BY <1>1 DEF GateAndPayments
<1>2. CASE UpsertStageGate
  BY <1>2 DEF UpsertStageGate, GateAndPayments
<1>3. ASSUME NEW p \in Payments, NEW i, NEW amount \in PaymentAmounts,
             RegisterPayment(p, i, amount)
      PROVE  GateAndPayments'
  <2>1. [state |-> "Applied", amount |-> amount] \in Payment
    BY InputsAssumption DEF Payment
  <2> QED
    BY <1>3, <2>1 DEF RegisterPayment, GateAndPayments
<1>4. ASSUME NEW p \in Payments, NEW to \in {"Reconciled", "Cancelled"}, MovePayment(p, to)
      PROVE  GateAndPayments'
  <2>1. [payment[p] EXCEPT !.state = to] \in Payment
    BY DEF GateAndPayments, Payment
  <2>2. payment' = [payment EXCEPT ![p] = [payment[p] EXCEPT !.state = to]]
    BY <1>4 DEF MovePayment
  <2> QED
    BY <1>4, <2>1, <2>2 DEF MovePayment, GateAndPayments
<1>5. OrderStep \/ InvoiceStep => gateReady' = gateReady /\ payment' = payment
  BY DEF OrderStep, InvoiceStep, MoveOrder, PostInvoice, CancelInvoice, GenerateInvoice
<1>6. MilestoneStep => UpsertStageGate \/ (gateReady' = gateReady /\ payment' = payment)
  BY DEF MilestoneStep, CreateMilestone, ApproveUnbilled, ApproveAgain, ApproveAndBill,
         PostLaborCost
<1>7. CASE UNCHANGED vars
  BY <1>1, <1>7 DEF vars
<1>8. CASE PaymentStep
  BY <1>3, <1>4, <1>8 DEF PaymentStep
<1> QED
  BY <1>1, <1>2, <1>5, <1>6, <1>7, <1>8 DEF Next

\* Every row, balance and amount has its type, in every reachable state.
THEOREM TypeCorrect == Spec => []TypeOK
<1>1. Spec => []GateAndPayments
  <2>1. Init => GateAndPayments
    <3>1. [state |-> "None", amount |-> 0] \in Payment
      BY DEF Payment
    <3> QED
      BY <3>1 DEF Init, GateAndPayments
  <2> QED
    BY <2>1, GateAndPaymentsStep, PTL DEF Spec
<1>2. DocumentsInv /\ WipInv /\ GateAndPayments => TypeOK
  <2> SUFFICES ASSUME DocumentsInv, WipInv, GateAndPayments PROVE TypeOK
    OBVIOUS
  <2>1. ASSUME NEW m \in Milestones PROVE milestone[m] \in Milestone
    BY DEF DocumentsInv, DocumentTypes, WipInv, WipTypes, Milestone
  <2>2. milestone = [m \in Milestones |-> milestone[m]]
    BY DEF DocumentsInv, DocumentTypes
  <2>3. milestone \in [Milestones -> Milestone]
    BY <2>1, <2>2
  <2> QED
    BY <2>3 DEF DocumentsInv, DocumentTypes, AccruedWithInvoice, WipInv, WipTypes,
                GateAndPayments, TypeOK
<1> QED
  BY <1>1, <1>2, DocumentsInvariant, WipInvariant, PTL

\* The billing state of a service order, and the labour released from work in
\* progress, follow what is billed and approved of the milestones
\* (invoiceService.ts:527, :640-642, :762).
THEOREM BillingFollows == Spec => []BillingAgrees
<1>1. BillingInv /\ WipInv => BillingAgrees
  BY DEF BillingInv, WipInv, BillingAgrees
<1> QED BY <1>1, BillingInvariant, WipInvariant, PTL
=============================================================================
