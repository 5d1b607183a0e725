---- MODULE ProcessTables ----
(***************************************************************************)
(* The tables of one business object: the life cycle that Foundation ERP   *)
(* enforces, the state that process-graph's reducers give an event, and    *)
(* the transitions that the graph offers.  All are records with one field  *)
(* for each type of aggregate.                                             *)
(*                                                                         *)
(* An event is named after the ERP state it announces ("Sent" stands for   *)
(* po.sent); a reducer that has no entry for the name the ERP gives to     *)
(* that event does not have the label in its domain.                       *)
(***************************************************************************)

\* ---- Foundation ERP: <<state, action, state reached>> ----

RequisitionMoves ==
    { <<"Draft", "submit", "Submitted">>, <<"Submitted", "approve", "Approved">>,
      <<"Submitted", "reject", "Rejected">>, <<"Approved", "convertToPO", "ConvertedToPO">> }
      \cup ({"Draft", "Submitted", "Approved"} \X {"cancel"} \X {"Cancelled"})

\* The acceptance of a receipt writes the state of its order whatever that is:
\* an order that was cancelled or closed with a receipt outstanding moves again.
ReceiptMovesOrder ==
    {"Sent", "PartiallyReceived", "FullyReceived", "Closed", "Cancelled"}
      \X {"acceptReceipt"} \X {"PartiallyReceived", "FullyReceived"}

PurchaseOrderMoves ==
    { <<"Draft", "approve", "Approved">>, <<"Approved", "send", "Sent">>,
      <<"Sent", "receive", "PartiallyReceived">> }
      \cup ({"Sent", "PartiallyReceived"} \X {"receive"} \X {"FullyReceived"})
      \cup ({"Draft", "Approved", "Sent"} \X {"cancel"} \X {"Cancelled"})
      \cup ({"PartiallyReceived", "FullyReceived"} \X {"close"} \X {"Closed"})
      \cup ReceiptMovesOrder

GoodsReceiptMoves ==
    { <<"Draft", "receive_goods", "Received">>, <<"Received", "accept_goods", "Accepted">> }

SupplierMoves ==
    { <<"Draft", "activate", "Active">>, <<"Active", "suspend", "Suspended">>,
      <<"Suspended", "activate", "Active">> }

SupplierInvoiceMoves ==
    { <<"Draft", "validate", "Validated">>, <<"Validated", "post", "Posted">>,
      <<"Posted", "applyPayment", "Paid">> }
      \cup ({"Draft", "Validated", "Posted"} \X {"cancel"} \X {"Cancelled"})

ApPaymentMoves ==
    { <<"Draft", "receive", "Received">>, <<"Received", "apply", "Applied">>,
      <<"Applied", "reconcilePayment", "Reconciled">> }
      \cup ({"Draft", "Received"} \X {"cancel"} \X {"Cancelled"})

QuoteMoves ==
    { <<"Draft", "send", "Sent">>, <<"Sent", "accept", "Accepted">>, <<"Sent", "expire", "Expired">>,
      <<"Accepted", "convertToOrder", "ConvertedToOrder">> }
      \cup ({"Draft", "Sent"} \X {"reject"} \X {"Rejected"})

CustomerMoves == {<<"Draft", "activate", "Active">>}

ShipmentMoves ==
    { <<"Planned", "ship", "Shipped">>, <<"Shipped", "deliver", "Delivered">> }
      \cup ({"Planned", "Shipped"} \X {"cancel"} \X {"Cancelled"})

\* The payment of an invoice writes "Paid" whatever the state of its order is.
SalesOrderMoves ==
    { <<"Draft", "confirm", "Confirmed">>, <<"Confirmed", "allocate", "Allocated">>,
      <<"Allocated", "ship", "Shipped">>, <<"Shipped", "invoice", "Invoiced">>,
      <<"Paid", "close", "Closed">> }
      \cup ({"Confirmed", "Allocated", "Shipped", "Invoiced", "Paid", "Closed", "Cancelled"}
               \X {"pay"} \X {"Paid"})
      \cup ({"Draft", "Confirmed", "Allocated", "Shipped"} \X {"cancel"} \X {"Cancelled"})

\* "PartPaid" is a Posted invoice with an amount paid; only an unpaid one can be
\* cancelled.
ArInvoiceMoves ==
    { <<"Draft", "post", "Posted">>, <<"Paid", "applyPayment", "Paid">> }
      \cup ({"Posted", "PartPaid"} \X {"applyPayment"} \X {"PartPaid", "Paid"})
      \cup ({"Draft", "Posted"} \X {"cancel"} \X {"Cancelled"})

ArPaymentMoves ==
    { <<"Applied", "reconcile", "Reconciled">>, <<"Applied", "cancel", "Cancelled">> }

JournalMoves ==
    { <<"Draft", "post", "Posted">>, <<"Posted", "reverse", "Reversed">>,
      <<"Draft", "cancel", "Cancelled">> }

FiscalYearMoves ==
    { <<"Open", "beginClose", "Closing">>, <<"Open", "close", "Closed">>,
      <<"Closing", "close", "Closed">> }

FiscalPeriodMoves ==
    { <<"Open", "beginClose", "Closing">>, <<"Open", "close", "Closed">>,
      <<"Closing", "close", "Closed">>, <<"Closed", "lock", "Locked">> }

EmployeeMoves ==
    { <<"Candidate", "activate", "Active">>, <<"Active", "goOnLeave", "OnLeave">>,
      <<"OnLeave", "returnFromLeave", "Active">> }
      \cup ({"Active", "OnLeave"} \X {"terminate"} \X {"Terminated"})

AssignmentMoves ==
    { <<"Planned", "activate", "Active">>, <<"Active", "complete", "Completed">> }
      \cup ({"Planned", "Active"} \X {"cancel"} \X {"Cancelled"})

CredentialMoves ==
    { <<"Valid", "expire", "Expired">>, <<"Valid", "revoke", "Revoked">> }

\* Anything that is not cancelled can be, a completed project too.
ProjectMoves ==
    { <<"Draft", "activate", "Active">>, <<"Active", "hold", "OnHold">>, <<"OnHold", "resume", "Active">> }
      \cup ({"Active", "OnHold"} \X {"complete"} \X {"Completed"})
      \cup ({"Draft", "Active", "OnHold", "Completed"} \X {"cancel"} \X {"Cancelled"})

ErpMoves ==
    [ requisition |-> RequisitionMoves, purchaseOrder |-> PurchaseOrderMoves,
      goodsReceipt |-> GoodsReceiptMoves, supplier |-> SupplierMoves,
      supplierInvoice |-> SupplierInvoiceMoves, apPayment |-> ApPaymentMoves,
      quote |-> QuoteMoves, salesOrder |-> SalesOrderMoves, arInvoice |-> ArInvoiceMoves,
      arPayment |-> ArPaymentMoves, journal |-> JournalMoves, fiscalPeriod |-> FiscalPeriodMoves,
      employee |-> EmployeeMoves, assignment |-> AssignmentMoves, credential |-> CredentialMoves,
      customer |-> CustomerMoves, shipment |-> ShipmentMoves, fiscalYear |-> FiscalYearMoves,
      project |-> ProjectMoves ]

Kinds == DOMAIN ErpMoves

\* What the handler that creates the object leaves behind: its state and the events
\* it emits.  A payment on an invoice is registered and applied in one handler, an
\* automatic journal is created and posted in one; an employee may start as active.
Births ==
    [k \in Kinds |->
        CASE k = "arPayment"    -> {<<"Applied", <<"Received", "Applied">>>>}
          [] k = "journal"      -> {<<"Draft", <<"Draft">>>>, <<"Posted", <<"Draft", "Posted">>>>}
          [] k \in {"fiscalPeriod", "fiscalYear"} -> {<<"Open", <<"Open">>>>}
          [] k = "employee"     -> {<<"Candidate", <<"Candidate">>>>, <<"Active", <<"Candidate">>>>}
          [] k \in {"assignment", "shipment"} -> {<<"Planned", <<"Planned">>>>}
          [] k = "credential"   -> {<<"Valid", <<"Valid">>>>}
          [] OTHER              -> {<<"Draft", <<"Draft">>>>}]

\* ---- process-graph: the reducers, for the aggregates that it has one for ----

Same(S) == [s \in S |-> s]
With(f, event, state) == [e \in DOMAIN f \cup {event} |-> IF e = event THEN state ELSE f[e]]

\* Mutant: the event po.sent is taken for the state of that name.
P2PReducerSent ==
    [ requisition |->
        Same({"Draft", "Submitted", "Approved", "Rejected", "ConvertedToPO", "Cancelled"}),
      purchaseOrder |->
        Same({"Draft", "Approved", "Sent", "PartiallyReceived", "FullyReceived", "Closed",
              "Cancelled"}),
      goodsReceipt |-> Same({"Draft", "Received", "Accepted"}),
      supplier |-> Same({"Draft", "Active", "Suspended", "Inactive"}),
      supplierInvoice |-> Same({}),
      apPayment |-> Same({}) ]

\* The names of supplier invoices and payments in the table (SupplierInvoicePosted)
\* are not those that the ERP emits (invoice.posted).
P2PReducer ==
    [ requisition |->
        Same({"Draft", "Submitted", "Approved", "Rejected", "ConvertedToPO", "Cancelled"}),
      purchaseOrder |->
        With(Same({"Draft", "Approved", "PartiallyReceived", "FullyReceived", "Closed",
                   "Cancelled"}), "Sent", "Issued"),
      goodsReceipt |-> Same({"Draft", "Received", "Accepted"}),
      supplier |-> Same({"Draft", "Active", "Suspended", "Inactive"}),
      supplierInvoice |-> Same({}),
      apPayment |-> Same({}) ]

\* There is no entry for the expiry of a quote.
O2CReducer ==
    [ quote |-> Same({"Draft", "Sent", "Accepted", "Rejected", "ConvertedToOrder", "Cancelled"}),
      salesOrder |->
        Same({"Draft", "Confirmed", "Allocated", "Shipped", "Invoiced", "Paid", "Closed",
              "Cancelled"}),
      arInvoice |->
        With(With(Same({"Draft", "Posted", "Cancelled"}), "PartPaid", "PartiallyPaid"),
             "Paid", "FullyPaid"),
      arPayment |-> Same({"Received", "Applied", "Reconciled", "Cancelled"}) ]

\* There is no entry for the cancellation of a journal.
R2RReducer ==
    [ journal |-> Same({"Draft", "Posted", "Reversed"}),
      fiscalPeriod |-> With(Same({"Open", "Closed", "Locked"}), "Closing", "PendingClose") ]

H2RReducer ==
    [ employee |-> Same({"Candidate", "Active", "OnLeave", "Terminated"}),
      assignment |-> Same({"Planned", "Active", "Completed", "Cancelled"}),
      credential |-> Same({"Valid", "Expired", "Revoked"}) ]

Reducer ==
    [k \in Kinds |-> CASE k \in DOMAIN P2PReducer -> P2PReducer[k]
                       [] k \in DOMAIN O2CReducer -> O2CReducer[k]
                       [] k \in DOMAIN R2RReducer -> R2RReducer[k]
                       [] k \in DOMAIN H2RReducer -> H2RReducer[k]
                       [] OTHER                   -> Same({})]

\* ---- process-graph: the transitions, <<state, action, first state reached>> ----

PurchaseTransitions ==
    [ requisition |->
        { <<"Draft", "submit", "Submitted">>, <<"Submitted", "approve", "Approved">>,
          <<"Submitted", "reject", "Rejected">>, <<"Approved", "convertToPO", "ConvertedToPO">> }
          \cup ({"Draft", "Submitted", "Approved"} \X {"cancel"} \X {"Cancelled"}),
      purchaseOrder |->
        { <<"Draft", "approve", "Approved">>, <<"Approved", "send", "Issued">>,
          <<"Issued", "acknowledge", "Acknowledged">>, <<"FullyReceived", "invoice", "Invoiced">>,
          <<"FullyPaid", "close", "Closed">> }
          \cup ({"Issued", "Acknowledged", "PartiallyReceived"} \X {"receive"} \X {"PartiallyReceived"})
          \cup ({"Draft", "Approved", "Issued", "Acknowledged"} \X {"cancel"} \X {"Cancelled"}),
      goodsReceipt |->
        { <<"Draft", "receive_goods", "Received">>, <<"Received", "accept_goods", "Accepted">> } ]

PayableTransitions ==
    [ supplierInvoice |->
        { <<"Draft", "validate", "Validated">>, <<"Validated", "post", "Posted">> }
          \cup ({"Posted", "PartiallyPaid"} \X {"applyPayment"} \X {"PartiallyPaid"})
          \cup ({"Draft", "Validated", "Posted"} \X {"cancel"} \X {"Cancelled"}),
      apPayment |->
        { <<"Initiated", "approvePayment", "Approved">>, <<"Approved", "executePayment", "Executed">>,
          <<"Executed", "reconcilePayment", "Reconciled">> }
          \cup ({"Initiated", "Approved"} \X {"cancel"} \X {"Cancelled"}),
      supplier |->
        { <<"Draft", "activate", "Active">>, <<"Active", "suspend", "Suspended">>,
          <<"Suspended", "reactivate", "Active">> }
          \cup ({"Active", "Suspended"} \X {"deactivate"} \X {"Inactive"}) ]

\* Mutant: an order can be cancelled up to its invoice.
O2CTransitionsLateCancel ==
    [ quote |-> {},
      salesOrder |->
        { <<"Draft", "confirm", "Confirmed">>, <<"Confirmed", "allocate", "Allocated">>,
          <<"Allocated", "ship", "Shipped">>, <<"Shipped", "invoice", "Invoiced">>,
          <<"Paid", "close", "Closed">> }
          \cup ({"Draft", "Confirmed", "Allocated", "Shipped", "Invoiced"} \X {"cancel"} \X {"Cancelled"}),
      arInvoice |-> {},
      arPayment |-> {} ]

O2CTransitions ==
    [ quote |->
        { <<"Draft", "send", "Sent">>, <<"Sent", "accept", "Accepted">>, <<"Sent", "reject", "Rejected">>,
          <<"Accepted", "convertToOrder", "ConvertedToOrder">> }
          \cup ({"Draft", "Sent", "Accepted"} \X {"cancel"} \X {"Cancelled"}),
      salesOrder |->
        { <<"Draft", "confirm", "Confirmed">>, <<"Confirmed", "allocate", "Allocated">>,
          <<"Allocated", "ship", "Shipped">>, <<"Shipped", "invoice", "Invoiced">>,
          <<"Paid", "close", "Closed">> }
          \cup ({"Draft", "Confirmed", "Allocated"} \X {"cancel"} \X {"Cancelled"}),
      arInvoice |->
        { <<"Draft", "post", "Posted">>, <<"Draft", "cancel", "Cancelled">> }
          \cup ({"Posted", "PartiallyPaid"} \X {"applyPayment"} \X {"PartiallyPaid"})
          \cup ({"Posted", "PartiallyPaid"} \X {"writeOff"} \X {"WrittenOff"}),
      arPayment |->
        { <<"Received", "apply", "Applied">>, <<"Applied", "reconcile", "Reconciled">> }
          \cup ({"Received", "Applied"} \X {"cancel"} \X {"Cancelled"}) ]

R2RTransitions ==
    [ journal |->
        { <<"Draft", "post", "Posted">>, <<"Posted", "reverse", "Reversed">>, <<"Posted", "adjust", "Adjusted">> }
          \cup ({"Posted", "Adjusted"} \X {"lock"} \X {"Locked"}),
      fiscalPeriod |->
        { <<"Open", "beginClose", "PendingClose">>, <<"PendingClose", "close", "Closed">>,
          <<"Closed", "reopen", "Reopened">> } ]

H2RTransitions ==
    [ employee |->
        { <<"Candidate", "onboard", "Onboarding">>, <<"Onboarding", "activate", "Active">>,
          <<"Active", "goOnLeave", "OnLeave">>, <<"OnLeave", "returnFromLeave", "Active">>,
          <<"Active", "retire", "Retired">> }
          \cup ({"Active", "OnLeave"} \X {"terminate"} \X {"Terminated"}),
      assignment |->
        { <<"Planned", "activate", "Active">>, <<"Active", "complete", "Completed">> }
          \cup ({"Planned", "Active"} \X {"cancel"} \X {"Cancelled"}),
      credential |-> { <<"Valid", "expire", "Expired">>, <<"Valid", "revoke", "Revoked">> } ]

GraphTransitions ==
    [k \in Kinds |-> CASE k \in DOMAIN PurchaseTransitions -> PurchaseTransitions[k]
                       [] k \in DOMAIN PayableTransitions  -> PayableTransitions[k]
                       [] k \in DOMAIN O2CTransitions      -> O2CTransitions[k]
                       [] k \in DOMAIN R2RTransitions      -> R2RTransitions[k]
                       [] k \in DOMAIN H2RTransitions      -> H2RTransitions[k]
                       [] OTHER                            -> {}]

GraphActions(k) == {t[2] : t \in GraphTransitions[k]}

\* findTransition and its fromStates.
Offers(k, state, a) == \E t \in GraphTransitions[k] : t[1] = state /\ t[2] = a
====
