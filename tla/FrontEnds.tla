---- MODULE FrontEnds ----
(***************************************************************************)
(* The ways to an operation of Foundation ERP.  Its HTTP API has a route   *)
(* for each of the operations it exposes, and answers every read with the  *)
(* links of the routes that it offers in the object's state; its MCP       *)
(* server looks at the state itself before it calls the operation.  The    *)
(* integration hub and process-graph come through the mesh: the hub with   *)
(* the word its catalogue has for an action, process-graph with its own,   *)
(* and the mesh's adapter turns the word into a segment of the route.      *)
(***************************************************************************)
EXTENDS ProcessTables

\* ---- The ERP's HTTP API: route segment to operation ----

SalesRoutes ==
    [ customer |-> Same({"activate"}),
      quote |-> With(Same({"send", "accept", "reject", "expire"}), "convert", "convertToOrder"),
      salesOrder |->
        With(Same({"confirm", "allocate", "ship", "close", "cancel"}), "generate-invoice", "invoice") ]

BillingRoutes ==
    [ shipment |-> Same({"ship", "deliver", "cancel"}),
      arInvoice |-> Same({"post", "cancel"}),
      arPayment |-> Same({"apply", "reconcile", "cancel"}) ]

RequisitionRoutes == With(Same({"submit", "approve", "reject", "cancel"}), "convert", "convertToPO")

PurchaseRoutes ==
    [ supplier |-> Same({"activate", "suspend"}),
      requisition |-> RequisitionRoutes,
      purchaseOrder |->
        With(Same({"approve", "send", "close", "cancel"}), "receive-goods", "receive") ]

PayableRoutes ==
    [ goodsReceipt |-> With(With(Same({}), "receive", "receive_goods"), "accept", "accept_goods"),
      supplierInvoice |-> Same({"validate", "post", "cancel"}),
      apPayment |-> With(Same({"receive", "apply", "cancel"}), "reconcile", "reconcilePayment") ]

LedgerRoutes ==
    [ fiscalYear |-> With(Same({"close"}), "start-close", "beginClose"),
      fiscalPeriod |-> With(Same({"close", "lock"}), "start-close", "beginClose"),
      journal |-> Same({"post", "reverse", "cancel"}) ]

StaffRoutes ==
    [ employee |->
        With(With(Same({"activate", "terminate"}), "leave", "goOnLeave"), "return", "returnFromLeave"),
      assignment |-> With(Same({"activate", "complete", "cancel"}), "end", "complete"),
      credential |-> Same({"expire", "revoke"}) ]

ProjectRoutes == [project |-> Same({"activate", "hold", "resume", "complete", "cancel"})]

Routes ==
    [k \in Kinds |-> CASE k \in DOMAIN SalesRoutes    -> SalesRoutes[k]
                       [] k \in DOMAIN BillingRoutes  -> BillingRoutes[k]
                       [] k \in DOMAIN PurchaseRoutes -> PurchaseRoutes[k]
                       [] k \in DOMAIN PayableRoutes  -> PayableRoutes[k]
                       [] k \in DOMAIN LedgerRoutes   -> LedgerRoutes[k]
                       [] k \in DOMAIN StaffRoutes    -> StaffRoutes[k]
                       [] OTHER                       -> ProjectRoutes[k]]

\* ---- The ERP's hypermedia: <<state, route segment>> of each link ----

CustomerLinks == {<<"Draft", "activate">>}

QuoteLinks ==
    ({"Draft"} \X {"send", "reject"}) \cup ({"Sent"} \X {"accept", "reject", "expire"})
      \cup {<<"Accepted", "convert">>}

OrderLinks ==
    { <<"Draft", "confirm">>, <<"Confirmed", "allocate">>, <<"Allocated", "ship">>,
      <<"Shipped", "generate-invoice">>, <<"Shipped", "close">> }
      \cup ({"Draft", "Confirmed", "Allocated", "Shipped"} \X {"cancel"})

ShipmentLinks == ({"Planned"} \X {"ship", "cancel"}) \cup ({"Shipped"} \X {"deliver", "cancel"})

InvoiceLinks == ({"Draft"} \X {"post", "cancel"}) \cup {<<"Posted", "cancel">>}

PaymentLinks == ({"Received"} \X {"apply", "cancel"}) \cup ({"Applied"} \X {"reconcile", "cancel"})

SupplierLinks == {<<"Draft", "activate">>, <<"Active", "suspend">>}

RequisitionLinks ==
    { <<"Draft", "submit">>, <<"Submitted", "approve">>, <<"Submitted", "reject">>,
      <<"Approved", "convert">> }
      \cup ({"Draft", "Submitted", "Approved"} \X {"cancel"})

PurchaseOrderLinks ==
    { <<"Draft", "approve">>, <<"Approved", "send">> }
      \cup ({"Draft", "Approved", "Sent", "PartiallyReceived"} \X {"cancel"})
      \cup ({"Sent", "PartiallyReceived"} \X {"receive-goods"})
      \cup ({"PartiallyReceived", "FullyReceived"} \X {"close"})

GoodsReceiptLinks == {<<"Draft", "receive">>, <<"Received", "accept">>}

SupplierInvoiceLinks ==
    { <<"Draft", "validate">>, <<"Validated", "post">> }
      \cup ({"Draft", "Validated", "Posted"} \X {"cancel"})

ApPaymentLinks ==
    ({"Draft"} \X {"receive", "cancel"}) \cup ({"Received"} \X {"apply", "cancel"})
      \cup {<<"Applied", "reconcile">>}

JournalLinks == ({"Draft"} \X {"post", "cancel"}) \cup {<<"Posted", "reverse">>}

FiscalYearLinks == ({"Open"} \X {"start-close", "close"}) \cup {<<"Closing", "close">>}

FiscalPeriodLinks ==
    ({"Open"} \X {"start-close", "close"}) \cup {<<"Closing", "close">>, <<"Closed", "lock">>}

EmployeeLinks ==
    { <<"Candidate", "activate">>, <<"Active", "leave">>, <<"OnLeave", "return">> }
      \cup ({"Active", "OnLeave"} \X {"terminate"})

AssignmentLinks ==
    ({"Planned"} \X {"activate", "cancel"}) \cup ({"Active"} \X {"complete", "cancel"})

CredentialLinks == {"Valid"} \X {"expire", "revoke"}

ProjectLinks ==
    { <<"Draft", "activate">>, <<"Active", "hold">>, <<"OnHold", "resume">> }
      \cup ({"Active", "OnHold"} \X {"complete"})
      \cup ({"Draft", "Active", "OnHold"} \X {"cancel"})

Links ==
    [ customer |-> CustomerLinks, quote |-> QuoteLinks, salesOrder |-> OrderLinks,
      shipment |-> ShipmentLinks, arInvoice |-> InvoiceLinks, arPayment |-> PaymentLinks,
      supplier |-> SupplierLinks, requisition |-> RequisitionLinks,
      purchaseOrder |-> PurchaseOrderLinks, goodsReceipt |-> GoodsReceiptLinks,
      supplierInvoice |-> SupplierInvoiceLinks, apPayment |-> ApPaymentLinks,
      journal |-> JournalLinks, fiscalYear |-> FiscalYearLinks, fiscalPeriod |-> FiscalPeriodLinks,
      employee |-> EmployeeLinks, assignment |-> AssignmentLinks, credential |-> CredentialLinks,
      project |-> ProjectLinks ]

\* ---- The ERP's MCP server: <<state, operation>> that its guard lets through.  It
\* looks for a credential that is "Active", a state that none ever has. ----

SalesTools ==
    [ customer |-> {<<"Draft", "activate">>},
      quote |->
        { <<"Draft", "send">>, <<"Sent", "accept">>, <<"Sent", "expire">>,
          <<"Accepted", "convertToOrder">> } \cup ({"Draft", "Sent"} \X {"reject"}),
      salesOrder |->
        { <<"Draft", "confirm">>, <<"Confirmed", "allocate">>, <<"Allocated", "ship">>,
          <<"Paid", "close">> }
          \cup ({"Confirmed", "Allocated", "Shipped"} \X {"invoice"})
          \cup ({"Draft", "Confirmed", "Allocated", "Shipped"} \X {"cancel"}),
      shipment |->
        {<<"Planned", "ship">>, <<"Shipped", "deliver">>} \cup ({"Planned", "Shipped"} \X {"cancel"}),
      arInvoice |-> {<<"Draft", "post">>, <<"Draft", "cancel">>, <<"Posted", "cancel">>},
      arPayment |->
        {<<"Received", "apply">>, <<"Applied", "reconcile">>} \cup ({"Received", "Applied"} \X {"cancel"}) ]

PurchaseTools ==
    [ requisition |->
        { <<"Draft", "submit">>, <<"Submitted", "approve">>, <<"Submitted", "reject">>,
          <<"Approved", "convertToPO">> } \cup ({"Draft", "Submitted", "Approved"} \X {"cancel"}),
      supplier |-> {<<"Draft", "activate">>, <<"Active", "suspend">>},
      purchaseOrder |->
        { <<"Draft", "approve">>, <<"Approved", "send">>, <<"FullyReceived", "close">> }
          \cup ({"Sent", "PartiallyReceived"} \X {"receive"})
          \cup ({"Draft", "Approved", "Sent"} \X {"cancel"}),
      goodsReceipt |-> {<<"Draft", "receive_goods">>, <<"Received", "accept_goods">>},
      supplierInvoice |->
        { <<"Draft", "validate">>, <<"Validated", "post">> }
          \cup ({"Draft", "Validated", "Posted"} \X {"cancel"}),
      apPayment |->
        { <<"Draft", "receive">>, <<"Received", "apply">>, <<"Applied", "reconcilePayment">> }
          \cup ({"Draft", "Received"} \X {"cancel"}) ]

LedgerTools ==
    [ fiscalYear |-> {<<"Open", "beginClose">>, <<"Closing", "close">>},
      fiscalPeriod |-> {<<"Open", "beginClose">>, <<"Closing", "close">>, <<"Closed", "lock">>},
      journal |-> {<<"Draft", "post">>, <<"Posted", "reverse">>, <<"Draft", "cancel">>} ]

StaffTools ==
    [ employee |->
        { <<"Candidate", "activate">>, <<"Active", "goOnLeave">>, <<"OnLeave", "returnFromLeave">> }
          \cup ({"Active", "OnLeave"} \X {"terminate"}),
      assignment |-> {<<"Planned", "activate">>, <<"Active", "complete">>, <<"Planned", "cancel">>},
      credential |-> {"Active"} \X {"expire", "revoke"} ]

ProjectTools ==
    [ project |->
        { <<"Draft", "activate">>, <<"Active", "hold">>, <<"OnHold", "resume">> }
          \cup ({"Active", "OnHold"} \X {"complete"})
          \cup ({"Draft", "Active", "OnHold", "Completed"} \X {"cancel"}) ]

Tools ==
    [k \in Kinds |-> CASE k \in DOMAIN SalesTools    -> SalesTools[k]
                       [] k \in DOMAIN PurchaseTools -> PurchaseTools[k]
                       [] k \in DOMAIN LedgerTools   -> LedgerTools[k]
                       [] k \in DOMAIN StaffTools    -> StaffTools[k]
                       [] OTHER                      -> ProjectTools[k]]

\* What is stored as the state of an invoice that is paid in part.
Column(state) == IF state = "PartPaid" THEN "Posted" ELSE state

\* ---- integration-hub: the graph's actions that its catalogue has a transition for,
\* with the word that the hub sends to the mesh ----

PurchaseWords ==
    [ requisition |-> With(Same({"submit", "approve"}), "convertToPO", "convert-to-po"),
      purchaseOrder |-> Same({"approve", "send"}),
      goodsReceipt |-> Same({"receive_goods", "accept_goods"}),
      supplier |-> Same({"activate", "suspend", "reactivate", "deactivate"}),
      supplierInvoice |-> Same({"post", "cancel"}) ]

SalesWords ==
    [ quote |-> With(Same({"send", "accept"}), "convertToOrder", "convert-to-order"),
      salesOrder |-> With(Same({"confirm", "allocate", "ship"}), "invoice", "generate-invoice"),
      arInvoice |-> Same({"post"}) ]

LedgerWords ==
    [ journal |-> With(With(Same({}), "post", "post_journal"), "reverse", "reverse_journal"),
      fiscalPeriod |->
        With(With(Same({}), "beginClose", "start_period_close"), "close", "close_fiscal_period") ]

StaffWords ==
    [ employee |->
        With(With(With(Same({}), "goOnLeave", "place_on_leave"),
                  "returnFromLeave", "return_from_leave"), "terminate", "terminate_employee") ]

CatalogueWord ==
    [k \in Kinds |-> CASE k \in DOMAIN PurchaseWords -> PurchaseWords[k]
                       [] k \in DOMAIN SalesWords    -> SalesWords[k]
                       [] k \in DOMAIN LedgerWords   -> LedgerWords[k]
                       [] k \in DOMAIN StaffWords    -> StaffWords[k]
                       [] OTHER                      -> Same({})]

HubActions == [k \in Kinds |-> DOMAIN CatalogueWord[k]]

\* ---- mesh-gateway: what its adapter makes of the words above that are not segments;
\* the others it sends as they are (it compares letters and digits only) ----

SegmentOf ==
    [ goodsReceipt |-> With(With(Same({}), "receive_goods", "receive"), "accept_goods", "accept"),
      journal |->
        With(With(With(Same({}), "post_journal", "post"), "reverse_journal", "reverse"),
             "cancel_journal", "cancel"),
      quote |-> With(With(Same({}), "convertToOrder", "convert"), "convert-to-order", "convert"),
      requisition |-> With(With(Same({}), "convertToPO", "convert"), "convert-to-po", "convert"),
      supplier |-> With(Same({}), "reactivate", "activate"),
      employee |->
        With(With(With(With(With(Same({}), "place_on_leave", "leave"), "return_from_leave", "return"),
                  "returnFromLeave", "return"), "terminate_employee", "terminate"),
             "activate_employee", "activate") ]

BackendAction(k, word) ==
    IF k \in DOMAIN SegmentOf /\ word \in DOMAIN SegmentOf[k] THEN SegmentOf[k][word] ELSE word

\* The operations of the ERP that an action reaches through the mesh: one, or none
\* when the word has no route (404).
Reached(k, channel, a) ==
    LET words == IF channel # "hub" THEN {a}
                 ELSE {CatalogueWord[k][b] : b \in {a} \cap HubActions[k]}
        segments == {BackendAction(k, word) : word \in words}
    IN  {Routes[k][segment] : segment \in segments \cap DOMAIN Routes[k]}
====
