----------------------------- MODULE MCServices -----------------------------
(* Instances for TLC of twelve modules: Contractors, Projections, Inventory,    *)
(* ApprovalQueue, CaiplSessions, Projects, GeneralLedger, Contracts,            *)
(* EngineRules, Identity, Navigator and Purchasing.  They share no state, so one *)
(* run checks them all: a behaviour is about one of them, and the others stay as *)
(* they were.                                                                   *)
EXTENDS Contractors, Projections, Inventory, ApprovalQueue, CaiplSessions, Projects,
        GeneralLedger, Contracts, EngineRules, Identity, Navigator,
        Purchasing, TLC

CONSTANTS split, unrated, i1, i2, p1, p2, agency, a1, a2, c1

VARIABLE part

allVars == <<part, contractorVars, projectionVars, inventoryVars, queueVars, caiplVars,
             projectVars, glVars, contractsVars, rulesVars, identityVars, navigatorVars,
             purchasingVars>>

TheKinds == [l \in Lines |-> IF l = split THEN "contractor" ELSE "unrated"]
\* Two invoices may share the line that a contractor is paid for.
TheCosts == [l \in Lines |-> IF l = split THEN 2 ELSE 1]
TheLineSuppliers == [l \in Lines |-> agency]
\* Tasks with an estimate, and without one though hours remain.
TheEstimates == {<<1, 1>>, <<0, 1>>}
TheInvoiceSuppliers == [i \in SupplierInvoices |-> agency]
\* Above 50 an amount takes the highest tier.
TheAmountRules == {[over |-> 50, tier |-> 4]}

Named(type, x, spelling) == [type |-> type, about |-> x, spelling |-> spelling, named |-> TRUE]
Unnamed(type, x, spelling) == [Named(type, x, spelling) EXCEPT !.named = FALSE]
\* What the authority-engine maps, what the governance-engine records, a credential and
\* an assignment that are told of without a name, and an event as the ERP emits it.
TheEvents ==
  {Named("EmployeeTerminated", Employee, "canonical"), Named("PositionCreated", Position, "canonical"),
   Named("AssignmentEnded", a1, "canonical"), Named("AssignmentEnded", a1, "prefixed"),
   Named("CredentialIssued", c1, "canonical"), Unnamed("CredentialRevoked", c1, "prefixed"),
   Named("AssignmentCreated", a1, "dotted"), Unnamed("AssignmentCreated", a1, "canonical")}
    \cup {Named("AssignmentCreated", a, "canonical") : a \in Assignments}
\* The employee is seeded, the position is not.
TheSeeds(e) == IF e = "authority" THEN {Employee} ELSE {}

ServicesInit ==
  /\ part \in {"contractors", "projections", "inventory", "queue", "caipl", "projects",
               "ledger", "contracts", "rules", "identity", "navigator", "purchasing"}
  /\ ContractorsInit /\ ProjectionsInit /\ InventoryInit /\ QueueInit
  /\ CaiplInit /\ ProjectsInit /\ GeneralLedgerInit /\ ContractsInit
  /\ RulesInit /\ IdentityInit /\ NavigatorInit /\ PurchasingInit
  /\ part = "projections" \/ engine = "authority"
  /\ seeded = TheSeeds(engine)
  /\ part = "inventory" \/ (method = "moving_average" /\ standard = 1)
  /\ part = "queue" \/ flagged = FALSE
  /\ part = "navigator" \/ steps = [c \in Callers |-> Rank]

ServicesNext ==
  \/ /\ part = "contractors"
     /\ UNCHANGED <<part, projectionVars, inventoryVars, queueVars, caiplVars,
                    projectVars, glVars, contractsVars, rulesVars, identityVars,
                    navigatorVars, purchasingVars>>
     /\ ContractorsNext
  \/ /\ part = "projections"
     /\ UNCHANGED <<part, contractorVars, inventoryVars, queueVars, caiplVars,
                    projectVars, glVars, contractsVars, rulesVars, identityVars,
                    navigatorVars, purchasingVars>>
     /\ ProjectionsNext
  \/ /\ part = "inventory"
     /\ UNCHANGED <<part, contractorVars, projectionVars, queueVars, caiplVars,
                    projectVars, glVars, contractsVars, rulesVars, identityVars,
                    navigatorVars, purchasingVars>>
     /\ InventoryNext
  \/ /\ part = "queue"
     /\ UNCHANGED <<part, contractorVars, projectionVars, inventoryVars, caiplVars,
                    projectVars, glVars, contractsVars, rulesVars, identityVars,
                    navigatorVars, purchasingVars>>
     /\ QueueNext
  \/ /\ part = "caipl"
     /\ UNCHANGED <<part, contractorVars, projectionVars, inventoryVars, queueVars,
                    projectVars, glVars, contractsVars, rulesVars, identityVars,
                    navigatorVars, purchasingVars>>
     /\ CaiplNext
  \/ /\ part = "projects"
     /\ UNCHANGED <<part, contractorVars, projectionVars, inventoryVars, queueVars,
                    caiplVars, glVars, contractsVars, rulesVars, identityVars,
                    navigatorVars, purchasingVars>>
     /\ ProjectsNext
  \/ /\ part = "ledger"
     /\ UNCHANGED <<part, contractorVars, projectionVars, inventoryVars, queueVars,
                    caiplVars, projectVars, contractsVars, rulesVars, identityVars,
                    navigatorVars, purchasingVars>>
     /\ GeneralLedgerNext
  \/ /\ part = "contracts"
     /\ UNCHANGED <<part, contractorVars, projectionVars, inventoryVars, queueVars,
                    caiplVars, projectVars, glVars, rulesVars, identityVars,
                    navigatorVars, purchasingVars>>
     /\ ContractsNext
  \/ /\ part = "rules"
     /\ UNCHANGED <<part, contractorVars, projectionVars, inventoryVars, queueVars,
                    caiplVars, projectVars, glVars, contractsVars, identityVars,
                    navigatorVars, purchasingVars>>
     /\ RulesNext
  \/ /\ part = "identity"
     /\ UNCHANGED <<part, contractorVars, projectionVars, inventoryVars, queueVars,
                    caiplVars, projectVars, glVars, contractsVars, rulesVars,
                    navigatorVars, purchasingVars>>
     /\ IdentityNext
  \/ /\ part = "navigator"
     /\ UNCHANGED <<part, contractorVars, projectionVars, inventoryVars, queueVars,
                    caiplVars, projectVars, glVars, contractsVars, rulesVars,
                    identityVars, purchasingVars>>
     /\ NavigatorNext
  \/ /\ part = "purchasing"
     /\ UNCHANGED <<part, contractorVars, projectionVars, inventoryVars, queueVars,
                    caiplVars, projectVars, glVars, contractsVars, rulesVars,
                    identityVars, navigatorVars>>
     /\ PurchasingNext

ServicesSpec == ServicesInit /\ [][ServicesNext]_allVars

\* What f is on S, but not where
Values(f, S) == {<<f[x], Cardinality({y \in S : f[y] = f[x]})>> : x \in S}

\* Suppliers' invoices are alike, and so are the payments: which of them has which
\* row makes no difference.
PaymentsOf(i) ==
  Values([p \in ApPayments |-> <<apPayment[p].state, apPayment[p].amount>>],
         {p \in ApPayments : apPayment[p].invoice = i})
InvoicesSeen ==
  Values([i \in SupplierInvoices |-> <<invoice[i], PaymentsOf(i)>>], SupplierInvoices)

\* States that differ in nothing else are the same; the variables of the other parts
\* never change.
Seen == <<part,
  CASE part = "contractors" -> <<timesheets, accrual, liability, payable, InvoicesSeen>>
    [] part = "projections" -> <<engine, seeded, feed, Values(poll, Polls), cursor, view,
                                 history, announced, overtaken>>
    [] part = "inventory" -> inventoryVars
    [] part = "queue" -> queueVars
    [] part = "caipl" -> caiplVars
    [] part = "projects" -> projectVars
    [] part = "ledger" -> glVars
    [] part = "contracts" -> contractsVars
    [] part = "rules" -> rulesVars
    [] part = "identity" -> identityVars
    [] part = "navigator" -> navigatorVars
    [] part = "purchasing" -> purchasingVars>>

\* Every variable of the parts holds what its table holds.
ServicesTypeOK ==
  /\ ContractorsTypeOK /\ ProjectionsTypeOK /\ InventoryTypeOK /\ QueueTypeOK
  /\ CaiplTypeOK /\ ProjectsTypeOK /\ GeneralLedgerTypeOK /\ ContractsTypeOK
  /\ RulesTypeOK /\ IdentityTypeOK /\ NavigatorTypeOK /\ PurchasingTypeOK
=============================================================================
