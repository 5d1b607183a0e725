----------------------------- MODULE Contracts -----------------------------
(***************************************************************************)
(* What is agreed with a customer before anything is billed, in            *)
(* services/foundation-erp: a contract and its amendments                  *)
(* (domain/o2c/contract/contractService.ts), the quotes and the orders     *)
(* made of them (domain/o2c/quote, domain/o2c/order), the Service projects *)
(* that do the work, with their work breakdown (domain/proj/wbsService.ts, *)
(* projectService.ts), and the milestones that plan the billing.  An order *)
(* and a project are pinned to the version that was current when they were *)
(* made; a service line is mapped to an element of a project's breakdown,  *)
(* and billing (OrderToCash) relies on the mapping.                        *)
(*                                                                         *)
(* Handlers run to their end without yielding, and each makes its changes  *)
(* in one transaction.  The tables are sequences: a row is known by its    *)
(* number.  One customer has one contract; dates, currencies, taxes and    *)
(* the projects on the headers of orders are left out.  An order's life    *)
(* after its shipment is OrderToCash's, a project's is Projects'.          *)
(***************************************************************************)
EXTENDS Naturals, Sequences, FiniteSets, Functions

CONSTANTS
  ContractValues, Deliverables, \* of a version: its value, the length of its SoW
  Skus,
  Prices,          \* totals of quote lines
  Billings,        \* amounts of milestones
  MaxVersions, MaxQuotes, MaxQuoteLines, \* bounds on the rows: in all, and the
  MaxEngagements, MaxElements, MaxPlans  \* lines of one quote

ASSUME ContractsAssumption ==
  /\ ContractValues \subseteq Nat /\ Deliverables \subseteq Nat
  /\ Prices \subseteq Nat /\ Billings \subseteq Nat
  /\ MaxQuoteLines \in Nat

VARIABLES
  contract,    \* o2c_contract
  terms,       \* o2c_contract_version
  catalogue,   \* inv_sku: the types that SKUs have
  engagement,  \* proj_project, of type Service
  element,     \* proj_wbs_element
  quote,       \* o2c_quote and its lines
  order,       \* o2c_sales_order and its lines
  plan         \* proj_project_milestone, with an order line

contractsVars == <<contract, terms, catalogue, engagement, element, quote, order, plan>>
agreed == <<contract, terms>>
work == <<engagement, element>>
sales == <<quote, order>>

-----------------------------------------------------------------------------
None == 0   \* no version, project or element

ContractsInit ==
  /\ contract = [status |-> "None", current |-> None]
  /\ catalogue = [s \in Skus |-> "None"]
  /\ terms = <<>> /\ engagement = <<>> /\ element = <<>>
  /\ quote = <<>> /\ order = <<>> /\ plan = <<>>

\* createSku.  A quote may name a SKU before there is one, and its type then says
\* what the line is from now on.
CreateSku(s, type) ==
  /\ catalogue[s] = "None"
  /\ catalogue' = [catalogue EXCEPT ![s] = type]
  /\ UNCHANGED <<agreed, work, sales, plan>>

IsService(s) == catalogue[s] = "service"

-----------------------------------------------------------------------------
\* The contract.

AddDraft(value, n) ==
  terms' = Append(terms, [status |-> "Draft", value |-> value, deliverables |-> n])

CreateContract(value, n) ==
  /\ contract.status = "None"
  /\ contract' = [contract EXCEPT !.status = "Draft"]
  /\ AddDraft(value, n)
  /\ UNCHANGED <<catalogue, work, sales, plan>>

CreateContractAmendment(value, n) ==
  /\ Len(terms) < MaxVersions
  /\ contract.status = "Active"
  /\ \A v \in DOMAIN terms : terms[v].status # "Draft"
  /\ AddDraft(value, n)
  /\ UNCHANGED <<contract, catalogue, work, sales, plan>>

\* The version that was current is superseded.
Approved(v) ==
  [w \in DOMAIN terms |->
    IF w = v THEN [terms[w] EXCEPT !.status = "Approved"]
    ELSE IF w = contract.current THEN [terms[w] EXCEPT !.status = "Superseded"] ELSE terms[w]]

ApproveContractVersion(v) ==
  /\ terms[v].status = "Draft"
  /\ terms' = Approved(v)
  /\ contract' = [status |-> "Active", current |-> v]
  /\ UNCHANGED <<catalogue, work, sales, plan>>

\* assertApprovedContractVersion, and with superseded versions allowed.
IsCurrent(v) ==
  contract.status = "Active" /\ terms[v].status = "Approved" /\ contract.current = v
IsPinnable(v) ==
  IsCurrent(v) \/ (contract.status = "Active" /\ terms[v].status = "Superseded")

-----------------------------------------------------------------------------
\* Projects and their work breakdown.

Elements(e, v, sku, n) == [i \in 1..n |-> [project |-> e, version |-> v, sku |-> sku]]

\* createProject with the contract's current version: a root element, and one for each
\* deliverable of the statement of work.
CreateEngagement ==
  LET v == contract.current
      n == 1 + terms[v].deliverables
  IN  /\ Len(engagement) < MaxEngagements
      /\ v # None /\ IsCurrent(v)
      /\ Len(element) + n <= MaxElements
      /\ engagement' = Append(engagement, [status |-> "Open", version |-> v])
      /\ element' = element \o Elements(Len(engagement) + 1, v, {}, n)
      /\ UNCHANGED <<agreed, catalogue, sales, plan>>

\* The project is completed or cancelled.
EndEngagement(e) ==
  /\ engagement[e].status = "Open"
  /\ engagement' = [engagement EXCEPT ![e].status = "Ended"]
  /\ UNCHANGED <<agreed, catalogue, element, sales, plan>>

\* createProjectWbsElement, below the root, to deliver a service or nothing yet.
CreateElement(e, deliverable) ==
  /\ Len(element) < MaxElements
  /\ \A s \in deliverable : IsService(s)
  /\ element' = element \o Elements(e, engagement[e].version, deliverable, 1)
  /\ UNCHANGED <<agreed, catalogue, engagement, sales, plan>>

-----------------------------------------------------------------------------
\* Quotes.

CreateQuote ==
  /\ Len(quote) < MaxQuotes
  /\ quote' = Append(quote, [state |-> "Draft", total |-> 0, lines |-> <<>>])
  /\ UNCHANGED <<agreed, catalogue, work, order, plan>>

AddQuoteLine(q, s, price) ==
  /\ quote[q].state \in {"Draft", "Sent"}
  /\ Len(quote[q].lines) < MaxQuoteLines
  /\ quote' = [quote EXCEPT ![q].lines = Append(@, [sku |-> s, total |-> price]),
                            ![q].total = @ + price]
  /\ UNCHANGED <<agreed, catalogue, work, order, plan>>

QuoteTransitions == {<<"Draft", "Sent">>, <<"Draft", "Rejected">>, <<"Sent", "Accepted">>,
                     <<"Sent", "Rejected">>, <<"Sent", "Expired">>}

MoveQuote(q, to) ==
  /\ <<quote[q].state, to>> \in QuoteTransitions
  /\ quote' = [quote EXCEPT ![q].state = to]
  /\ UNCHANGED <<agreed, catalogue, work, order, plan>>

-----------------------------------------------------------------------------
\* Orders.

\* createOrderFromQuote, for a contract version and a project, or without.  Only what
\* is a service now is of the version.
CreateOrderFromQuote(q, v, e) ==
  LET lines == quote[q].lines
      Ordered(l) == [sku |-> l.sku, total |-> l.total, project |-> e, element |-> None,
                     version |-> IF IsService(l.sku) THEN v ELSE None]
  IN  /\ quote[q].state = "Accepted"
      /\ (\E i \in DOMAIN lines : IsService(lines[i].sku)) => v # None
      /\ v # None => IsCurrent(v)
      /\ (v # None /\ e # None) => engagement[e].version = v
      /\ order' = Append(order, [state |-> "Draft", version |-> v, total |-> quote[q].total,
                                 lines |-> [i \in DOMAIN lines |-> Ordered(lines[i])]])
      /\ quote' = [quote EXCEPT ![q].state = "ConvertedToOrder"]
      /\ UNCHANGED <<agreed, catalogue, work, plan>>

\* Order lines, known by their order and their number there.
OrderLines == {x \in (DOMAIN order) \X (1..MaxQuoteLines) : x[2] \in DOMAIN order[x[1]].lines}
LineAt(x) == order[x[1]].lines[x[2]]
OrderOf(x) == order[x[1]]

\* Mutant: lines may be mapped anew until the order is allocated.
MappableLate(o) == order[o].state \in {"Draft", "Confirmed"}
Mappable(o) == order[o].state = "Draft"

\* An element is mapped to one line (the unique index on wbs_element_id), of its
\* order's version and for what it is to deliver.
AssignOrderLineWbs(x, w) ==
  LET v == OrderOf(x).version
      e == element[w].project
  IN  /\ Mappable(x[1])
      /\ v # None /\ IsPinnable(v)
      /\ IsService(LineAt(x).sku)
      /\ engagement[e].status = "Open" /\ engagement[e].version = v
      /\ element[w].version = v /\ element[w].sku \subseteq {LineAt(x).sku}
      /\ \A y \in OrderLines \ {x} : LineAt(y).element # w
      /\ order' = [order EXCEPT ![x[1]].lines[x[2]] =
           [@ EXCEPT !.project = e, !.element = w, !.version = v]]
      /\ UNCHANGED <<agreed, catalogue, work, quote, plan>>

\* A service line's project and element are of the order's version.
IsMapped(l, v) ==
  /\ l.project # None /\ l.element # None /\ l.version = v
  /\ element[l.element].project = l.project
  /\ engagement[l.project].version = v /\ element[l.element].version = v

ConfirmOrder(o) ==
  LET services == {i \in DOMAIN order[o].lines : IsService(order[o].lines[i].sku)}
  IN  /\ order[o].state = "Draft"
      /\ services # {} =>
           /\ order[o].version # None /\ IsPinnable(order[o].version)
           /\ \A i \in services : IsMapped(order[o].lines[i], order[o].version)
      /\ order' = [order EXCEPT ![o].state = "Confirmed"]
      /\ UNCHANGED <<agreed, catalogue, work, quote, plan>>

OrderTransitions == {<<"Confirmed", "Allocated">>, <<"Allocated", "Shipped">>,
  <<"Draft", "Cancelled">>, <<"Confirmed", "Cancelled">>, <<"Allocated", "Cancelled">>,
  <<"Shipped", "Cancelled">>}

MoveOrder(o, to) ==
  /\ <<order[o].state, to>> \in OrderTransitions
  /\ order' = [order EXCEPT ![o].state = to]
  /\ UNCHANGED <<agreed, catalogue, work, quote, plan>>

-----------------------------------------------------------------------------
\* Milestones.

Planned(ms) == SumFunctionOnSet([m \in DOMAIN plan |-> plan[m].amount], ms)
PlannedForLine(x) == Planned({m \in DOMAIN plan : plan[m].line = x})
PlannedForVersion(v) == Planned({m \in DOMAIN plan : plan[m].version = v})

\* createProjectMilestone with an order line and an element.
PlanMilestone(x, a) ==
  LET l == LineAt(x)
  IN  /\ Len(plan) < MaxPlans
      /\ IsService(l.sku) /\ IsMapped(l, OrderOf(x).version)
      /\ OrderOf(x).state \in {"Confirmed", "Allocated", "Shipped"}
      /\ PlannedForLine(x) + a <= l.total
      /\ PlannedForVersion(l.version) + a <= terms[l.version].value
      /\ plan' = Append(plan, [line |-> x, amount |-> a, version |-> l.version,
                               project |-> l.project, element |-> l.element])
      /\ UNCHANGED <<agreed, catalogue, work, sales>>

-----------------------------------------------------------------------------
ContractsNext ==
  \/ \E s \in Skus, type \in {"physical", "service"} : CreateSku(s, type)
  \/ \E value \in ContractValues, n \in Deliverables :
       CreateContract(value, n) \/ CreateContractAmendment(value, n)
  \/ \E v \in DOMAIN terms : ApproveContractVersion(v)
  \/ CreateEngagement
  \/ \E e \in DOMAIN engagement :
       EndEngagement(e) \/ \E d \in {{}} \cup {{s} : s \in Skus} : CreateElement(e, d)
  \/ CreateQuote
  \/ \E q \in DOMAIN quote :
       \/ \E s \in Skus, price \in Prices : AddQuoteLine(q, s, price)
       \/ \E to \in {"Sent", "Accepted", "Rejected", "Expired"} : MoveQuote(q, to)
       \/ \E v \in {None} \cup DOMAIN terms, e \in {None} \cup DOMAIN engagement :
            CreateOrderFromQuote(q, v, e)
  \/ \E x \in OrderLines :
       \/ \E w \in DOMAIN element : AssignOrderLineWbs(x, w)
       \/ \E a \in Billings : PlanMilestone(x, a)
  \/ \E o \in DOMAIN order :
       ConfirmOrder(o) \/ \E to \in {"Allocated", "Shipped", "Cancelled"} : MoveOrder(o, to)

ContractsSpec == ContractsInit /\ [][ContractsNext]_contractsVars

-----------------------------------------------------------------------------
\* Every table holds what its columns allow.
ContractsTypeOK ==
  /\ contract.status \in {"None", "Draft", "Active"}
  /\ contract.current \in {None} \cup DOMAIN terms
  /\ catalogue \in [Skus -> {"None", "physical", "service"}]
  /\ \A v \in DOMAIN terms : terms[v].status \in {"Draft", "Approved", "Superseded"}
  /\ \A e \in DOMAIN engagement : engagement[e].version \in DOMAIN terms
  /\ \A w \in DOMAIN element : element[w].project \in DOMAIN engagement
  /\ \A o \in DOMAIN order : order[o].version \in {None} \cup DOMAIN terms
  /\ \A x \in OrderLines : /\ LineAt(x).project \in {None} \cup DOMAIN engagement
                           /\ LineAt(x).element \in {None} \cup DOMAIN element
  /\ \A m \in DOMAIN plan : plan[m].line \in OrderLines /\ plan[m].amount \in Nat

\* One version is in force, the one the contract names, those before it are
\* superseded, and at most the last is a draft.
VersionsInOrder ==
  /\ \A v \in DOMAIN terms :
       \/ v < contract.current /\ terms[v].status = "Superseded"
       \/ v = contract.current /\ terms[v].status = "Approved"
       \/ v > contract.current /\ terms[v].status = "Draft" /\ v = Len(terms)
  /\ contract.status = "Active" <=> contract.current # None

\* What a project, an element or an order is pinned to has been approved.
PinsAreApproved ==
  \A v \in {engagement[e].version : e \in DOMAIN engagement}
             \cup {element[w].version : w \in DOMAIN element}
             \cup {order[o].version : o \in DOMAIN order} :
    v # None => terms[v].status # "Draft"

\* A quote makes one order, and the order comes to what its lines come to.
OrdersAreQuotes ==
  /\ Len(order) = Cardinality({q \in DOMAIN quote : quote[q].state = "ConvertedToOrder"})
  /\ \A o \in DOMAIN order :
       order[o].total = SumFunctionOnSet([i \in DOMAIN order[o].lines |->
                                            order[o].lines[i].total], DOMAIN order[o].lines)

\* A line that has an element shares it with no other, and the element, its project,
\* the line and the order are of one version.  A line that was a service when it was
\* ordered has one once the order is confirmed.
MappingsAgree ==
  \A x \in OrderLines :
    /\ LineAt(x).element # None =>
         /\ IsMapped(LineAt(x), OrderOf(x).version)
         /\ \A y \in OrderLines \ {x} : LineAt(y).element # LineAt(x).element
    /\ (LineAt(x).version # None /\ OrderOf(x).state \notin {"Draft", "Cancelled"}) =>
         LineAt(x).element # None

\* A milestone's line is still mapped as it was when the milestone was planned, so that
\* it can be billed, and the milestones fit the lines and the versions.
PlansHold ==
  /\ \A m \in DOMAIN plan :
       LET l == LineAt(plan[m].line)
       IN  <<l.project, l.element, l.version>>
             = <<plan[m].project, plan[m].element, plan[m].version>>
  /\ \A x \in OrderLines : PlannedForLine(x) <= LineAt(x).total
  /\ \A v \in DOMAIN terms : PlannedForVersion(v) <= terms[v].value

\* What billing relies on: the versions, the pins to them, the mapping of service
\* lines to work and the milestones planned for it agree, through amendments.
CommitmentsHold ==
  VersionsInOrder /\ PinsAreApproved /\ OrdersAreQuotes /\ MappingsAgree /\ PlansHold
=============================================================================
