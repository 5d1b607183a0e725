---------------------------- MODULE EngineRules ----------------------------
(* What the authority and governance engines answer, and what the mesh makes of *)
(* it: authority-engine/domain/evaluateAuthority.ts, governance-engine/domain/   *)
(* evaluateGovernance.ts, the rules that their migrations seed, and mesh-        *)
(* gateway/domain/pipeline.ts.  The tables behind the answers change while       *)
(* requests are judged: people come, go and move, and an administrator may set   *)
(* a threshold.  Amounts are in thousands.                                       *)
EXTENDS Integers, FiniteSets, FiniteSetsExt

CONSTANTS
  Staff,
  Asker,         \* a request that names no requester is its asker's own
  Grades,        \* the tiers of the positions that staff may be given
  Thresholds,    \* the values that the two parameters may be set to
  AmountRules    \* the authority_rule rows that may be created: [over, tier]

VARIABLES
  subject,       \* authority_subject: is it Active?
  position,      \* the tiers of the active authority_position rows in a domain
  credential,    \* has a Valid FinancialApproval credential
  amountRule,    \* authority_rule rows of the domain
  parameter      \* governance_parameter: the two contract thresholds

\* authority_tier CHECK (authority_tier >= 1 AND authority_tier <= 5)
ASSUME EngineRulesAssumption == Grades \subseteq 1..5

rulesVars == <<subject, position, credential, amountRule, parameter>>

NoAmount == -1
Max0(S) == Max(S \cup {0})

-----------------------------------------------------------------------------
(* The authority engine.  What it reads of the positions and the amount rules   *)
(* are those of the domain asked about.                                         *)

Rules(domain, resource, tiers) ==
  {[domain |-> domain, resource |-> resource, action |-> a, tier |-> tiers[a]] : a \in DOMAIN tiers}

ActionRules == UNION {
  Rules("O2C", "contract", [create |-> 1, amend |-> 2, approve |-> 2]),
  Rules("PROJ", "project", [create |-> 1, activate |-> 1, hold |-> 1, resume |-> 1,
                            complete |-> 2, cancel |-> 2]),
  Rules("PROJ", "milestone", [approve |-> 2]),
  Rules("PROJ", "change-request", [approve |-> 2]),
  Rules("INV", "inventory-movement", [adjust |-> 2, cost_update |-> 3]),
  Rules("H2R", "vendor-rate", [create |-> 4]),
  Rules("H2R", "employee-cost-rate", [create |-> 4]),
  Rules("H2R", "authority-rule", [create |-> 4]),
  Rules("H2R", "timesheet-import", [import |-> 4, commit |-> 4])}

ActionRule(q) ==
  {r \in ActionRules : r.domain = q.domain /\ r.resource = q.resource /\ r.action = q.action}

EffectiveTier(p) == Max0(position[p])

Over(q, threshold) == q.amount # NoAmount /\ q.amount > threshold

AuthorityTier(q) ==
  Max0({r.tier : r \in ActionRule(q) \cup {m \in amountRule : Over(q, m.over)}})

\* evaluateAuthority: a resource with an action rule is gated by tier alone.
AuthorityAllows(p, q) ==
  /\ subject[p]
  /\ EffectiveTier(p) >= AuthorityTier(q)
  /\ q.action = "approve" /\ ActionRule(q) = {} => credential[p]

\* GET /eligible-approvers
EligibleApprovers(tier) == {p \in Staff : subject[p] /\ \E t \in position[p] : t >= tier}

-----------------------------------------------------------------------------
(* The governance engine.  The rules that only flag a risk decide nothing.      *)

Own(p, q) == q.requester \in {p, Asker}

\* SOD-GLOBAL-001, SOD-001
Denied(p, q) ==
  /\ Own(p, q)
  /\ q.action = "approve" \/ (q.domain = "P2P" /\ q.action = "p2p_requisition_approved")

\* P2P-THRESHOLD-001 and 002, CON-APPROVAL-001 and 002, PROJ-CANCEL-FORCE-001:
\* the tiers below which each applies, and which it asks for
Asked(p, q) ==
  LET below(tier, applies) == IF applies /\ EffectiveTier(p) < tier THEN {tier} ELSE {}
      order == q.domain = "P2P" /\ q.action = "p2p_purchase_order_issued"
      contract == q.domain = "O2C" /\ q.action = "approve" /\ q.resource = "contract" IN
  UNION {below(3, order /\ Over(q, 10)), below(4, order /\ Over(q, 50)),
         below(3, contract /\ Over(q, parameter.tier3)),
         below(4, contract /\ Over(q, parameter.tier4)),
         below(3, q.domain = "PROJ" /\ q.action = "cancel" /\ q.force)}

\* Mutant: only the rule that comes first by priority counts.
FirstAsked(p, q) ==
  IF Denied(p, q) \/ Asked(p, q) = {} THEN 0 ELSE Min(Asked(p, q))

\* buildResult: a denial takes precedence; of what approvals and escalations ask,
\* the highest counts.
GovernanceAsks(p, q) == IF Denied(p, q) THEN 0 ELSE Max0(Asked(p, q))

-----------------------------------------------------------------------------
(* The mesh's evaluatePipeline: "deny", "allow", or an approval at a tier.      *)

Pipeline(p, q) ==
  CASE ~AuthorityAllows(p, q) -> [outcome |-> "deny", tier |-> 0]
    [] AuthorityAllows(p, q) /\ GovernanceAsks(p, q) > 0
         -> [outcome |-> "approval", tier |-> GovernanceAsks(p, q)]
    [] AuthorityAllows(p, q) /\ GovernanceAsks(p, q) = 0
         -> [outcome |-> IF Denied(p, q) THEN "deny" ELSE "allow", tier |-> 0]

\* What buildDomainContext makes of a request; H2R's carries no amount, force is
\* for a project's cancellation.
Question(domain, resource, action, amounts, forces) ==
  [domain : {domain}, resource : {resource}, action : {action}, amount : amounts,
   requester : Staff \cup {Asker}, force : forces]

Questions ==
  LET amounts == {10, 11, 51, 101} IN
  UNION {Question("O2C", "contract", "approve", amounts, {FALSE}),
         Question("O2C", "contract", "amend", {11}, {FALSE}),
         Question("P2P", "purchase-orders", "p2p_purchase_order_issued", amounts, {FALSE}),
         Question("P2P", "supplier-invoices", "approve", {51}, {FALSE}),
         Question("PROJ", "project", "cancel", {51}, BOOLEAN),
         Question("H2R", "vendor-rate", "create", {NoAmount}, {FALSE})}

-----------------------------------------------------------------------------
RulesInit ==
  /\ subject = [p \in Staff |-> FALSE]
  /\ position = [p \in Staff |-> {}]
  /\ credential = [p \in Staff |-> FALSE]
  /\ amountRule = {}
  /\ parameter = [tier3 |-> 10, tier4 |-> 100]

\* EmployeeHired, EmployeeTerminated, EmployeeOnLeave, EmployeeReturned
SubjectChanges(p) ==
  /\ subject' = [subject EXCEPT ![p] = ~@]
  /\ UNCHANGED <<position, credential, amountRule, parameter>>

\* AssignmentCreated and AssignmentEnded
AssignmentChanges(p) ==
  /\ \E t \in Grades :
       \/ position' = [position EXCEPT ![p] = @ \cup {t}]
       \/ position' = [position EXCEPT ![p] = @ \ {t}]
  /\ UNCHANGED <<subject, credential, amountRule, parameter>>

\* CredentialIssued, CredentialExpired, CredentialRevoked
CredentialChanges(p) ==
  /\ credential' = [credential EXCEPT ![p] = ~@]
  /\ UNCHANGED <<subject, position, amountRule, parameter>>

\* AuthorityRuleCreated
AmountRuleCreated ==
  /\ \E r \in AmountRules : amountRule' = amountRule \cup {r}
  /\ UNCHANGED <<subject, position, credential, parameter>>

\* PUT /parameters/:key: each is set on its own, whatever the other is.
ParameterUpdated ==
  /\ \E key \in {"tier3", "tier4"}, value \in Thresholds :
       parameter' = [parameter EXCEPT ![key] = value]
  /\ UNCHANGED <<subject, position, credential, amountRule>>

RulesNext ==
  \/ \E p \in Staff : SubjectChanges(p) \/ AssignmentChanges(p) \/ CredentialChanges(p)
  \/ AmountRuleCreated
  \/ ParameterUpdated

RulesSpec == RulesInit /\ [][RulesNext]_rulesVars

RulesTypeOK ==
  /\ subject \in [Staff -> BOOLEAN]
  /\ position \in [Staff -> SUBSET Grades]
  /\ credential \in [Staff -> BOOLEAN]
  /\ amountRule \subseteq AmountRules
  /\ parameter \in [{"tier3", "tier4"} -> Thresholds \cup {10, 100}]

(* The tier that an approval is asked at is exactly the one that ends the       *)
(* asking: whoever the authority engine lists as an eligible approver at that   *)
(* tier, and itself allows to do the same thing, gets it done without another   *)
(* approval, unless it is their own request; and nobody else does.  This holds  *)
(* whatever the order of the two thresholds is after they were set.             *)
ApprovalTierExact ==
  \A p \in {s \in Staff : subject[s]}, q \in Questions :
    Pipeline(p, q).outcome = "approval" =>
      \A a \in Staff :
        Pipeline(a, q).outcome = "allow" <=>
          /\ a \in EligibleApprovers(Pipeline(p, q).tier)
          /\ AuthorityAllows(a, q)
          /\ ~Denied(a, q)
=============================================================================
