--------------------------- MODULE CaiplSessions ---------------------------
(* The conversations of navigator-ai in which an operator and a language model  *)
(* prepare ERP operations and settle them as decisions: submitTurn and          *)
(* resolveDecision of services/caiplService.ts.  A call reads its session from  *)
(* the database, compares the versions the tab sent, waits for the language     *)
(* model and for the ERP, and only then writes, one more than the versions it   *)
(* had read.  Each action lies between two awaits.                              *)
EXTENDS Naturals, FiniteSets

CONSTANTS
  Tabs,        \* the calls that may be under way at a time
  Decisions,
  MaxVersion,  \* bound on the session's version
  MaxWrites    \* bound on the writes of a decision before another is asked for

ASSUME CaiplAssumption ==
  IsFiniteSet(Tabs) /\ MaxVersion \in Nat \ {0} /\ MaxWrites \in Nat

VARIABLES
  sessionVersion,  \* caipl_session.version
  decision,        \* caipl_decision: status and what its option offers
  erpWrites,       \* how often the ERP has made what a decision asks for
  receipts,        \* the execution receipts in the notebook, by decision
  tab,             \* the local state of the calls
  overlapped,      \* two calls have been under way at the same time
  forgotten        \* a call died between the ERP's write and its own

caiplVars == <<sessionVersion, decision, erpWrites, receipts, tab, overlapped, forgotten>>

Executing == {"order", "execute"}   \* a purchase order, a collected operation
Offers == {"manual", "collect"} \cup Executing
DecisionStates == {"none", "pending", "resolved", "executed", "failed", "escalated"}
DecisionRow == [status : DecisionStates, offer : Offers]
NoDecision == [status |-> "none", offer |-> "manual"]

AtRest == [pc |-> "rest"]

Pending == {d \in Decisions : decision[d].status = "pending"}

CaiplInit ==
  /\ sessionVersion = 1
  /\ decision = [d \in Decisions |-> NoDecision]
  /\ erpWrites = [d \in Decisions |-> 0]
  /\ receipts = [d \in Decisions |-> 0]
  /\ tab = [t \in Tabs |-> AtRest]
  /\ overlapped = FALSE
  /\ forgotten = FALSE

\* A call whose versions, of the session and of the decision, are the stored ones
\* begins; any other is told VERSION_MISMATCH and changes nothing.  The decision's
\* version is used for nothing else and left out.
Begin(t, call) ==
  /\ tab[t] = AtRest
  /\ sessionVersion < MaxVersion
  /\ tab' = [tab EXCEPT ![t] = call]
  /\ overlapped' = (overlapped \/ \E u \in Tabs : tab[u] # AtRest)
  /\ UNCHANGED <<sessionVersion, decision, erpWrites, receipts, forgotten>>

\* submitTurn up to the language model
SubmitTurn(t) ==
  Begin(t, [pc |-> "turn", version |-> sessionVersion,
            offered |-> [d \in Pending |-> decision[d].offer]])

\* The rest of it.  A turn without a pending decision makes one, any other writes
\* the options of one that it had read as pending, as they were or made anew.
RecordTurn(t) ==
  /\ tab[t].pc = "turn"
  /\ LET offered == tab[t].offered IN
     \/ /\ DOMAIN offered = {}
        /\ \E d \in Decisions : decision[d] = NoDecision
        /\ \E offer \in Offers \ {"execute"} :
             decision' = [decision EXCEPT ![CHOOSE d \in Decisions : decision[d] = NoDecision] =
                            [status |-> "pending", offer |-> offer]]
     \/ \E d \in DOMAIN offered : \E offer \in {offered[d], "collect"} :
          decision' = [decision EXCEPT ![d].offer = offer]
  /\ sessionVersion' = tab[t].version + 1
  /\ tab' = [tab EXCEPT ![t] = AtRest]
  /\ UNCHANGED <<erpWrites, receipts, overlapped, forgotten>>

\* What a resolution that asks nothing of the ERP makes of the decision.  An option
\* of an order other than the order itself is confirmed like a manual step.  Fields
\* that are still missing leave the decision resolved, a complete form replaces the
\* option by one that executes.
Settlements(row, action) ==
  CASE action \in {"reject", "amend"} -> {[row EXCEPT !.status = "resolved"]}
    [] action = "retry" -> {[row EXCEPT !.status = "pending"]}
    [] action = "escalate" -> {[row EXCEPT !.status = "escalated"]}
    [] action = "confirm" ->
         (IF row.offer = "execute" THEN {} ELSE {[row EXCEPT !.status = "resolved"]})
           \cup (IF row.offer = "collect" THEN {[row EXCEPT !.offer = "execute"]} ELSE {})

\* resolveDecision up to its last await, when nothing is executed
Resolve(t, d, action) ==
  /\ decision[d].status = "pending"
  /\ \E row \in Settlements(decision[d], action) :
       Begin(t, [pc |-> "settle", version |-> sessionVersion, d |-> d, row |-> row])

\* resolveDecision up to the ERP, when an order or an operation is confirmed
ConfirmExecution(t, d) ==
  /\ decision[d].status = "pending"
  /\ decision[d].offer \in Executing
  /\ erpWrites[d] < MaxWrites
  /\ Begin(t, [pc |-> "execute", version |-> sessionVersion, d |-> d, row |-> decision[d]])

\* Mutant: a failed decision is left pending, for another attempt.
StatusAfterForRetry(answered) == IF answered THEN "executed" ELSE "pending"

\* What the answer of the ERP, or of the mesh before it, makes of the decision
StatusAfter(answered) == IF answered THEN "executed" ELSE "failed"

\* executePurchaseOrderProposal and executeCollectionOperation.  A failure may leave
\* its effect: an order whose line was refused, an operation that awaits approval in
\* the mesh, an answer that was lost.
ErpAnswers(t) ==
  /\ tab[t].pc = "execute"
  /\ \E answered, written \in BOOLEAN :
       /\ answered => written
       /\ erpWrites' = [erpWrites EXCEPT ![tab[t].d] = IF written THEN @ + 1 ELSE @]
       /\ tab' = [tab EXCEPT ![t].pc = "settle", ![t].row.status = StatusAfter(answered)]
  /\ UNCHANGED <<sessionVersion, decision, receipts, overlapped, forgotten>>

\* The transaction at the end of resolveDecision, whatever the row says by now
Settle(t) ==
  LET call == tab[t] IN
  /\ call.pc = "settle"
  /\ decision' = [decision EXCEPT ![call.d] = call.row]
  /\ receipts' = [receipts EXCEPT ![call.d] = IF call.row.status = "executed" THEN @ + 1 ELSE @]
  /\ sessionVersion' = call.version + 1
  /\ tab' = [tab EXCEPT ![t] = AtRest]
  /\ UNCHANGED <<erpWrites, overlapped, forgotten>>

\* The process dies: nothing of a call under way is kept but what the ERP has made.
CaiplRestart ==
  /\ \E t \in Tabs : tab[t] # AtRest
  /\ tab' = [t \in Tabs |-> AtRest]
  /\ forgotten' = (forgotten \/ \E t \in Tabs :
                     tab[t].pc = "settle" /\ tab[t].row.status \in {"executed", "failed"})
  /\ UNCHANGED <<sessionVersion, decision, erpWrites, receipts, overlapped>>

CaiplNext ==
  \/ \E t \in Tabs : \/ SubmitTurn(t) \/ RecordTurn(t) \/ ErpAnswers(t) \/ Settle(t)
                     \/ \E d \in Decisions :
                          \/ ConfirmExecution(t, d)
                          \/ \E action \in {"confirm", "reject", "amend", "retry", "escalate"} :
                               Resolve(t, d, action)
  \/ CaiplRestart

CaiplSpec == CaiplInit /\ [][CaiplNext]_caiplVars

CaiplTypeOK ==
  /\ sessionVersion \in 1..MaxVersion
  /\ decision \in [Decisions -> DecisionRow]
  /\ erpWrites \in [Decisions -> Nat]
  /\ receipts \in [Decisions -> Nat]
  /\ \A t \in Tabs : tab[t] = AtRest \/ tab[t].pc \in {"turn", "execute", "settle"}
  /\ overlapped \in BOOLEAN
  /\ forgotten \in BOOLEAN

(* Every receipt in the notebook stands for a write of the ERP, whatever calls  *)
(* overlap.  While calls do not overlap, a decision has one receipt if it is    *)
(* executed and none otherwise, at most one decision waits for the operator,    *)
(* and, unless the process died on the way, the ERP has made at most once what  *)
(* a decision asks for: retries, new turns and failed attempts do not repeat    *)
(* it.                                                                          *)
DecisionsSettledOnce ==
  /\ \A d \in Decisions : receipts[d] <= erpWrites[d]
  /\ ~overlapped =>
       /\ \A d \in Decisions :
            /\ receipts[d] = (IF decision[d].status = "executed" THEN 1 ELSE 0)
            /\ ~forgotten => erpWrites[d] <= 1
       /\ Cardinality(Pending) <= 1

(* docs/caiplDesignV1fb.md: of two tabs, the one that submits a stale resolve   *)
(* is refused, so that no outdated action is applied: unless the process dies,  *)
(* the ERP makes what a decision asks for at most once.  The code compares the  *)
(* versions before it waits for the ERP, and not when it writes.                *)
StaleNeverApplied == \A d \in Decisions : forgotten \/ erpWrites[d] <= 1
=============================================================================
