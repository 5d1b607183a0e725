------------------------- MODULE Governance_proofs --------------------------
(***************************************************************************)
(* Theorems about who may do what and what is told of it, for any number   *)
(* of actors, requests and calls.                                          *)
(*   ApprovalQueue: a request is settled once.                             *)
(*   CaiplSessions: so is a decision of an operator's turn.                *)
(*   Identity: what signing in gives is kept, and one token of a chain.    *)
(*   EngineRules: approvals are asked at the tier that ends the asking.    *)
(*   Projections: what the engines have projected agrees with the feed.    *)
(*   Navigator: its log tells the truth.                                   *)
(* At the end, what the theorems about the services say of them side by    *)
(* side, as MCServices composes them.                                      *)
(***************************************************************************)
EXTENDS MCServices, Accounts_proofs, Commitments_proofs

-----------------------------------------------------------------------------
(* ApprovalQueue.                                                          *)

\* An action is sent only after its approval, and an operator who is about to
\* send one is the only one, before any sending.
SentOnce ==
  \A r \in Requests :
    /\ request[r].sent <= 1
    /\ request[r].sent = 1 => request[r].kind = "action" /\ request[r].status = "APPROVED"

ApprovedByOne ==
  /\ \A o \in Operators : operator[o] # Ready =>
       /\ request[operator[o].r].status = "APPROVED"
       /\ request[operator[o].r].sent = 0
  /\ \A o, u \in Operators :
       operator[o] # Ready /\ operator[u] # Ready /\ operator[o].r = operator[u].r => o = u

\* A number that is not used has no row; at most one request tracks an ERP row
\* under a name.
UnusedIsEmpty == \A r \in Requests : request[r].status = "none" => request[r] = NoRequest

OneTracked == \A name \in Names : \A r, s \in Tracked(request, name) : r = s

\* The inductive invariant.
QueueInv == QueueTypeOK /\ SentOnce /\ ApprovedByOne /\ UnusedIsEmpty /\ OneTracked

\* The invariant of the queue says what is claimed, and each handler keeps it.
LEMMA QueueInvImplies == QueueInv => QueueTypeOK /\ RequestsSettledOnce
<1> SUFFICES ASSUME QueueInv PROVE QueueTypeOK /\ RequestsSettledOnce
  OBVIOUS
<1>1. ASSUME NEW name \in Names PROVE Cardinality(Tracked(request, name)) <= 1
  <2>1. \A r, s \in Tracked(request, name) : r = s
    BY DEF QueueInv, OneTracked
  <2> HIDE DEF QueueInv
  <2> QED
    BY <2>1, AtMostOne
<1> QED
  BY <1>1 DEF QueueInv, SentOnce, RequestsSettledOnce

LEMMA QueueInvInitially == QueueInit => QueueInv
<1> SUFFICES ASSUME QueueInit PROVE QueueInv
  OBVIOUS
<1>1. QueueTypeOK
  BY DEF QueueInit, QueueTypeOK, NoRequest, RequestRow, RequestKinds, RequestStates, NoSync
<1> QED
  BY <1>1 DEF QueueInit, QueueInv, SentOnce, ApprovedByOne, UnusedIsEmpty, OneTracked, Tracked,
     NoRequest

LEMMA QueueInvRequestApproval ==
  ASSUME QueueInv, NEW r \in Requests, RequestApproval(r) PROVE QueueInv'
<1> USE DEF QueueInv, QueueTypeOK, SentOnce, ApprovedByOne, UnusedIsEmpty, OneTracked
<1>1. PICK kind \in {"action", "lost"} : Recorded(r, kind, "none")
  BY DEF RequestApproval
<1>2. /\ request[r] = NoRequest
      /\ request' = [request EXCEPT ![r] =
                        [kind |-> kind, status |-> "PENDING", sent |-> 0, under |-> "none"]]
      /\ UNCHANGED <<flagged, sync, operator>>
  BY <1>1 DEF RequestApproval, Recorded, NewRequest
<1>3. QueueTypeOK'
  BY <1>2 DEF RequestRow, RequestStates, RequestKinds
<1>4. SentOnce'
  BY <1>2
<1>5. ApprovedByOne'
  BY <1>2 DEF NoRequest
<1>6. UnusedIsEmpty'
  BY <1>2
<1>7. OneTracked'
  BY <1>2 DEF Tracked
<1> QED
  BY <1>3, <1>4, <1>5, <1>6, <1>7

LEMMA QueueInvApplyAuthorityDecision ==
  ASSUME QueueInv, NEW o \in Operators, ApplyAuthorityDecision(o) PROVE QueueInv'
<1> USE DEF QueueInv, QueueTypeOK, SentOnce, ApprovedByOne, UnusedIsEmpty, OneTracked
<1>0. PICK name \in Names \cup {"none"} : name = sync[o].name
  OBVIOUS
<1>1. /\ sync' = [sync EXCEPT ![o] = NoSync] /\ UNCHANGED <<flagged, operator>>
      /\ sync' \in [Operators -> [read : {"none", "flagged", "clear"}, name : Names \cup {"none"}]]
  BY DEF ApplyAuthorityDecision, NoSync
<1>2. ASSUME Tracked(request, name) = {}, NEW r \in Requests, Recorded(r, "tracked", name)
      PROVE  QueueInv'
  <2>1. /\ request[r] = NoRequest
        /\ request' = [request EXCEPT ![r] =
                          [kind |-> "tracked", status |-> "PENDING", sent |-> 0, under |-> name]]
    BY <1>2 DEF Recorded, NewRequest
  <2>2. QueueTypeOK'
    BY <1>0, <1>1, <2>1 DEF RequestRow, RequestStates, RequestKinds
  <2>3. SentOnce' /\ UnusedIsEmpty'
    BY <2>1
  <2>4. ApprovedByOne'
    BY <1>1, <2>1 DEF NoRequest
  <2>5. OneTracked'
    BY <1>2, <2>1 DEF Tracked
  <2> QED
    BY <2>2, <2>3, <2>4, <2>5
<1>3. CASE UNCHANGED request
  BY <1>1, <1>3 DEF Tracked
<1>4. CASE request' = [r \in Requests |->
             IF r \in Tracked(request, name) THEN [request[r] EXCEPT !.status = "EXPIRED"]
             ELSE request[r]]
  <2>1. QueueTypeOK'
    BY <1>1, <1>4 DEF RequestRow, RequestStates, RequestKinds
  <2>2. SentOnce' /\ UnusedIsEmpty' /\ ApprovedByOne'
    BY <1>1, <1>4 DEF Tracked, RequestRow
  <2>3. OneTracked'
    BY <1>4 DEF Tracked, RequestRow
  <2> QED
    BY <2>1, <2>2, <2>3
<1> QED
  BY <1>0, <1>2, <1>3, <1>4 DEF ApplyAuthorityDecision

LEMMA QueueInvRejectOrEscalate ==
  ASSUME QueueInv, NEW r \in Requests, RejectOrEscalate(r) PROVE QueueInv'
<1> USE DEF QueueInv, QueueTypeOK, SentOnce, ApprovedByOne, UnusedIsEmpty, OneTracked
<1>1. PICK to \in {"REJECTED", "ESCALATED"} : Transition(r, to)
  BY DEF RejectOrEscalate
<1>2. /\ request[r].status \in {"PENDING", "ESCALATED"}
      /\ request' = [request EXCEPT ![r].status = to]
      /\ UNCHANGED <<flagged, sync, operator>>
  BY <1>1 DEF RejectOrEscalate, Transition, Resolvable
<1>3. QueueTypeOK'
  BY <1>2 DEF RequestRow, RequestStates
<1>4. SentOnce' /\ UnusedIsEmpty' /\ ApprovedByOne'
  BY <1>2 DEF RequestRow
<1>5. OneTracked'
  BY <1>2 DEF Tracked, RequestRow
<1> QED
  BY <1>3, <1>4, <1>5

LEMMA QueueInvApproveRequest ==
  ASSUME QueueInv, NEW o \in Operators, NEW r \in Requests, ApproveRequest(o, r) PROVE QueueInv'
<1> USE DEF QueueInv, QueueTypeOK, SentOnce, ApprovedByOne, UnusedIsEmpty, OneTracked
<1>1. /\ operator[o] = Ready
      /\ request[r].status \in {"PENDING", "ESCALATED"}
      /\ request' = [request EXCEPT ![r].status = "APPROVED"]
      /\ operator' = [operator EXCEPT ![o] = [pc |-> "publish", r |-> r]]
      /\ UNCHANGED <<flagged, sync>>
  BY DEF ApproveRequest, Transition, Resolvable
<1>2. QueueTypeOK'
  BY <1>1 DEF RequestRow, RequestStates
<1>3. SentOnce' /\ UnusedIsEmpty'
  BY <1>1 DEF RequestRow
<1>4. request[r].sent = 0
  <2>1. request[r].sent \in Nat /\ request[r].sent <= 1
    BY DEF RequestRow
  <2>2. request[r].sent # 1
    BY <1>1
  <2> QED
    BY <2>1, <2>2
<1>5. ASSUME NEW u \in Operators, u # o PROVE operator'[u] = operator[u] /\ (operator[u] # Ready => operator[u].r # r)
  BY <1>1, <1>5
<1>6. ApprovedByOne'
  BY <1>1, <1>4, <1>5 DEF RequestRow
<1>7. OneTracked'
  BY <1>1 DEF Tracked, RequestRow
<1> QED
  BY <1>2, <1>3, <1>6, <1>7

LEMMA QueueInvSendApproved ==
  ASSUME QueueInv, NEW o \in Operators, SendApproved(o) PROVE QueueInv'
<1> USE DEF QueueInv, QueueTypeOK, SentOnce, ApprovedByOne, UnusedIsEmpty, OneTracked
<1> DEFINE r == operator[o].r
           after == [request EXCEPT ![r].sent = @ + 1]
<1>1. /\ operator[o] # Ready
      /\ request[r].kind = "action"
      /\ operator' = [operator EXCEPT ![o] = Ready]
      /\ UNCHANGED <<flagged, sync>>
  BY DEF SendApproved
<1>2. r \in Requests /\ request[r].status = "APPROVED" /\ request[r].sent = 0
  BY <1>1
<1>3. after \in [Requests -> RequestRow] /\ after[r].sent = 1 /\ after[r].status = "APPROVED"
      /\ after[r].kind = "action"
  BY <1>1, <1>2 DEF RequestRow
<1>4. \A s \in Requests : s # r => after[s] = request[s]
  OBVIOUS
<1>5. \A u \in Operators : operator'[u] # Ready => u # o /\ operator'[u] = operator[u] /\ operator[u].r # r
  BY <1>1
<1>6. \/ request' = after
      \/ \E next \in Requests, kind \in {"action", "lost"} :
           /\ request[next] = NoRequest
           /\ request' = [after EXCEPT ![next] =
                             [kind |-> kind, status |-> "PENDING", sent |-> 0, under |-> "none"]]
  BY DEF SendApproved, NewRequest
<1>11. \A s \in Requests :
          \/ request'[s] = after[s]
          \/ /\ request'[s].status = "PENDING" /\ request'[s].sent = 0
             /\ request'[s].kind \in {"action", "lost"}
  <2> HIDE DEF after
  <2> QED
    BY <1>3, <1>6
<1>7. QueueTypeOK'
  <2>1. operator' \in [Operators -> {Ready} \cup [pc : {"publish"}, r : Requests]]
    BY <1>1
  <2>2. \A kind \in {"action", "lost"} : [kind |-> kind, status |-> "PENDING", sent |-> 0, under |-> "none"]
                                       \in RequestRow
    BY DEF RequestRow, RequestKinds, RequestStates
  <2>3. request' \in [Requests -> RequestRow]
    <3> HIDE DEF after
    <3> QED BY <1>3, <1>6, <2>2
  <2> QED
    BY <1>1, <2>1, <2>3
<1>8. SentOnce' /\ UnusedIsEmpty'
  <2>1. \A s \in Requests : after[s].sent <= 1
                           /\ (after[s].sent = 1 => after[s].kind = "action" /\ after[s].status = "APPROVED")
                           /\ (after[s].status = "none" => after[s] = NoRequest)
    <3> HIDE DEF after, r
    <3> QED BY <1>2, <1>3, <1>4 DEF RequestRow
  <2> HIDE DEF after, r
  <2>2. SentOnce'
    BY <1>11, <2>1
  <2>3. UnusedIsEmpty'
    BY <1>11, <2>1
  <2> QED
    BY <2>2, <2>3
<1>9. ApprovedByOne'
  <2>1. ASSUME NEW u \in Operators, operator'[u] # Ready
        PROVE  request'[operator'[u].r].status = "APPROVED" /\ request'[operator'[u].r].sent = 0
    <3>1. operator'[u] = operator[u] /\ operator[u].r # r /\ operator[u].r \in Requests
      BY <1>5, <2>1
    <3>2. request[operator[u].r].status = "APPROVED" /\ request[operator[u].r].sent = 0
      BY <3>1, <2>1
    <3> HIDE DEF after, r
    <3> QED
      BY <3>1, <3>2, <1>3, <1>4, <1>6 DEF NoRequest
  <2>2. \A u, v \in Operators : operator'[u] # Ready /\ operator'[v] # Ready
                                  /\ operator'[u].r = operator'[v].r => u = v
    BY <1>5
  <2> QED
    BY <2>1, <2>2
<1>10. OneTracked'
  <2> HIDE DEF after, r
  <2>1. ASSUME NEW name, NEW s \in Tracked(request, name)' PROVE s \in Tracked(request, name)
    <3>1. s \in Requests /\ request'[s].kind = "tracked" /\ request'[s].status = "PENDING"
          /\ request'[s].under = name
      BY <2>1 DEF Tracked
    <3>2. request'[s] = after[s] /\ s # r
      BY <1>3, <1>11, <3>1
    <3> QED
      BY <1>4, <3>1, <3>2 DEF Tracked
  <2> QED BY <2>1
<1> QED
  BY <1>7, <1>8, <1>9, <1>10

LEMMA QueueInvEndings ==
  ASSUME QueueInv,
         \/ FlagChanges \/ QueueRestart \/ UNCHANGED queueVars
         \/ \E o \in Operators : ReadFlag(o) \/ EndApproval(o)
  PROVE  QueueInv'
<1> USE DEF QueueInv, QueueTypeOK, SentOnce, ApprovedByOne, UnusedIsEmpty, OneTracked, Tracked
<1>1. CASE FlagChanges
  BY <1>1 DEF FlagChanges
<1>2. CASE QueueRestart
  BY <1>2 DEF QueueRestart, NoSync
<1>3. CASE UNCHANGED queueVars
  BY <1>3 DEF queueVars
<1>4. ASSUME NEW o \in Operators, ReadFlag(o) PROVE QueueInv'
  BY <1>4 DEF ReadFlag
<1>5. ASSUME NEW o \in Operators, EndApproval(o) PROVE QueueInv'
  BY <1>5 DEF EndApproval
<1> QED
  BY <1>1, <1>2, <1>3, <1>4, <1>5

\* An action that was approved is sent at most once and nothing else is sent, and the
\* synchronisation with the ERP leaves at most one request pending for a row under each
\* name of its type (navigatorService.ts, stores/navigatorStore.ts).
THEOREM QueueSafety == QueueSpec => [](QueueTypeOK /\ RequestsSettledOnce)
<1>1. QueueInv /\ [QueueNext]_queueVars => QueueInv'
  BY QueueInvRequestApproval, QueueInvApplyAuthorityDecision, QueueInvRejectOrEscalate,
     QueueInvApproveRequest, QueueInvSendApproved, QueueInvEndings DEF QueueNext
<1> QED
  BY <1>1, QueueInvInitially, QueueInvImplies, PTL DEF QueueSpec

-----------------------------------------------------------------------------
(* CaiplSessions.                                                          *)

-----------------------------------------------------------------------------
\* What a call holds while it waits.
Versions == 1 .. MaxVersion - 1
Offered == UNION {[D -> Offers] : D \in SUBSET Decisions}
Turns == [pc : {"turn"}, version : Versions, offered : Offered]
Resolutions == [pc : {"execute", "settle"}, version : Versions, d : Decisions, row : DecisionRow]

\* The types, without the bounds on what is counted.
CaiplShape ==
  /\ sessionVersion \in 1..MaxVersion
  /\ decision \in [Decisions -> DecisionRow]
  /\ erpWrites \in [Decisions -> Nat]
  /\ receipts \in [Decisions -> Nat]
  /\ tab \in [Tabs -> {AtRest} \cup Turns \cup Resolutions]
  /\ overlapped \in BOOLEAN
  /\ forgotten \in BOOLEAN

\* The calls that are about to write a receipt for d
Receipting(d) == {t \in Tabs : tab[t].pc = "settle" /\ tab[t].d = d /\ tab[t].row.status = "executed"}

\* A receipt, written or about to be, stands for a write of its own.
ReceiptsAreOfWrites ==
  \A d \in Decisions : receipts[d] + Cardinality(Receipting(d)) <= erpWrites[d]

\* What holds as long as no two calls were under way at once.
OneCall == \A t, u \in Tabs : tab[t] # AtRest /\ tab[u] # AtRest => t = u

\* What a call was begun for is still so when it ends.
CallIsCurrent ==
  \A t \in Tabs :
    /\ tab[t].pc = "turn" => DOMAIN tab[t].offered = Pending
    /\ tab[t].pc \in {"execute", "settle"} => tab[t].d \in Pending

ReceiptOfExecuted ==
  \A d \in Decisions : receipts[d] = (IF decision[d].status = "executed" THEN 1 ELSE 0)

OnePending == \A d, e \in Pending : d = e

\* The ERP was asked for what is executed or failed, or about to be recorded so.
AskedFor(d) ==
  \/ decision[d].status \in {"executed", "failed"}
  \/ \E t \in Tabs : tab[t].pc = "settle" /\ tab[t].d = d
                       /\ tab[t].row.status \in {"executed", "failed"}
WrittenOnce ==
  \A d \in Decisions : erpWrites[d] <= 1 /\ (~ AskedFor(d) => erpWrites[d] = 0)

\* The inductive invariant.
CaiplInv ==
  /\ CaiplShape
  /\ ReceiptsAreOfWrites
  /\ ~overlapped => OneCall /\ CallIsCurrent /\ ReceiptOfExecuted /\ OnePending
  /\ ~overlapped /\ ~forgotten => WrittenOnce

\* What a turn may offer.
LEMMA OfferedType ==
  /\ \A o \in Offered : DOMAIN o \subseteq Decisions /\ \A d \in DOMAIN o : o[d] \in Offers
  /\ CaiplShape => [d \in Pending |-> decision[d].offer] \in Offered
<1>1. ASSUME NEW o \in Offered
      PROVE  DOMAIN o \subseteq Decisions /\ \A d \in DOMAIN o : o[d] \in Offers
  BY DEF Offered
<1>2. ASSUME CaiplShape PROVE [d \in Pending |-> decision[d].offer] \in Offered
  <2>1. [d \in Pending |-> decision[d].offer] \in [Pending -> Offers] /\ Pending \in SUBSET Decisions
    BY <1>2 DEF CaiplShape, DecisionRow, Pending
  <2> QED
    BY <2>1 DEF Offered
<1> QED
  BY <1>1, <1>2

LEMMA ReceiptingFinite ==
  \A d \in Decisions : IsFiniteSet(Receipting(d)) /\ Cardinality(Receipting(d)) \in Nat
BY CaiplAssumption, FS_Subset, FS_CardinalityType DEF Receipting

\* The invariant of the decisions says what is claimed, and each step keeps it.
LEMMA CaiplInvImplies == CaiplInv => DecisionsSettledOnce /\ CaiplTypeOK
<1> SUFFICES ASSUME CaiplInv PROVE DecisionsSettledOnce /\ CaiplTypeOK
  OBVIOUS
<1>1. \A d \in Decisions : receipts[d] <= erpWrites[d]
  BY ReceiptingFinite DEF CaiplInv, CaiplShape, ReceiptsAreOfWrites
<1>2. OnePending => Cardinality(Pending) <= 1
  BY AtMostOne DEF OnePending
<1>3. CaiplTypeOK
  BY DEF CaiplInv, CaiplShape, CaiplTypeOK, Turns, Resolutions, AtRest
<1> QED
  BY <1>1, <1>2, <1>3 DEF DecisionsSettledOnce, CaiplInv, ReceiptOfExecuted, WrittenOnce

LEMMA CaiplInvInitially == CaiplInit => CaiplInv
<1> SUFFICES ASSUME CaiplInit PROVE CaiplInv
  OBVIOUS
<1>1. CaiplShape
  <2>1. NoDecision \in DecisionRow
    BY DEF NoDecision, DecisionRow, DecisionStates, Offers
  <2>2. 1 \in 1..MaxVersion
    BY CaiplAssumption
  <2> QED
    BY <2>1, <2>2 DEF CaiplInit, CaiplShape
<1>2. \A d \in Decisions : Receipting(d) = {}
  BY DEF CaiplInit, Receipting, AtRest
<1>3. ReceiptsAreOfWrites
  BY <1>2, FS_EmptySet DEF CaiplInit, ReceiptsAreOfWrites
<1> QED
  BY <1>1, <1>3 DEF CaiplInit, CaiplInv, OneCall, CallIsCurrent, ReceiptOfExecuted, OnePending,
     WrittenOnce, Pending, NoDecision, AtRest

\* A call that begins: it is the only one, or calls overlap from now on.
LEMMA BeginPreserves ==
  ASSUME CaiplInv, NEW t \in Tabs, NEW call \in Turns \cup Resolutions, Begin(t, call),
         call \in Turns => DOMAIN call.offered = Pending,
         call \in Resolutions => call.d \in Pending,
         call \in Resolutions => call.pc = "execute" \/ call.row.status \notin {"executed", "failed"}
  PROVE  CaiplInv'
<1>1. /\ tab[t] = AtRest
      /\ tab' = [tab EXCEPT ![t] = call]
      /\ overlapped' = (overlapped \/ \E u \in Tabs : tab[u] # AtRest)
      /\ UNCHANGED <<sessionVersion, decision, erpWrites, receipts, forgotten>>
  BY DEF Begin
<1>2. CaiplShape'
  BY <1>1 DEF CaiplInv, CaiplShape
<1>3. \/ call.pc = "turn" /\ call \in Turns
      \/ call.pc \in {"execute", "settle"} /\ call \in Resolutions
  BY DEF Turns, Resolutions
<1>4. tab \in [Tabs -> {AtRest} \cup Turns \cup Resolutions]
  BY DEF CaiplInv, CaiplShape
<1>5. ASSUME NEW d \in Decisions PROVE Receipting(d)' = Receipting(d)
  BY <1>1, <1>3, <1>4 DEF Receipting, AtRest
<1>6. ReceiptsAreOfWrites'
  BY <1>1, <1>5 DEF CaiplInv, ReceiptsAreOfWrites
<1>7. ASSUME ~overlapped' PROVE OneCall' /\ CallIsCurrent' /\ ReceiptOfExecuted' /\ OnePending'
  <2>1. ~overlapped /\ \A u \in Tabs : tab[u] = AtRest
    BY <1>1, <1>7
  <2>2. Pending' = Pending
    BY <1>1 DEF Pending
  <2>3. OneCall'
    BY <1>1, <1>4, <2>1 DEF OneCall
  <2>4. CallIsCurrent'
    BY <1>1, <1>3, <1>4, <2>1, <2>2 DEF CallIsCurrent, AtRest
  <2>5. ReceiptOfExecuted' /\ OnePending'
    BY <1>1, <2>1, <2>2 DEF CaiplInv, ReceiptOfExecuted, OnePending
  <2> QED
    BY <2>3, <2>4, <2>5
<1>8. ASSUME ~overlapped', ~forgotten' PROVE WrittenOnce'
  <2>1. \A d \in Decisions : AskedFor(d)' <=> AskedFor(d)
    BY <1>1, <1>3, <1>4 DEF AskedFor, AtRest
  <2> QED
    BY <1>1, <1>8, <2>1 DEF CaiplInv, WrittenOnce
<1> QED
  BY <1>2, <1>6, <1>7, <1>8 DEF CaiplInv

LEMMA SubmitTurnPreserves ==
  ASSUME CaiplInv, NEW t \in Tabs, SubmitTurn(t) PROVE CaiplInv'
<1> DEFINE call == [pc |-> "turn", version |-> sessionVersion, offered |-> [d \in Pending |-> decision[d].offer]]
<1>1. sessionVersion \in Versions
  BY CaiplAssumption DEF SubmitTurn, Begin, Versions, CaiplInv, CaiplShape
<1>2. call \in Turns /\ call \notin Resolutions
  BY <1>1, OfferedType DEF Turns, Resolutions, CaiplInv
<1>3. DOMAIN call.offered = Pending
  OBVIOUS
<1>4. Begin(t, call)
  BY DEF SubmitTurn
<1> HIDE DEF call
<1> QED
  BY <1>2, <1>3, <1>4, BeginPreserves

LEMMA ResolveTurnPreserves ==
  ASSUME CaiplInv, NEW t \in Tabs, NEW d \in Decisions,
         NEW action \in {"confirm", "reject", "amend", "retry", "escalate"}, Resolve(t, d, action)
  PROVE  CaiplInv'
<1>1. decision[d].status = "pending" /\ d \in Pending
  BY DEF Resolve, Pending
<1>2. PICK row \in Settlements(decision[d], action) :
        Begin(t, [pc |-> "settle", version |-> sessionVersion, d |-> d, row |-> row])
  BY DEF Resolve
<1>3. decision[d] \in DecisionRow
  BY DEF CaiplInv, CaiplShape
<1>4. row \in DecisionRow /\ row.status \notin {"executed", "failed"}
  BY <1>1, <1>3 DEF Settlements, DecisionRow, DecisionStates, Offers, Executing
<1> DEFINE call == [pc |-> "settle", version |-> sessionVersion, d |-> d, row |-> row]
<1>5. sessionVersion \in Versions
  BY <1>2, CaiplAssumption DEF Begin, Versions, CaiplInv, CaiplShape
<1>6. call \in Resolutions /\ call \notin Turns /\ call.d \in Pending
      /\ call.row.status \notin {"executed", "failed"}
  BY <1>1, <1>4, <1>5 DEF Turns, Resolutions
<1>7. Begin(t, call)
  BY <1>2
<1> HIDE DEF call
<1> QED
  BY <1>6, <1>7, BeginPreserves

LEMMA ConfirmPreserves ==
  ASSUME CaiplInv, NEW t \in Tabs, NEW d \in Decisions, ConfirmExecution(t, d)
  PROVE  CaiplInv'
<1> DEFINE call == [pc |-> "execute", version |-> sessionVersion, d |-> d, row |-> decision[d]]
<1>1. Begin(t, call) /\ d \in Pending
  BY DEF ConfirmExecution, Pending
<1>2. sessionVersion \in Versions
  BY <1>1, CaiplAssumption DEF Begin, Versions, CaiplInv, CaiplShape
<1>3. decision[d] \in DecisionRow
  BY DEF CaiplInv, CaiplShape
<1>4. call \in Resolutions /\ call \notin Turns /\ call.d \in Pending /\ call.pc = "execute"
  BY <1>1, <1>2, <1>3 DEF Turns, Resolutions
<1> HIDE DEF call
<1> QED
  BY <1>1, <1>4, BeginPreserves

\* The end of a call, which leaves the sums alone
LEMMA RecordTurnPreserves ==
  ASSUME CaiplInv, NEW t \in Tabs, RecordTurn(t) PROVE CaiplInv'
<1>1. tab \in [Tabs -> {AtRest} \cup Turns \cup Resolutions] /\ decision \in [Decisions -> DecisionRow]
  BY DEF CaiplInv, CaiplShape
<1>2. /\ tab[t].pc = "turn" /\ tab[t] \in Turns
      /\ sessionVersion' = tab[t].version + 1
      /\ tab' = [tab EXCEPT ![t] = AtRest]
      /\ UNCHANGED <<erpWrites, receipts, overlapped, forgotten>>
  BY <1>1 DEF RecordTurn, AtRest, Resolutions
<1> DEFINE offered == tab[t].offered
<1>3. DOMAIN offered \subseteq Decisions /\ \A d \in DOMAIN offered : offered[d] \in Offers
  BY <1>2, OfferedType DEF Turns
<1>4. \/ /\ DOMAIN offered = {}
         /\ \E d \in Decisions, offer \in Offers :
              /\ decision[d] = NoDecision
              /\ decision' = [decision EXCEPT ![d] = [status |-> "pending", offer |-> offer]]
      \/ \E d \in DOMAIN offered, offer \in Offers :
           decision' = [decision EXCEPT ![d].offer = offer]
  <2>1. CASE /\ DOMAIN offered = {}
             /\ \E d \in Decisions : decision[d] = NoDecision
             /\ \E offer \in Offers \ {"execute"} :
                  decision' = [decision EXCEPT ![CHOOSE d \in Decisions : decision[d] = NoDecision] =
                                 [status |-> "pending", offer |-> offer]]
    <3>1. PICK d \in Decisions : decision[d] = NoDecision /\ d = CHOOSE e \in Decisions : decision[e] = NoDecision
      BY <2>1
    <3> QED
      BY <2>1, <3>1
  <2>2. CASE \E d \in DOMAIN offered : \E offer \in {offered[d], "collect"} :
               decision' = [decision EXCEPT ![d].offer = offer]
    BY <2>2, <1>3 DEF Offers
  <2> QED
    BY <2>1, <2>2 DEF RecordTurn
<1> HIDE DEF offered
<1>5. decision' \in [Decisions -> DecisionRow]
  BY <1>1, <1>3, <1>4 DEF DecisionRow, DecisionStates
<1>6. CaiplShape'
  BY <1>1, <1>2, <1>5, CaiplAssumption DEF CaiplInv, CaiplShape, Turns, Versions
<1>7. \A u \in Tabs : tab'[u] = (IF u = t THEN AtRest ELSE tab[u])
  BY <1>1, <1>2
<1>8. \A d \in Decisions : Receipting(d)' = Receipting(d)
  BY <1>2, <1>7 DEF Receipting, AtRest
<1>9. ReceiptsAreOfWrites'
  BY <1>2, <1>8 DEF CaiplInv, ReceiptsAreOfWrites
<1>10. \A d \in Decisions : \/ decision'[d].status = decision[d].status
                            \/ decision[d].status = "none" /\ decision'[d].status = "pending"
  BY <1>1, <1>3, <1>4 DEF NoDecision, DecisionRow
<1>11. ASSUME ~overlapped' PROVE OneCall' /\ CallIsCurrent' /\ ReceiptOfExecuted' /\ OnePending'
  <2>1. OneCall /\ CallIsCurrent /\ ReceiptOfExecuted /\ OnePending
    BY <1>2, <1>11 DEF CaiplInv
  <2>2. \A u \in Tabs : tab'[u] = AtRest
    BY <1>2, <1>7, <2>1 DEF OneCall, AtRest
  <2>3. OneCall' /\ CallIsCurrent'
    BY <2>2 DEF OneCall, CallIsCurrent, AtRest
  <2>4. ReceiptOfExecuted'
    BY <1>2, <1>10, <2>1 DEF ReceiptOfExecuted
  <2>5. DOMAIN offered = Pending
    BY <1>2, <2>1 DEF CallIsCurrent, offered
  <2>6. OnePending'
    BY <1>1, <1>3, <1>4, <2>1, <2>5 DEF OnePending, Pending, DecisionRow, NoDecision
  <2> QED
    BY <2>3, <2>4, <2>6
<1>12. ASSUME ~overlapped', ~forgotten' PROVE WrittenOnce'
  <2>1. \A d \in Decisions : AskedFor(d)' <=> AskedFor(d)
    BY <1>2, <1>7, <1>10 DEF AskedFor, AtRest
  <2> QED
    BY <1>2, <1>12, <2>1 DEF CaiplInv, WrittenOnce
<1> QED
  BY <1>6, <1>9, <1>11, <1>12 DEF CaiplInv

LEMMA ErpAnswersPreserves ==
  ASSUME CaiplInv, NEW t \in Tabs, ErpAnswers(t) PROVE CaiplInv'
<1>1. /\ tab \in [Tabs -> {AtRest} \cup Turns \cup Resolutions] /\ decision \in [Decisions -> DecisionRow]
      /\ erpWrites \in [Decisions -> Nat] /\ receipts \in [Decisions -> Nat]
  BY DEF CaiplInv, CaiplShape
<1>2. tab[t].pc = "execute" /\ tab[t] \in Resolutions
  BY <1>1 DEF ErpAnswers, AtRest, Turns
<1> DEFINE d == tab[t].d
<1>3. d \in Decisions
  BY <1>2 DEF Resolutions
<1>4. PICK answered \in BOOLEAN, written \in BOOLEAN :
        /\ answered => written
        /\ erpWrites' = [erpWrites EXCEPT ![d] = IF written THEN @ + 1 ELSE @]
        /\ tab' = [tab EXCEPT ![t].pc = "settle", ![t].row.status = StatusAfter(answered)]
  BY DEF ErpAnswers
<1>5. UNCHANGED <<sessionVersion, decision, receipts, overlapped, forgotten>>
  BY DEF ErpAnswers
<1>6. /\ \A u \in Tabs : u # t => tab'[u] = tab[u]
      /\ tab'[t] \in Resolutions /\ tab'[t].pc = "settle" /\ tab'[t].d = d
      /\ tab'[t].row.status = (IF answered THEN "executed" ELSE "failed")
      /\ tab' \in [Tabs -> {AtRest} \cup Turns \cup Resolutions]
  BY <1>1, <1>2, <1>4 DEF Resolutions, StatusAfter, DecisionRow, DecisionStates
<1>7. erpWrites' \in [Decisions -> Nat]
  BY <1>1, <1>3, <1>4
<1>8. CaiplShape'
  BY <1>5, <1>6, <1>7 DEF CaiplInv, CaiplShape
<1>9. ReceiptsAreOfWrites'
  <2>1. ASSUME NEW e \in Decisions PROVE receipts'[e] + Cardinality(Receipting(e)') <= erpWrites'[e]
    <3>1. receipts[e] + Cardinality(Receipting(e)) <= erpWrites[e]
      BY DEF CaiplInv, ReceiptsAreOfWrites
    <3>2. t \notin Receipting(e) /\ IsFiniteSet(Receipting(e)) /\ Cardinality(Receipting(e)) \in Nat
      BY <1>2, ReceiptingFinite DEF Receipting
    <3>3. CASE answered /\ e = d
      <4>1. Receipting(e)' = Receipting(e) \cup {t}
        BY <1>6, <3>3 DEF Receipting
      <4>2. Cardinality(Receipting(e)') = Cardinality(Receipting(e)) + 1
        BY <3>2, <4>1, FS_AddElement
      <4>3. erpWrites'[e] = erpWrites[e] + 1
        BY <1>1, <1>3, <1>4, <3>3
      <4> QED
        BY <1>1, <1>5, <3>1, <3>2, <4>2, <4>3
    <3>4. CASE ~(answered /\ e = d)
      <4>1. Receipting(e)' = Receipting(e)
        BY <1>2, <1>6, <3>4 DEF Receipting
      <4>2. erpWrites'[e] = erpWrites[e] \/ erpWrites'[e] = erpWrites[e] + 1
        BY <1>1, <1>3, <1>4
      <4> QED
        BY <1>1, <1>5, <3>1, <3>2, <4>1, <4>2
    <3> QED
      BY <3>3, <3>4
  <2> QED
    BY <2>1 DEF ReceiptsAreOfWrites
<1>10. ASSUME ~overlapped' PROVE OneCall' /\ CallIsCurrent' /\ ReceiptOfExecuted' /\ OnePending'
  <2>1. OneCall /\ CallIsCurrent /\ ReceiptOfExecuted /\ OnePending
    BY <1>5, <1>10 DEF CaiplInv
  <2>2. Pending' = Pending
    BY <1>5 DEF Pending
  <2>3. OneCall'
    BY <1>2, <1>6, <2>1 DEF OneCall, AtRest
  <2>4. CallIsCurrent'
    BY <1>2, <1>6, <2>1, <2>2 DEF CallIsCurrent
  <2> QED
    BY <1>5, <2>1, <2>2, <2>3, <2>4 DEF ReceiptOfExecuted, OnePending
<1>11. ASSUME ~overlapped', ~forgotten' PROVE WrittenOnce'
  <2>1. OneCall /\ CallIsCurrent /\ WrittenOnce
    BY <1>5, <1>11 DEF CaiplInv
  <2>2. decision[d].status = "pending"
    BY <1>2, <2>1 DEF CallIsCurrent, Pending
  <2>3. \A u \in Tabs : u # t => tab[u] = AtRest
    BY <1>2, <2>1 DEF OneCall, AtRest
  <2>4. ~AskedFor(d) /\ AskedFor(d)'
    BY <1>2, <1>6, <2>2, <2>3 DEF AskedFor, AtRest
  <2>5. \A e \in Decisions : e # d => (AskedFor(e)' <=> AskedFor(e))
    BY <1>2, <1>5, <1>6, <2>3 DEF AskedFor, AtRest
  <2> QED
    BY <1>1, <1>3, <1>4, <2>1, <2>4, <2>5 DEF WrittenOnce
<1> QED
  BY <1>8, <1>9, <1>10, <1>11 DEF CaiplInv

LEMMA SettlePreserves ==
  ASSUME CaiplInv, NEW t \in Tabs, Settle(t) PROVE CaiplInv'
<1>1. /\ tab \in [Tabs -> {AtRest} \cup Turns \cup Resolutions] /\ decision \in [Decisions -> DecisionRow]
      /\ erpWrites \in [Decisions -> Nat] /\ receipts \in [Decisions -> Nat]
  BY DEF CaiplInv, CaiplShape
<1> DEFINE call == tab[t]
<1>2. call.pc = "settle" /\ call \in Resolutions
  BY <1>1 DEF Settle, AtRest, Turns
<1>3. call.d \in Decisions /\ call.row \in DecisionRow /\ call.version \in Versions
  BY <1>2 DEF Resolutions
<1>4. /\ decision' = [decision EXCEPT ![call.d] = call.row]
      /\ receipts' = [receipts EXCEPT ![call.d] = IF call.row.status = "executed" THEN @ + 1 ELSE @]
      /\ sessionVersion' = call.version + 1
      /\ tab' = [tab EXCEPT ![t] = AtRest]
      /\ UNCHANGED <<erpWrites, overlapped, forgotten>>
  BY DEF Settle
<1>5. CaiplShape'
  BY <1>1, <1>3, <1>4, CaiplAssumption DEF CaiplInv, CaiplShape, Versions
<1>6. \A u \in Tabs : tab'[u] = (IF u = t THEN AtRest ELSE tab[u])
  BY <1>1, <1>4
<1>7. ReceiptsAreOfWrites'
  <2>1. ASSUME NEW e \in Decisions PROVE receipts'[e] + Cardinality(Receipting(e)') <= erpWrites'[e]
    <3>1. receipts[e] + Cardinality(Receipting(e)) <= erpWrites[e]
      BY DEF CaiplInv, ReceiptsAreOfWrites
    <3>2. IsFiniteSet(Receipting(e)) /\ Cardinality(Receipting(e)) \in Nat
      BY ReceiptingFinite
    <3>3. CASE call.row.status = "executed" /\ e = call.d
      <4>1. t \in Receipting(e) /\ Receipting(e)' = Receipting(e) \ {t}
        BY <1>2, <1>6, <3>3 DEF Receipting, AtRest
      <4>2. Cardinality(Receipting(e)') = Cardinality(Receipting(e)) - 1
        BY <3>2, <4>1, FS_RemoveElement
      <4>3. receipts'[e] = receipts[e] + 1
        BY <1>1, <1>3, <1>4, <3>3
      <4> QED
        BY <1>1, <1>4, <3>1, <3>2, <4>2, <4>3
    <3>4. CASE ~(call.row.status = "executed" /\ e = call.d)
      <4>1. Receipting(e)' = Receipting(e)
        BY <1>2, <1>6, <3>4 DEF Receipting, AtRest
      <4>2. receipts'[e] = receipts[e]
        BY <1>1, <1>3, <1>4, <3>4
      <4> QED
        BY <1>4, <3>1, <4>1, <4>2
    <3> QED
      BY <3>3, <3>4
  <2> QED
    BY <2>1 DEF ReceiptsAreOfWrites
<1>8. ASSUME ~overlapped' PROVE OneCall' /\ CallIsCurrent' /\ ReceiptOfExecuted' /\ OnePending'
  <2>1. OneCall /\ CallIsCurrent /\ ReceiptOfExecuted /\ OnePending
    BY <1>4, <1>8 DEF CaiplInv
  <2>2. \A u \in Tabs : tab'[u] = AtRest
    BY <1>2, <1>6, <2>1 DEF OneCall, AtRest
  <2>3. OneCall' /\ CallIsCurrent'
    BY <2>2 DEF OneCall, CallIsCurrent, AtRest
  <2>4. call.d \in Pending /\ decision[call.d].status = "pending"
    BY <1>2, <2>1 DEF CallIsCurrent, Pending
  <2>5. ReceiptOfExecuted'
    BY <1>1, <1>3, <1>4, <2>1, <2>4 DEF ReceiptOfExecuted
  <2>6. Pending' \subseteq Pending
    BY <1>1, <1>3, <1>4, <2>4 DEF Pending
  <2> QED
    BY <2>1, <2>3, <2>5, <2>6 DEF OnePending
<1>9. ASSUME ~overlapped', ~forgotten' PROVE WrittenOnce'
  <2>1. OneCall /\ CallIsCurrent /\ WrittenOnce
    BY <1>4, <1>9 DEF CaiplInv
  <2>2. PICK d \in Decisions : d = call.d
    BY <1>3
  <2>3. decision[d].status = "pending"
    BY <1>2, <2>1, <2>2 DEF CallIsCurrent, Pending
  <2>4. \A u \in Tabs : (u # t => tab[u] = AtRest) /\ tab'[u] = AtRest
    BY <1>2, <1>6, <2>1 DEF OneCall, AtRest
  <2>5. AskedFor(d)' <=> AskedFor(d)
    <3>1. decision'[d].status = call.row.status
      BY <1>1, <1>4, <2>2
    <3>2. AskedFor(d) <=> call.row.status \in {"executed", "failed"}
      BY <1>2, <2>2, <2>3, <2>4 DEF AskedFor, AtRest
    <3>3. AskedFor(d)' <=> decision'[d].status \in {"executed", "failed"}
      BY <2>4 DEF AskedFor, AtRest
    <3> QED
      BY <3>1, <3>2, <3>3
  <2>6. \A e \in Decisions : e # d => (AskedFor(e)' <=> AskedFor(e))
    BY <1>1, <1>2, <1>4, <2>2, <2>4 DEF AskedFor, AtRest
  <2>7. \A e \in Decisions : AskedFor(e)' <=> AskedFor(e)
    BY <2>5, <2>6
  <2> QED
    BY <1>4, <2>1, <2>7 DEF WrittenOnce
<1> QED
  BY <1>5, <1>7, <1>8, <1>9 DEF CaiplInv

LEMMA CaiplRestartPreserves == ASSUME CaiplInv, CaiplRestart PROVE CaiplInv'
<1>1. /\ tab' = [t \in Tabs |-> AtRest]
      /\ forgotten' = (forgotten \/ \E t \in Tabs :
                         tab[t].pc = "settle" /\ tab[t].row.status \in {"executed", "failed"})
      /\ UNCHANGED <<sessionVersion, decision, erpWrites, receipts, overlapped>>
  BY DEF CaiplRestart
<1>2. CaiplShape'
  BY <1>1 DEF CaiplInv, CaiplShape
<1>3. \A d \in Decisions : Receipting(d)' = {}
  BY <1>1 DEF Receipting, AtRest
<1>4. ReceiptsAreOfWrites'
  <2>1. ASSUME NEW d \in Decisions PROVE receipts'[d] + Cardinality(Receipting(d)') <= erpWrites'[d]
    <3>1. Cardinality(Receipting(d)') = 0
      BY <1>3, FS_EmptySet
    <3>2. receipts[d] + Cardinality(Receipting(d)) <= erpWrites[d] /\ Cardinality(Receipting(d)) \in Nat
          /\ receipts[d] \in Nat /\ erpWrites[d] \in Nat
      BY ReceiptingFinite DEF CaiplInv, CaiplShape, ReceiptsAreOfWrites
    <3> QED
      BY <1>1, <3>1, <3>2
  <2> QED
    BY <2>1 DEF ReceiptsAreOfWrites
<1>5. ASSUME ~overlapped' PROVE OneCall' /\ CallIsCurrent' /\ ReceiptOfExecuted' /\ OnePending'
  BY <1>1, <1>5 DEF CaiplInv, OneCall, CallIsCurrent, ReceiptOfExecuted, OnePending, Pending, AtRest
<1>6. ASSUME ~overlapped', ~forgotten' PROVE WrittenOnce'
  <2>1. \A d \in Decisions : AskedFor(d)' <=> AskedFor(d)
    BY <1>1, <1>6 DEF AskedFor, AtRest
  <2> QED
    BY <1>1, <1>6, <2>1 DEF CaiplInv, WrittenOnce
<1> QED
  BY <1>2, <1>4, <1>5, <1>6 DEF CaiplInv

\* Every receipt stands for a write of the ERP; while calls do not overlap a decision
\* has the receipt its status says, at most one waits for the operator, and the ERP makes
\* at most once what it asks for (caiplService.ts).
THEOREM CaiplSafety == CaiplSpec => [](CaiplTypeOK /\ DecisionsSettledOnce)
<1>1. CaiplInv /\ [CaiplNext]_caiplVars => CaiplInv'
  <2>1. CaiplInv /\ UNCHANGED caiplVars => CaiplInv'
    BY DEF caiplVars, CaiplInv, CaiplShape, ReceiptsAreOfWrites, Receipting, OneCall, CallIsCurrent,
       ReceiptOfExecuted, OnePending, WrittenOnce, AskedFor, Pending
  <2> QED
    BY <2>1, SubmitTurnPreserves, RecordTurnPreserves, ErpAnswersPreserves, SettlePreserves,
       ConfirmPreserves, ResolveTurnPreserves, CaiplRestartPreserves DEF CaiplNext
<1> QED
  BY <1>1, CaiplInvInitially, CaiplInvImplies, PTL DEF CaiplSpec

-----------------------------------------------------------------------------
(* Identity.                                                               *)

-----------------------------------------------------------------------------
\* What a sign-in under way carries
SignInRows ==
  {NotSigningIn} \cup [pc : {"lookup"}, subject : Profiles, email : Emails]
    \cup [pc : {"resolve"}, subject : Profiles, email : Emails, found : Employees \cup {Nobody}]

IdentityShape ==
  /\ identity \in [Identities -> {Absent} \cup IdentityRows]
  /\ token \in [Tokens -> {Unused} \cup TokenRows]
  /\ signIn \in [Calls -> SignInRows]
  /\ granted \in [linked : SUBSET Identities, admin : SUBSET Identities]
  /\ loggedOut \subseteq Tokens

\* What IdentitiesAgree says of the rows.
RowsAgree ==
  \A i \in Present :
    /\ identity[i].status = StatusFor(identity[i].employee)
    /\ i \in granted.linked => identity[i].employee # Nobody
    /\ i \in granted.admin => identity[i].admin

\* Nobody is granted anything before the row exists.
GrantedArePresent == granted.linked \subseteq Present /\ granted.admin \subseteq Present

Used == {t \in Tokens : token[t] # Unused}

\* The rows are numbered in order, and a chain is named by one that exists.
ChainsExist ==
  /\ \A t \in Used : token[t].chain \in Used
  /\ loggedOut \subseteq Used

\* Of a chain at most one token was never consumed, and that only before a logout.
Open == {t \in Used : token[t].status \in {"live", "expired"}}
OneOpenOfChain ==
  /\ \A t, u \in Open : token[t].chain = token[u].chain => t = u
  /\ \A t \in Open : token[t].chain \notin loggedOut

\* The inductive invariant.
IdentityInv ==
  IdentityShape /\ RowsAgree /\ GrantedArePresent /\ ChainsExist /\ OneOpenOfChain

\* The invariant of the identities says what is claimed, and each step keeps it.
LEMMA IdentityInvImplies == IdentityInv => IdentitiesAgree /\ IdentityTypeOK
<1> SUFFICES ASSUME IdentityInv PROVE IdentitiesAgree /\ IdentityTypeOK
  OBVIOUS
<1>1. ASSUME NEW chain \in Tokens
      PROVE  LET live == {t \in Tokens : token[t].status = "live" /\ token[t].chain = chain} IN
             Cardinality(live) <= 1 /\ (chain \in loggedOut => live = {})
  <2> DEFINE live == {t \in Tokens : token[t].status = "live" /\ token[t].chain = chain}
  <2>1. live \subseteq Open
    BY DEF Open, Used, Unused
  <2>2. \A t, u \in live : t = u
    BY <2>1 DEF IdentityInv, OneOpenOfChain
  <2>3. Cardinality(live) <= 1
    <3> HIDE DEF live
    <3> QED BY <2>2, AtMostOne
  <2>4. chain \in loggedOut => live = {}
    BY <2>1 DEF IdentityInv, OneOpenOfChain
  <2> QED
    BY <2>3, <2>4
<1>2. IdentityTypeOK
  BY DEF IdentityInv, IdentityShape, IdentityTypeOK
<1> QED
  BY <1>1, <1>2 DEF IdentitiesAgree, IdentityInv, RowsAgree

LEMMA IdentityInvInitially == IdentityInit => IdentityInv
BY DEF IdentityInit, IdentityInv, IdentityShape, SignInRows, RowsAgree, GrantedArePresent, Present,
       ChainsExist, OneOpenOfChain, Used, Open

\* What a sign-in and a break-glass sign-in share
LEMMA ResolvePreserves ==
  ASSUME IdentityInv, NEW who \in Profiles \cup {BreakGlassSubject}, NEW email \in Emails,
         NEW found \in Employees \cup {Nobody}, NEW admin \in BOOLEAN,
         ResolveAndIssue(who, email, found, admin),
         loggedOut' = loggedOut, signIn' \in [Calls -> SignInRows]
  PROVE  IdentityInv'
<1> PICK i \in Identities, t \in Tokens :
      LET row == IF i \in Present THEN identity[i] ELSE NewRow
          now == Resolved(row, who, email, found, admin) IN
      /\ Resolves(i, who, email)
      /\ identity' = [identity EXCEPT ![i] = now]
      /\ IsNew(t)
      /\ token' = IssueToken(token, t, i, t)
      /\ granted' = [linked |-> granted.linked \cup (IF now.employee # Nobody THEN {i} ELSE {}),
                     admin |-> granted.admin \cup (IF admin THEN {i} ELSE {})]
  BY DEF ResolveAndIssue
<1> DEFINE row == IF i \in Present THEN identity[i] ELSE NewRow
           now == Resolved(row, who, email, found, admin)
<1>1. identity \in [Identities -> {Absent} \cup IdentityRows] /\ token \in [Tokens -> {Unused} \cup TokenRows]
      /\ granted \in [linked : SUBSET Identities, admin : SUBSET Identities]
  BY DEF IdentityInv, IdentityShape
<1>2. /\ row.employee \in Employees \cup {Nobody} /\ row.admin \in BOOLEAN
      /\ i \in granted.linked => row.employee # Nobody
      /\ i \in granted.admin => row.admin
  <2>1. CASE i \in Present
    BY <1>1, <2>1 DEF Present, IdentityRows, IdentityInv, RowsAgree
  <2>2. CASE i \notin Present
    BY <2>2 DEF NewRow, IdentityInv, GrantedArePresent
  <2> QED
    BY <2>1, <2>2
<1>3. /\ now.status = StatusFor(now.employee) /\ now.subject = who /\ now.email = email
      /\ now.employee = Coalesce(found, row.employee)
      /\ now.admin = (admin \/ row.admin)
      /\ now \in IdentityRows
      /\ i \in granted.linked => now.employee # Nobody
      /\ i \in granted.admin \/ admin => now.admin
  <2> HIDE DEF row
  <2> QED
    BY <1>2 DEF Resolved, Coalesce, StatusFor, IdentityRows
<1>4. now # Absent
  BY <1>3 DEF Absent, IdentityRows
<1> HIDE DEF row, now
<1>5. /\ identity' = [identity EXCEPT ![i] = now]
      /\ granted' = [linked |-> granted.linked \cup (IF now.employee # Nobody THEN {i} ELSE {}),
                     admin |-> granted.admin \cup (IF admin THEN {i} ELSE {})]
  BY DEF row, now
<1>6. /\ token[t] = Unused
      /\ token' = [token EXCEPT ![t] = [status |-> "live", owner |-> i, chain |-> t]]
  BY DEF IsNew, IssueToken
<1>7. Present' = Present \cup {i}
  BY <1>1, <1>4, <1>5 DEF Present
<1>8. IdentityShape'
  BY <1>1, <1>3, <1>5, <1>6 DEF IdentityInv, IdentityShape, TokenRows
<1>9. RowsAgree'
  <2>1. ASSUME NEW j \in Present' PROVE
          /\ identity'[j].status = StatusFor(identity'[j].employee)
          /\ j \in granted'.linked => identity'[j].employee # Nobody
          /\ j \in granted'.admin => identity'[j].admin
    <3>1. CASE j = i
      BY <1>1, <1>3, <1>5, <3>1
    <3>2. CASE j # i
      BY <1>1, <1>5, <1>7, <3>2 DEF IdentityInv, RowsAgree, Present
    <3> QED
      BY <3>1, <3>2
  <2> QED
    BY <2>1 DEF RowsAgree, StatusFor
<1>10. GrantedArePresent'
  BY <1>1, <1>5, <1>7 DEF IdentityInv, GrantedArePresent
<1>11. Used' = Used \cup {t} /\ t \notin Used
  BY <1>1, <1>6 DEF Used, Unused
<1>12. ChainsExist'
  BY <1>1, <1>6, <1>11 DEF IdentityInv, ChainsExist, Used
<1>13. OneOpenOfChain'
  BY <1>1, <1>6, <1>11 DEF IdentityInv, OneOpenOfChain, ChainsExist, Used, Open
<1> QED
  BY <1>8, <1>9, <1>10, <1>12, <1>13 DEF IdentityInv

\* A step that leaves the tokens alone
LEMMA SignInsPreserve ==
  ASSUME IdentityInv, NEW c \in Calls, Callback(c) \/ Lookup(c) \/ SignInFails(c)
  PROVE  IdentityInv'
<1>1. UNCHANGED <<identity, token, granted, loggedOut>>
  BY DEF Callback, Lookup, SignInFails
<1>2. signIn' \in [Calls -> SignInRows]
  BY DEF IdentityInv, IdentityShape, Callback, Lookup, SignInFails, SignInRows, NotSigningIn
<1> QED
  BY <1>1, <1>2 DEF IdentityInv, IdentityShape, RowsAgree, GrantedArePresent, Present,
     ChainsExist, OneOpenOfChain, Used, Open

LEMMA SignInPreserves ==
  ASSUME IdentityInv, NEW c \in Calls, SignIn(c) PROVE IdentityInv'
<1>1. signIn[c] \in [pc : {"resolve"}, subject : Profiles, email : Emails, found : Employees \cup {Nobody}]
  BY DEF SignIn, IdentityInv, IdentityShape, SignInRows, NotSigningIn
<1>2. signIn' \in [Calls -> SignInRows]
  BY DEF SignIn, IdentityInv, IdentityShape, SignInRows
<1> QED
  BY <1>1, <1>2, ResolvePreserves DEF SignIn

LEMMA BreakGlassPreserves == ASSUME IdentityInv, BreakGlass PROVE IdentityInv'
<1>1. signIn' \in [Calls -> SignInRows]
  BY DEF BreakGlass, IdentityInv, IdentityShape
<1> QED
  BY <1>1, ResolvePreserves DEF BreakGlass

LEMMA LinkPreserves == ASSUME IdentityInv, LinkH2R PROVE IdentityInv'
<1>1. PICK i \in Present, h \in Employees :
        /\ identity' = [identity EXCEPT ![i].employee = h, ![i].status = "active"]
        /\ granted' = [granted EXCEPT !.linked = @ \cup {i}]
  BY DEF LinkH2R
<1>2. UNCHANGED <<token, signIn, loggedOut>>
  BY DEF LinkH2R
<1>3. identity[i] \in IdentityRows /\ i \in Identities
  BY DEF Present, IdentityInv, IdentityShape
<1>4. /\ identity'[i] \in IdentityRows /\ identity'[i].employee = h /\ identity'[i].status = "active"
      /\ identity'[i].admin = identity[i].admin
      /\ identity' \in [Identities -> {Absent} \cup IdentityRows]
      /\ \A j \in Identities : j # i => identity'[j] = identity[j]
  BY <1>1, <1>3 DEF IdentityInv, IdentityShape, IdentityRows
<1>5. Present' = Present
  BY <1>3, <1>4 DEF Present, Absent, IdentityRows
<1>6. /\ granted' \in [linked : SUBSET Identities, admin : SUBSET Identities]
      /\ granted'.linked = granted.linked \cup {i} /\ granted'.admin = granted.admin
  BY <1>1, <1>3 DEF IdentityInv, IdentityShape
<1>7. IdentityShape' /\ GrantedArePresent'
  BY <1>2, <1>4, <1>5, <1>6 DEF IdentityInv, IdentityShape, GrantedArePresent
<1>8. RowsAgree'
  BY <1>4, <1>5, <1>6, IdentityAssumption DEF IdentityInv, RowsAgree, StatusFor, Present
<1>9. ChainsExist' /\ OneOpenOfChain'
  BY <1>2 DEF IdentityInv, ChainsExist, OneOpenOfChain, Used, Open
<1> QED
  BY <1>7, <1>8, <1>9 DEF IdentityInv

LEMMA TokensPreserve ==
  ASSUME IdentityInv, RefreshSession \/ Logout \/ TokenExpires PROVE IdentityInv'
<1>1. UNCHANGED <<identity, signIn, granted>> /\ loggedOut' \subseteq Tokens
  BY DEF RefreshSession, Logout, TokenExpires, IdentityInv, IdentityShape, TokenRows, Unused
<1>2. RowsAgree' /\ GrantedArePresent'
  BY <1>1 DEF IdentityInv, RowsAgree, GrantedArePresent, Present
<1>3. token \in [Tokens -> {Unused} \cup TokenRows]
  BY DEF IdentityInv, IdentityShape
<1>4. ASSUME RefreshSession PROVE IdentityInv'
  <2>1. PICK t, next \in Tokens :
          /\ token[t].status = "live" /\ IsNew(next)
          /\ token' = IssueToken(Revoked(token, t), next, token[t].owner, token[t].chain)
    BY <1>4 DEF RefreshSession
  <2>2. token[t] \in TokenRows /\ token[next] = Unused /\ t # next
    BY <2>1, <1>3 DEF Unused, IsNew
  <2>3. /\ token' \in [Tokens -> {Unused} \cup TokenRows]
        /\ token'[next] = [status |-> "live", owner |-> token[t].owner, chain |-> token[t].chain]
        /\ token'[t] = [token[t] EXCEPT !.status = "revoked"]
        /\ \A u \in Tokens : u # t /\ u # next => token'[u] = token[u]
    BY <2>1, <2>2, <1>3 DEF IssueToken, Revoked, TokenRows
  <2>4. Used' = Used \cup {next} /\ t \in Used /\ next \notin Used
    BY <2>2, <2>3 DEF Used, Unused, TokenRows
  <2>5. loggedOut' = loggedOut
    BY <1>4 DEF RefreshSession
  <2>6. ChainsExist'
    BY <2>2, <2>3, <2>4, <2>5 DEF IdentityInv, ChainsExist, TokenRows, Used
  <2>7. t \in Open /\ Open' = (Open \ {t}) \cup {next}
    BY <2>1, <2>2, <2>3, <2>4 DEF Open, TokenRows, Used
  <2>8. /\ token'[next].chain = token[t].chain
        /\ \A u \in Open \ {t} : token'[u] = token[u]
    BY <2>2, <2>3, <2>4 DEF Open, Used
  <2>9. OneOpenOfChain'
    BY <2>5, <2>7, <2>8 DEF IdentityInv, OneOpenOfChain
  <2> QED
    BY <1>1, <1>2, <2>3, <2>6, <2>9 DEF IdentityInv, IdentityShape
<1>5. ASSUME Logout PROVE IdentityInv'
  <2>1. PICK t \in Tokens :
          /\ token[t].status \in {"live", "expired"}
          /\ token' = Revoked(token, t)
          /\ loggedOut' = loggedOut \cup {token[t].chain}
    BY <1>5 DEF Logout
  <2>2. token[t] \in TokenRows
    BY <2>1, <1>3 DEF Unused
  <2>3. /\ token' \in [Tokens -> {Unused} \cup TokenRows]
        /\ token'[t] = [token[t] EXCEPT !.status = "revoked"]
        /\ \A u \in Tokens : u # t => token'[u] = token[u]
    BY <2>1, <2>2, <1>3 DEF Revoked, TokenRows
  <2>4. Used' = Used /\ t \in Used
    BY <2>2, <2>3 DEF Used, Unused, TokenRows
  <2>5. ChainsExist'
    BY <2>1, <2>2, <2>3, <2>4 DEF IdentityInv, ChainsExist, TokenRows, Used
  <2>6. t \in Open /\ Open' = Open \ {t}
    BY <2>1, <2>2, <2>3, <2>4 DEF Open, TokenRows, Used
  <2>7. \A u \in Open \ {t} : token'[u] = token[u]
    BY <2>3 DEF Open, Used
  <2>8. OneOpenOfChain'
    BY <2>1, <2>6, <2>7 DEF IdentityInv, OneOpenOfChain
  <2> QED
    BY <1>1, <1>2, <2>3, <2>5, <2>8 DEF IdentityInv, IdentityShape
<1>6. ASSUME TokenExpires PROVE IdentityInv'
  <2>1. PICK t \in Tokens :
          /\ token[t].status = "live"
          /\ token' = [token EXCEPT ![t].status = "expired"]
    BY <1>6 DEF TokenExpires
  <2>2. token[t] \in TokenRows
    BY <2>1, <1>3 DEF Unused
  <2>3. /\ token' \in [Tokens -> {Unused} \cup TokenRows]
        /\ token'[t] = [token[t] EXCEPT !.status = "expired"]
        /\ \A u \in Tokens : u # t => token'[u] = token[u]
    BY <2>1, <2>2, <1>3 DEF TokenRows
  <2>4. Used' = Used /\ t \in Used
    BY <2>2, <2>3 DEF Used, Unused, TokenRows
  <2>5. loggedOut' = loggedOut
    BY <1>6 DEF TokenExpires
  <2>6. \A u \in Used : token'[u].chain = token[u].chain
    BY <2>2, <2>3 DEF Used, TokenRows
  <2>7. ChainsExist'
    BY <2>4, <2>5, <2>6 DEF IdentityInv, ChainsExist
  <2>8. Open' = Open
    BY <2>1, <2>2, <2>3, <2>4 DEF Open, TokenRows, Used
  <2>9. OneOpenOfChain'
    BY <2>4, <2>5, <2>6, <2>8 DEF IdentityInv, OneOpenOfChain, Open
  <2> QED
    BY <1>1, <1>2, <2>3, <2>7, <2>9 DEF IdentityInv, IdentityShape
<1> QED
  BY <1>4, <1>5, <1>6

\* Signing in takes nothing away that was linked or granted, and of the tokens that go
\* back to one sign-in at most one is good at a time, none after a logout with the last.
THEOREM IdentitySafety == IdentitySpec => [](IdentityTypeOK /\ IdentitiesAgree)
<1>1. IdentityInv /\ [IdentityNext]_identityVars => IdentityInv'
  <2>1. IdentityInv /\ UNCHANGED identityVars => IdentityInv'
    BY DEF identityVars, IdentityInv, IdentityShape, RowsAgree, GrantedArePresent, Present,
       ChainsExist, OneOpenOfChain, Used, Open
  <2> QED
    BY <2>1, SignInsPreserve, SignInPreserves, BreakGlassPreserves, LinkPreserves, TokensPreserve
       DEF IdentityNext
<1> QED
  BY <1>1, IdentityInvInitially, IdentityInvImplies, PTL DEF IdentitySpec

-----------------------------------------------------------------------------
(* EngineRules.                                                            *)

(* A set of tiers with zero has a greatest member, which is what Max0 is of it. *)
LEMMA GreatestTier ==
  ASSUME NEW S \in SUBSET (1..5)
  PROVE  /\ Max0(S) \in 0..5 /\ Max0(S) \in S \cup {0}
         /\ \A s \in S : s <= Max0(S)
<1> DEFINE T == S \cup {0}
<1>1. PICK m \in T : \A t \in T : m >= t
  <2>1. T \subseteq 0..5 /\ 0 \in T
    OBVIOUS
  <2>2. \A n \in 0..5 : (n \in T /\ \A t \in T : n >= t) => \E m \in T : \A t \in T : m >= t
    OBVIOUS
  <2> HIDE DEF T
  <2>3. CASE 5 \in T
    BY <2>1, <2>2, <2>3
  <2>4. CASE 5 \notin T /\ 4 \in T
    BY <2>1, <2>2, <2>4
  <2>5. CASE 5 \notin T /\ 4 \notin T /\ 3 \in T
    BY <2>1, <2>2, <2>5
  <2>6. CASE 5 \notin T /\ 4 \notin T /\ 3 \notin T /\ 2 \in T
    BY <2>1, <2>2, <2>6
  <2>7. CASE 5 \notin T /\ 4 \notin T /\ 3 \notin T /\ 2 \notin T
    BY <2>1, <2>2, <2>7
  <2> QED
    BY <2>3, <2>4, <2>5, <2>6, <2>7
<1>2. Max(T) \in T /\ \A t \in T : Max(T) >= t
  <2> HIDE DEF T
  <2> QED
    BY <1>1, Zenon DEF Max
<1>3. T \in SUBSET (0..5)
  OBVIOUS
<1> QED
  BY <1>2, <1>3 DEF Max0

(* What is asked of a request, whoever makes it: the tiers of the rules that    *)
(* apply to it.                                                                 *)
Applies(q) ==
  LET buying == q.domain = "P2P" /\ q.action = "p2p_purchase_order_issued"
      agreeing == q.domain = "O2C" /\ q.action = "approve" /\ q.resource = "contract"
      forced == q.domain = "PROJ" /\ q.action = "cancel" /\ q.force IN
  {t \in {3, 4} :
     \/ t = 3 /\ ((buying /\ Over(q, 10)) \/ (agreeing /\ Over(q, parameter.tier3)) \/ forced)
     \/ t = 4 /\ ((buying /\ Over(q, 50)) \/ (agreeing /\ Over(q, parameter.tier4)))}

\* The tiers that are asked of p are those that apply and that p does not reach.
LEMMA AskedIs ==
  ASSUME NEW p, NEW q
  PROVE  Asked(p, q) = {t \in Applies(q) : EffectiveTier(p) < t}
BY DEF Asked, Applies

\* Positions have a tier of the column's check.
TiersInv == position \in [Staff -> SUBSET (1..5)]

(* The tier that is asked for is the highest of those that apply, so whoever    *)
(* reaches it reaches all of them.                                              *)
LEMMA AskedTier ==
  ASSUME TiersInv, NEW p \in Staff, NEW q, GovernanceAsks(p, q) > 0
  PROVE  /\ GovernanceAsks(p, q) \in {3, 4}
         /\ \A a \in Staff : Asked(a, q) = {} <=> EffectiveTier(a) >= GovernanceAsks(p, q)
<1>1. \A a \in Staff : EffectiveTier(a) \in 0..5
  BY GreatestTier DEF EffectiveTier, TiersInv
<1>2. ~Denied(p, q) /\ GovernanceAsks(p, q) = Max0(Asked(p, q))
  BY DEF GovernanceAsks
<1>3. Asked(p, q) \in SUBSET {3, 4} /\ Asked(p, q) \in SUBSET (1..5)
  BY AskedIs DEF Applies
<1>4. /\ Max0(Asked(p, q)) \in Asked(p, q)
      /\ \A t \in Asked(p, q) : t <= Max0(Asked(p, q))
  BY <1>2, <1>3, GreatestTier
<1> DEFINE top == Max0(Asked(p, q))
<1>5. top \in Applies(q) /\ EffectiveTier(p) < top /\ top \in {3, 4}
  BY <1>3, <1>4, AskedIs
<1>6. \A t \in Applies(q) : t \in {3, 4} /\ t <= top
  BY <1>1, <1>4, <1>5, AskedIs DEF Applies
<1>7. ASSUME NEW a \in Staff PROVE Asked(a, q) = {} <=> EffectiveTier(a) >= top
  <2>1. Asked(a, q) = {t \in Applies(q) : EffectiveTier(a) < t}
    BY AskedIs
  <2>2. EffectiveTier(a) \in 0..5
    BY <1>1
  <2> HIDE DEF top
  <2>3. CASE EffectiveTier(a) >= top
    <3>1. \A t \in Applies(q) : ~(EffectiveTier(a) < t)
      BY <1>5, <1>6, <2>2, <2>3
    <3> QED
      BY <2>1, <2>3, <3>1
  <2>4. CASE ~(EffectiveTier(a) >= top)
    <3>1. top \in Asked(a, q)
      BY <1>5, <2>1, <2>2, <2>4
    <3> QED
      BY <2>4, <3>1
  <2> QED
    BY <2>3, <2>4
<1> QED
  BY <1>2, <1>5, <1>7

LEMMA ReachesTier ==
  ASSUME TiersInv, NEW a \in Staff, NEW n \in {3, 4}
  PROVE  EffectiveTier(a) >= n <=> \E t \in position[a] : t >= n
<1>1. position[a] \in SUBSET (1..5)
  BY DEF TiersInv
<1> QED
  BY <1>1, GreatestTier DEF EffectiveTier

\* Positions stay sets of grades.
LEMMA TiersStep == TiersInv /\ [RulesNext]_rulesVars => TiersInv'
<1> SUFFICES ASSUME TiersInv, [RulesNext]_rulesVars PROVE TiersInv'
  OBVIOUS
<1>1. ASSUME NEW p \in Staff, AssignmentChanges(p) PROVE TiersInv'
  BY <1>1, EngineRulesAssumption DEF AssignmentChanges, TiersInv
<1>2. ASSUME NEW p \in Staff, SubjectChanges(p) \/ CredentialChanges(p) PROVE TiersInv'
  BY <1>2 DEF SubjectChanges, CredentialChanges, TiersInv
<1>3. CASE AmountRuleCreated \/ ParameterUpdated
  BY <1>3 DEF AmountRuleCreated, ParameterUpdated, TiersInv
<1>4. CASE UNCHANGED rulesVars
  BY <1>4 DEF rulesVars, TiersInv
<1> QED
  BY <1>1, <1>2, <1>3, <1>4 DEF RulesNext

\* With such positions the tier asked for is the exact one.
LEMMA TiersExact == TiersInv => ApprovalTierExact
<1> SUFFICES ASSUME TiersInv, NEW p \in Staff, NEW q \in Questions, NEW a \in Staff,
                    Pipeline(p, q).outcome = "approval"
             PROVE  Pipeline(a, q).outcome = "allow" <=>
                      /\ a \in EligibleApprovers(Pipeline(p, q).tier)
                      /\ AuthorityAllows(a, q)
                      /\ ~Denied(a, q)
  BY DEF ApprovalTierExact
<1> DEFINE n == GovernanceAsks(p, q)
<1>0. \A b \in Staff : GovernanceAsks(b, q) \in 0..5 /\ (GovernanceAsks(b, q) > 0 <=> ~Denied(b, q) /\ Asked(b, q) # {})
  <2> SUFFICES ASSUME NEW b \in Staff
               PROVE  /\ GovernanceAsks(b, q) \in 0..5
                      /\ GovernanceAsks(b, q) > 0 <=> ~Denied(b, q) /\ Asked(b, q) # {}
    OBVIOUS
  <2>1. Asked(b, q) \in SUBSET (1..5) /\ \A t \in Asked(b, q) : t > 0
    BY AskedIs DEF Applies
  <2> QED
    BY <2>1, GreatestTier DEF GovernanceAsks
<1>1. AuthorityAllows(p, q) /\ n > 0 /\ Pipeline(p, q).tier = n
  BY <1>0 DEF Pipeline
<1>2. /\ n \in {3, 4}
      /\ Asked(a, q) = {} <=> EffectiveTier(a) >= n
  BY <1>1, AskedTier
<1>3. EffectiveTier(a) >= n <=> \E t \in position[a] : t >= n
  BY <1>2, ReachesTier
<1>4. Pipeline(a, q).outcome = "allow" <=>
        AuthorityAllows(a, q) /\ GovernanceAsks(a, q) = 0 /\ ~Denied(a, q)
  BY <1>0 DEF Pipeline
<1>5. AuthorityAllows(a, q) => subject[a]
  BY DEF AuthorityAllows
<1>6. a \in EligibleApprovers(n) <=> subject[a] /\ \E t \in position[a] : t >= n
  BY DEF EligibleApprovers
<1>7. ~Denied(a, q) => (GovernanceAsks(a, q) = 0 <=> Asked(a, q) = {})
  BY <1>0
<1> HIDE DEF n
<1> QED
  BY <1>1, <1>2, <1>3, <1>4, <1>5, <1>6, <1>7

\* The tables of the two engines hold what their columns hold.
LEMMA RulesTypes == RulesSpec => []RulesTypeOK
<1>1. RulesInit => RulesTypeOK
  BY DEF RulesInit, RulesTypeOK
<1>2. RulesTypeOK /\ [RulesNext]_rulesVars => RulesTypeOK'
  <2> SUFFICES ASSUME RulesTypeOK, [RulesNext]_rulesVars PROVE RulesTypeOK'
    OBVIOUS
  <2>1. ASSUME NEW p \in Staff, SubjectChanges(p) PROVE RulesTypeOK'
    BY <2>1 DEF SubjectChanges, RulesTypeOK
  <2>2. ASSUME NEW p \in Staff, AssignmentChanges(p) PROVE RulesTypeOK'
    BY <2>2 DEF AssignmentChanges, RulesTypeOK
  <2>3. ASSUME NEW p \in Staff, CredentialChanges(p) PROVE RulesTypeOK'
    BY <2>3 DEF CredentialChanges, RulesTypeOK
  <2>4. CASE AmountRuleCreated
    BY <2>4 DEF AmountRuleCreated, RulesTypeOK
  <2>5. CASE ParameterUpdated
    BY <2>5 DEF ParameterUpdated, RulesTypeOK
  <2>6. CASE UNCHANGED rulesVars
    BY <2>6 DEF rulesVars, RulesTypeOK
  <2> QED
    BY <2>1, <2>2, <2>3, <2>4, <2>5, <2>6 DEF RulesNext
<1> QED
  BY <1>1, <1>2, PTL DEF RulesSpec

\* The tier that an approval is asked at is exactly the one that ends the asking,
\* whatever rules, amounts, thresholds and positions there are.
THEOREM ApprovalsAskedExactly == RulesSpec => [](RulesTypeOK /\ ApprovalTierExact)
<1>1. RulesInit => TiersInv
  BY DEF RulesInit, TiersInv
<1> QED
  BY <1>1, TiersStep, TiersExact, RulesTypes, PTL DEF RulesSpec

-----------------------------------------------------------------------------
(* Projections.                                                            *)

Statuses == {"none", "Active", "OnLeave", "Terminated", "Ended", "Expired", "Revoked"}

\* Assignments, credentials, the employee and the position are different entities.
LEMMA EntitiesApart ==
  /\ \A a \in Assignments : a \in Entities /\ a # Employee /\ a # Position /\ a \notin Credentials
  /\ \A c \in Credentials : c \in Entities /\ c # Employee /\ c # Position /\ c \notin Assignments
  /\ Employee \in Entities /\ Position \in Entities /\ Employee # Position
BY ProjectionsAssumption DEF Entities, Employee, Position

\* What an event makes of an entity is a status.
LEMMA MakesStatus == \A type \in DOMAIN Makes : Makes[type] \in Statuses /\ Makes[type] # "none"
BY DEF Makes, Statuses

\* An event about an assignment makes it active or ends it, and no other event is about one.
LEMMA AboutAssignments ==
  ASSUME NEW ev \in Event
  PROVE  /\ ev.type = "AssignmentCreated" => ev.about \in Assignments /\ Makes[ev.type] = "Active"
         /\ ev.type = "AssignmentEnded" => ev.about \in Assignments /\ Makes[ev.type] = "Ended"
         /\ ev.about \in Assignments => ev.type \in {"AssignmentCreated", "AssignmentEnded"}
<1>1. ev.about \in Concerns(ev.type)
  BY DEF Event
<1>2. CASE ev.type = "AssignmentCreated"
  BY <1>1, <1>2 DEF Concerns, Makes
<1>3. CASE ev.type = "AssignmentEnded"
  BY <1>1, <1>3 DEF Concerns, Makes
<1>4. CASE ev.type \notin {"AssignmentCreated", "AssignmentEnded"}
  <2>1. ev.about \in Credentials \cup {Employee, Position}
    BY <1>1, <1>4 DEF Concerns
  <2> QED
    BY <1>4, <2>1, EntitiesApart
<1> QED
  BY <1>2, <1>3, <1>4

\* The events about x, of the first n, that the engine understands, and what they say of it
Told(f, x, n) == {k \in 1..n : f[k].about = x /\ Upserts(f[k])}
LastOf(f, x, S) ==
  IF S = {} THEN IF x \in seeded THEN "Active" ELSE "none"
            ELSE Makes[f[CHOOSE k \in S : \A m \in S : m <= k].type]

\* The status of x after n events is that of the last of them that tells of x.
LEMMA StatusIs == \A x, n : StatusAt(x, n) = LastOf(feed, x, Told(feed, x, n))
BY DEF StatusAt, LastOf, Told

\* The CHOOSE of the status finds the last event.
LEMMA GreatestChosen ==
  ASSUME NEW n \in Nat, NEW S \in SUBSET (1..n), S # {}
  PROVE  /\ (CHOOSE k \in S : \A m \in S : m <= k) \in S
         /\ \A j \in S : j <= (CHOOSE k \in S : \A m \in S : m <= k)
<1>1. IsFiniteSet(1..n)
  BY FS_Interval
<1>2. S \subseteq Nat
  OBVIOUS
<1>4. IsFiniteSet(S)
  BY <1>1, FS_Subset
<1>3. \E k \in S : \A m \in S : m <= k
  BY <1>2, <1>4, GreatestOf
<1> QED
  BY <1>3

FeedOK == feed \in Seq(Event)

\* What an event of the feed is.
LEMMA EventsTyped ==
  ASSUME FeedOK, NEW n \in 1..Len(feed)
  PROVE  /\ feed[n] \in Event /\ feed[n].about \in Entities /\ feed[n].type \in DOMAIN Makes
         /\ Makes[feed[n].type] \in Statuses /\ Makes[feed[n].type] # "none"
<1>1. feed[n] \in Event
  BY DEF FeedOK
<1>2. feed[n].about \in Entities /\ feed[n].type \in DOMAIN Makes
  BY <1>1 DEF Event
<1> QED
  BY <1>1, <1>2, MakesStatus

\* The feed says of an entity what the event just read says of it, or what it said.
LEMMA StatusStep ==
  ASSUME FeedOK, NEW n \in 1..Len(feed), NEW x
  PROVE  StatusAt(x, n) = IF feed[n].about = x /\ Upserts(feed[n]) THEN Makes[feed[n].type]
                                                                   ELSE StatusAt(x, n - 1)
<1>0. n \in Nat
  BY DEF FeedOK
<1>1. CASE feed[n].about = x /\ Upserts(feed[n])
  <2>1. n \in Told(feed, x, n) /\ \A j \in Told(feed, x, n) : j <= n
    BY <1>1 DEF Told
  <2>2. (CHOOSE k \in Told(feed, x, n) : \A m \in Told(feed, x, n) : m <= k) = n
    <3>1. Told(feed, x, n) \in SUBSET (1..n) /\ n \in Nat
      BY DEF Told
    <3> QED
      BY <2>1, <3>1, GreatestChosen
  <2>3. LastOf(feed, x, Told(feed, x, n)) = Makes[feed[n].type]
    BY <2>1, <2>2 DEF LastOf
  <2> QED
    BY <1>1, <2>3, StatusIs
<1>2. CASE ~(feed[n].about = x /\ Upserts(feed[n]))
  <2>1. Told(feed, x, n) = Told(feed, x, n - 1)
    BY <1>0, <1>2 DEF Told
  <2>2. StatusAt(x, n) = StatusAt(x, n - 1)
    BY <2>1, StatusIs
  <2> QED
    BY <1>2, <2>2
<1> QED
  BY <1>1, <1>2

LEMMA StatusAtStart == \A x : StatusAt(x, 0) = IF x \in seeded THEN "Active" ELSE "none"
BY DEF StatusAt

\* An entity that is known stays so.
LEMMA KnownLater ==
  ASSUME FeedOK, NEW n \in 0..Len(feed), NEW i \in n..Len(feed), NEW x, StatusAt(x, n) # "none"
  PROVE  StatusAt(x, i) # "none"
<1>0. i \in Nat /\ n \in Nat
  BY DEF FeedOK
<1>1. CASE Told(feed, x, i) = {}
  <2>1. Told(feed, x, n) = {}
    BY <1>0, <1>1 DEF Told
  <2> QED
    BY <1>1, <2>1, StatusIs DEF LastOf
<1>2. CASE Told(feed, x, i) # {}
  <2>1. PICK S : S = Told(feed, x, i)
    OBVIOUS
  <2>2. S \in SUBSET (1..i)
    BY <2>1 DEF Told
  <2>3. PICK k : k = CHOOSE j \in S : \A m \in S : m <= j
    OBVIOUS
  <2>4. k \in S
    BY <1>0, <1>2, <2>1, <2>2, <2>3, GreatestChosen
  <2>5. k \in 1..Len(feed)
    BY <1>0, <2>2, <2>4 DEF FeedOK
  <2>6. StatusAt(x, i) = Makes[feed[k].type]
    BY <1>2, <2>1, <2>3, StatusIs DEF LastOf
  <2> QED
    BY <2>5, <2>6, EventsTyped
<1> QED
  BY <1>1, <1>2

\* An event that is added changes nothing of what the feed said before.
LEMMA LastKept ==
  ASSUME NEW n \in Nat, NEW f, NEW g, \A k \in 1..n : f[k] = g[k], NEW x
  PROVE  LastOf(g, x, Told(g, x, n)) = LastOf(f, x, Told(f, x, n))
<1>1. Told(g, x, n) = Told(f, x, n) /\ Told(f, x, n) \in SUBSET (1..n)
  BY DEF Told
<1> DEFINE S == Told(f, x, n)
           c == CHOOSE k \in S : \A m \in S : m <= k
<1>2. S # {} => c \in S
  BY <1>1, GreatestChosen
<1>3. LastOf(f, x, S) = IF S = {} THEN IF x \in seeded THEN "Active" ELSE "none" ELSE Makes[f[c].type]
  BY DEF LastOf
<1>4. LastOf(g, x, S) = IF S = {} THEN IF x \in seeded THEN "Active" ELSE "none" ELSE Makes[g[c].type]
  BY DEF LastOf
<1>5. S \subseteq 1..n
  BY <1>1
<1> HIDE DEF c, S
<1>6. LastOf(g, x, S) = LastOf(f, x, S)
  <2>1. S # {} => f[c] = g[c]
    BY <1>2, <1>5
  <2>2. CASE S = {}
    BY <1>3, <1>4, <2>2
  <2>3. CASE S # {}
    BY <1>3, <1>4, <2>1, <2>3
  <2> QED
    BY <2>2, <2>3
<1> QED
  BY <1>1, <1>6 DEF S

\* Events that are added do not change what came before.
LEMMA StatusKept ==
  ASSUME FeedOK, NEW ev, feed' = Append(feed, ev), UNCHANGED <<engine, seeded>>
  PROVE  \A n \in 0..Len(feed) : \A x : StatusAt(x, n)' = StatusAt(x, n)
<1> SUFFICES ASSUME NEW n \in 0..Len(feed), NEW x PROVE StatusAt(x, n)' = StatusAt(x, n)
  OBVIOUS
<1>1. PICK g : g = feed'
  OBVIOUS
<1>2. n \in Nat /\ \A k \in 1..n : feed[k] = g[k]
  BY <1>1 DEF FeedOK
<1>4. LastOf(g, x, Told(g, x, n)) = LastOf(feed, x, Told(feed, x, n))
  BY <1>2, LastKept
<1>5. \A e : Upserts(e)' <=> Upserts(e)
  BY DEF Upserts
<1>6. Told(feed, x, n)' = Told(g, x, n)
  BY <1>1, <1>5 DEF Told
<1>3. StatusAt(x, n)' = LastOf(g, x, Told(g, x, n))
  <2>1. StatusAt(x, n)' = LastOf(feed, x, Told(feed, x, n))'
    BY DEF StatusAt, LastOf, Told
  <2>2. LastOf(feed, x, Told(feed, x, n))' = LastOf(g, x, Told(g, x, n))
    BY <1>1, <1>6 DEF LastOf
  <2> QED
    BY <2>1, <2>2
<1> QED
  BY <1>3, <1>4, StatusIs

-----------------------------------------------------------------------------
(* The handlers                                                                 *)

\* How each engine's state follows the feed
Follows(s, n) ==
  /\ \A x \in Entities : s.view[x] = StatusAt(x, n)
  /\ s.history = {k \in 1..n : Records(feed[k])}

\* What the engine has announced is what it has projected.
Announces(s) ==
  /\ (s.announced = "Granted") <=> (\E a \in Assignments : s.view[a] = "Active")
  /\ engine # "authority" => s.announced = "none" /\ \A a \in Assignments : s.view[a] = "none"

\* All of the first n events can be applied by the authority-engine.
Clean(n) == engine = "authority" => \A k \in 1..n : WellFounded(k)

\* What the engine knows, it knows from an event before which there is no poison.
Grounded(s) ==
  engine = "authority" =>
    \A x \in Entities : s.view[x] # "none" =>
      \E i \in 0..Len(feed) : StatusAt(x, i) # "none" /\ Clean(i)

States == [view : [Entities -> Statuses], history : SUBSET (1..Len(feed)),
           announced : {"none", "Granted", "Revoked"}]

\* To the governance-engine no event is both a credential and an action.
LEMMA UpsertsOrRecords ==
  ASSUME NEW ev \in Event
  PROVE  /\ Records(ev) => ~Upserts(ev)
         /\ engine # "authority" /\ Upserts(ev) => ev.about \in Credentials
<1>1. ASSUME Records(ev) PROVE ev.about \in Assignments \cup {Employee}
  <2>1. ev.about \in Concerns(ev.type)
    BY DEF Event
  <2>2. ev.type \in {"AssignmentCreated", "AssignmentEnded", "EmployeeTerminated"}
    BY <1>1 DEF Records
  <2> QED
    BY <2>1, <2>2 DEF Concerns
<1>2. engine # "authority" /\ Upserts(ev) => ev.about \in Credentials
  BY DEF Upserts
<1>3. Records(ev) => engine # "authority"
  BY DEF Records
<1> QED
  BY <1>1, <1>2, <1>3, EntitiesApart

\* What the handler of one event leaves of a projection.
LEMMA HandlerFields ==
  ASSUME FeedOK, NEW n \in 1..Len(feed), NEW s \in States
  PROVE  /\ Handler(s, feed[n], n) \in States
         /\ Handler(s, feed[n], n).view =
              IF Upserts(feed[n]) THEN [s.view EXCEPT ![feed[n].about] = Makes[feed[n].type]]
                                  ELSE s.view
         /\ Handler(s, feed[n], n).history =
              IF Records(feed[n]) THEN s.history \cup {n} ELSE s.history
         /\ engine # "authority" => Handler(s, feed[n], n).announced = s.announced
<1> DEFINE ev == feed[n]
           t == Handler(s, ev, n)
           after == [s EXCEPT !.view[ev.about] = Makes[ev.type]]
<1>1. ev.about \in Entities /\ Makes[ev.type] \in Statuses /\ ev \in Event /\ n \in 1..Len(feed)
  BY EventsTyped
<1>2. /\ after \in States /\ after.view = [s.view EXCEPT ![ev.about] = Makes[ev.type]]
      /\ after.history = s.history /\ after.announced = s.announced
  BY <1>1 DEF States
<1>3. Records(ev) => ~Upserts(ev) /\ engine # "authority"
  BY <1>1, UpsertsOrRecords DEF Records
<1>4. CASE ~Upserts(ev) /\ ~Records(ev)
  <2>1. t = s
    BY <1>4 DEF Handler, GovernanceHandler
  <2> HIDE DEF t, ev, after
  <2> QED
    BY <1>4, <2>1 DEF t, ev
<1>5. CASE engine = "authority" /\ Upserts(ev)
  <2>1. t \in {after, [after EXCEPT !.announced = "Granted"], [after EXCEPT !.announced = "Revoked"]}
    BY <1>5 DEF Handler, AuthorityHandler
  <2> HIDE DEF t, ev, after
  <2>2. t \in States /\ t.view = after.view /\ t.history = after.history
    BY <1>2, <2>1 DEF States
  <2> QED
    BY <1>2, <1>3, <1>5, <2>2 DEF t, ev
<1>6. CASE engine # "authority" /\ Upserts(ev)
  <2>1. t = after
    BY <1>3, <1>6 DEF Handler, GovernanceHandler
  <2> HIDE DEF t, ev, after
  <2> QED
    BY <1>2, <1>3, <1>6, <2>1 DEF t, ev
<1>7. CASE Records(ev)
  <2>1. t = [s EXCEPT !.history = @ \cup {n}]
    BY <1>3, <1>7 DEF Handler, GovernanceHandler
  <2> HIDE DEF t, ev, after
  <2>2. /\ t \in States /\ t.view = s.view /\ t.history = s.history \cup {n}
        /\ t.announced = s.announced
    BY <1>1, <2>1 DEF States
  <2> QED
    BY <1>3, <1>7, <2>2 DEF t, ev
<1> QED
  BY <1>4, <1>5, <1>6, <1>7

\* A projection that follows the feed up to an event follows it after its handler.
LEMMA HandlerFollows ==
  ASSUME FeedOK, NEW n \in 1..Len(feed), NEW s \in States, Follows(s, n - 1)
  PROVE  Follows(Handler(s, feed[n], n), n)
<1> DEFINE ev == feed[n]
           t == Handler(s, ev, n)
<1>1. ev.about \in Entities /\ n \in Nat
  BY EventsTyped DEF FeedOK
<1>2. /\ t.view = IF Upserts(ev) THEN [s.view EXCEPT ![ev.about] = Makes[ev.type]] ELSE s.view
      /\ t.history = IF Records(ev) THEN s.history \cup {n} ELSE s.history
  BY HandlerFields
<1>3. /\ \A x \in Entities : s.view[x] = StatusAt(x, n - 1)
      /\ s.history = {k \in 1..n - 1 : Records(feed[k])}
  BY DEF Follows
<1>4. s.view \in [Entities -> Statuses]
  BY DEF States
<1>5. \A x : StatusAt(x, n) = IF ev.about = x /\ Upserts(ev) THEN Makes[ev.type] ELSE StatusAt(x, n - 1)
  BY StatusStep
<1>6. {k \in 1..n : Records(feed[k])} =
        {k \in 1..n - 1 : Records(feed[k])} \cup (IF Records(ev) THEN {n} ELSE {})
  BY <1>1
<1> HIDE DEF t, ev
<1>7. \A x \in Entities : t.view[x] = StatusAt(x, n)
  BY <1>1, <1>2, <1>3, <1>4, <1>5
<1>8. t.history = {k \in 1..n : Records(feed[k])}
  BY <1>2, <1>3, <1>6
<1> QED
  BY <1>7, <1>8 DEF Follows, t, ev

\* If what is known is grounded and the handler does not throw, its event can be applied
\* in its place, and what is known then is grounded.
LEMMA HandlerGrounded ==
  ASSUME FeedOK, NEW n \in 1..Len(feed), NEW s \in States, Grounded(s), Clean(n - 1),
         ~Throws(s, feed[n], n)
  PROVE  Clean(n) /\ Grounded(Handler(s, feed[n], n))
<1> SUFFICES ASSUME engine = "authority"
             PROVE  Clean(n) /\ Grounded(Handler(s, feed[n], n))
  BY DEF Clean, Grounded
<1> DEFINE ev == feed[n]
           t == Handler(s, ev, n)
<1>1. ev \in Event /\ ev.about \in Entities /\ n \in Nat /\ Len(feed) \in Nat /\ n <= Len(feed)
  BY EventsTyped DEF FeedOK
<1>2. WellFounded(n)
  <2>1. SUFFICES ASSUME Upserts(ev)
                 PROVE  /\ ev.type \in MustName => ev.named
                        /\ \A x \in Requires(ev) : StatusAt(x, n - 1) # "none"
    BY DEF WellFounded
  <2>2. /\ ev.type \in MustName => ev.named
        /\ \A x \in Requires(ev) : s.view[x] # "none"
    BY <2>1 DEF Throws
  <2>3. ASSUME NEW x \in Requires(ev) PROVE StatusAt(x, n - 1) # "none"
    <3>1. x \in Entities
      BY <1>1, EntitiesApart DEF Requires
    <3>2. PICK i \in 0..Len(feed) : StatusAt(x, i) # "none" /\ Clean(i)
      BY <2>2, <2>3, <3>1 DEF Grounded
    <3>3. CASE i <= n - 1
      <4>1. i \in 0..Len(feed) /\ n - 1 \in i..Len(feed)
        BY <1>1, <3>2, <3>3
      <4> QED
        BY <3>2, <4>1, KnownLater
    <3>4. CASE ~(i <= n - 1)
      <4>1. n \in 1..i
        BY <1>1, <3>2, <3>4
      <4>2. WellFounded(n)
        BY <3>2, <4>1 DEF Clean
      <4> QED
        BY <2>1, <2>3, <4>2 DEF WellFounded
    <3> QED
      BY <3>3, <3>4
  <2> QED
    BY <2>2, <2>3
<1>3. Clean(n)
  <2>1. \A k \in 1..n : k \in 1..n - 1 \/ k = n
    BY <1>1
  <2> QED
    BY <1>2, <2>1 DEF Clean
<1>4. t.view = IF Upserts(ev) THEN [s.view EXCEPT ![ev.about] = Makes[ev.type]] ELSE s.view
  BY HandlerFields
<1>5. Upserts(ev) => StatusAt(ev.about, n) # "none"
  BY StatusStep, EventsTyped
<1>6. s.view \in [Entities -> Statuses]
  BY DEF States
<1>7. ASSUME NEW x \in Entities, t.view[x] # "none"
      PROVE  \E i \in 0..Len(feed) : StatusAt(x, i) # "none" /\ Clean(i)
  <2>1. CASE Upserts(ev) /\ x = ev.about
    <3>1. n \in 0..Len(feed) /\ StatusAt(x, n) # "none"
      BY <1>1, <1>5, <2>1
    <3> QED
      BY <1>3, <3>1
  <2>2. CASE ~(Upserts(ev) /\ x = ev.about)
    <3> HIDE DEF t, ev
    <3>1. s.view[x] # "none"
      BY <1>4, <1>6, <1>7, <2>2
    <3> QED
      BY <3>1 DEF Grounded
  <2> QED
    BY <2>1, <2>2
<1>8. Grounded(t)
  <2> HIDE DEF t
  <2> QED
    BY <1>7 DEF Grounded
<1> QED
  BY <1>3, <1>8

\* The handler announces the authority it has projected.
LEMMA HandlerAnnounces ==
  ASSUME FeedOK, NEW n \in 1..Len(feed), NEW s \in States, Announces(s)
  PROVE  Announces(Handler(s, feed[n], n))
<1> DEFINE ev == feed[n]
           t == Handler(s, ev, n)
           after == [s EXCEPT !.view[ev.about] = Makes[ev.type]]
           held == \E a \in Assignments : s.view[a] = "Active"
           holds == \E a \in Assignments : t.view[a] = "Active"
<1>1. ev \in Event /\ ev.about \in Entities /\ Makes[ev.type] \in Statuses
  BY EventsTyped
<1>2. t.view = IF Upserts(ev) THEN [s.view EXCEPT ![ev.about] = Makes[ev.type]] ELSE s.view
  BY HandlerFields
<1>3. s.view \in [Entities -> Statuses] /\ \A a \in Assignments : a \in Entities /\ a \notin Credentials
  BY EntitiesApart DEF States
<1>4. s.announced = "Granted" <=> held
  BY DEF Announces
<1>5. CASE engine # "authority"
  <2>1. t.announced = s.announced /\ (Upserts(ev) => ev.about \in Credentials)
    BY <1>1, <1>5, HandlerFields, UpsertsOrRecords
  <2>2. s.announced = "none" /\ \A a \in Assignments : s.view[a] = "none"
    BY <1>5 DEF Announces
  <2> HIDE DEF t, ev, after
  <2>3. \A a \in Assignments : t.view[a] = "none"
    BY <1>2, <1>3, <2>1, <2>2
  <2> QED
    BY <1>5, <2>1, <2>2, <2>3 DEF Announces, t, ev
<1>6. CASE engine = "authority" /\ ~Upserts(ev)
  <2>1. ~Records(ev)
    BY <1>6 DEF Records
  <2>2. t = s
    BY <1>6, <2>1 DEF Handler
  <2> QED
    BY <2>2
<1>7. CASE engine = "authority" /\ Upserts(ev)
  <2>1. /\ after.view = [s.view EXCEPT ![ev.about] = Makes[ev.type]] /\ after.announced = s.announced
        /\ after \in States
    BY <1>1 DEF States
  <2>2. /\ ev.type = "AssignmentCreated" => ev.about \in Assignments /\ Makes[ev.type] = "Active"
        /\ ev.type = "AssignmentEnded" => ev.about \in Assignments /\ Makes[ev.type] = "Ended"
        /\ ev.about \in Assignments => ev.type \in {"AssignmentCreated", "AssignmentEnded"}
    BY <1>1, AboutAssignments
  <2>3. ActiveAssignments(s) = {} <=> ~held
    BY DEF ActiveAssignments
  <2>4. ActiveAssignments(after) = {} <=> ~holds
    BY <1>2, <1>7, <2>1 DEF ActiveAssignments
  <2>5. t = CASE ev.type = "AssignmentCreated" /\ ~held -> [after EXCEPT !.announced = "Granted"]
              [] ev.type = "AssignmentEnded" /\ ~holds -> [after EXCEPT !.announced = "Revoked"]
              [] OTHER -> after
    <3>1. t = AuthorityHandler(s, ev)
      BY <1>7 DEF Handler
    <3> HIDE DEF held, holds, t
    <3> QED
      BY <2>3, <2>4, <3>1 DEF AuthorityHandler
  <2>6. t.view = [s.view EXCEPT ![ev.about] = Makes[ev.type]]
    BY <1>2, <1>7
  <2> HIDE DEF after, ev, t
  <2>7. t.announced = "Granted" <=> holds
    <3>1. CASE ev.type \notin {"AssignmentCreated", "AssignmentEnded"}
      <4>1. t = after
        BY <2>5, <3>1
      <4>2. \A a \in Assignments : t.view[a] = s.view[a]
        BY <1>3, <2>2, <2>6, <3>1
      <4> QED
        BY <1>4, <2>1, <4>1, <4>2
    <3>2. CASE ev.type = "AssignmentCreated"
      <4>1. t.view[ev.about] = "Active"
        BY <1>1, <1>3, <2>2, <2>6, <3>2
      <4>2. holds
        BY <2>2, <3>2, <4>1
      <4>3. CASE ~held
        <5>1. t = [after EXCEPT !.announced = "Granted"]
          BY <2>5, <3>2, <4>3
        <5>2. t.announced = "Granted"
          BY <2>1, <5>1 DEF States
        <5> QED
          BY <4>2, <5>2
      <4>4. CASE held
        <5>1. t = after
          BY <2>5, <3>2, <4>4
        <5> QED
          BY <1>4, <2>1, <4>2, <4>4, <5>1
      <4> QED
        BY <4>3, <4>4
    <3>3. CASE ev.type = "AssignmentEnded"
      <4>1. CASE ~holds
        <5>1. t = [after EXCEPT !.announced = "Revoked"]
          BY <2>5, <3>3, <4>1
        <5>2. t.announced = "Revoked"
          BY <2>1, <5>1 DEF States
        <5> QED
          BY <4>1, <5>2
      <4>2. CASE holds
        <5>1. t = after
          BY <2>5, <3>3, <4>2
        <5>2. PICK a \in Assignments : t.view[a] = "Active"
          BY <4>2
        <5>3. a # ev.about
          BY <1>3, <2>2, <2>6, <3>3, <5>2
        <5>4. s.view[a] = "Active"
          BY <1>3, <2>6, <5>2, <5>3
        <5>5. t.announced = "Granted"
          BY <1>4, <2>1, <5>1, <5>4
        <5> QED
          BY <4>2, <5>5
      <4> QED
        BY <4>1, <4>2
    <3> QED
      BY <3>1, <3>2, <3>3
  <2> QED
    BY <1>7, <2>7 DEF Announces, ev, t
<1> QED
  BY <1>5, <1>6, <1>7

-----------------------------------------------------------------------------
(* A page: what its rows lead to, one after the other                           *)

Runs(g, rows, m, n) ==
  g = [k \in 0..n |-> IF k = 0 THEN Projected ELSE Handler(g[k - 1], rows[k], m + k)]

\* Applied, and the runs of which it chooses one.
LEMMA AppliedDef ==
  ASSUME NEW rows, NEW m
  PROVE  Applied(rows, m) = CHOOSE g : Runs(g, rows, m, Len(rows))
BY Zenon DEF Applied, Runs

\* Every page has a run.
LEMMA RunExists ==
  ASSUME NEW rows, NEW m, NEW l \in Nat
  PROVE  \E g : Runs(g, rows, m, l)
<1> DEFINE Bad == {n \in Nat : ~ \E g : Runs(g, rows, m, n)}
<1>1. SUFFICES ASSUME Bad # {} PROVE FALSE
  OBVIOUS
<1>2. PICK n \in Bad : \A k \in Bad : n <= k
  <2>1. Bad \in SUBSET Nat
    OBVIOUS
  <2> HIDE DEF Bad
  <2> QED
    BY <1>1, <2>1, LeastOf
<1>3. CASE n = 0
  <2> DEFINE g == [k \in 0..0 |-> Projected]
  <2>1. Runs(g, rows, m, 0)
    BY DEF Runs
  <2> QED
    BY <1>2, <1>3, <2>1
<1>4. CASE n # 0
  <2>1. n - 1 \in Nat /\ n - 1 \notin Bad
    BY <1>2, <1>4
  <2>2. PICK g : Runs(g, rows, m, n - 1)
    BY <2>1
  <2> DEFINE at(f, k) == IF k = 0 THEN Projected ELSE Handler(f[k - 1], rows[k], m + k)
             h == [k \in 0..n |-> at(g, k)]
  <2>3. \A k \in 0..n - 1 : g[k] = at(g, k)
    BY <2>2, Zenon DEF Runs
  <2>4. \A k \in 0..n - 1 : h[k] = g[k]
    <3> SUFFICES ASSUME NEW k \in 0..n - 1 PROVE h[k] = g[k]
      OBVIOUS
    <3>1. k \in 0..n
      BY <2>1
    <3>2. h[k] = at(g, k)
      BY <3>1, Zenon
    <3> QED
      BY <2>3, <3>2, Zenon
  <2>5. \A k \in 0..n : at(h, k) = at(g, k)
    <3> SUFFICES ASSUME NEW k \in 0..n PROVE at(h, k) = at(g, k)
      OBVIOUS
    <3>1. CASE k = 0
      BY <3>1
    <3>2. CASE k # 0
      <4>1. k - 1 \in 0..n - 1
        BY <2>1, <3>2
      <4> HIDE DEF h
      <4>2. h[k - 1] = g[k - 1]
        BY <2>4, <4>1
      <4> QED
        BY <4>2, Zenon
    <3> QED
      BY <3>1, <3>2
  <2>6. h = [k \in 0..n |-> at(h, k)]
    <3>1. h = [k \in 0..n |-> at(g, k)]
      OBVIOUS
    <3> HIDE DEF h, at
    <3> QED
      BY <2>5, <3>1
  <2>7. Runs(h, rows, m, n)
    BY <2>6, Zenon DEF Runs
  <2> QED
    BY <1>2, <2>7
<1> QED
  BY <1>3, <1>4

\* What a page leads to is the end of a run.
LEMMA AppliedIs ==
  ASSUME NEW rows, NEW m, Len(rows) \in Nat
  PROVE  /\ Applied(rows, m)[0] = Projected
         /\ \A k \in 1..Len(rows) :
              Applied(rows, m)[k] = Handler(Applied(rows, m)[k - 1], rows[k], m + k)
<1>1. PICK g : g = Applied(rows, m)
  OBVIOUS
<1>2. Runs(g, rows, m, Len(rows))
  BY <1>1, AppliedDef, RunExists
<1>3. \A k \in 0..Len(rows) : g[k] = IF k = 0 THEN Projected ELSE Handler(g[k - 1], rows[k], m + k)
  BY <1>2, Zenon DEF Runs
<1>4. g[0] = Projected
  BY <1>3
<1>5. ASSUME NEW k \in 1..Len(rows) PROVE g[k] = Handler(g[k - 1], rows[k], m + k)
  BY <1>3
<1> QED
  BY <1>1, <1>4, <1>5

\* Rows are what the feed has behind event m.
IsPage(rows, m) ==
  /\ rows \in Seq(Event) /\ m \in Nat /\ m + Len(rows) <= Len(feed)
  /\ \A i \in 1..Len(rows) : rows[i] = feed[m + i]

\* A page that begins where a projection is leads it to the end of the page; a page
\* that can be applied, behind events that can be, ends where all of them can be.
LEMMA PageApplied ==
  ASSUME FeedOK, NEW rows, NEW m, IsPage(rows, m), ~Poisoned(rows, m),
         Projected \in States, Announces(Projected), Grounded(Projected), Clean(m)
  PROVE  LET s == Applied(rows, m)[Len(rows)] IN
           /\ s \in States /\ Announces(s) /\ Grounded(s) /\ Clean(m + Len(rows))
           /\ Follows(Projected, m) => Follows(s, m + Len(rows))
<1>0. Len(rows) \in Nat /\ m \in Nat /\ m + Len(rows) <= Len(feed) /\ Len(feed) \in Nat
  BY DEF IsPage, FeedOK
<1>1. PICK g : g = Applied(rows, m)
  OBVIOUS
<1> DEFINE Right(s, n) == /\ s \in States /\ Announces(s) /\ Grounded(s) /\ Clean(n)
                          /\ Follows(Projected, m) => Follows(s, n)
           Bad == {k \in 0..Len(rows) : ~Right(g[k], m + k)}
<1>2. g[0] = Projected /\ \A k \in 1..Len(rows) : g[k] = Handler(g[k - 1], rows[k], m + k)
  BY <1>0, <1>1, AppliedIs
<1>5. \A k \in 1..Len(rows) : ~Throws(g[k - 1], rows[k], m + k)
  <2>1. DOMAIN rows = 1..Len(rows)
    BY DEF IsPage
  <2> QED
    BY <1>1, <2>1 DEF Poisoned
<1>3. Bad = {}
  <2>1. SUFFICES ASSUME Bad # {} PROVE FALSE
    OBVIOUS
  <2>2. PICK n \in Bad : \A k \in Bad : n <= k
    <3>1. Bad \in SUBSET Nat
      BY <1>0
    <3> HIDE DEF Bad
    <3> QED
      BY <2>1, <3>1, LeastOf
  <2>3. n # 0
    <3>1. Right(g[0], m)
      BY <1>2
    <3>2. m + 0 = m
      BY <1>0
    <3> QED
      BY <2>2, <3>1, <3>2
  <2>4. n - 1 \in 0..Len(rows) /\ n \in 1..Len(rows) /\ n - 1 \notin Bad
    BY <1>0, <2>2, <2>3
  <2>5. Right(g[n - 1], m + (n - 1))
    BY <2>4
  <2>6. PICK q : q = m + n
    OBVIOUS
  <2>7. q \in 1..Len(feed) /\ q - 1 = m + (n - 1)
    BY <1>0, <2>4, <2>6
  <2>8. g[n] = Handler(g[n - 1], feed[q], q) /\ ~Throws(g[n - 1], feed[q], q)
    BY <1>2, <1>5, <2>4, <2>6 DEF IsPage
  <2>9. Right(g[n - 1], q - 1)
    BY <2>5, <2>7
  <2>10. g[n] \in States /\ Announces(g[n])
    BY <2>7, <2>8, <2>9, HandlerFields, HandlerAnnounces
  <2>11. Follows(Projected, m) => Follows(g[n], q)
    BY <2>7, <2>8, <2>9, HandlerFollows
  <2>13. Grounded(g[n]) /\ Clean(q)
    BY <2>7, <2>8, <2>9, HandlerGrounded
  <2>12. Right(g[n], m + n)
    BY <2>6, <2>10, <2>11, <2>13
  <2> QED
    BY <2>2, <2>12
<1>4. Right(g[Len(rows)], m + Len(rows))
  <2>1. Len(rows) \in 0..Len(rows) /\ Len(rows) \notin Bad
    BY <1>0, <1>3
  <2> QED
    BY <2>1
<1> QED
  BY <1>1, <1>4

-----------------------------------------------------------------------------
(* The invariant                                                                *)

PollStates == [pc : {"idle", "asked", "answered"}, after : Nat, rows : Seq(Event)]

\* The inductive invariant.
ProjectionsInv ==
  /\ FeedOK /\ engine \in Engines /\ seeded \subseteq {Employee, Position}
  /\ cursor \in 0..Len(feed) /\ overtaken \in BOOLEAN
  /\ poll \in [Polls -> PollStates]
  /\ \A p \in Polls : IsPage(poll[p].rows, poll[p].after) /\ Clean(poll[p].after)
  /\ Projected \in States
  /\ Announces(Projected)
  /\ ~overtaken => Follows(Projected, cursor)
  /\ Grounded(Projected) /\ Clean(cursor)

\* The projection, field by field.
LEMMA ProjectedFields ==
  /\ Projected.view = view /\ Projected.history = history /\ Projected.announced = announced
  /\ Projected \in States <=>
       view \in [Entities -> Statuses] /\ history \in SUBSET (1..Len(feed))
         /\ announced \in {"none", "Granted", "Revoked"}
BY DEF Projected, States

\* The invariant of the projections holds at the start, and every step keeps it.
LEMMA ProjectionsStart == ProjectionsInit => ProjectionsInv
<1> SUFFICES ASSUME ProjectionsInit PROVE ProjectionsInv
  OBVIOUS
<1>1. feed = <<>> /\ cursor = 0 /\ overtaken = FALSE /\ Len(feed) = 0
  BY DEF ProjectionsInit
<1>2. FeedOK
  BY <1>1 DEF FeedOK
<1>3. <<>> \in Seq(Event) /\ Len(<<>>) = 0
  OBVIOUS
<1>4. Idle \in PollStates /\ Idle.rows = <<>> /\ Idle.after = 0
  BY <1>3 DEF Idle, PollStates
<1>5. poll \in [Polls -> PollStates] /\ \A p \in Polls : poll[p] = Idle
  BY <1>4 DEF ProjectionsInit
<1>6. IsPage(<<>>, 0)
  BY <1>1, <1>3 DEF IsPage
<1>9. \A x \in Entities : view[x] = IF x \in seeded THEN "Active" ELSE "none"
  BY DEF ProjectionsInit
<1>10. seeded \subseteq {Employee, Position} /\ (engine # "authority" => seeded = {})
  BY DEF ProjectionsInit
<1>7. Projected \in States
  <2>1. view \in [Entities -> Statuses]
    BY DEF ProjectionsInit, Statuses
  <2> QED
    BY <2>1, ProjectedFields DEF ProjectionsInit
<1>8. Announces(Projected)
  <2>1. \A a \in Assignments : view[a] = "none"
    BY <1>9, <1>10, EntitiesApart
  <2> QED
    BY <2>1, ProjectedFields DEF ProjectionsInit, Announces
<1>11. Follows(Projected, 0)
  BY <1>9, ProjectedFields, StatusAtStart DEF Follows, ProjectionsInit
<1>15. Clean(0)
  BY DEF Clean
<1>16. Grounded(Projected)
  <2>1. 0 \in 0..Len(feed)
    BY <1>1
  <2>2. \A x \in Entities : view[x] = StatusAt(x, 0)
    BY <1>9, StatusAtStart
  <2> QED
    BY <1>15, <2>1, <2>2, ProjectedFields DEF Grounded
<1>12. \A p \in Polls : IsPage(poll[p].rows, poll[p].after) /\ Clean(poll[p].after)
  BY <1>4, <1>5, <1>6, <1>15
<1>13. cursor \in 0..Len(feed) /\ overtaken \in BOOLEAN /\ engine \in Engines
  <2>1. cursor = 0 /\ Len(feed) = 0
    BY <1>1
  <2>2. overtaken \in BOOLEAN /\ engine \in Engines
    BY DEF ProjectionsInit
  <2> QED
    BY <2>1, <2>2
<1>14. Follows(Projected, cursor) /\ Clean(cursor)
  BY <1>1, <1>11, <1>15
<1> QED
  BY <1>2, <1>5, <1>7, <1>8, <1>10, <1>12, <1>13, <1>14, <1>16 DEF ProjectionsInv

\* An event that happens changes nothing of what was said before.
LEMMA EmitKeeps ==
  ASSUME ProjectionsInv, Emit
  PROVE  ProjectionsInv'
<1>1. FeedOK /\ Len(feed) \in Nat
  BY DEF ProjectionsInv, FeedOK
<1>2. PICK ev \in Event : feed' = Append(feed, ev)
  BY ProjectionsAssumption DEF Emit
<1>5. UNCHANGED <<engine, seeded, poll, cursor, view, history, announced, overtaken>>
  BY DEF Emit
<1>3. /\ feed' \in Seq(Event) /\ Len(feed') = Len(feed) + 1
      /\ \A k \in 1..Len(feed) : feed'[k] = feed[k]
  BY <1>1, <1>2 DEF FeedOK
<1>4. \A n \in 0..Len(feed) : \A x : StatusAt(x, n)' = StatusAt(x, n)
  BY <1>1, <1>2, <1>5, StatusKept
<1> DEFINE l == Len(feed)
<1>6. \A e : (Upserts(e)' <=> Upserts(e)) /\ (Records(e)' <=> Records(e))
  BY <1>5 DEF Upserts, Records
<1>7. \A k \in 1..l : WellFounded(k)' <=> WellFounded(k)
  <2> SUFFICES ASSUME NEW k \in 1..l PROVE WellFounded(k)' <=> WellFounded(k)
    OBVIOUS
  <2>1. k - 1 \in 0..l /\ feed'[k] = feed[k]
    BY <1>1, <1>3
  <2>2. \A x : StatusAt(x, k - 1)' = StatusAt(x, k - 1)
    BY <1>4, <2>1
  <2>3. Upserts(feed[k])' <=> Upserts(feed[k])
    BY <1>5, <2>1 DEF Upserts
  <2>4. Requires(feed[k])' = Requires(feed[k])
    BY <2>1 DEF Requires
  <2> QED
    BY <2>1, <2>2, <2>3, <2>4 DEF WellFounded
<1>8. ASSUME NEW n \in 0..l PROVE Clean(n)' <=> Clean(n)
  <2>1. 1..n \subseteq 1..l
    BY <1>1
  <2> QED
    BY <1>5, <1>7, <2>1 DEF Clean
<1>9. FeedOK'
  BY <1>3 DEF FeedOK
<1>10. Projected' = Projected /\ Announces(Projected)' /\ (Projected \in States)'
  <2>1. Projected' = Projected /\ Announces(Projected)'
    BY <1>5 DEF ProjectionsInv, Projected, Announces
  <2>2. 1..Len(feed) \subseteq 1..Len(feed')
    BY <1>1, <1>3
  <2>3. Projected \in [view : [Entities -> Statuses], history : SUBSET (1..Len(feed')),
                       announced : {"none", "Granted", "Revoked"}]
    BY <2>2 DEF ProjectionsInv, States
  <2> QED
    BY <2>1, <2>3 DEF States, Entities
<1>11. Grounded(Projected)'
  <2>1. SUFFICES ASSUME engine = "authority", NEW x \in Entities, Projected.view[x] # "none"
                 PROVE  \E i \in 0..Len(feed') : StatusAt(x, i)' # "none" /\ Clean(i)'
    BY <1>5, <1>10 DEF Grounded, Entities
  <2>2. PICK i \in 0..l : StatusAt(x, i) # "none" /\ Clean(i)
    BY <2>1 DEF ProjectionsInv, Grounded
  <2>3. i \in 0..Len(feed') /\ StatusAt(x, i)' # "none" /\ Clean(i)'
    BY <1>1, <1>3, <1>4, <1>8, <2>2
  <2> QED
    BY <2>3
<1>15. cursor' = cursor /\ overtaken' = overtaken /\ cursor \in 0..l
  BY <1>5 DEF ProjectionsInv
<1>13. (~overtaken => Follows(Projected, cursor))'
  <2>1. PICK n \in 0..l : n = cursor
    BY <1>15
  <2>2. 1..n \subseteq 1..l
    BY <1>1
  <2>3. {k \in 1..n : Records(feed[k])}' = {k \in 1..n : Records(feed[k])}
    <3>1. \A k \in 1..n : feed'[k] = feed[k]
      BY <1>3, <2>2
    <3> QED
      BY <1>5, <3>1 DEF Records
  <2>4. SUFFICES ASSUME ~overtaken PROVE Follows(Projected, cursor)'
    BY <1>15
  <2>5. (\A x \in Entities : Projected.view[x] = StatusAt(x, n))
        /\ Projected.history = {k \in 1..n : Records(feed[k])}
    BY <2>1, <2>4 DEF ProjectionsInv, Follows
  <2>6. \A x \in Entities : Projected.view'[x] = StatusAt(x, n)'
    BY <1>4, <1>10, <2>5
  <2>7. Projected.history' = {k \in 1..n : Records(feed[k])}'
    BY <1>10, <2>3, <2>5
  <2>8. n = cursor'
    BY <1>15, <2>1
  <2>9. Follows(Projected, n)'
    BY <2>6, <2>7 DEF Follows, Entities
  <2>10. Follows(Projected, n)' => Follows(Projected, cursor)'
    BY <2>8 DEF Follows
  <2> QED
    BY <2>9, <2>10
<1>12. ASSUME NEW p \in Polls PROVE IsPage(poll[p].rows, poll[p].after)' /\ Clean(poll[p].after)'
  <2>1. /\ poll[p].rows \in Seq(Event) /\ poll[p].after \in Nat
        /\ poll[p].after + Len(poll[p].rows) <= Len(feed)
        /\ \A i \in 1..Len(poll[p].rows) : poll[p].rows[i] = feed[poll[p].after + i]
    BY DEF ProjectionsInv, IsPage
  <2>2. \A i \in 1..Len(poll[p].rows) : poll[p].after + i \in 1..l
    BY <2>1
  <2>3. poll' = poll
    BY <1>5
  <2>4. poll[p].after + Len(poll[p].rows) <= Len(feed')
    BY <1>1, <1>3, <2>1
  <2>5. \A i \in 1..Len(poll[p].rows) : poll[p].rows[i] = feed'[poll[p].after + i]
    BY <1>3, <2>1, <2>2
  <2>6. PICK n \in 0..l : n = poll[p].after
    BY <2>1
  <2>7. Clean(n)'
    BY <1>8, <2>6 DEF ProjectionsInv
  <2>8. n = poll'[p].after
    BY <2>3, <2>6
  <2>9. Clean(poll[p].after)'
    BY <2>7, <2>8 DEF Clean
  <2> QED
    BY <2>1, <2>3, <2>4, <2>5, <2>9 DEF IsPage
<1>16. Clean(cursor)'
  <2>1. PICK n \in 0..l : n = cursor
    BY <1>15
  <2>2. Clean(n)' /\ n = cursor'
    BY <1>8, <1>15, <2>1 DEF ProjectionsInv
  <2> QED
    BY <2>2 DEF Clean
<1>14. /\ cursor' \in 0..Len(feed') /\ overtaken' \in BOOLEAN /\ poll' \in [Polls -> PollStates]
       /\ engine' \in Engines /\ seeded' \subseteq {Employee, Position}
  BY <1>1, <1>3, <1>5 DEF ProjectionsInv
<1> QED
  BY <1>9, <1>10, <1>11, <1>12, <1>13, <1>14, <1>16 DEF ProjectionsInv

\* As long as the feed stays, what can be applied can be.
LEMMA CleanStays ==
  ASSUME UNCHANGED <<engine, seeded, feed>>, NEW n, Clean(n)
  PROVE  Clean(n)'
<1>1. \A x, k : StatusAt(x, k)' = StatusAt(x, k)
  BY DEF StatusAt, Upserts
<1>2. \A k : WellFounded(k)' <=> WellFounded(k)
  <2> SUFFICES ASSUME NEW k PROVE WellFounded(k)' <=> WellFounded(k)
    OBVIOUS
  <2>1. (Upserts(feed[k])' <=> Upserts(feed[k])) /\ Requires(feed[k])' = Requires(feed[k])
    BY DEF Upserts, Requires
  <2>2. \A x : StatusAt(x, k - 1)' = StatusAt(x, k - 1)
    BY <1>1
  <2> QED
    BY <2>1, <2>2 DEF WellFounded
<1> QED
  BY <1>2 DEF Clean

\* A step of a poll that leaves what is projected alone
LEMMA PollKeeps ==
  ASSUME ProjectionsInv, NEW p \in Polls, NEW q \in PollStates, IsPage(q.rows, q.after),
         Clean(q.after), poll' = [poll EXCEPT ![p] = q],
         UNCHANGED <<engine, seeded, feed, cursor, view, history, announced, overtaken>>
  PROVE  ProjectionsInv'
<1>1. /\ poll \in [Polls -> PollStates]
      /\ \A r \in Polls : IsPage(poll[r].rows, poll[r].after) /\ Clean(poll[r].after)
  BY DEF ProjectionsInv
<1>2. poll' \in [Polls -> PollStates] /\ \A r \in Polls : poll'[r] = IF r = p THEN q ELSE poll[r]
  BY <1>1
<1>3. \A r \in Polls : IsPage(poll'[r].rows, poll'[r].after) /\ Clean(poll'[r].after)
  BY <1>1, <1>2
<1>4. \A r \in Polls : IsPage(poll[r].rows, poll[r].after)' /\ Clean(poll[r].after)'
  <2> SUFFICES ASSUME NEW r \in Polls
               PROVE  IsPage(poll[r].rows, poll[r].after)' /\ Clean(poll[r].after)'
    OBVIOUS
  <2>1. IsPage(poll[r].rows, poll[r].after)'
    BY <1>3 DEF IsPage
  <2>2. PICK n : n = poll'[r].after
    OBVIOUS
  <2>3. Clean(n)
    BY <1>3, <2>2
  <2>4. Clean(n)'
    BY <2>3, CleanStays
  <2>5. Clean(poll[r].after)'
    BY <2>2, <2>4 DEF Clean
  <2> QED
    BY <2>1, <2>5
<1>5. /\ FeedOK' /\ cursor' \in 0..Len(feed') /\ overtaken' \in BOOLEAN
      /\ (Projected \in States)' /\ Announces(Projected)' /\ engine' \in Engines
      /\ seeded' \subseteq {Employee, Position}
  BY DEF ProjectionsInv, FeedOK, Projected, States, Announces, Entities
<1>6. Projected' = Projected
  BY DEF Projected
<1>7. (~overtaken => Follows(Projected, cursor))'
  <2>1. Follows(Projected, cursor)' <=> Follows(Projected, cursor)
    BY <1>6 DEF Follows, Records, StatusAt, Upserts, Entities
  <2> QED
    BY <2>1 DEF ProjectionsInv
<1>8. Grounded(Projected)' /\ Clean(cursor)'
  <2>1. Clean(cursor)' <=> Clean(cursor)
    BY DEF Clean, WellFounded, StatusAt, Upserts, Requires
  <2>2. Grounded(Projected)' <=> Grounded(Projected)
    BY <1>6 DEF Grounded, Clean, WellFounded, StatusAt, Upserts, Requires, Entities
  <2> QED
    BY <2>1, <2>2 DEF ProjectionsInv
<1> QED
  BY <1>2, <1>4, <1>5, <1>7, <1>8 DEF ProjectionsInv

LEMMA EmptyPage ==
  /\ <<>> \in Seq(Event)
  /\ ProjectionsInv => \A n \in 0..Len(feed) : IsPage(<<>>, n)
  /\ Idle \in PollStates
  /\ ProjectionsInv => IsPage(Idle.rows, Idle.after) /\ Clean(Idle.after)
<1>1. <<>> \in Seq(Event) /\ Len(<<>>) = 0
  OBVIOUS
<1>2. ProjectionsInv => \A n \in 0..Len(feed) : IsPage(<<>>, n)
  BY <1>1 DEF ProjectionsInv, FeedOK, IsPage
<1>3. ProjectionsInv => 0 \in 0..Len(feed)
  BY DEF ProjectionsInv, FeedOK
<1>4. Idle \in PollStates /\ Idle.rows = <<>> /\ Idle.after = 0
  BY <1>1 DEF Idle, PollStates
<1>5. Clean(Idle.after)
  <2>1. Clean(0)
    BY DEF Clean
  <2> QED
    BY <1>4, <2>1
<1> QED
  BY <1>1, <1>2, <1>3, <1>4, <1>5

\* The steps of a poll.
LEMMA StartPollKeeps ==
  ASSUME ProjectionsInv, NEW p \in Polls, StartPoll(p)
  PROVE  ProjectionsInv'
<1> DEFINE q == [pc |-> "asked", after |-> cursor, rows |-> <<>>]
<1>1. cursor \in 0..Len(feed) /\ cursor \in Nat
  BY DEF ProjectionsInv, FeedOK
<1>2. q \in PollStates /\ q.rows = <<>> /\ q.after = cursor
  BY <1>1, EmptyPage DEF PollStates
<1>3. IsPage(q.rows, q.after) /\ Clean(q.after)
  BY <1>1, <1>2, EmptyPage DEF ProjectionsInv
<1>4. /\ poll' = [poll EXCEPT ![p] = q]
      /\ UNCHANGED <<engine, seeded, feed, cursor, view, history, announced, overtaken>>
  BY DEF StartPoll
<1> HIDE DEF q
<1> QED
  BY <1>2, <1>3, <1>4, PollKeeps

LEMMA AnswerKeeps ==
  ASSUME ProjectionsInv, NEW p \in Polls, Answer(p)
  PROVE  ProjectionsInv'
<1> DEFINE m == poll[p].after
           last == IF Len(feed) - m > BatchSize THEN m + BatchSize ELSE Len(feed)
           rows == SubSeq(feed, m + 1, last)
           q == [poll[p] EXCEPT !.pc = "answered", !.rows = rows]
<1>1. poll[p] \in PollStates /\ IsPage(poll[p].rows, m) /\ feed \in Seq(Event) /\ Len(feed) \in Nat
      /\ Clean(m)
  BY DEF ProjectionsInv, FeedOK
<1>2. m \in Nat /\ m <= Len(feed)
  BY <1>1 DEF IsPage
<1>3. last \in Nat /\ m <= last /\ last <= Len(feed)
  BY <1>1, <1>2, ProjectionsAssumption
<1> HIDE DEF m, last
<1>4. \A i \in m + 1..last : feed[i] \in Event
  BY <1>1, <1>2, <1>3
<1>5. /\ rows \in Seq(Event)
      /\ Len(rows) = IF m + 1 <= last THEN last - (m + 1) + 1 ELSE 0
      /\ \A i \in 1..last - (m + 1) + 1 : rows[i] = feed[(m + 1) + i - 1]
  BY <1>2, <1>3, <1>4, SubSeqProperties
<1> HIDE DEF rows
<1>6. Len(rows) = last - m /\ \A i \in 1..Len(rows) : rows[i] = feed[m + i]
  <2>1. Len(rows) = last - m
    BY <1>2, <1>3, <1>5
  <2>2. ASSUME NEW i \in 1..Len(rows) PROVE rows[i] = feed[m + i]
    <3>1. i \in 1..last - (m + 1) + 1 /\ (m + 1) + i - 1 = m + i
      BY <1>2, <1>3, <2>1
    <3> QED
      BY <1>5, <3>1
  <2> QED
    BY <2>1, <2>2
<1>7. IsPage(rows, m)
  BY <1>1, <1>2, <1>3, <1>5, <1>6 DEF IsPage
<1>8. q \in PollStates /\ q.rows = rows /\ q.after = m
  BY <1>1, <1>5 DEF PollStates, m
<1>9. /\ poll' = [poll EXCEPT ![p] = q]
      /\ UNCHANGED <<engine, seeded, feed, cursor, view, history, announced, overtaken>>
  <2>1. poll' = [poll EXCEPT ![p].pc = "answered", ![p].rows = rows]
    BY DEF Answer, rows, last, m
  <2> QED
    BY <1>1, <2>1 DEF Answer, PollStates, ProjectionsInv
<1>10. Clean(q.after)
  BY <1>1, <1>8
<1> HIDE DEF q
<1> QED
  BY <1>7, <1>8, <1>9, <1>10, PollKeeps

LEMMA EndPollKeeps ==
  ASSUME ProjectionsInv, NEW p \in Polls, EndPoll(p) \/ LosePoll(p)
  PROVE  ProjectionsInv'
<1>1. /\ poll' = [poll EXCEPT ![p] = Idle]
      /\ UNCHANGED <<engine, seeded, feed, cursor, view, history, announced, overtaken>>
  BY DEF EndPoll, LosePoll
<1> QED
  BY <1>1, EmptyPage, PollKeeps

LEMMA ApplyPageKeeps ==
  ASSUME ProjectionsInv, NEW p \in Polls, ApplyPage(p)
  PROVE  ProjectionsInv'
<1>1. PICK rows, m, s : rows = poll[p].rows /\ m = poll[p].after /\ s = Applied(rows, m)[Len(rows)]
  OBVIOUS
<1> DEFINE reached == m + Len(rows)
           q == IF Len(rows) < BatchSize THEN Idle
                                         ELSE [pc |-> "asked", after |-> reached, rows |-> <<>>]
<1>2. /\ cursor' = reached
      /\ view' = s.view /\ history' = s.history /\ announced' = s.announced
      /\ overtaken' = (overtaken \/ m # cursor)
      /\ poll' = [poll EXCEPT ![p] = q]
      /\ UNCHANGED <<engine, seeded, feed>>
  BY <1>1 DEF ApplyPage
<1>3. /\ IsPage(rows, m) /\ Clean(m) /\ ~Poisoned(rows, m)
      /\ FeedOK /\ Projected \in States /\ Announces(Projected) /\ Grounded(Projected)
  BY <1>1 DEF ProjectionsInv, ApplyPage
<1>4. /\ s \in States /\ Announces(s) /\ Grounded(s) /\ Clean(reached)
      /\ Follows(Projected, m) => Follows(s, reached)
  BY <1>1, <1>3, PageApplied
<1>5. reached \in 0..Len(feed) /\ reached \in Nat
  BY <1>3 DEF IsPage, FeedOK
<1> HIDE DEF reached
<1>6. q \in PollStates /\ IsPage(q.rows, q.after) /\ Clean(q.after)
  <2>1. CASE Len(rows) < BatchSize
    BY <2>1, EmptyPage
  <2>2. CASE ~(Len(rows) < BatchSize)
    <3>1. q \in PollStates /\ q.rows = <<>> /\ q.after = reached
      BY <2>2, <1>5, EmptyPage DEF PollStates
    <3> QED
      BY <3>1, <1>4, <1>5, EmptyPage
  <2> QED
    BY <2>1, <2>2
<1> HIDE DEF q
<1>7. (Projected)' = s
  <2>1. s = [view |-> s.view, history |-> s.history, announced |-> s.announced]
    BY <1>4 DEF States
  <2> QED
    BY <1>2, <2>1 DEF Projected
<1>8. (Projected \in States)' /\ Announces(Projected)' /\ Grounded(Projected)'
  <2>1. (Projected \in States)'
    <3>1. feed' = feed
      BY <1>2
    <3> QED
      BY <1>4, <1>7, <3>1 DEF States, Entities
  <2>2. Announces(Projected)'
    BY <1>2, <1>4, <1>7 DEF Announces
  <2>3. Grounded(Projected)'
    <3>1. Grounded(s)'
      <4>1. SUFFICES ASSUME engine = "authority", NEW x \in Entities, s.view[x] # "none"
                     PROVE  \E i \in 0..Len(feed) : StatusAt(x, i)' # "none" /\ Clean(i)'
        BY <1>2 DEF Grounded, Entities
      <4>2. PICK i \in 0..Len(feed) : StatusAt(x, i) # "none" /\ Clean(i)
        BY <1>4, <4>1 DEF Grounded
      <4>3. StatusAt(x, i)' # "none"
        BY <1>2, <4>2 DEF StatusAt, Upserts
      <4>4. Clean(i)'
        BY <1>2, <4>2, CleanStays
      <4> QED
        BY <4>2, <4>3, <4>4
    <3> QED
      BY <1>7, <3>1 DEF Grounded
  <2> QED
    BY <2>1, <2>2, <2>3
<1>9. /\ poll' \in [Polls -> PollStates]
      /\ \A r \in Polls : IsPage(poll[r].rows, poll[r].after)' /\ Clean(poll[r].after)'
  <2>1. /\ poll \in [Polls -> PollStates]
        /\ \A r \in Polls : IsPage(poll[r].rows, poll[r].after) /\ Clean(poll[r].after)
    BY DEF ProjectionsInv
  <2>2. poll' \in [Polls -> PollStates] /\ \A r \in Polls : poll'[r] = IF r = p THEN q ELSE poll[r]
    BY <1>2, <1>6, <2>1
  <2>3. \A r \in Polls : IsPage(poll'[r].rows, poll'[r].after) /\ Clean(poll'[r].after)
    BY <1>6, <2>1, <2>2
  <2>4. ASSUME NEW r \in Polls PROVE Clean(poll[r].after)'
    <3>1. PICK n : n = poll'[r].after
      OBVIOUS
    <3>2. Clean(n)
      BY <2>3, <3>1
    <3>3. Clean(n)'
      BY <1>2, <3>2, CleanStays
    <3> QED
      BY <3>1, <3>3 DEF Clean
  <2>5. \A r \in Polls : IsPage(poll[r].rows, poll[r].after)'
    BY <1>2, <2>3 DEF IsPage
  <2> QED
    BY <2>2, <2>4, <2>5
<1>10. (~overtaken => Follows(Projected, cursor))'
  <2>1. SUFFICES ASSUME ~overtaken' PROVE Follows(Projected, cursor)'
    OBVIOUS
  <2>2. ~overtaken /\ m = cursor
    BY <1>2, <2>1
  <2>3. Follows(s, reached)
    BY <1>4, <2>2 DEF ProjectionsInv
  <2>4. Follows(Projected, cursor)' <=> Follows(s, reached)
    BY <1>2, <1>7 DEF Follows, Records, StatusAt, Upserts, Entities
  <2> QED
    BY <2>3, <2>4
<1>12. Clean(cursor)'
  <2>1. PICK n : n = reached
    OBVIOUS
  <2>2. Clean(n)
    BY <1>4, <2>1
  <2>3. Clean(n)'
    BY <1>2, <2>2, CleanStays
  <2>4. n = cursor'
    BY <1>2, <2>1
  <2> QED
    BY <2>3, <2>4 DEF Clean
<1>11. /\ FeedOK' /\ cursor' \in 0..Len(feed') /\ overtaken' \in BOOLEAN /\ engine' \in Engines
       /\ seeded' \subseteq {Employee, Position}
  <2>1. overtaken \in BOOLEAN
    BY DEF ProjectionsInv
  <2> QED
    BY <1>2, <1>3, <1>5, <2>1 DEF FeedOK, ProjectionsInv
<1> QED
  BY <1>8, <1>9, <1>10, <1>11, <1>12 DEF ProjectionsInv

LEMMA ProjectionsStep == ProjectionsInv /\ [ProjectionsNext]_projectionVars => ProjectionsInv'
<1> SUFFICES ASSUME ProjectionsInv, [ProjectionsNext]_projectionVars PROVE ProjectionsInv'
  OBVIOUS
<1>1. CASE Emit
  BY <1>1, EmitKeeps
<1>2. ASSUME NEW p \in Polls,
             StartPoll(p) \/ Answer(p) \/ LosePoll(p) \/ ApplyPage(p) \/ EndPoll(p)
      PROVE  ProjectionsInv'
  BY <1>2, StartPollKeeps, AnswerKeeps, EndPollKeeps, ApplyPageKeeps
<1>3. CASE UNCHANGED projectionVars
  <2>1. /\ \A r \in Polls : IsPage(poll[r].rows, poll[r].after)' <=> IsPage(poll[r].rows, poll[r].after)
        /\ \A r \in Polls : Clean(poll[r].after)' <=> Clean(poll[r].after)
        /\ Clean(cursor)' <=> Clean(cursor)
    BY <1>3 DEF projectionVars, IsPage, Clean, WellFounded, StatusAt, Upserts, Requires
  <2>2. Projected' = Projected
    BY <1>3 DEF projectionVars, Projected
  <2>3. Follows(Projected, cursor)' <=> Follows(Projected, cursor)
    BY <1>3, <2>2 DEF projectionVars, Follows, Records, StatusAt, Upserts, Entities
  <2>4. Grounded(Projected)' <=> Grounded(Projected)
    BY <1>3, <2>2 DEF projectionVars, Grounded, Clean, WellFounded, StatusAt, Upserts, Requires, Entities
  <2>5. /\ FeedOK' /\ cursor' \in 0..Len(feed') /\ overtaken' \in BOOLEAN
        /\ (Projected \in States)' /\ Announces(Projected)' /\ poll' \in [Polls -> PollStates]
        /\ engine' \in Engines /\ seeded' \subseteq {Employee, Position}
    BY <1>3 DEF projectionVars, ProjectionsInv, FeedOK, Projected, States, Announces, Entities
  <2>6. (~overtaken => Follows(Projected, cursor))'
    BY <1>3, <2>3 DEF projectionVars, ProjectionsInv
  <2> QED
    BY <2>1, <2>4, <2>5, <2>6 DEF ProjectionsInv
<1> QED
  BY <1>1, <1>2, <1>3 DEF ProjectionsNext

LEMMA ProjectionsImply == ProjectionsInv => ProjectionsTypeOK /\ ProjectionAgrees
<1> SUFFICES ASSUME ProjectionsInv
             PROVE  ProjectionsTypeOK /\ FollowsFeed /\ AnnouncedAgrees /\ StopsAtPoison
  BY DEF ProjectionAgrees
<1>1. FollowsFeed
  BY ProjectedFields DEF ProjectionsInv, Follows, FollowsFeed
<1>2. AnnouncedAgrees
  <2>1. announced = "Granted" <=> \E a \in Assignments : view[a] = "Active"
    BY ProjectedFields DEF ProjectionsInv, Announces
  <2> QED
    BY <2>1 DEF AnnouncedAgrees
<1>3. ProjectionsTypeOK
  BY ProjectedFields DEF ProjectionsInv, ProjectionsTypeOK, Statuses, FeedOK
<1>4. StopsAtPoison
  BY DEF ProjectionsInv, Clean, StopsAtPoison
<1> QED
  BY <1>1, <1>2, <1>3, <1>4

\* Unless polls have overtaken each other, what an engine has projected is what the feed,
\* as far as the engine understands it, says up to its cursor; the authority announced
\* last is always the authority projected; and the authority-engine never passes an event
\* that it cannot apply.  Nothing is assumed of the order or the content of the feed.
THEOREM ProjectionsAgree == ProjectionsSpec => [](ProjectionsTypeOK /\ ProjectionAgrees)
BY ProjectionsStart, ProjectionsStep, ProjectionsImply, PTL DEF ProjectionsSpec

-----------------------------------------------------------------------------
(* Navigator.                                                              *)

\* What the programmes of the Navigator are made of.
Dos == {"wait", "log", "publish", "settle", "create", "line", "send"}
Whats == EventTypes \cup {"resource", "history", "model", "authority", "governance",
                          "employee", "names", "decision", "choice", "entity", "unnamed",
                          "position", "assignment", "action"}
Steps == [do : Dos, what : Whats]

\* The steps up to k that create a line.
LineSteps(P, k) == {j \in 1..k : P[j].do = "line"}

\* Before step i of programme P the entity and all its lines have been made.
CompleteBefore(P, i) ==
  /\ \E j \in 1..i-1 : P[j] = Step("create", "entity")
  /\ \A j \in 1..Len(P) : P[j].do = "line" => j < i

\* Step is one of those before step i.
Before(P, i, step) == \E j \in 1..i-1 : P[j] = step

\* Before step i of P something without an id has been made; P has no lines.
UnnamedBefore(P, i) ==
  /\ Before(P, i, Step("create", "unnamed"))
  /\ \A j \in 1..Len(P) : P[j].do # "line"

\* A step of a programme tells nothing that the steps before it do not make true.
SoundStep(P, i) ==
  /\ P[i].do = "log" => P[i].what \in EventTypes \ Outcomes
  /\ P[i].do = "publish" =>
       \/ P[i].what = "EntityCreated" /\ CompleteBefore(P, i)
       \/ Before(P, i, Step("log", P[i].what))
  /\ P[i] = Step("log", "PromptCreateExecuted") =>
       CompleteBefore(P, i) \/ UnnamedBefore(P, i) \/ Before(P, i, Step("create", "position"))
  /\ P[i] = Step("create", "assignment") =>
       /\ Before(P, i, Step("create", "position"))
       /\ Before(P, i, Step("log", "PromptCreateExecuted"))
  /\ P[i].do = "settle" => i = Len(P) /\ P[i].what \in {"decision", "choice"}
  /\ P[i].do = "create" => P[i].what \in {"entity", "unnamed", "position", "assignment"}
  /\ P[i].do # "send"

\* A programme all of whose steps are sound.
Sound(P) == P \in Seq(Steps) /\ \A i \in 1..Len(P) : SoundStep(P, i)

-----------------------------------------------------------------------------
(* A quiet programme makes and settles nothing.                                 *)

\* P creates nothing and settles nothing.
Quiet(P) ==
  /\ P \in Seq(Steps)
  /\ \A i \in 1..Len(P) :
       /\ P[i].do \in {"wait", "log", "publish"}
       /\ P[i].do = "log" => P[i].what \in EventTypes \ (Outcomes \cup {"PromptCreateExecuted"})
       /\ P[i].do = "publish" => Before(P, i, Step("log", P[i].what))

PlainTypes == {"ActionRecommended", "ExplanationGenerated", "SimulationRun", "NextStepsRecommended"}
WaitsFor == {"resource", "history", "model", "authority", "governance",
             "employee", "names"}

LEMMA QuietParts ==
  /\ \A w \in WaitsFor : Quiet(<<Wait(w)>>)
  /\ \A type \in PlainTypes : Quiet(Logs(type))
<1>1. ASSUME NEW w \in WaitsFor PROVE Quiet(<<Wait(w)>>)
  <2>1. Wait(w) \in Steps /\ Wait(w).do = "wait"
    BY DEF Wait, Step, Steps, Dos, Whats, WaitsFor
  <2>2. <<Wait(w)>> \in Seq(Steps) /\ Len(<<Wait(w)>>) = 1 /\ <<Wait(w)>>[1] = Wait(w)
    BY <2>1
  <2> QED
    BY <2>1, <2>2 DEF Quiet
<1>2. ASSUME NEW type \in PlainTypes PROVE Quiet(Logs(type))
  <2> DEFINE P == Logs(type)
  <2>1. /\ Step("log", type) \in Steps /\ Step("publish", type) \in Steps
        /\ Step("log", type).do = "log" /\ Step("log", type).what = type
        /\ Step("publish", type).do = "publish" /\ Step("publish", type).what = type
    BY DEF Step, Steps, Dos, Whats, PlainTypes, EventTypes
  <2>2. P \in Seq(Steps) /\ Len(P) = 2 /\ P[1] = Step("log", type) /\ P[2] = Step("publish", type)
    BY <2>1 DEF Logs
  <2>3. type \in EventTypes \ (Outcomes \cup {"PromptCreateExecuted"})
    BY DEF PlainTypes, EventTypes, Outcomes
  <2>4. Before(P, 2, Step("log", P[2].what))
    BY <2>1, <2>2 DEF Before
  <2> HIDE DEF P
  <2>5. ASSUME NEW i \in 1..2
        PROVE  /\ P[i].do \in {"wait", "log", "publish"}
               /\ P[i].do = "log" => P[i].what \in EventTypes \ (Outcomes \cup {"PromptCreateExecuted"})
               /\ P[i].do = "publish" => Before(P, i, Step("log", P[i].what))
    <3>1. i = 1 \/ i = 2
      OBVIOUS
    <3> QED
      BY <3>1, <2>1, <2>2, <2>3, <2>4
  <2>6. Quiet(P)
    BY <2>2, <2>5 DEF Quiet
  <2> QED
    BY <2>6 DEF P
<1> QED
  BY <1>1, <1>2

\* R is P followed by Q.
Joins(R, P, Q) ==
  /\ R \in Seq(Steps) /\ Len(R) = Len(P) + Len(Q)
  /\ \A i \in 1..Len(P) : R[i] = P[i]
  /\ \A i \in 1..Len(Q) : R[Len(P) + i] = Q[i]

LEMMA Joined ==
  ASSUME NEW P \in Seq(Steps), NEW Q \in Seq(Steps)
  PROVE  Joins(P \o Q, P, Q)
BY ConcatProperties DEF Joins

LEMMA BeforeJoined ==
  ASSUME NEW P \in Seq(Steps), NEW Q \in Seq(Steps), NEW step
  PROVE  /\ \A i \in 1..Len(P) + 1 : Before(P, i, step) => Before(P \o Q, i, step)
         /\ \A i \in 1..Len(Q) + 1 : Before(Q, i, step) => Before(P \o Q, Len(P) + i, step)
<1>1. \A i \in 1..Len(P) : (P \o Q)[i] = P[i]
  BY ConcatProperties
<1>2. \A i \in 1..Len(Q) : (P \o Q)[Len(P) + i] = Q[i]
  BY ConcatProperties
<1>3. ASSUME NEW i \in 1..Len(P) + 1, Before(P, i, step) PROVE Before(P \o Q, i, step)
  BY <1>1, <1>3 DEF Before
<1>4. ASSUME NEW i \in 1..Len(Q) + 1, Before(Q, i, step) PROVE Before(P \o Q, Len(P) + i, step)
  <2>1. PICK j \in 1..i-1 : Q[j] = step
    BY <1>4 DEF Before
  <2>2. (P \o Q)[Len(P) + j] = step /\ Len(P) + j \in 1..(Len(P) + i)-1
    BY <1>2, <2>1
  <2> QED
    BY <2>2 DEF Before
<1> QED
  BY <1>3, <1>4

LEMMA QuietJoined ==
  ASSUME NEW P, NEW Q, Quiet(P), Quiet(Q)
  PROVE  Quiet(P \o Q)
<1> DEFINE R == P \o Q
<1>1. P \in Seq(Steps) /\ Q \in Seq(Steps) /\ Len(P) \in Nat /\ Len(Q) \in Nat
  BY DEF Quiet
<1>2. /\ R \in Seq(Steps) /\ Len(R) = Len(P) + Len(Q)
      /\ \A i \in 1..Len(P) : R[i] = P[i]
      /\ \A i \in 1..Len(Q) : R[Len(P) + i] = Q[i]
  BY <1>1, ConcatProperties
<1>3. ASSUME NEW i \in 1..Len(R)
      PROVE  /\ R[i].do \in {"wait", "log", "publish"}
             /\ R[i].do = "log" => R[i].what \in EventTypes \ (Outcomes \cup {"PromptCreateExecuted"})
             /\ R[i].do = "publish" => Before(R, i, Step("log", R[i].what))
  <2>1. CASE i \in 1..Len(P)
    <3>1. \A j \in 1..Len(P) + 1 :
            Before(P, j, Step("log", P[i].what)) => Before(R, j, Step("log", P[i].what))
      BY <1>1, BeforeJoined
    <3>2. R[i] = P[i]
      BY <1>2, <2>1
    <3> HIDE DEF R
    <3> QED
      BY <1>1, <2>1, <3>1, <3>2 DEF Quiet
  <2>2. CASE i \notin 1..Len(P)
    <3>1. PICK k \in 1..Len(Q) : i = Len(P) + k
      <4>1. i - Len(P) \in 1..Len(Q) /\ i = Len(P) + (i - Len(P))
        BY <1>1, <1>2, <2>2
      <4> QED
        BY <4>1
    <3>2. \A j \in 1..Len(Q) + 1 :
            Before(Q, j, Step("log", Q[k].what)) => Before(R, Len(P) + j, Step("log", Q[k].what))
      BY <1>1, BeforeJoined
    <3>3. R[i] = Q[k]
      BY <1>2, <3>1
    <3> HIDE DEF R
    <3> QED
      BY <1>1, <3>1, <3>2, <3>3 DEF Quiet
  <2> QED
    BY <2>1, <2>2
<1> QED
  BY <1>2, <1>3 DEF Quiet

\* The programmes that are quiet.
LEMMA QuietProgrammes ==
  Quiet(Rank) /\ Quiet(Explain) /\ Quiet(Simulate) /\ Quiet(Decide) /\ Quiet(NextSteps)
<1> DEFINE w(for) == <<Wait(for)>>
<1>1. Quiet(<<Wait("model")>>)
  BY QuietParts DEF WaitsFor
<1>2. \A type \in PlainTypes : Quiet(Logs(type))
  BY QuietParts
<1>3. Quiet(BuildContext)
  <2>1. Quiet(<<Wait("resource")>>) /\ Quiet(<<Wait("history")>>)
    BY QuietParts DEF WaitsFor
  <2>2. BuildContext = <<Wait("resource")>> \o <<Wait("history")>>
    BY DEF BuildContext
  <2> QED
    BY <2>1, <2>2, QuietJoined
<1>4. Quiet(DecideSteps)
  <2>1. Quiet(<<Wait("authority")>>) /\ Quiet(<<Wait("governance")>>)
    BY QuietParts DEF WaitsFor
  <2>2. DecideSteps = <<Wait("authority")>> \o <<Wait("governance")>>
    BY DEF DecideSteps
  <2> QED
    BY <2>1, <2>2, QuietJoined
<1>5. Quiet(BuildContext \o <<Wait("model")>>)
  BY <1>1, <1>3, QuietJoined
<1>6. Quiet(Rank)
  BY <1>2, <1>5, QuietJoined DEF Rank, PlainTypes
<1>7. Quiet(Decide)
  BY <1>4, <1>6, QuietJoined DEF Decide
<1>8. Quiet((Rank \o DecideSteps) \o <<Wait("model")>>)
  BY <1>1, <1>7, QuietJoined DEF Decide
<1>9. Quiet(Explain)
  BY <1>2, <1>8, QuietJoined DEF Explain, PlainTypes
<1>10. Quiet(Simulate)
  BY <1>2, <1>5, QuietJoined DEF Simulate, PlainTypes
<1>11. Quiet(NextSteps)
  BY <1>2, <1>6, QuietJoined DEF NextSteps, PlainTypes
<1> QED
  BY <1>6, <1>7, <1>9, <1>10, <1>11

\* A quiet programme is sound.
LEMMA QuietSound ==
  ASSUME NEW P, Quiet(P)
  PROVE  Sound(P)
<1>1. ASSUME NEW i \in 1..Len(P) PROVE SoundStep(P, i)
  <2>1. P[i].do \in {"wait", "log", "publish"}
    BY DEF Quiet
  <2>2. P[i].do = "log" => P[i].what \in EventTypes \ (Outcomes \cup {"PromptCreateExecuted"})
    BY DEF Quiet
  <2>3. P[i].do = "publish" => Before(P, i, Step("log", P[i].what))
    BY DEF Quiet
  <2>4. P[i] # Step("log", "PromptCreateExecuted")
    BY <2>2 DEF Step
  <2>5. P[i] # Step("create", "assignment")
    BY <2>1 DEF Step
  <2> QED
    BY <2>1, <2>2, <2>3, <2>4, <2>5 DEF SoundStep
<1> QED
  BY <1>1 DEF Sound, Quiet

\* So is one that ends in settling a decision or a choice.
LEMMA SettleSound ==
  ASSUME NEW P, Quiet(P), NEW what \in {"decision", "choice"}
  PROVE  Sound(P \o <<Step("settle", what)>>)
<1> DEFINE Q == <<Step("settle", what)>>
           R == P \o Q
<1>1. P \in Seq(Steps) /\ Q \in Seq(Steps) /\ Len(Q) = 1 /\ Q[1] = Step("settle", what) /\ Len(P) \in Nat
  BY DEF Quiet, Steps, Step, Dos, Whats
<1>2. /\ R \in Seq(Steps) /\ Len(R) = Len(P) + 1
      /\ \A i \in 1..Len(P) : R[i] = P[i]
      /\ R[Len(P) + 1] = Step("settle", what)
  BY <1>1, ConcatProperties
<1>3. ASSUME NEW i \in 1..Len(R) PROVE SoundStep(R, i)
  <2>1. CASE i \in 1..Len(P)
    <3>1. R[i] = P[i] /\ (Before(P, i, Step("log", P[i].what)) => Before(R, i, Step("log", P[i].what)))
      BY <1>1, <1>2, <2>1, BeforeJoined
    <3>2. P[i].do \in {"wait", "log", "publish"}
      BY <2>1 DEF Quiet
    <3>3. P[i].do = "log" => P[i].what \in EventTypes \ (Outcomes \cup {"PromptCreateExecuted"})
      BY <2>1 DEF Quiet
    <3>4. P[i].do = "publish" => Before(P, i, Step("log", P[i].what))
      BY <2>1 DEF Quiet
    <3>5. P[i] # Step("log", "PromptCreateExecuted") /\ P[i] # Step("create", "assignment")
      BY <3>2, <3>3 DEF Step
    <3> HIDE DEF R
    <3> QED
      BY <3>1, <3>2, <3>3, <3>4, <3>5 DEF SoundStep
  <2>2. CASE i \notin 1..Len(P)
    <3>1. i = Len(R) /\ R[i] = Step("settle", what)
      BY <1>1, <1>2, <2>2
    <3> HIDE DEF R
    <3> QED
      BY <3>1 DEF SoundStep, Step
  <2> QED
    BY <2>1, <2>2
<1> QED
  BY <1>2, <1>3 DEF Sound

-----------------------------------------------------------------------------
(* Create(n), and what is put before and after it                               *)

\* Create(n), step by step: the entity, n lines and what is told of them.
LEMMA CreateIs ==
  ASSUME NEW n \in Nat
  PROVE  /\ Create(n) \in Seq(Steps) /\ Len(Create(n)) = n + 2
         /\ Create(n)[1] = Step("create", "entity")
         /\ \A i \in 2..n + 1 : Create(n)[i] = Step("line", "entity")
         /\ Create(n)[n + 2] = Step("publish", "EntityCreated")
<1> DEFINE A == <<Step("create", "entity")>>
           B == [k \in 1 .. n |-> Step("line", "entity")]
           D == <<Step("publish", "EntityCreated")>>
<1>1. /\ A \in Seq(Steps) /\ Len(A) = 1 /\ A[1] = Step("create", "entity")
      /\ D \in Seq(Steps) /\ Len(D) = 1 /\ D[1] = Step("publish", "EntityCreated")
  BY DEF Step, Steps, Dos, Whats, EventTypes
<1>2. Step("line", "entity") \in Steps
  BY DEF Step, Steps, Dos, Whats
<1>3. B \in Seq(Steps) /\ Len(B) = n /\ \A k \in 1..n : B[k] = Step("line", "entity")
  BY <1>2
<1> DEFINE E == A \o B
           P == Create(n)
<1>4. P = E \o D
  BY DEF Create
<1> HIDE DEF A, B, D
<1>5. Joins(E, A, B)
  BY <1>1, <1>3, Joined, Zenon
<1> HIDE DEF E, P
<1>6. Joins(P, E, D)
  <2>1. E \in Seq(Steps)
    BY <1>5 DEF Joins
  <2> QED
    BY <2>1, <1>1, <1>4, <1>5, Joined, Zenon
<1>7. Len(E) = n + 1 /\ E[1] = A[1] /\ \A i \in 1..n : E[1 + i] = B[i]
  BY <1>1, <1>3, <1>5 DEF Joins
<1>8. Len(P) = n + 2 /\ P[1] = A[1] /\ P[(n + 1) + 1] = D[1] /\ (n + 1) + 1 = n + 2
  BY <1>1, <1>6, <1>7 DEF Joins
<1>9. ASSUME NEW i \in 2..n + 1 PROVE P[i] = Step("line", "entity")
  <2>1. i - 1 \in 1..n /\ i = 1 + (i - 1) /\ i \in 1..Len(E)
    BY <1>7 DEF Joins
  <2>2. P[i] = E[i] /\ E[1 + (i - 1)] = B[i - 1] /\ B[i - 1] = Step("line", "entity")
    BY <2>1, <1>3, <1>6, <1>7 DEF Joins
  <2> QED
    BY <2>1, <2>2
<1>10. /\ P \in Seq(Steps) /\ Len(P) = n + 2
       /\ P[1] = Step("create", "entity")
       /\ \A i \in 2..n + 1 : P[i] = Step("line", "entity")
       /\ P[n + 2] = Step("publish", "EntityCreated")
  BY <1>1, <1>6, <1>8, <1>9 DEF Joins
<1> QED
  BY <1>10 DEF P

LEMMA CreateSound ==
  ASSUME NEW n \in Nat
  PROVE  Sound(Create(n))
<1> DEFINE P == Create(n)
<1>0. /\ P \in Seq(Steps) /\ Len(P) = n + 2
      /\ P[1] = Step("create", "entity")
      /\ \A i \in 2..n + 1 : P[i] = Step("line", "entity")
      /\ P[n + 2] = Step("publish", "EntityCreated")
  BY CreateIs
<1> HIDE DEF P
<1>1. ASSUME NEW i \in 1..Len(P) PROVE SoundStep(P, i)
  <2>1. CASE i = 1
    BY <2>1, <1>0 DEF SoundStep, Step
  <2>2. CASE i \in 2..n + 1
    BY <2>2, <1>0 DEF SoundStep, Step
  <2>3. CASE i = n + 2
    <3>1. CompleteBefore(P, i)
      <4>1. 1 \in 1..i-1 /\ P[1] = Step("create", "entity")
        BY <2>3, <1>0
      <4>2. P[n + 2].do # "line"
        BY <1>0 DEF Step
      <4>3. \A j \in 1..Len(P) : P[j].do = "line" => j < i
        BY <2>3, <4>2, <1>0
      <4> QED
        BY <4>1, <4>3 DEF CompleteBefore
    <3>2. P[i] = Step("publish", "EntityCreated")
      BY <2>3, <1>0
    <3> QED
      BY <3>1, <3>2 DEF SoundStep, Step
  <2>4. i = 1 \/ i \in 2..n + 1 \/ i = n + 2
    BY <1>0
  <2> QED
    BY <2>1, <2>2, <2>3, <2>4
<1>2. Sound(P)
  BY <1>0, <1>1 DEF Sound
<1> QED
  BY <1>2 DEF P

\* What a prompt made P do is made when P is over.
Creates(P) == CompleteBefore(P, Len(P) + 1) \/ UnnamedBefore(P, Len(P) + 1)

\* P settles nothing, so it may go on.
MayGoOn(P) == \A i \in 1..Len(P) : P[i].do # "settle"

\* Every creation is sound, and there when it is over.
LEMMA CreationsSound ==
  ASSUME MaxWanted \in Nat, NEW P \in Creations
  PROVE  Sound(P) /\ Creates(P) /\ MayGoOn(P)
<1>1. ASSUME NEW n \in 0..MaxWanted, P = Create(n) PROVE Sound(P) /\ Creates(P) /\ MayGoOn(P)
  <2>1. /\ P \in Seq(Steps) /\ Len(P) = n + 2
        /\ P[1] = Step("create", "entity")
        /\ \A i \in 2..n + 1 : P[i] = Step("line", "entity")
        /\ P[n + 2] = Step("publish", "EntityCreated")
    <3>1. n \in Nat
      OBVIOUS
    <3> QED
      BY <1>1, <3>1, CreateIs, Zenon
  <2>2. ASSUME NEW i \in 1..Len(P) PROVE P[i].do # "settle"
    <3>1. i = 1 \/ i \in 2..n + 1 \/ i = n + 2
      BY <2>1
    <3> QED
      BY <2>1, <3>1 DEF Step
  <2>3. CompleteBefore(P, Len(P) + 1)
    BY <2>1 DEF CompleteBefore
  <2>4. Sound(P)
    BY <1>1, CreateSound
  <2> QED
    BY <2>2, <2>3, <2>4 DEF Creates, MayGoOn
<1>2. ASSUME NEW what \in {"entity", "unnamed"}, P = <<Step("create", what)>>
      PROVE  Sound(P) /\ Creates(P) /\ MayGoOn(P)
  <2>1. P \in Seq(Steps) /\ Len(P) = 1 /\ P[1] = Step("create", what)
    BY <1>2 DEF Step, Steps, Dos, Whats
  <2>2. SoundStep(P, 1)
    BY <2>1 DEF SoundStep, Step
  <2>3. what = "entity" => CompleteBefore(P, 2)
    BY <2>1 DEF CompleteBefore, Step
  <2>4. what = "unnamed" => UnnamedBefore(P, 2)
    BY <2>1 DEF UnnamedBefore, Before, Step
  <2>5. Sound(P)
    BY <2>1, <2>2 DEF Sound
  <2>6. MayGoOn(P)
    BY <2>1 DEF MayGoOn, Step
  <2> QED
    BY <2>1, <2>3, <2>4, <2>5, <2>6 DEF Creates
<1> QED
  BY <1>1, <1>2 DEF Creations, CreateSilent, CreateUnnamed

\* A programme may begin by waiting.
LEMMA WaitFirst ==
  ASSUME NEW P, Sound(P), NEW w \in WaitsFor
  PROVE  /\ Sound(<<Wait(w)>> \o P)
         /\ Creates(P) => Creates(<<Wait(w)>> \o P)
         /\ MayGoOn(P) => MayGoOn(<<Wait(w)>> \o P)
<1> DEFINE W == <<Wait(w)>>
           R == W \o P
<1>1. /\ P \in Seq(Steps) /\ W \in Seq(Steps) /\ Len(W) = 1 /\ W[1] = Wait(w)
      /\ Wait(w).do = "wait"
  BY DEF Sound, Wait, Step, Steps, Dos, Whats, WaitsFor
<1>2. Joins(R, W, P)
  BY <1>1, Joined, Zenon
<1>3. \A step : \A i \in 1..Len(P) + 1 : Before(P, i, step) => Before(R, Len(W) + i, step)
  BY <1>1, BeforeJoined
<1> HIDE DEF W, R
<1>4. /\ R \in Seq(Steps) /\ Len(R) = 1 + Len(P) /\ R[1].do = "wait"
      /\ \A i \in 1..Len(P) : R[1 + i] = P[i]
  BY <1>1, <1>2 DEF Joins
<1>5. \A step : \A i \in 1..Len(P) + 1 : Before(P, i, step) => Before(R, 1 + i, step)
  BY <1>1, <1>3
<1>6. ASSUME NEW j \in 1..Len(R) PROVE R[j].do = "wait" \/ (j - 1 \in 1..Len(P) /\ R[j] = P[j - 1])
  <2>1. j = 1 \/ (j - 1 \in 1..Len(P) /\ 1 + (j - 1) = j)
    BY <1>1, <1>4
  <2> QED
    BY <1>4, <2>1
<1>7. ASSUME NEW i \in 1..Len(P) + 1, CompleteBefore(P, i) PROVE CompleteBefore(R, 1 + i)
  <2>1. Before(R, 1 + i, Step("create", "entity"))
    <3>1. Before(P, i, Step("create", "entity"))
      BY <1>7 DEF CompleteBefore, Before
    <3> QED
      BY <1>5, <3>1
  <2>2. ASSUME NEW j \in 1..Len(R), R[j].do = "line" PROVE j < 1 + i
    <3>1. j - 1 \in 1..Len(P) /\ P[j - 1].do = "line"
      BY <1>6, <2>2
    <3>2. j - 1 < i
      BY <1>7, <3>1 DEF CompleteBefore
    <3> QED
      BY <3>2
  <2> QED
    BY <2>1, <2>2 DEF CompleteBefore, Before
<1>8. ASSUME NEW i \in 1..Len(P) + 1, UnnamedBefore(P, i) PROVE UnnamedBefore(R, 1 + i)
  BY <1>5, <1>6, <1>8 DEF UnnamedBefore
<1>9. ASSUME NEW i \in 1..Len(R) PROVE SoundStep(R, i)
  <2>1. CASE R[i].do = "wait"
    BY <2>1 DEF SoundStep, Step
  <2>2. CASE R[i].do # "wait"
    <3>1. PICK k \in 1..Len(P) : i = 1 + k /\ R[i] = P[k]
      <4>1. i - 1 \in 1..Len(P) /\ R[i] = P[i - 1] /\ i = 1 + (i - 1)
        BY <1>6, <2>2
      <4> QED
        BY <4>1
    <3>2. SoundStep(P, k)
      BY <3>1 DEF Sound
    <3>3. \A step : Before(P, k, step) => Before(R, i, step)
      BY <1>5, <3>1
    <3>4. (CompleteBefore(P, k) => CompleteBefore(R, i)) /\ (UnnamedBefore(P, k) => UnnamedBefore(R, i))
      BY <1>7, <1>8, <3>1
    <3>5. k = Len(P) => i = Len(R)
      BY <1>4, <3>1
    <3> QED
      BY <3>1, <3>2, <3>3, <3>4, <3>5 DEF SoundStep
  <2> QED
    BY <2>1, <2>2
<1>10. Sound(R)
  BY <1>4, <1>9 DEF Sound
<1>11. Creates(P) => Creates(R)
  <2>1. Len(P) + 1 \in 1..Len(P) + 1 /\ 1 + (Len(P) + 1) = Len(R) + 1
    BY <1>1, <1>4
  <2> QED
    BY <1>7, <1>8, <2>1 DEF Creates
<1>12. MayGoOn(P) => MayGoOn(R)
  BY <1>6 DEF MayGoOn
<1> QED
  BY <1>10, <1>11, <1>12 DEF R, W

\* It may end by logging that it has created what it was to.
LEMMA LogLast ==
  ASSUME NEW P, Sound(P), Creates(P), MayGoOn(P)
  PROVE  Sound(P \o Logs("PromptCreateExecuted"))
<1> DEFINE L == Logs("PromptCreateExecuted")
           R == P \o L
           n == Len(P)
<1>1. /\ P \in Seq(Steps) /\ L \in Seq(Steps) /\ Len(L) = 2
      /\ L[1] = Step("log", "PromptCreateExecuted") /\ L[2] = Step("publish", "PromptCreateExecuted")
      /\ n \in Nat
  BY DEF Sound, Logs, Step, Steps, Dos, Whats, EventTypes
<1>2. Joins(R, P, L)
  BY <1>1, Joined, Zenon
<1>3. \A step : \A i \in 1..Len(P) + 1 : Before(P, i, step) => Before(R, i, step)
  BY <1>1, BeforeJoined
<1> HIDE DEF L, R
<1>4. /\ R \in Seq(Steps) /\ Len(R) = n + 2 /\ (\A i \in 1..n : R[i] = P[i])
      /\ R[n + 1] = Step("log", "PromptCreateExecuted")
      /\ R[n + 2] = Step("publish", "PromptCreateExecuted")
  BY <1>1, <1>2 DEF Joins
<1> HIDE DEF n
<1>5. n = Len(P)
  BY DEF n
<1>6. ASSUME NEW j \in 1..Len(R), R[j].do = "line" PROVE j \in 1..n /\ P[j].do = "line"
  <2>1. j \in 1..n \/ j = n + 1 \/ j = n + 2
    BY <1>1, <1>4
  <2> QED
    BY <1>4, <1>6, <2>1 DEF Step
<1>7. ASSUME NEW i \in 1..n + 1, CompleteBefore(P, i) PROVE CompleteBefore(R, i)
  <2>1. Before(P, i, Step("create", "entity"))
    BY <1>7 DEF CompleteBefore, Before
  <2>2. Before(R, i, Step("create", "entity"))
    BY <1>3, <1>5, <2>1
  <2>3. \A j \in 1..Len(R) : R[j].do = "line" => j < i
    BY <1>5, <1>6, <1>7 DEF CompleteBefore
  <2> QED
    BY <2>2, <2>3 DEF CompleteBefore, Before
<1>8. ASSUME NEW i \in 1..n + 1, UnnamedBefore(P, i) PROVE UnnamedBefore(R, i)
  <2>1. Before(R, i, Step("create", "unnamed"))
    BY <1>3, <1>5, <1>8 DEF UnnamedBefore
  <2>2. \A j \in 1..Len(R) : R[j].do # "line"
    BY <1>5, <1>6, <1>8 DEF UnnamedBefore
  <2> QED
    BY <2>1, <2>2 DEF UnnamedBefore
<1>9. ASSUME NEW i \in 1..n PROVE SoundStep(R, i)
  <2>1. R[i] = P[i] /\ SoundStep(P, i) /\ P[i].do # "settle" /\ i \in 1..n + 1
    BY <1>1, <1>4, <1>5 DEF Sound, MayGoOn
  <2>2. \A step : Before(P, i, step) => Before(R, i, step)
    BY <1>3, <1>5, <2>1
  <2>3. (CompleteBefore(P, i) => CompleteBefore(R, i)) /\ (UnnamedBefore(P, i) => UnnamedBefore(R, i))
    BY <1>7, <1>8, <2>1
  <2> QED
    BY <2>1, <2>2, <2>3 DEF SoundStep
<1>10. SoundStep(R, n + 1)
  <2>1. n + 1 \in 1..n + 1
    BY <1>1
  <2>2. CompleteBefore(R, n + 1) \/ UnnamedBefore(R, n + 1)
    BY <1>5, <1>7, <1>8, <2>1 DEF Creates
  <2> QED
    BY <1>4, <2>2 DEF SoundStep, Step, EventTypes, Outcomes
<1>11. SoundStep(R, n + 2)
  <2>1. Before(R, n + 2, Step("log", "PromptCreateExecuted"))
    BY <1>1, <1>4 DEF Before
  <2> QED
    BY <1>4, <2>1 DEF SoundStep, Step
<1>12. \A i \in 1..Len(R) : SoundStep(R, i)
  BY <1>1, <1>4, <1>9, <1>10, <1>11
<1>13. Sound(R)
  BY <1>4, <1>12 DEF Sound
<1> QED
  BY <1>13 DEF R, L

\* So is every creation that a prompt asks for.
LEMMA PromptedSound ==
  ASSUME NEW P, Sound(P), Creates(P), MayGoOn(P)
  PROVE  Sound(Prompted(P))
<1>1. LET R == <<Wait("model")>> \o P IN Sound(R) /\ Creates(R) /\ MayGoOn(R)
  BY WaitFirst DEF WaitsFor
<1> QED
  BY <1>1, LogLast DEF Prompted

LEMMA PositionSound == Sound(PositionAndAssign)
<1> DEFINE P == PositionAndAssign
           A == <<Wait("employee"), Wait("model"), Step("create", "position")>>
           B == Logs("PromptCreateExecuted")
           D == <<Step("create", "assignment")>>
<1>1. /\ A \in Seq(Steps) /\ Len(A) = 3 /\ A[1] = Wait("employee") /\ A[2] = Wait("model")
      /\ A[3] = Step("create", "position")
  BY DEF Wait, Step, Steps, Dos, Whats
<1>2. /\ B \in Seq(Steps) /\ Len(B) = 2 /\ B[1] = Step("log", "PromptCreateExecuted")
      /\ B[2] = Step("publish", "PromptCreateExecuted")
      /\ D \in Seq(Steps) /\ Len(D) = 1 /\ D[1] = Step("create", "assignment")
  BY DEF Logs, Step, Steps, Dos, Whats, EventTypes
<1>3. P = (A \o B) \o D
  BY DEF PositionAndAssign
<1> HIDE DEF A, B, D, P
<1> DEFINE E == A \o B
<1>4. Joins(E, A, B)
  BY <1>1, <1>2, Joined, Zenon
<1>a. P = E \o D
  BY <1>3
<1> HIDE DEF E
<1>b. Joins(P, E, D)
  <2>1. E \in Seq(Steps)
    BY <1>4 DEF Joins
  <2> QED
    BY <2>1, <1>2, <1>4, <1>a, Joined, Zenon
<1>c. Len(E) = 5 /\ E[1] = A[1] /\ E[2] = A[2] /\ E[3] = A[3] /\ E[3 + 1] = B[1] /\ E[3 + 2] = B[2]
  BY <1>1, <1>2, <1>4 DEF Joins
<1>5. Len(P) = 6 /\ (\A i \in 1..5 : P[i] = E[i]) /\ P[5 + 1] = D[1]
  BY <1>2, <1>b, <1>c DEF Joins
<1>6. /\ P \in Seq(Steps) /\ Len(P) = 6 /\ P[1] = Wait("employee") /\ P[2] = Wait("model")
      /\ P[3] = Step("create", "position") /\ P[4] = Step("log", "PromptCreateExecuted")
      /\ P[5] = Step("publish", "PromptCreateExecuted") /\ P[6] = Step("create", "assignment")
  BY <1>1, <1>2, <1>5, <1>b, <1>c DEF Joins
<1>7. /\ \A i \in 4..6 : Before(P, i, Step("create", "position"))
      /\ \A i \in 5..6 : Before(P, i, Step("log", "PromptCreateExecuted"))
  BY <1>6 DEF Before
<1>8. ASSUME NEW i \in 1..Len(P) PROVE SoundStep(P, i)
  <2>1. CASE i = 1 \/ i = 2
    BY <2>1, <1>6 DEF SoundStep, Step, Wait
  <2>2. CASE i = 3
    BY <2>2, <1>6 DEF SoundStep, Step
  <2>3. CASE i = 4
    <3>1. Before(P, i, Step("create", "position")) /\ P[i] = Step("log", "PromptCreateExecuted")
      BY <2>3, <1>6, <1>7
    <3> QED
      BY <3>1 DEF SoundStep, Step, EventTypes, Outcomes
  <2>4. CASE i = 5
    <3>1. Before(P, i, Step("log", "PromptCreateExecuted")) /\ P[i] = Step("publish", "PromptCreateExecuted")
      BY <2>4, <1>6, <1>7
    <3> QED
      BY <3>1 DEF SoundStep, Step
  <2>5. CASE i = 6
    <3>1. /\ Before(P, i, Step("log", "PromptCreateExecuted"))
          /\ Before(P, i, Step("create", "position"))
          /\ P[i] = Step("create", "assignment")
      BY <2>5, <1>6, <1>7
    <3> QED
      BY <3>1 DEF SoundStep, Step
  <2> QED
    BY <2>1, <2>2, <2>3, <2>4, <2>5, <1>6
<1>9. Sound(P)
  BY <1>6, <1>8 DEF Sound
<1> QED
  BY <1>9 DEF P

\* Every programme a call may be given is sound.
LEMMA ProgrammesSound ==
  ASSUME MaxWanted \in Nat, NEW P \in Programmes
  PROVE  Sound(P)
<1>1. \A Q \in Creations : Sound(Q) /\ Creates(Q) /\ MayGoOn(Q)
  BY CreationsSound
<1>2. Sound(Rank) /\ Sound(Explain) /\ Sound(Simulate) /\ Sound(Decide) /\ Sound(NextSteps)
  BY QuietProgrammes, QuietSound
<1>3. Sound(Execute)
  <2>1. Execute = Decide \o <<Step("settle", "decision")>>
    BY DEF Execute, Decide
  <2> QED
    BY <2>1, QuietProgrammes, SettleSound
<1>4. Sound(ExecuteChosen)
  BY QuietProgrammes, SettleSound DEF ExecuteChosen
<1>5. CreateSilent \in Creations /\ CreateUnnamed \in Creations
  BY DEF Creations
<1>6. ASSUME NEW Q \in Creations PROVE LET R == ByName(Q) IN Sound(R) /\ Creates(R) /\ MayGoOn(R)
  BY <1>1, WaitFirst DEF ByName, WaitsFor
<1>7. ASSUME NEW Q \in PromptCreates PROVE Sound(Q)
  BY <1>1, <1>5, <1>6, PromptedSound DEF PromptCreates
<1>8. Sound(PositionUnnamed)
  <2>1. Sound(Prompted(CreateUnnamed))
    BY <1>1, <1>5, PromptedSound
  <2> QED
    BY <2>1, WaitFirst DEF PositionUnnamed, WaitsFor
<1> QED
  BY <1>1, <1>2, <1>3, <1>4, <1>7, <1>8, PositionSound DEF Programmes

-----------------------------------------------------------------------------
(* What a call has done is what its programme says of the steps before the one  *)
(* it is at.                                                                    *)

\* What is left of P after k steps.
Suffix(st, P, k) ==
  /\ st \in Seq(Steps) /\ Len(st) = Len(P) - k
  /\ \A i \in 1..Len(st) : st[i] = P[k + i]

DoneBy(P, k, what) == {P[j].what : j \in {m \in 1..k : P[m].do = what}}

\* P creates something that gets an id.
NamesEntity(P) == \E j \in 1..Len(P) : P[j] = Step("create", "entity")

\* A call that has carried out k steps of P, and nothing else.
Going(st, l, pu, se, m, P, k) ==
  /\ Sound(P) /\ k \in 0..Len(P) /\ Suffix(st, P, k)
  /\ l = DoneBy(P, k, "log")
  /\ pu \subseteq DoneBy(P, k, "publish")
  /\ se = 0
  /\ m.entity <=> "entity" \in DoneBy(P, k, "create")
  /\ m.unnamed <=> "unnamed" \in DoneBy(P, k, "create")
  /\ m.position <=> "position" \in DoneBy(P, k, "create")
  /\ m.assignment <=> "assignment" \in DoneBy(P, k, "create")
  /\ NamesEntity(P) => m.kept = Cardinality(LineSteps(P, Len(P)))
  /\ m.lines = Cardinality(LineSteps(P, k))

\* A call that is about to send its action, and has no outcome yet.
Sending(st, l, se) ==
  st \in {Send, <<Wait("model")>> \o Send} /\ l \cap Outcomes = {} /\ se = 0

\* A call that is about to log its outcome o.
Reporting(st, l, se, ca, o) ==
  /\ o \in Outcomes /\ st = Logs(o) /\ l \cap Outcomes = {} /\ se <= 1
  /\ o = "ActionExecuted" => ca
  /\ o = "ActionDenied" => se = 0

\* A call that has logged its outcome and is about to publish it.
Reported(st, l, o) == o \in Outcomes /\ o \in l /\ st = <<Step("publish", o)>>

\* Where a call is.
Phase(st, l, pu, se, ca, m) ==
  \/ st = <<>>
  \/ \E P, k : Going(st, l, pu, se, m, P, k)
  \/ Sending(st, l, se)
  \/ \E o : Reporting(st, l, se, ca, o)
  \/ \E o : Reported(st, l, o)

Complete(m) == m.entity /\ m.lines = m.kept

\* What LogTruthful says of one call
Truth(l, pu, se, ca, m) ==
  /\ "ActionExecuted" \in l => ca
  /\ "ActionDenied" \in l => se = 0
  /\ se <= 1
  /\ \A o1, o2 \in l \cap Outcomes : o1 = o2
  /\ "PromptCreateExecuted" \in l => Complete(m) \/ m.position \/ (m.unnamed /\ m.lines = 0)
  /\ m.assignment => m.position /\ "PromptCreateExecuted" \in l
  /\ pu \subseteq l \cup (IF Complete(m) THEN {"EntityCreated"} ELSE {})

Makings == [given : Nat, kept : Nat, lines : Nat, entity : BOOLEAN, unnamed : BOOLEAN,
            position : BOOLEAN, assignment : BOOLEAN]

\* A call is good if its log is true and it is in one of the phases.
Good(st, l, pu, se, ca, m) ==
  /\ l \in SUBSET EventTypes /\ pu \in SUBSET EventTypes /\ se \in Nat /\ ca \in BOOLEAN
  /\ m \in Makings
  /\ Truth(l, pu, se, ca, m)
  /\ Phase(st, l, pu, se, ca, m)

\* The inductive invariant.
NavigatorInv ==
  /\ NavigatorTypeOK
  /\ steps = [c \in Callers |-> steps[c]]
  /\ \A c \in Callers : Good(steps[c], logged[c], published[c], sent[c], carried[c], made[c])

-----------------------------------------------------------------------------
(* One step of a programme                                                      *)

\* The first step that is left is the next one of the programme.
LEMMA SuffixStep ==
  ASSUME NEW st, NEW P \in Seq(Steps), NEW k \in 0..Len(P), Suffix(st, P, k), st # <<>>
  PROVE  /\ k + 1 \in 1..Len(P) /\ Head(st) = P[k + 1] /\ P[k + 1] \in Steps
         /\ Suffix(Tail(st), P, k + 1)
<1>1. st \in Seq(Steps) /\ Len(st) = Len(P) - k /\ Len(st) > 0
  BY DEF Suffix
<1>2. Head(st) = st[1] /\ st[1] = P[k + 1]
  BY <1>1 DEF Suffix
<1>3. /\ Tail(st) \in Seq(Steps) /\ Len(Tail(st)) = Len(st) - 1
      /\ \A i \in 1..Len(Tail(st)) : Tail(st)[i] = st[i + 1]
  BY <1>1, HeadTailProperties
<1>4. \A i \in 1..Len(Tail(st)) : Tail(st)[i] = P[(k + 1) + i]
  <2> SUFFICES ASSUME NEW i \in 1..Len(Tail(st)) PROVE Tail(st)[i] = P[(k + 1) + i]
    OBVIOUS
  <2>1. i + 1 \in 1..Len(st) /\ k + (i + 1) = (k + 1) + i
    BY <1>1, <1>3
  <2> QED
    BY <2>1, <1>3 DEF Suffix
<1>5. k + 1 \in 1..Len(P)
  BY <1>1
<1> QED
  BY <1>1, <1>2, <1>3, <1>4, <1>5 DEF Suffix

LEMMA DoneStep ==
  ASSUME NEW P \in Seq(Steps), NEW k \in 0..Len(P), k + 1 \in 1..Len(P), NEW what
  PROVE  DoneBy(P, k + 1, what) =
           DoneBy(P, k, what) \cup (IF P[k + 1].do = what THEN {P[k + 1].what} ELSE {})
BY DEF DoneBy

\* What comes before the next step has been done.
LEMMA BeforeDone ==
  ASSUME NEW P \in Seq(Steps), NEW k \in 0..Len(P), NEW do, NEW what, Before(P, k + 1, Step(do, what))
  PROVE  what \in DoneBy(P, k, do)
<1>1. PICK j \in 1..(k + 1)-1 : P[j] = Step(do, what)
  BY DEF Before
<1>2. j \in 1..k /\ P[j].do = do /\ P[j].what = what
  BY <1>1 DEF Step
<1> QED
  BY <1>2 DEF DoneBy

\* All lines are there when their steps have been carried out.
LEMMA LineStepsCount ==
  ASSUME NEW P \in Seq(Steps), NEW k \in 0..Len(P)
  PROVE  /\ IsFiniteSet(LineSteps(P, k)) /\ Cardinality(LineSteps(P, k)) \in Nat
         /\ k + 1 \in 1..Len(P) /\ P[k + 1].do # "line" => LineSteps(P, k + 1) = LineSteps(P, k)
         /\ k + 1 \in 1..Len(P) /\ P[k + 1].do = "line" =>
              /\ Cardinality(LineSteps(P, k + 1)) = Cardinality(LineSteps(P, k)) + 1
              /\ Cardinality(LineSteps(P, k)) # Cardinality(LineSteps(P, Len(P)))
<1>1. \A n \in 0..Len(P) : IsFiniteSet(LineSteps(P, n)) /\ Cardinality(LineSteps(P, n)) \in Nat
  <2> SUFFICES ASSUME NEW n \in 0..Len(P)
               PROVE  IsFiniteSet(LineSteps(P, n)) /\ Cardinality(LineSteps(P, n)) \in Nat
    OBVIOUS
  <2>1. IsFiniteSet(1..n) /\ LineSteps(P, n) \subseteq 1..n
    BY FS_Interval DEF LineSteps
  <2> QED
    BY <2>1, FS_Subset, FS_CardinalityType
<1>2. ASSUME k + 1 \in 1..Len(P), P[k + 1].do # "line" PROVE LineSteps(P, k + 1) = LineSteps(P, k)
  BY <1>2 DEF LineSteps
<1>3. ASSUME k + 1 \in 1..Len(P), P[k + 1].do = "line"
      PROVE  /\ Cardinality(LineSteps(P, k + 1)) = Cardinality(LineSteps(P, k)) + 1
             /\ Cardinality(LineSteps(P, k)) # Cardinality(LineSteps(P, Len(P)))
  <2>1. LineSteps(P, k + 1) = LineSteps(P, k) \cup {k + 1} /\ k + 1 \notin LineSteps(P, k)
    BY <1>3 DEF LineSteps
  <2>2. Cardinality(LineSteps(P, k + 1)) = Cardinality(LineSteps(P, k)) + 1
    BY <1>1, <2>1, FS_AddElement
  <2>3. LineSteps(P, k + 1) \subseteq LineSteps(P, Len(P)) /\ Len(P) \in 0..Len(P)
    BY <1>3 DEF LineSteps
  <2>4. Cardinality(LineSteps(P, k + 1)) <= Cardinality(LineSteps(P, Len(P)))
    BY <1>1, <2>3, FS_Subset
  <2> QED
    BY <1>1, <2>2, <2>3, <2>4
<1> QED
  BY <1>1, <1>2, <1>3

LEMMA CompleteDone ==
  ASSUME NEW P \in Seq(Steps), NEW k \in 0..Len(P), CompleteBefore(P, k + 1)
  PROVE  /\ "entity" \in DoneBy(P, k, "create")
         /\ LineSteps(P, k) = LineSteps(P, Len(P))
<1>1. Before(P, k + 1, Step("create", "entity"))
  BY DEF CompleteBefore, Before
<1>2. LineSteps(P, k) = LineSteps(P, Len(P))
  BY DEF LineSteps, CompleteBefore
<1> QED
  BY <1>1, <1>2, BeforeDone

LEMMA CompleteIs ==
  ASSUME NEW st, NEW l, NEW pu, NEW se, NEW m, NEW P, NEW k, Going(st, l, pu, se, m, P, k),
         CompleteBefore(P, k + 1)
  PROVE  Complete(m)
<1>1. P \in Seq(Steps) /\ k \in 0..Len(P)
  BY DEF Going, Sound
<1>2. "entity" \in DoneBy(P, k, "create") /\ LineSteps(P, k) = LineSteps(P, Len(P))
  BY <1>1, CompleteDone
<1>3. NamesEntity(P)
  BY <1>1 DEF CompleteBefore, NamesEntity
<1> QED
  BY <1>2, <1>3 DEF Complete, Going

\* What still has a line to come is not complete, and no prompt is logged of it unless a
\* position is.
LEMMA LineToCome ==
  ASSUME NEW st, NEW l, NEW pu, NEW se, NEW m, NEW P, NEW k, Going(st, l, pu, se, m, P, k),
         k + 1 \in 1..Len(P), P[k + 1].do = "line"
  PROVE  ~Complete(m) /\ ("PromptCreateExecuted" \in l => m.position)
<1>1. P \in Seq(Steps) /\ k \in 0..Len(P) /\ Sound(P)
  BY DEF Going, Sound
<1>2. m.entity => NamesEntity(P)
  <2> SUFFICES ASSUME m.entity PROVE NamesEntity(P)
    OBVIOUS
  <2>1. PICK j \in {n \in 1..k : P[n].do = "create"} : P[j].what = "entity"
    BY DEF Going, DoneBy
  <2>2. j \in 1..Len(P) /\ P[j] \in Steps
    BY <1>1, <2>1
  <2> QED
    BY <2>1, <2>2 DEF NamesEntity, Step, Steps
<1>3. ~Complete(m)
  BY <1>1, <1>2, LineStepsCount DEF Complete, Going
<1>4. ASSUME "PromptCreateExecuted" \in l PROVE m.position
  <2>1. PICK j \in {n \in 1..k : P[n].do = "log"} : P[j].what = "PromptCreateExecuted"
    BY <1>4 DEF Going, DoneBy
  <2>2. j \in 1..Len(P) /\ j <= k /\ P[j] = Step("log", "PromptCreateExecuted")
    <3>1. j \in 1..Len(P) /\ j <= k /\ P[j] \in Steps
      BY <1>1, <2>1
    <3> QED
      BY <2>1, <3>1 DEF Step, Steps
  <2>3. \/ CompleteBefore(P, j) \/ UnnamedBefore(P, j)
        \/ Before(P, j, Step("create", "position"))
    BY <1>1, <2>2 DEF Sound, SoundStep
  <2>4. ~CompleteBefore(P, j) /\ ~UnnamedBefore(P, j)
    BY <1>1, <2>2 DEF CompleteBefore, UnnamedBefore
  <2>5. Before(P, k + 1, Step("create", "position"))
    BY <1>1, <2>2, <2>3, <2>4 DEF Before
  <2> QED
    BY <1>1, <2>5, BeforeDone DEF Going
<1> QED
  BY <1>3, <1>4

\* A call that carries out its next step is going on.
LEMMA GoingOn ==
  ASSUME NEW st, NEW l, NEW pu, NEW se, NEW m \in Makings, NEW P, NEW k,
         NEW l2, NEW pu2, NEW m2 \in Makings,
         Going(st, l, pu, se, m, P, k), st # <<>>,
         l2 = l \cup (IF Head(st).do = "log" THEN {Head(st).what} ELSE {}),
         pu2 \subseteq pu \cup (IF Head(st).do = "publish" THEN {Head(st).what} ELSE {}),
         m2.kept = m.kept,
         m2.lines = m.lines + (IF Head(st).do = "line" THEN 1 ELSE 0),
         m2.entity <=> m.entity \/ (Head(st).do = "create" /\ Head(st).what = "entity"),
         m2.unnamed <=> m.unnamed \/ (Head(st).do = "create" /\ Head(st).what = "unnamed"),
         m2.position <=> m.position \/ (Head(st).do = "create" /\ Head(st).what = "position"),
         m2.assignment <=> m.assignment \/ (Head(st).do = "create" /\ Head(st).what = "assignment")
  PROVE  Going(Tail(st), l2, pu2, se, m2, P, k + 1)
<1>1. P \in Seq(Steps) /\ k \in 0..Len(P) /\ Suffix(st, P, k)
  BY DEF Going, Sound
<1>2. /\ k + 1 \in 1..Len(P) /\ Head(st) = P[k + 1] /\ P[k + 1] \in Steps
      /\ Suffix(Tail(st), P, k + 1) /\ k + 1 \in 0..Len(P)
  BY <1>1, SuffixStep
<1> DEFINE h == P[k + 1]
<1>3. \A what : DoneBy(P, k + 1, what) =
           DoneBy(P, k, what) \cup (IF h.do = what THEN {h.what} ELSE {})
  BY <1>1, <1>2, DoneStep
<1>4. l2 = DoneBy(P, k + 1, "log")
  BY <1>2, <1>3 DEF Going
<1>5. pu2 \subseteq DoneBy(P, k + 1, "publish")
  <2>1. pu \subseteq DoneBy(P, k, "publish")
    BY DEF Going
  <2> QED
    BY <1>2, <1>3, <2>1
<1>6. /\ m2.entity <=> "entity" \in DoneBy(P, k + 1, "create")
      /\ m2.unnamed <=> "unnamed" \in DoneBy(P, k + 1, "create")
      /\ m2.position <=> "position" \in DoneBy(P, k + 1, "create")
      /\ m2.assignment <=> "assignment" \in DoneBy(P, k + 1, "create")
  <2>1. /\ m.entity <=> "entity" \in DoneBy(P, k, "create")
        /\ m.unnamed <=> "unnamed" \in DoneBy(P, k, "create")
        /\ m.position <=> "position" \in DoneBy(P, k, "create")
        /\ m.assignment <=> "assignment" \in DoneBy(P, k, "create")
    BY DEF Going
  <2>2. DoneBy(P, k + 1, "create") =
          DoneBy(P, k, "create") \cup (IF h.do = "create" THEN {h.what} ELSE {})
    BY <1>3
  <2> HIDE DEF h
  <2>3. \A w : w \in DoneBy(P, k + 1, "create") <=>
                 w \in DoneBy(P, k, "create") \/ (h.do = "create" /\ h.what = w)
    BY <2>2
  <2>4. Head(st) = h
    BY <1>2 DEF h
  <2> QED
    BY <2>1, <2>3, <2>4
<1>7. m2.lines = Cardinality(LineSteps(P, k + 1))
  <2>1. m.lines = Cardinality(LineSteps(P, k))
    BY DEF Going
  <2>2. CASE h.do = "line"
    BY <1>1, <1>2, <2>1, <2>2, LineStepsCount
  <2>3. CASE h.do # "line"
    <3>1. m2.lines = m.lines
      BY <1>2, <2>3 DEF Makings
    <3> QED
      BY <1>1, <1>2, <2>1, <2>3, <3>1, LineStepsCount
  <2> QED
    BY <2>2, <2>3
<1>8. /\ Sound(P) /\ se = 0
      /\ NamesEntity(P) => m2.kept = Cardinality(LineSteps(P, Len(P)))
  BY DEF Going
<1> QED
  BY <1>1, <1>2, <1>4, <1>5, <1>6, <1>7, <1>8 DEF Going

\* What a step of each kind can be in each phase.
LEMMA HeadsAre ==
  /\ Send # <<>> /\ Head(Send).do = "send"
  /\ <<Wait("model")>> \o Send # <<>> /\ Head(<<Wait("model")>> \o Send).do = "wait"
  /\ Tail(<<Wait("model")>> \o Send) = Send
  /\ \A o : /\ Head(Logs(o)) = Step("log", o) /\ Tail(Logs(o)) = <<Step("publish", o)>>
            /\ Logs(o) # <<>>
            /\ Head(<<Step("publish", o)>>) = Step("publish", o)
            /\ Tail(<<Step("publish", o)>>) = <<>>
<1>1. \A a : <<a>> # <<>> /\ Head(<<a>>) = a /\ Tail(<<a>>) = <<>>
  OBVIOUS
<1>2. \A a, b : <<a, b>> # <<>> /\ Head(<<a, b>>) = a /\ Tail(<<a, b>>) = <<b>>
  OBVIOUS
<1>3. \A a, b : <<a>> \o <<b>> = <<a, b>>
  <2> SUFFICES ASSUME NEW a, NEW b PROVE <<a>> \o <<b>> = <<a, b>>
    OBVIOUS
  <2>1. <<a>> \in Seq({a, b}) /\ <<b>> \in Seq({a, b}) /\ <<a, b>> \in Seq({a, b})
    OBVIOUS
  <2> DEFINE r == <<a>> \o <<b>>
  <2>2. /\ r \in Seq({a, b}) /\ Len(r) = 2
        /\ r[1] = a /\ r[2] = b
    BY <2>1, ConcatProperties
  <2> HIDE DEF r
  <2>3. r = <<a, b>>
    BY <2>1, <2>2, SeqEqual
  <2> QED
    BY <2>3 DEF r
<1>4. Send # <<>> /\ Head(Send).do = "send"
  BY <1>1 DEF Send, Step
<1>5. <<Wait("model")>> \o Send = <<Wait("model"), Step("send", "action")>>
  BY <1>3 DEF Send
<1>6. /\ <<Wait("model")>> \o Send # <<>> /\ Head(<<Wait("model")>> \o Send).do = "wait"
      /\ Tail(<<Wait("model")>> \o Send) = Send
  <2>1. Wait("model").do = "wait"
    BY DEF Wait, Step
  <2>2. Send = <<Step("send", "action")>>
    BY DEF Send
  <2> QED
    BY <1>2, <1>5, <2>1, <2>2, Zenon
<1>7. \A o : /\ Head(Logs(o)) = Step("log", o) /\ Tail(Logs(o)) = <<Step("publish", o)>>
             /\ Logs(o) # <<>>
  BY <1>2 DEF Logs
<1> QED
  BY <1>1, <1>4, <1>6, <1>7

LEMMA OverIsGood ==
  ASSUME NEW st, NEW l, NEW pu, NEW se, NEW ca, NEW m, Good(st, l, pu, se, ca, m)
  PROVE  Good(<<>>, l, pu, se, ca, m)
BY DEF Good, Phase

LEMMA AnsweredGood ==
  ASSUME NEW st, NEW l, NEW pu, NEW se, NEW ca, NEW m, Good(st, l, pu, se, ca, m),
         st # <<>>, Head(st).do = "wait"
  PROVE  Good(Tail(st), l, pu, se, ca, m)
<1>0. m \in Makings
  BY DEF Good
<1>1. ASSUME NEW P, NEW k, Going(st, l, pu, se, m, P, k)
      PROVE  Going(Tail(st), l, pu, se, m, P, k + 1)
  BY <1>0, <1>1, GoingOn DEF Makings
<1>2. ASSUME Sending(st, l, se) PROVE Sending(Tail(st), l, se)
  BY <1>2, HeadsAre DEF Sending
<1>3. ASSUME NEW o, Reporting(st, l, se, ca, o) PROVE FALSE
  BY <1>3, HeadsAre DEF Reporting, Step
<1>4. ASSUME NEW o, Reported(st, l, o) PROVE FALSE
  BY <1>4, HeadsAre DEF Reported, Step
<1>5. Phase(Tail(st), l, pu, se, ca, m)
  BY <1>1, <1>2, <1>3, <1>4 DEF Good, Phase
<1> QED
  BY <1>5 DEF Good

\* A call is good after it has logged, published, settled, sent and created.
LEMMA LogGood ==
  ASSUME NEW st, NEW l, NEW pu, NEW se, NEW ca, NEW m, Good(st, l, pu, se, ca, m),
         st # <<>>, Head(st).do = "log"
  PROVE  Good(Tail(st), l \cup {Head(st).what}, pu, se, ca, m)
<1>0. m \in Makings /\ Truth(l, pu, se, ca, m) /\ l \in SUBSET EventTypes
  BY DEF Good
<1> DEFINE x == Head(st).what
           l2 == l \cup {x}
<1>1. ASSUME NEW P, NEW k, Going(st, l, pu, se, m, P, k)
      PROVE  Good(Tail(st), l2, pu, se, ca, m)
  <2>1. Going(Tail(st), l2, pu, se, m, P, k + 1)
    BY <1>0, <1>1, GoingOn DEF Makings
  <2>2. P \in Seq(Steps) /\ k \in 0..Len(P) /\ Suffix(st, P, k) /\ Sound(P)
    BY <1>1 DEF Going, Sound
  <2>3. k + 1 \in 1..Len(P) /\ Head(st) = P[k + 1] /\ P[k + 1] \in Steps
    BY <2>2, SuffixStep
  <2>4. SoundStep(P, k + 1)
    BY <2>2, <2>3 DEF Sound
  <2>5. x \in EventTypes \ Outcomes
    BY <2>3, <2>4 DEF SoundStep
  <2>6. x = "PromptCreateExecuted" => Complete(m) \/ m.position \/ (m.unnamed /\ m.lines = 0)
    <3> SUFFICES ASSUME x = "PromptCreateExecuted"
                 PROVE  Complete(m) \/ m.position \/ (m.unnamed /\ m.lines = 0)
      OBVIOUS
    <3>1. P[k + 1] = Step("log", "PromptCreateExecuted")
      BY <2>3 DEF Step, Steps
    <3>2. \/ CompleteBefore(P, k + 1) \/ UnnamedBefore(P, k + 1)
          \/ Before(P, k + 1, Step("create", "position"))
      BY <2>4, <3>1 DEF SoundStep
    <3>3. ASSUME CompleteBefore(P, k + 1) PROVE Complete(m)
      BY <1>1, <2>2, <3>3, CompleteIs
    <3>4. ASSUME Before(P, k + 1, Step("create", "position")) PROVE m.position
      BY <1>1, <2>2, <3>4, BeforeDone DEF Going
    <3>5. ASSUME UnnamedBefore(P, k + 1) PROVE m.unnamed /\ m.lines = 0
      <4>1. Before(P, k + 1, Step("create", "unnamed"))
        BY <3>5 DEF UnnamedBefore
      <4>2. m.unnamed
        BY <1>1, <2>2, <4>1, BeforeDone DEF Going
      <4>3. LineSteps(P, k) = {}
        BY <2>2, <3>5 DEF UnnamedBefore, LineSteps
      <4> QED
        BY <1>1, <4>2, <4>3, FS_EmptySet DEF Going
    <3> QED
      BY <3>2, <3>3, <3>4, <3>5
  <2> HIDE DEF x
  <2>7. Truth(l2, pu, se, ca, m)
    <3>1. l2 \cap Outcomes = l \cap Outcomes
      BY <2>5
    <3>2. x # "ActionExecuted" /\ x # "ActionDenied"
      BY <2>5 DEF Outcomes
    <3> QED
      BY <1>0, <2>6, <3>1, <3>2 DEF Truth
  <2>8. l2 \in SUBSET EventTypes
    BY <1>0, <2>5
  <2> HIDE DEF l2
  <2> QED
    BY <2>1, <2>7, <2>8 DEF Good, Phase
<1>2. ASSUME Sending(st, l, se) PROVE FALSE
  BY <1>2, HeadsAre DEF Sending
<1>3. ASSUME NEW o, Reporting(st, l, se, ca, o) PROVE Good(Tail(st), l2, pu, se, ca, m)
  <2>1. x = o /\ Tail(st) = <<Step("publish", o)>> /\ o \in Outcomes
    BY <1>3, HeadsAre DEF Reporting, Step
  <2>2. Reported(Tail(st), l2, o)
    BY <2>1 DEF Reported
  <2>3. l2 \cap Outcomes = {o} /\ l2 \in SUBSET EventTypes
    BY <1>0, <1>3, <2>1 DEF Reporting, EventTypes
  <2>4. o # "PromptCreateExecuted"
    BY <2>1 DEF Outcomes
  <2> HIDE DEF x
  <2>5. Truth(l2, pu, se, ca, m)
    <3>1. /\ "ActionExecuted" \in l2 => ca
          /\ "ActionDenied" \in l2 => se = 0
          /\ se <= 1
      BY <1>3, <2>1 DEF Reporting, Outcomes
    <3>2. "PromptCreateExecuted" \in l2 <=> "PromptCreateExecuted" \in l
      BY <2>1, <2>4
    <3> QED
      BY <1>0, <2>3, <3>1, <3>2 DEF Truth
  <2> HIDE DEF l2
  <2> QED
    BY <2>2, <2>3, <2>5 DEF Good, Phase
<1>4. ASSUME NEW o, Reported(st, l, o) PROVE FALSE
  BY <1>4, HeadsAre DEF Reported, Step
<1> QED
  BY <1>1, <1>2, <1>3, <1>4 DEF Good, Phase

LEMMA PublishGood ==
  ASSUME NEW st, NEW l, NEW pu, NEW se, NEW ca, NEW m, Good(st, l, pu, se, ca, m),
         st # <<>>, Head(st).do = "publish", NEW pu2, pu2 \subseteq pu \cup {Head(st).what}
  PROVE  Good(Tail(st), l, pu2, se, ca, m)
<1>0. m \in Makings /\ Truth(l, pu, se, ca, m) /\ l \in SUBSET EventTypes /\ pu \in SUBSET EventTypes
  BY DEF Good
<1> DEFINE x == Head(st).what
<1>1. ASSUME NEW P, NEW k, Going(st, l, pu, se, m, P, k)
      PROVE  Good(Tail(st), l, pu2, se, ca, m)
  <2>1. Going(Tail(st), l, pu2, se, m, P, k + 1)
    BY <1>0, <1>1, GoingOn DEF Makings
  <2>2. P \in Seq(Steps) /\ k \in 0..Len(P) /\ Suffix(st, P, k) /\ Sound(P)
    BY <1>1 DEF Going, Sound
  <2>3. k + 1 \in 1..Len(P) /\ Head(st) = P[k + 1] /\ P[k + 1] \in Steps
    BY <2>2, SuffixStep
  <2>4. SoundStep(P, k + 1)
    BY <2>2, <2>3 DEF Sound
  <2>5. \/ x = "EntityCreated" /\ CompleteBefore(P, k + 1)
        \/ Before(P, k + 1, Step("log", x))
    BY <2>3, <2>4 DEF SoundStep
  <2>6. CompleteBefore(P, k + 1) => Complete(m)
    BY <1>1, <2>2, CompleteIs
  <2>7. Before(P, k + 1, Step("log", x)) => x \in l
    BY <1>1, <2>2, BeforeDone DEF Going
  <2> HIDE DEF x
  <2>8. x \in l \cup (IF Complete(m) THEN {"EntityCreated"} ELSE {})
    BY <2>5, <2>6, <2>7
  <2>9. pu2 \subseteq pu \cup {x}
    BY DEF x
  <2>10. Truth(l, pu2, se, ca, m)
    BY <1>0, <2>8, <2>9 DEF Truth
  <2>11. pu2 \in SUBSET EventTypes
    BY <1>0, <2>8, <2>9 DEF EventTypes
  <2> QED
    BY <2>1, <2>10, <2>11 DEF Good, Phase
<1>2. ASSUME Sending(st, l, se) PROVE FALSE
  BY <1>2, HeadsAre DEF Sending
<1>3. ASSUME NEW o, Reporting(st, l, se, ca, o) PROVE FALSE
  BY <1>3, HeadsAre DEF Reporting, Step
<1>4. ASSUME NEW o, Reported(st, l, o) PROVE Good(Tail(st), l, pu2, se, ca, m)
  <2>1. x = o /\ Tail(st) = <<>> /\ o \in l
    BY <1>4, HeadsAre DEF Reported, Step
  <2>2. pu2 \subseteq pu \cup {o}
    BY <2>1
  <2>3. Truth(l, pu2, se, ca, m) /\ pu2 \in SUBSET EventTypes
    BY <1>0, <2>1, <2>2 DEF Truth
  <2> QED
    BY <2>1, <2>3 DEF Good, Phase
<1> QED
  BY <1>1, <1>2, <1>3, <1>4 DEF Good, Phase

LEMMA GoingHasNoOutcome ==
  ASSUME NEW st, NEW l, NEW pu, NEW se, NEW m, NEW P, NEW k, Going(st, l, pu, se, m, P, k)
  PROVE  l \cap Outcomes = {} /\ se = 0
<1>1. \A j \in 1..k : P[j].do = "log" => P[j].what \notin Outcomes
  <2> SUFFICES ASSUME NEW j \in 1..k, P[j].do = "log" PROVE P[j].what \notin Outcomes
    OBVIOUS
  <2>1. j \in 1..Len(P)
    BY DEF Going, Sound
  <2>2. SoundStep(P, j)
    BY <2>1 DEF Going, Sound
  <2> QED
    BY <2>2 DEF SoundStep
<1> QED
  BY <1>1 DEF Going, DoneBy

LEMMA SettleGood ==
  ASSUME NEW st, NEW l, NEW pu, NEW se, NEW ca, NEW m, Good(st, l, pu, se, ca, m),
         st # <<>>, Head(st).do = "settle", NEW mode \in Modes(Head(st).what),
         NEW rest \in Carries(mode)
  PROVE  Good(rest, l, pu, se, ca, m)
<1>1. ASSUME Sending(st, l, se) PROVE FALSE
  BY <1>1, HeadsAre DEF Sending
<1>2. ASSUME NEW o, Reporting(st, l, se, ca, o) PROVE FALSE
  BY <1>2, HeadsAre DEF Reporting, Step
<1>3. ASSUME NEW o, Reported(st, l, o) PROVE FALSE
  BY <1>3, HeadsAre DEF Reported, Step
<1>4. l \cap Outcomes = {} /\ se = 0
  BY <1>1, <1>2, <1>3, GoingHasNoOutcome DEF Good, Phase
<1>5. mode \in {"NO_ACTION", "REJECT", "REQUEST_APPROVAL", "EXECUTE"}
  BY DEF Modes
<1>6. \/ rest = <<>>
      \/ rest = Logs("ActionDenied")
      \/ rest = Logs("ApprovalRequested")
      \/ rest \in {Send, <<Wait("model")>> \o Send}
  BY <1>5 DEF Carries
<1>7. ASSUME NEW o \in {"ActionDenied", "ApprovalRequested"}, rest = Logs(o)
      PROVE  Reporting(rest, l, se, ca, o)
  BY <1>4, <1>7 DEF Reporting, Outcomes
<1>8. rest \in {Send, <<Wait("model")>> \o Send} => Sending(rest, l, se)
  BY <1>4 DEF Sending
<1>9. Phase(rest, l, pu, se, ca, m)
  BY <1>6, <1>7, <1>8 DEF Phase
<1> QED
  BY <1>9 DEF Good

LEMMA SendIsSending ==
  ASSUME NEW st, NEW l, NEW pu, NEW se, NEW ca, NEW m, Good(st, l, pu, se, ca, m),
         st # <<>>, Head(st).do = "send"
  PROVE  l \cap Outcomes = {} /\ se = 0
<1>1. ASSUME NEW o, Reporting(st, l, se, ca, o) PROVE FALSE
  BY <1>1, HeadsAre DEF Reporting, Step
<1>2. ASSUME NEW o, Reported(st, l, o) PROVE FALSE
  BY <1>2, HeadsAre DEF Reported, Step
<1>3. ASSUME NEW P, NEW k, Going(st, l, pu, se, m, P, k) PROVE l \cap Outcomes = {} /\ se = 0
  BY <1>3, GoingHasNoOutcome
<1> QED
  BY <1>1, <1>2, <1>3 DEF Good, Phase, Sending

LEMMA SendGood ==
  ASSUME NEW st, NEW l, NEW pu, NEW se, NEW ca, NEW m, Good(st, l, pu, se, ca, m),
         st # <<>>, Head(st).do = "send", NEW ca2 \in BOOLEAN
  PROVE  /\ Good(<<>>, l, pu, se + 1, ca2, m)
         /\ \A status \in {"2xx", "202", "error"} :
              (status = "2xx" => ca2) => Good(Logs(TypeOf(status)), l, pu, se + 1, ca2, m)
<1>1. l \cap Outcomes = {} /\ se = 0
  BY SendIsSending
<1>2. Truth(l, pu, se + 1, ca2, m)
  BY <1>1 DEF Good, Truth, Outcomes
<1>3. ASSUME NEW status \in {"2xx", "202", "error"}, status = "2xx" => ca2
      PROVE  Reporting(Logs(TypeOf(status)), l, se + 1, ca2, TypeOf(status))
  BY <1>1, <1>3 DEF Reporting, TypeOf, Outcomes
<1> QED
  BY <1>1, <1>2, <1>3 DEF Good, Phase

LEMMA MakeGood ==
  ASSUME NEW st, NEW l, NEW pu, NEW se, NEW ca, NEW m, Good(st, l, pu, se, ca, m),
         st # <<>>, Head(st).do \in {"create", "line"}, NEW m2,
         m2 = IF Head(st).do = "line" THEN [m EXCEPT !.lines = @ + 1]
                                      ELSE [m EXCEPT ![Head(st).what] = TRUE]
  PROVE  Good(Tail(st), l, pu, se, ca, m2) /\ Good(<<>>, l, pu, se, ca, m2)
<1>0. m \in Makings /\ Truth(l, pu, se, ca, m) /\ l \in SUBSET EventTypes
  BY DEF Good
<1> DEFINE x == Head(st).what
<1>1. ASSUME NEW P, NEW k, Going(st, l, pu, se, m, P, k)
      PROVE  Going(Tail(st), l, pu, se, m2, P, k + 1) /\ m2 \in Makings /\ Truth(l, pu, se, ca, m2)
  <2>2. P \in Seq(Steps) /\ k \in 0..Len(P) /\ Suffix(st, P, k) /\ Sound(P)
    BY <1>1 DEF Going, Sound
  <2>3. k + 1 \in 1..Len(P) /\ Head(st) = P[k + 1] /\ P[k + 1] \in Steps
    BY <2>2, SuffixStep
  <2>4. SoundStep(P, k + 1)
    BY <2>2, <2>3 DEF Sound
  <2>5. CASE Head(st).do = "line"
    <3>1. /\ m2 \in Makings /\ m2.kept = m.kept /\ m2.lines = m.lines + 1
          /\ m2.entity = m.entity /\ m2.unnamed = m.unnamed
          /\ m2.position = m.position /\ m2.assignment = m.assignment
      BY <1>0, <2>5 DEF Makings
    <3>2. Going(Tail(st), l, pu, se, m2, P, k + 1)
      BY <1>0, <1>1, <2>5, <3>1, GoingOn
    <3>3. ~Complete(m) /\ ("PromptCreateExecuted" \in l => m.position)
      BY <1>1, <2>3, <2>5, LineToCome
    <3>4. Truth(l, pu, se, ca, m2)
      BY <1>0, <3>1, <3>3 DEF Truth
    <3> QED
      BY <3>1, <3>2, <3>4
  <2>6. CASE Head(st).do = "create"
    <3>1. x \in {"entity", "unnamed", "position", "assignment"}
      BY <2>3, <2>4, <2>6 DEF SoundStep
    <3>2. /\ m2 \in Makings /\ m2.kept = m.kept /\ m2.lines = m.lines
          /\ (m2.entity <=> m.entity \/ x = "entity")
          /\ (m2.unnamed <=> m.unnamed \/ x = "unnamed")
          /\ (m2.position <=> m.position \/ x = "position")
          /\ (m2.assignment <=> m.assignment \/ x = "assignment")
      <4>1. PICK t : t = TRUE
        OBVIOUS
      <4>2. m2 = [m EXCEPT ![x] = t]
        BY <2>6, <4>1, Zenon
      <4>3. t \in BOOLEAN
        BY <4>1
      <4> HIDE DEF x
      <4>4. /\ m2 \in Makings /\ m2.kept = m.kept /\ m2.lines = m.lines
            /\ m2.entity = IF x = "entity" THEN t ELSE m.entity
            /\ m2.unnamed = IF x = "unnamed" THEN t ELSE m.unnamed
            /\ m2.position = IF x = "position" THEN t ELSE m.position
            /\ m2.assignment = IF x = "assignment" THEN t ELSE m.assignment
        BY <1>0, <3>1, <4>2, <4>3 DEF Makings
      <4>5. m.entity \in BOOLEAN /\ m.unnamed \in BOOLEAN /\ m.position \in BOOLEAN /\ m.assignment \in BOOLEAN
        BY <1>0 DEF Makings
      <4>6. /\ m2.entity <=> m.entity \/ x = "entity"
            /\ m2.unnamed <=> m.unnamed \/ x = "unnamed"
            /\ m2.position <=> m.position \/ x = "position"
            /\ m2.assignment <=> m.assignment \/ x = "assignment"
        BY <4>1, <4>4, <4>5, Zenon
      <4> QED
        BY <4>4, <4>6
    <3>3. m2.lines \in Nat /\ m.lines \in Nat /\ m2.lines = m.lines
      BY <1>0, <3>2 DEF Makings
    <3>4. Going(Tail(st), l, pu, se, m2, P, k + 1)
      <4>1. m2.lines = m.lines + (IF Head(st).do = "line" THEN 1 ELSE 0)
        <5>1. (IF Head(st).do = "line" THEN 1 ELSE 0) = 0
          BY <2>6
        <5>2. \A a, b : a \in Nat /\ b = a => b = a + 0
          OBVIOUS
        <5> QED
          BY <3>3, <5>1, <5>2, Zenon
      <4>2. /\ l = l \cup (IF Head(st).do = "log" THEN {Head(st).what} ELSE {})
            /\ pu \subseteq pu \cup (IF Head(st).do = "publish" THEN {Head(st).what} ELSE {})
        BY <2>6
      <4>3. /\ m2.entity <=> m.entity \/ (Head(st).do = "create" /\ Head(st).what = "entity")
            /\ m2.unnamed <=> m.unnamed \/ (Head(st).do = "create" /\ Head(st).what = "unnamed")
            /\ m2.position <=> m.position \/ (Head(st).do = "create" /\ Head(st).what = "position")
            /\ m2.assignment <=> m.assignment \/ (Head(st).do = "create" /\ Head(st).what = "assignment")
        BY <2>6, <3>2, Zenon
      <4>4. m2 \in Makings /\ m2.kept = m.kept
        BY <3>2
      <4> QED
        BY <1>0, <1>1, <4>1, <4>2, <4>3, <4>4, GoingOn
    <3>5. Complete(m) => Complete(m2)
      BY <3>2 DEF Complete
    <3>6. x = "assignment" => m.position /\ "PromptCreateExecuted" \in l
      <4> SUFFICES ASSUME x = "assignment" PROVE m.position /\ "PromptCreateExecuted" \in l
        OBVIOUS
      <4>1. P[k + 1] = Step("create", "assignment")
        BY <2>3, <2>6 DEF Step, Steps
      <4>2. /\ Before(P, k + 1, Step("create", "position"))
            /\ Before(P, k + 1, Step("log", "PromptCreateExecuted"))
        BY <2>4, <4>1 DEF SoundStep
      <4> QED
        BY <1>1, <2>2, <4>2, BeforeDone DEF Going
    <3> HIDE DEF x
    <3>7. Truth(l, pu, se, ca, m2)
      BY <1>0, <3>2, <3>5, <3>6 DEF Truth
    <3> QED
      BY <3>2, <3>4, <3>7
  <2> QED
    BY <2>5, <2>6
<1>2. ASSUME Sending(st, l, se) PROVE FALSE
  BY <1>2, HeadsAre DEF Sending
<1>3. ASSUME NEW o, Reporting(st, l, se, ca, o) PROVE FALSE
  BY <1>3, HeadsAre DEF Reporting, Step
<1>4. ASSUME NEW o, Reported(st, l, o) PROVE FALSE
  BY <1>4, HeadsAre DEF Reported, Step
<1> QED
  BY <1>1, <1>2, <1>3, <1>4 DEF Good, Phase

-----------------------------------------------------------------------------
(* The invariant                                                                *)

\* What gets no id names nothing.
LEMMA UnnamedProgrammes ==
  ASSUME NEW P \in {CreateUnnamed, Prompted(CreateUnnamed)}
  PROVE  ~NamesEntity(P)
<1> DEFINE W == <<Wait("model")>>
           C == CreateUnnamed
           L == Logs("PromptCreateExecuted")
           entity == Step("create", "entity")
<1>1. /\ W \in Seq(Steps) /\ Len(W) = 1 /\ W[1] = Wait("model")
      /\ C \in Seq(Steps) /\ Len(C) = 1 /\ C[1] = Step("create", "unnamed")
      /\ L \in Seq(Steps) /\ Len(L) = 2 /\ L[1] = Step("log", "PromptCreateExecuted")
      /\ L[2] = Step("publish", "PromptCreateExecuted")
  BY DEF CreateUnnamed, Logs, Wait, Step, Steps, Dos, Whats, EventTypes
<1>2. /\ Wait("model") # entity /\ Step("create", "unnamed") # entity
      /\ Step("log", "PromptCreateExecuted") # entity
      /\ Step("publish", "PromptCreateExecuted") # entity
  BY DEF Wait, Step
<1>3. P = C \/ P = (W \o C) \o L
  BY DEF Prompted
<1> HIDE DEF W, C, L, entity
<1>4. Joins(W \o C, W, C)
  BY <1>1, Joined, Zenon
<1>5. W \o C \in Seq(Steps) /\ Len(W \o C) = 2
  BY <1>1, <1>4 DEF Joins
<1>6. Joins((W \o C) \o L, W \o C, L)
  BY <1>1, <1>5, Joined, Zenon
<1>7. CASE P = C
  <2>1. \A j \in 1..Len(P) : j = 1
    BY <1>1, <1>7
  <2>2. P[1] # entity
    BY <1>1, <1>2, <1>7
  <2> QED
    BY <2>1, <2>2 DEF NamesEntity, entity
<1>8. CASE P = (W \o C) \o L
  <2> DEFINE E == W \o C
  <2>1. E[1] = W[1] /\ E[1 + 1] = C[1] /\ Len(E) = 2
    BY <1>1, <1>4, <1>5 DEF Joins
  <2>2. Joins(P, E, L)
    BY <1>6, <1>8
  <2> HIDE DEF E
  <2>3. Len(P) = 4 /\ P[1] = E[1] /\ P[2] = E[2] /\ P[2 + 1] = L[1] /\ P[2 + 2] = L[2]
    BY <1>1, <2>1, <2>2 DEF Joins
  <2>4. \A j \in 1..Len(P) : j = 1 \/ j = 2 \/ j = 3 \/ j = 4
    BY <2>3
  <2>5. P[1] # entity /\ P[2] # entity /\ P[3] # entity /\ P[4] # entity
    BY <1>1, <1>2, <2>1, <2>3
  <2> QED
    BY <2>4, <2>5 DEF NamesEntity, entity
<1> QED
  BY <1>3, <1>7, <1>8

\* What a call is given to create is not there yet.
LEMMA PayloadsAre ==
  ASSUME NEW m \in Payloads, MaxWanted \in Nat
  PROVE  /\ m \in Makings /\ m.lines = 0 /\ m.entity = FALSE /\ m.unnamed = FALSE
         /\ m.position = FALSE /\ m.assignment = FALSE
<1>1. PICK g \in 0..MaxWanted, n \in 0..MaxWanted : m = Payload(g, n)
  BY DEF Payloads
<1>2. m = [given |-> g, kept |-> n, lines |-> 0, entity |-> FALSE, unnamed |-> FALSE,
           position |-> FALSE, assignment |-> FALSE]
  BY <1>1 DEF Nothing, Payload
<1>3. g \in Nat /\ n \in Nat
  OBVIOUS
<1> QED
  BY <1>2, <1>3 DEF Makings

LEMMA NavigatorStarts ==
  ASSUME MaxWanted \in Nat, NavigatorInit
  PROVE  NavigatorInv
<1>1. ASSUME NEW c \in Callers
      PROVE  /\ Good(steps[c], logged[c], published[c], sent[c], carried[c], made[c])
             /\ made[c] \in Makings /\ logged[c] = {} /\ published[c] = {} /\ sent[c] = 0
             /\ carried[c] = FALSE
  <2>1. steps[c] \in Programmes
    BY DEF NavigatorInit
  <2>2. Sound(steps[c])
    BY <2>1, ProgrammesSound
  <2>3. /\ logged[c] = {} /\ published[c] = {} /\ sent[c] = 0 /\ carried[c] = FALSE
        /\ made[c] \in Payloads /\ Fits(made[c], steps[c])
    BY DEF NavigatorInit
  <2> DEFINE P == steps[c]
             m == made[c]
  <2>4. P \in Seq(Steps) /\ Len(P) \in Nat /\ DOMAIN P = 1..Len(P)
    BY <2>2 DEF Sound
  <2>5. LineSteps(P, Len(P)) = {i \in DOMAIN steps[c] : steps[c][i].do = "line"}
    BY <2>4 DEF LineSteps
  <2>6. LineSteps(P, 0) = {} /\ \A what : DoneBy(P, 0, what) = {}
    BY DEF LineSteps, DoneBy
  <2>7. Cardinality(LineSteps(P, 0)) = 0
    BY <2>6, FS_EmptySet
  <2>8. NamesEntity(P) => m.kept = Cardinality(LineSteps(P, Len(P)))
    <3>1. \/ m.kept = Cardinality({i \in DOMAIN P : P[i].do = "line"})
          \/ P \in {CreateUnnamed, Prompted(CreateUnnamed)}
      BY <2>3 DEF Fits
    <3> QED
      BY <2>5, <3>1, UnnamedProgrammes, Zenon
  <2> HIDE DEF m
  <2>9. /\ m \in Makings /\ m.lines = 0 /\ m.entity = FALSE /\ m.unnamed = FALSE
        /\ m.position = FALSE /\ m.assignment = FALSE
    BY <2>3, PayloadsAre DEF m
  <2>10. Suffix(P, P, 0)
    BY <2>4 DEF Suffix
  <2> HIDE DEF P
  <2>11. Going(P, {}, {}, 0, m, P, 0)
    BY <2>2, <2>4, <2>6, <2>7, <2>8, <2>9, <2>10 DEF Going, P
  <2>12. Truth({}, {}, 0, FALSE, m)
    BY <2>9 DEF Truth
  <2>13. Good(P, {}, {}, 0, FALSE, m)
    BY <2>9, <2>11, <2>12 DEF Good, Phase
  <2> QED
    BY <2>3, <2>9, <2>13 DEF P, m
<1>2. NavigatorTypeOK
  <2>1. /\ logged = [c \in Callers |-> logged[c]] /\ published = [c \in Callers |-> published[c]]
        /\ sent = [c \in Callers |-> sent[c]] /\ carried = [c \in Callers |-> carried[c]]
        /\ made = [c \in Callers |-> made[c]]
    BY DEF NavigatorInit
  <2>2. \A c \in Callers : /\ logged[c] = {} /\ published[c] = {} /\ sent[c] = 0
                            /\ carried[c] = FALSE /\ made[c] \in Makings
    BY <1>1
  <2>3. logged \in [Callers -> SUBSET EventTypes] /\ published \in [Callers -> SUBSET EventTypes]
    BY <2>1, <2>2
  <2>4. sent \in [Callers -> Nat]
    BY <2>1, <2>2
  <2>5. carried \in [Callers -> BOOLEAN]
    BY DEF NavigatorInit
  <2>6. made \in [Callers -> Makings]
    BY <2>1, <2>2, Zenon
  <2> QED
    BY <2>3, <2>4, <2>5, <2>6 DEF NavigatorTypeOK, Makings
<1>3. steps = [c \in Callers |-> steps[c]]
  BY DEF NavigatorInit
<1> QED
  BY <1>1, <1>2, <1>3 DEF NavigatorInv

\* What a step of call c leaves when every variable of c has the values given
LEMMA CallerStep ==
  ASSUME NavigatorInv, NEW c \in Callers,
         NEW st, NEW l, NEW pu, NEW se, NEW ca, NEW m, Good(st, l, pu, se, ca, m),
         steps' = [steps EXCEPT ![c] = st], logged' = [logged EXCEPT ![c] = l],
         published' = [published EXCEPT ![c] = pu], sent' = [sent EXCEPT ![c] = se],
         carried' = [carried EXCEPT ![c] = ca], made' = [made EXCEPT ![c] = m]
  PROVE  NavigatorInv'
<1>1. l \in SUBSET EventTypes /\ pu \in SUBSET EventTypes /\ se \in Nat /\ ca \in BOOLEAN /\ m \in Makings
  BY DEF Good
<1>2. NavigatorTypeOK
  BY DEF NavigatorInv
<1>3. NavigatorTypeOK'
  BY <1>1, <1>2 DEF NavigatorTypeOK, Makings
<1>4. /\ steps' = [d \in Callers |-> steps'[d]] /\ steps'[c] = st
      /\ \A d \in Callers \ {c} : steps'[d] = steps[d]
  BY DEF NavigatorInv
<1>5. /\ logged'[c] = l /\ published'[c] = pu /\ sent'[c] = se /\ carried'[c] = ca /\ made'[c] = m
      /\ \A d \in Callers \ {c} :
           /\ logged'[d] = logged[d] /\ published'[d] = published[d] /\ sent'[d] = sent[d]
           /\ carried'[d] = carried[d] /\ made'[d] = made[d]
  BY <1>2 DEF NavigatorTypeOK
<1>6. ASSUME NEW d \in Callers
      PROVE  Good(steps'[d], logged'[d], published'[d], sent'[d], carried'[d], made'[d])
  <2>1. CASE d = c
    BY <2>1, <1>4, <1>5
  <2>2. CASE d # c
    <3>1. Good(steps[d], logged[d], published[d], sent[d], carried[d], made[d])
      BY DEF NavigatorInv
    <3> QED
      BY <2>2, <3>1, <1>4, <1>5
  <2> QED
    BY <2>1, <2>2
<1> QED
  BY <1>3, <1>4, <1>6 DEF NavigatorInv

(* Whatever an answer, a log, a decision, the ERP or the event processor does   *)
(* to a call, what it leaves is good.                                           *)
LEMMA NavigatorStep == NavigatorInv /\ [NavigatorNext]_navigatorVars => NavigatorInv'
<1> SUFFICES ASSUME NavigatorInv, [NavigatorNext]_navigatorVars PROVE NavigatorInv'
  OBVIOUS
<1>0. CASE UNCHANGED navigatorVars
  <2>1. NavigatorTypeOK' /\ steps' = [d \in Callers |-> steps'[d]]
    BY <1>0 DEF navigatorVars, NavigatorInv, NavigatorTypeOK
  <2>2. ASSUME NEW d \in Callers
        PROVE  Good(steps'[d], logged'[d], published'[d], sent'[d], carried'[d], made'[d])
    <3>1. Good(steps[d], logged[d], published[d], sent[d], carried[d], made[d])
      BY DEF NavigatorInv
    <3>2. /\ steps'[d] = steps[d] /\ logged'[d] = logged[d] /\ published'[d] = published[d]
          /\ sent'[d] = sent[d] /\ carried'[d] = carried[d] /\ made'[d] = made[d]
      BY <1>0 DEF navigatorVars
    <3> QED
      BY <3>1, <3>2, Zenon
  <2> QED
    BY <2>1, <2>2 DEF NavigatorInv
<1>1. ASSUME NEW c \in Callers,
             Answered(c) \/ Log(c) \/ Publish(c) \/ SettleDecision(c) \/ SendAction(c) \/ Make(c)
      PROVE  NavigatorInv'
  <2> DEFINE st == steps[c]  l == logged[c]  pu == published[c]
             se == sent[c]  ca == carried[c]  m == made[c]
  <2>1. Good(st, l, pu, se, ca, m)
    BY DEF NavigatorInv
  <2>2. /\ steps = [steps EXCEPT ![c] = st] /\ logged = [logged EXCEPT ![c] = l]
        /\ published = [published EXCEPT ![c] = pu] /\ sent = [sent EXCEPT ![c] = se]
        /\ carried = [carried EXCEPT ![c] = ca] /\ made = [made EXCEPT ![c] = m]
    <3>1. NavigatorTypeOK /\ steps = [d \in Callers |-> steps[d]]
      BY DEF NavigatorInv
    <3> QED
      BY <3>1 DEF NavigatorTypeOK
  <2>3. Good(<<>>, l, pu, se, ca, m)
    BY <2>1, OverIsGood
  <2>4. l \in SUBSET EventTypes /\ pu \in SUBSET EventTypes /\ se \in Nat /\ ca \in BOOLEAN /\ m \in Makings
    BY <2>1 DEF Good
  <2>5. ASSUME Answered(c) PROVE NavigatorInv'
    <3>1. st # <<>> /\ Head(st).do = "wait"
      BY <2>5 DEF Answered, Does
    <3>2. Good(Tail(st), l, pu, se, ca, m)
      BY <2>1, <3>1, AnsweredGood
    <3>3. PICK next \in {Tail(st), <<>>} : steps' = [steps EXCEPT ![c] = next]
      BY <2>5 DEF Answered, Proceeds
    <3>4. Good(next, l, pu, se, ca, m)
      BY <2>3, <3>2, <3>3
    <3>5. UNCHANGED <<logged, published, sent, carried, made>>
      BY <2>5 DEF Answered
    <3> HIDE DEF l, pu, se, ca, m
    <3>6. /\ logged' = [logged EXCEPT ![c] = l] /\ published' = [published EXCEPT ![c] = pu]
          /\ sent' = [sent EXCEPT ![c] = se] /\ carried' = [carried EXCEPT ![c] = ca]
          /\ made' = [made EXCEPT ![c] = m]
      BY <2>2, <3>5
    <3> QED
      BY <3>3, <3>4, <3>6, CallerStep
  <2>6. ASSUME Log(c) PROVE NavigatorInv'
    <3>1. st # <<>> /\ Head(st).do = "log"
      BY <2>6 DEF Log, Does
    <3>0. PICK l2, next : l2 = l \cup {Head(st).what} /\ next = Tail(st)
      OBVIOUS
    <3>2. Good(next, l2, pu, se, ca, m)
      BY <2>1, <3>0, <3>1, LogGood
    <3>3. /\ steps' = [steps EXCEPT ![c] = next] /\ logged' = [logged EXCEPT ![c] = l2]
      BY <2>6, <3>0 DEF Log, Proceeds
    <3>5. UNCHANGED <<published, sent, carried, made>>
      BY <2>6 DEF Log
    <3> HIDE DEF l, pu, se, ca, m
    <3>4. /\ published' = [published EXCEPT ![c] = pu]
          /\ sent' = [sent EXCEPT ![c] = se] /\ carried' = [carried EXCEPT ![c] = ca]
          /\ made' = [made EXCEPT ![c] = m]
      BY <2>2, <3>5
    <3> QED
      BY <3>2, <3>3, <3>4, CallerStep
  <2>7. ASSUME Publish(c) PROVE NavigatorInv'
    <3>1. st # <<>> /\ Head(st).do = "publish"
      BY <2>7 DEF Publish, Does
    <3>2. PICK pu2 \in {pu, pu \cup {Head(st).what}} : published' = [published EXCEPT ![c] = pu2]
      BY <2>2, <2>7 DEF Publish
    <3>3. Good(Tail(st), l, pu2, se, ca, m)
      BY <2>1, <3>1, <3>2, PublishGood
    <3>4. Good(<<>>, l, pu2, se, ca, m)
      BY <3>3, OverIsGood
    <3>5. PICK next \in {Tail(st), <<>>} : steps' = [steps EXCEPT ![c] = next]
      BY <2>7 DEF Publish, Proceeds
    <3>6. Good(next, l, pu2, se, ca, m)
      BY <3>3, <3>4, <3>5
    <3>7. UNCHANGED <<logged, sent, carried, made>>
      BY <2>7 DEF Publish
    <3> HIDE DEF l, se, ca, m
    <3>8. /\ logged' = [logged EXCEPT ![c] = l]
          /\ sent' = [sent EXCEPT ![c] = se] /\ carried' = [carried EXCEPT ![c] = ca]
          /\ made' = [made EXCEPT ![c] = m]
      BY <2>2, <3>7
    <3> QED
      BY <3>2, <3>5, <3>6, <3>8, CallerStep
  <2>8. ASSUME SettleDecision(c) PROVE NavigatorInv'
    <3>1. st # <<>> /\ Head(st).do = "settle"
      BY <2>8 DEF SettleDecision, Does
    <3>2. PICK mode \in Modes(Head(st).what) :
            \E rest \in Carries(mode) : steps' = [steps EXCEPT ![c] = rest]
      BY <2>8 DEF SettleDecision
    <3>3. PICK rest \in Carries(mode) : steps' = [steps EXCEPT ![c] = rest]
      BY <3>2
    <3>4. Good(rest, l, pu, se, ca, m)
      BY <2>1, <3>1, SettleGood
    <3>5. UNCHANGED <<logged, published, sent, carried, made>>
      BY <2>8 DEF SettleDecision
    <3> HIDE DEF l, pu, se, ca, m
    <3>6. /\ logged' = [logged EXCEPT ![c] = l] /\ published' = [published EXCEPT ![c] = pu]
          /\ sent' = [sent EXCEPT ![c] = se] /\ carried' = [carried EXCEPT ![c] = ca]
          /\ made' = [made EXCEPT ![c] = m]
      BY <2>2, <3>5
    <3> QED
      BY <3>3, <3>4, <3>6, CallerStep
  <2>9. ASSUME SendAction(c) PROVE NavigatorInv'
    <3>1. st # <<>> /\ Head(st).do = "send"
      BY <2>9 DEF SendAction, Does
    <3>2. /\ sent' = [sent EXCEPT ![c] = se + 1]
          /\ UNCHANGED <<logged, published, made>>
      BY <2>9 DEF SendAction
    <3>3. \A b \in BOOLEAN :
            /\ Good(<<>>, l, pu, se + 1, b, m)
            /\ \A status \in {"2xx", "202", "error"} :
                 (status = "2xx" => b) => Good(Logs(TypeOf(status)), l, pu, se + 1, b, m)
      BY <2>1, <3>1, SendGood
    <3>4. PICK next, b : /\ b \in BOOLEAN
                         /\ steps' = [steps EXCEPT ![c] = next]
                         /\ carried' = [carried EXCEPT ![c] = b]
                         /\ Good(next, l, pu, se + 1, b, m)
      <4>1. CASE \E status \in {"2xx", "202", "error"} :
                   /\ steps' = [steps EXCEPT ![c] = Logs(TypeOf(status))]
                   /\ \/ carried' = [carried EXCEPT ![c] = status = "2xx"]
                      \/ status = "error" /\ carried' = [carried EXCEPT ![c] = TRUE]
        <5>1. PICK status \in {"2xx", "202", "error"} :
                   /\ steps' = [steps EXCEPT ![c] = Logs(TypeOf(status))]
                   /\ \/ carried' = [carried EXCEPT ![c] = status = "2xx"]
                      \/ status = "error" /\ carried' = [carried EXCEPT ![c] = TRUE]
          BY <4>1
        <5>2. CASE carried' = [carried EXCEPT ![c] = status = "2xx"]
          <6>1. PICK b : b = (status = "2xx")
            OBVIOUS
          <6>2. b \in BOOLEAN /\ (status = "2xx" => b)
            BY <6>1, Zenon
          <6>3. carried' = [carried EXCEPT ![c] = b]
            BY <5>2, <6>1, Zenon
          <6>4. Good(Logs(TypeOf(status)), l, pu, se + 1, b, m)
            BY <3>3, <6>2
          <6> QED
            BY <5>1, <6>2, <6>3, <6>4, Zenon
        <5>3. CASE status = "error" /\ carried' = [carried EXCEPT ![c] = TRUE]
          <6>1. PICK b : b = TRUE
            OBVIOUS
          <6>2. b \in BOOLEAN /\ (status = "2xx" => b)
            BY <6>1, Zenon
          <6>3. carried' = [carried EXCEPT ![c] = b]
            BY <5>3, <6>1, Zenon
          <6>4. Good(Logs(TypeOf(status)), l, pu, se + 1, b, m)
            BY <3>3, <6>2
          <6> QED
            BY <5>1, <6>2, <6>3, <6>4, Zenon
        <5> QED
          BY <5>1, <5>2, <5>3
      <4>2. CASE /\ steps' = [steps EXCEPT ![c] = <<>>]
                 /\ carried' \in {carried, [carried EXCEPT ![c] = TRUE]}
        <5>1. PICK t : t = TRUE
          OBVIOUS
        <5>2. PICK b \in {ca, t} : carried' = [carried EXCEPT ![c] = b]
          <6>1. carried' = [carried EXCEPT ![c] = ca] \/ carried' = [carried EXCEPT ![c] = t]
            BY <2>2, <4>2, <5>1, Zenon
          <6> QED
            BY <6>1, Zenon
        <5>3. b \in BOOLEAN
          BY <2>4, <5>1, <5>2, Zenon
        <5>4. Good(<<>>, l, pu, se + 1, b, m)
          BY <3>3, <5>3, Zenon
        <5> QED
          BY <4>2, <5>2, <5>3, <5>4, Zenon
      <4> QED
        BY <2>9, <4>1, <4>2, Zenon DEF SendAction
    <3> DEFINE se2 == se + 1
    <3>5. Good(next, l, pu, se2, b, m) /\ sent' = [sent EXCEPT ![c] = se2]
      BY <3>2, <3>4
    <3> HIDE DEF l, pu, se, m, se2
    <3>6. /\ logged' = [logged EXCEPT ![c] = l] /\ published' = [published EXCEPT ![c] = pu]
          /\ made' = [made EXCEPT ![c] = m]
      BY <2>2, <3>2
    <3> QED
      BY <3>4, <3>5, <3>6, CallerStep
  <2>10. ASSUME Make(c) PROVE NavigatorInv'
    <3> DEFINE m2 == IF Head(st).do = "line" THEN [m EXCEPT !.lines = @ + 1]
                                             ELSE [m EXCEPT ![Head(st).what] = TRUE]
    <3>1. st # <<>> /\ Head(st).do \in {"create", "line"}
      BY <2>10 DEF Make, Does
    <3>2. Good(Tail(st), l, pu, se, ca, m2) /\ Good(<<>>, l, pu, se, ca, m2)
      BY <2>1, <3>1, MakeGood
    <3>3. \/ made' = [made EXCEPT ![c] = m2] /\ steps' = [steps EXCEPT ![c] = Tail(st)]
          \/ made' \in {made, [made EXCEPT ![c] = m2]} /\ steps' = [steps EXCEPT ![c] = <<>>]
      <4>1. Does(c, "line") <=> Head(st).do = "line"
        BY <3>1 DEF Does
      <4>2. m2 = (IF Does(c, "line") THEN [made[c] EXCEPT !.lines = @ + 1]
                                     ELSE [made[c] EXCEPT ![Head(steps[c]).what] = TRUE])
        BY <4>1
      <4> HIDE DEF m2
      <4> QED
        BY <2>10, <4>2, Zenon DEF Make, Proceeds
    <3> HIDE DEF m2
    <3>4. PICK next, m3 : /\ made' = [made EXCEPT ![c] = m3]
                          /\ steps' = [steps EXCEPT ![c] = next]
                          /\ Good(next, l, pu, se, ca, m3)
      <4> HIDE DEF m
      <4> QED
        BY <2>2, <2>3, <3>2, <3>3, Zenon
    <3>5. UNCHANGED <<logged, published, sent, carried>>
      BY <2>10 DEF Make
    <3> HIDE DEF l, pu, se, ca
    <3>6. /\ logged' = [logged EXCEPT ![c] = l] /\ published' = [published EXCEPT ![c] = pu]
          /\ sent' = [sent EXCEPT ![c] = se] /\ carried' = [carried EXCEPT ![c] = ca]
      BY <2>2, <3>5
    <3> QED
      BY <3>4, <3>6, CallerStep
  <2> QED
    BY <1>1, <2>5, <2>6, <2>7, <2>8, <2>9, <2>10
<1> QED
  BY <1>0, <1>1 DEF NavigatorNext

LEMMA NavigatorImplies == NavigatorInv => NavigatorTypeOK /\ LogTruthful
BY DEF NavigatorInv, Good, Truth, Complete, LogTruthful

\* What the log says was executed the ERP carried out, what it says was denied was never
\* sent, and it claims a creation only when the ERP has made it, with every line that was
\* kept of the payload if it got an id and with none if it got none.
THEOREM NavigatorTellsTheTruth == NavigatorSpec => [](NavigatorTypeOK /\ LogTruthful)
<1>1. NavigatorInit => NavigatorInv
  BY NavigatorStarts, NavigatorAssumption
<1> QED
  BY <1>1, NavigatorStep, NavigatorImplies, PTL DEF NavigatorSpec

-----------------------------------------------------------------------------
(* The services side by side.                                              *)

\* The services start side by side, and a step of them is one of one of them.
LEMMA ServicesStart ==
  ServicesInit =>
    /\ ContractorsInit /\ ProjectionsInit /\ InventoryInit /\ QueueInit
    /\ CaiplInit /\ ProjectsInit /\ GeneralLedgerInit /\ ContractsInit
    /\ RulesInit /\ IdentityInit /\ NavigatorInit /\ PurchasingInit
BY DEF ServicesInit

LEMMA ServicesSteps ==
  [ServicesNext]_allVars =>
    /\ [ContractorsNext]_contractorVars
    /\ [ProjectionsNext]_projectionVars
    /\ [InventoryNext]_inventoryVars
    /\ [QueueNext]_queueVars
    /\ [CaiplNext]_caiplVars
    /\ [ProjectsNext]_projectVars
    /\ [GeneralLedgerNext]_glVars
    /\ [ContractsNext]_contractsVars
    /\ [RulesNext]_rulesVars
    /\ [IdentityNext]_identityVars
    /\ [NavigatorNext]_navigatorVars
    /\ [PurchasingNext]_purchasingVars
BY DEF ServicesNext, allVars

\* So each of them behaves as it does alone.
LEMMA ServicesAreAlone ==
  ServicesSpec =>
    /\ ContractorsSpec /\ ProjectionsSpec /\ InventorySpec /\ QueueSpec
    /\ CaiplSpec /\ ProjectsSpec /\ GeneralLedgerSpec /\ ContractsSpec
    /\ RulesSpec /\ IdentitySpec /\ NavigatorSpec /\ PurchasingSpec
<1>1. ServicesSpec => ContractorsSpec
  BY ServicesStart, ServicesSteps, PTL DEF ServicesSpec, ContractorsSpec
<1>2. ServicesSpec => ProjectionsSpec
  BY ServicesStart, ServicesSteps, PTL DEF ServicesSpec, ProjectionsSpec
<1>3. ServicesSpec => InventorySpec
  BY ServicesStart, ServicesSteps, PTL DEF ServicesSpec, InventorySpec
<1>4. ServicesSpec => QueueSpec
  BY ServicesStart, ServicesSteps, PTL DEF ServicesSpec, QueueSpec
<1>5. ServicesSpec => CaiplSpec
  BY ServicesStart, ServicesSteps, PTL DEF ServicesSpec, CaiplSpec
<1>6. ServicesSpec => ProjectsSpec
  BY ServicesStart, ServicesSteps, PTL DEF ServicesSpec, ProjectsSpec
<1>7. ServicesSpec => GeneralLedgerSpec
  BY ServicesStart, ServicesSteps, PTL DEF ServicesSpec, GeneralLedgerSpec
<1>8. ServicesSpec => ContractsSpec
  BY ServicesStart, ServicesSteps, PTL DEF ServicesSpec, ContractsSpec
<1>9. ServicesSpec => RulesSpec
  BY ServicesStart, ServicesSteps, PTL DEF ServicesSpec, RulesSpec
<1>10. ServicesSpec => IdentitySpec
  BY ServicesStart, ServicesSteps, PTL DEF ServicesSpec, IdentitySpec
<1>11. ServicesSpec => NavigatorSpec
  BY ServicesStart, ServicesSteps, PTL DEF ServicesSpec, NavigatorSpec
<1>12. ServicesSpec => PurchasingSpec
  BY ServicesStart, ServicesSteps, PTL DEF ServicesSpec, PurchasingSpec
<1> QED
  BY <1>1, <1>2, <1>3, <1>4, <1>5, <1>6, <1>7, <1>8, <1>9, <1>10, <1>11, <1>12

\* The tables of the twelve services hold what they hold, for all values of their
\* constants (the row types of the handlers and migrations behind each module).
THEOREM ServicesTypesCorrect == ServicesSpec => []ServicesTypeOK
<1>1. ServicesSpec =>
        /\ []ContractorsTypeOK /\ []ProjectionsTypeOK /\ []InventoryTypeOK /\ []QueueTypeOK
        /\ []CaiplTypeOK /\ []ProjectsTypeOK /\ []GeneralLedgerTypeOK /\ []ContractsTypeOK
        /\ []RulesTypeOK /\ []IdentityTypeOK /\ []NavigatorTypeOK /\ []PurchasingTypeOK
  BY ServicesAreAlone, ContractorsTypeCorrect, ProjectionsAgree, StockIsSound, QueueSafety,
     CaiplSafety, ProjectsSafety, GeneralLedgerTypeCorrect, CommitmentsAlwaysHold,
     ApprovalsAskedExactly, IdentitySafety, NavigatorTellsTheTruth, PurchasingTypeCorrect, PTL
<1>2. /\ ContractorsTypeOK /\ ProjectionsTypeOK /\ InventoryTypeOK /\ QueueTypeOK
      /\ CaiplTypeOK /\ ProjectsTypeOK /\ GeneralLedgerTypeOK /\ ContractsTypeOK
      /\ RulesTypeOK /\ IdentityTypeOK /\ NavigatorTypeOK /\ PurchasingTypeOK
      => ServicesTypeOK
  BY DEF ServicesTypeOK
<1> QED
  BY <1>1, <1>2, PTL
=============================================================================
