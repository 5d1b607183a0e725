------------------------ MODULE MeshApproval_proofs -------------------------
(***************************************************************************)
(* Theorems about MeshApproval, for any number of calls, actors and        *)
(* operations: the types, one open task for a question, how far a call     *)
(* gets before it is answered, that the decision log tells what became of  *)
(* the requests and, under the proviso Serial, that the gateway's tasks    *)
(* implement ApprovalTask: as long as nobody resolves a task while another *)
(* call is resolving it.  The run mesh_rejected_executed shows that the    *)
(* proviso is needed.                                                      *)
(***************************************************************************)
EXTENDS MeshApproval, TLAPS

-----------------------------------------------------------------------------
(* Types.                                                                  *)

LEMMA AnyOpType == AnyOp \in Ops
BY OpsAssumption DEF AnyOp

\* What Fetched and Submit compute as requester is an actor or nobody.
LEMMA RequesterType ==
  ASSUME NEW op \in Ops, NEW a \in Actors \cup {NoActor}
  PROVE  RequesterFor(op, a) \in Actors \cup {NoActor}
BY OpsAssumption DEF RequesterFor

LEMMA Members ==
  /\ {"new", "fetch", "pipeline", "approvers", "exec", "log", "done"} \subseteq Pcs
  /\ {"request", "approve", "reject"} \subseteq CallKinds
  /\ {"denied", "parked", "forwarded", "forwardedWithError", "refused",
      "approverNotPermitted", "rejected", "executed", "executionFailed", "threw",
      "lost"} \subseteq Results
BY DEF Pcs, CallKinds, Results

\* Updating one call's record.
LEMMA UpdateType ==
  ASSUME calls \in [Calls -> Call], NEW c \in Calls, NEW call \in Call,
         Update(c, call)
  PROVE  /\ calls' \in [Calls -> Call]
         /\ calls'[c] = call
         /\ \A d \in Calls \ {c} : calls'[d] = calls[d]
BY DEF Update

\* The updates the actions make are calls again.
LEMMA ResultEdit ==
  ASSUME NEW k \in Call, NEW pc \in Pcs, NEW result \in Results
  PROVE  [k EXCEPT !.pc = pc, !.result = result] \in Call
BY DEF Call

LEMMA TierEdit ==
  ASSUME NEW k \in Call, NEW pc \in Pcs, NEW t \in Tiers
  PROVE  [k EXCEPT !.pc = pc, !.tier = t] \in Call
BY DEF Call

LEMMA FetchEdit ==
  ASSUME NEW k \in Call, NEW pc \in Pcs, NEW v \in Versions
  PROVE  [k EXCEPT !.pc = pc, !.ver = v] \in Call
BY DEF Call

LEMMA JoinEdit ==
  ASSUME NEW k \in Call, NEW pc \in Pcs, NEW result \in Results, NEW t \in Calls
  PROVE  [k EXCEPT !.pc = pc, !.result = result, !.task = t] \in Call
BY DEF Call

LEMMA SubmitEdit ==
  ASSUME NEW k \in Call, NEW pc \in Pcs, NEW kind \in CallKinds, NEW a \in Actors,
         NEW op \in Ops, NEW r \in Actors \cup {NoActor}
  PROVE  [k EXCEPT !.pc = pc, !.kind = kind, !.actor = a, !.op = op,
                   !.requester = r] \in Call
BY DEF Call

LEMMA ApproveEdit ==
  ASSUME NEW k \in Call, NEW pc \in Pcs, NEW kind \in CallKinds, NEW a \in Actors,
         NEW op \in Ops, NEW t \in Calls, NEW r \in Actors \cup {NoActor},
         NEW result \in Results
  PROVE  [k EXCEPT !.pc = pc, !.kind = kind, !.actor = a, !.op = op, !.task = t,
                   !.requester = r, !.result = result] \in Call
BY DEF Call

LEMMA RejectEdit ==
  ASSUME NEW k \in Call, NEW pc \in Pcs, NEW kind \in CallKinds, NEW a \in Actors,
         NEW op \in Ops, NEW t \in Calls, NEW result \in Results
  PROVE  [k EXCEPT !.pc = pc, !.kind = kind, !.actor = a, !.op = op, !.task = t,
                   !.result = result] \in Call
BY DEF Call

LEMMA InitTypeInv == Init => TypeInv
BY AnyOpType, InitialTiersAssumption, MaxTierAssumption, MaxVersionAssumption,
   BoundsAssumption
   DEF Init, TypeInv, TypeOK, CallsConsistent, ApprovalsHaveTasks, CallersKnown, InFlight, ResultsLogged, Call, Pcs, CallKinds,
       Results, Tiers, Versions, Task, NoTask

\* Updating the status of an existing task keeps the table well typed and every
\* task in it.
LEMMA SetStatusType ==
  ASSUME TypeOK, NEW t \in Calls, TaskExists(t), NEW s \in TaskStatuses,
         SetStatus(t, s)
  PROVE  /\ tasks' \in [Calls -> Task \cup {NoTask}]
         /\ \A u \in Calls : TaskExists(u) => TaskExists(u)'
<1>1. tasks[t] \in Task
  BY DEF TypeOK, TaskExists
<1>2. tasks' = [tasks EXCEPT ![t] = [tasks[t] EXCEPT !.status = s]]
  BY DEF SetStatus
<1>3. [tasks[t] EXCEPT !.status = s] \in Task
  BY <1>1 DEF Task
<1>4. [tasks[t] EXCEPT !.status = s] # NoTask
  BY <1>3 DEF Task, TaskStatuses, NoTask
<1> QED
  BY <1>2, <1>3, <1>4 DEF TypeOK, TaskExists

\* A step that edits one call keeps the calls' part of the invariant if the new
\* record satisfies it and no task disappears.
LEMMA CallStep ==
  ASSUME TypeInv, NEW c \in Calls, NEW call \in Call, Update(c, call),
         call.kind = "approve" => TaskExists(call.task),
         call.pc \notin {"new", "done"} => call.kind # "none",
         call.kind # "none" => call.actor \in Actors,
         call.pc = "log" => call.result \in LogEntries,
         \A u \in Calls : TaskExists(u) => TaskExists(u)'
  PROVE  calls' \in [Calls -> Call] /\ CallsConsistent'
<1>1. /\ calls' \in [Calls -> Call]
      /\ calls'[c] = call
      /\ \A d \in Calls \ {c} : calls'[d] = calls[d]
  BY UpdateType DEF TypeInv, TypeOK
<1>2. \A d \in Calls : calls[d].task \in Calls /\ call.task \in Calls
  BY DEF TypeInv, TypeOK, Call
<1>3. ApprovalsHaveTasks'
  BY <1>1, <1>2 DEF TypeInv, CallsConsistent, ApprovalsHaveTasks, TaskExists
<1>4. CallersKnown'
  BY <1>1 DEF TypeInv, CallsConsistent, CallersKnown, InFlight
<1>5. ResultsLogged'
  BY <1>1 DEF TypeInv, CallsConsistent, ResultsLogged
<1> QED
  BY <1>1, <1>3, <1>4, <1>5 DEF CallsConsistent

\* What the invariant says of one call.
LEMMA CallFacts ==
  ASSUME TypeInv, NEW c \in Calls
  PROVE  /\ calls[c] \in Call
         /\ calls[c].op \in Ops /\ calls[c].task \in Calls
         /\ calls[c].pc \in Pcs /\ calls[c].kind \in CallKinds
         /\ calls[c].result \in Results /\ calls[c].actor \in Actors \cup {NoActor}
         /\ calls[c].requester \in Actors \cup {NoActor}
         /\ calls[c].kind = "approve" => TaskExists(calls[c].task)
         /\ InFlight(c) => calls[c].kind # "none"
         /\ calls[c].pc = "log" => calls[c].result \in LogEntries
         /\ calls[c].kind # "none" =>
              calls[c].actor \in Actors /\ tier[calls[c].actor] \in Tiers
<1>1. calls[c] \in Call
  BY DEF TypeInv, TypeOK
<1> QED
  BY <1>1 DEF TypeInv, TypeOK, CallsConsistent, ApprovalsHaveTasks, CallersKnown, ResultsLogged, Call

LEMMA FetchedTypes == ASSUME TypeInv, NEW c \in Calls, Fetched(c) PROVE TypeInv'
<1> DEFINE k == [calls[c] EXCEPT !.pc = "pipeline", !.ver = version[calls[c].op]]
<1>1. version[calls[c].op] \in Versions
  BY CallFacts DEF TypeInv, TypeOK
<1>3. k \in Call
  BY <1>1, CallFacts, Members, FetchEdit
<1>4. k.kind = calls[c].kind /\ k.actor = calls[c].actor /\ k.task = calls[c].task
      /\ k.pc = "pipeline"
  BY CallFacts DEF Call
<1>5. InFlight(c) /\ Update(c, k) /\ tasks' = tasks
  BY DEF Fetched, InFlight
<1>6. calls' \in [Calls -> Call] /\ CallsConsistent'
  <2> HIDE DEF k
  <2> QED
    BY <1>3, <1>4, <1>5, CallFacts, CallStep DEF TaskExists
<1> QED
  BY <1>6 DEF Fetched, Elsewhere, TypeInv, TypeOK

LEMMA SubmitTypes ==
  ASSUME TypeInv, NEW c \in Calls, NEW a \in Actors, NEW op \in Ops, Submit(c, a, op)
  PROVE  TypeInv'
<1> DEFINE pc == IF Kind[op] = "resource" THEN "fetch" ELSE "pipeline"
           k == [calls[c] EXCEPT !.pc = pc, !.kind = "request", !.actor = a,
                   !.op = op, !.requester = RequesterFor(op, a)]
<1>1. RequesterFor(op, a) \in Actors \cup {NoActor}
  BY RequesterType
<1>2. pc \in Pcs
  BY Members
<1>3. k \in Call
  <2> HIDE DEF pc
  <2> QED
    BY <1>1, <1>2, CallFacts, Members, SubmitEdit
<1>4. k.kind = "request" /\ k.actor = a /\ k.pc = pc /\ pc # "log"
  BY CallFacts DEF Call
<1>5. Update(c, k) /\ tasks' = tasks
  BY DEF Submit
<1>6. calls' \in [Calls -> Call] /\ CallsConsistent'
  <2> HIDE DEF k
  <2> QED
    BY <1>3, <1>4, <1>5, CallStep DEF TaskExists
<1> QED
  BY <1>6 DEF Submit, Elsewhere, TypeInv, TypeOK

\* The calls after a handler has decided its result.
LEMMA ResultStep ==
  ASSUME TypeInv, NEW c \in Calls, NEW pc \in Pcs, NEW result \in Results,
         Update(c, [calls[c] EXCEPT !.pc = pc, !.result = result]),
         InFlight(c) \/ pc = "done",
         pc = "log" => result \in LogEntries,
         \A u \in Calls : TaskExists(u) => TaskExists(u)'
  PROVE  calls' \in [Calls -> Call] /\ CallsConsistent'
<1> DEFINE k == [calls[c] EXCEPT !.pc = pc, !.result = result]
<1>1. k \in Call
  BY CallFacts, ResultEdit
<1>2. k.kind = calls[c].kind /\ k.actor = calls[c].actor /\ k.task = calls[c].task
      /\ k.pc = pc /\ k.result = result
  BY CallFacts DEF Call
<1>3. Update(c, k)
  OBVIOUS
<1> HIDE DEF k
<1> QED
  BY <1>1, <1>2, <1>3, CallFacts, CallStep

\* The calls after a handler has been let through.
LEMMA ProceedStep ==
  ASSUME TypeInv, NEW c \in Calls, InFlight(c), NEW pc \in Pcs \ {"log"}, Proceed(c, pc),
         \A u \in Calls : TaskExists(u) => TaskExists(u)'
  PROVE  calls' \in [Calls -> Call] /\ CallsConsistent'
<1> DEFINE k == [calls[c] EXCEPT !.pc = pc, !.tier = tier[calls[c].actor]]
<1>1. k \in Call
  BY CallFacts, TierEdit
<1>2. k.kind = calls[c].kind /\ k.actor = calls[c].actor /\ k.task = calls[c].task
      /\ k.pc = pc
  BY CallFacts DEF Call
<1>3. Update(c, k)
  BY DEF Proceed
<1> HIDE DEF k
<1> QED
  BY <1>1, <1>2, <1>3, CallFacts, CallStep

LEMMA DecisionTypes ==
  ASSUME TypeInv, NEW c \in Calls,
         \/ DenyRequest(c) \/ FinishRequest(c) \/ DenyApproval(c) \/ Throw(c)
         \/ \E a \in Actors, t \in Calls : Refuse(c, a, t)
  PROVE  TypeInv'
<1> USE DEF DenyRequest, FinishRequest, DenyApproval, Throw, Refuse, LogNext, Return,
            Decided
<1>1. UNCHANGED <<tasks, backend, log>> /\ UNCHANGED Elsewhere
  OBVIOUS
<1>2. PICK pc \in {"log", "done"}, result \in Results :
        /\ Update(c, [calls[c] EXCEPT !.pc = pc, !.result = result])
        /\ InFlight(c) \/ pc = "done"
        /\ pc = "log" => result \in LogEntries
  BY Members DEF InFlight, LogEntries
<1>3. calls' \in [Calls -> Call] /\ CallsConsistent'
  BY <1>1, <1>2, Members, ResultStep DEF TaskExists
<1> QED
  BY <1>1, <1>3 DEF Elsewhere, TypeInv, TypeOK

LEMMA ForwardTypes ==
  ASSUME TypeInv, NEW c \in Calls, AskApprovers(c) \/ ForwardRequest(c)
  PROVE  TypeInv'
<1> USE DEF AskApprovers, ForwardRequest, Decided
<1>1. UNCHANGED <<tasks, backend, log>> /\ UNCHANGED Elsewhere
  OBVIOUS
<1>2. PICK pc \in {"approvers", "exec"} : Proceed(c, pc) /\ InFlight(c)
  BY DEF InFlight
<1>3. calls' \in [Calls -> Call] /\ CallsConsistent'
  BY <1>1, <1>2, Members, ProceedStep DEF TaskExists
<1> QED
  BY <1>1, <1>3 DEF Elsewhere, TypeInv, TypeOK

LEMMA JoinTypes ==
  ASSUME TypeInv, NEW c \in Calls, NEW t \in Calls, JoinTask(c, t)
  PROVE  TypeInv'
<1> DEFINE k == [calls[c] EXCEPT !.pc = "done", !.result = "parked", !.task = t]
<1>1. k \in Call
  BY CallFacts, Members, JoinEdit
<1>2. k.kind = calls[c].kind /\ k.actor = calls[c].actor /\ k.task = t
      /\ k.pc = "done"
  BY CallFacts DEF Call
<1>3. Update(c, k) /\ tasks' = tasks /\ TaskExists(t) /\ InFlight(c)
  BY DEF JoinTask, PendingWith, Pending, InFlight
<1>4. calls' \in [Calls -> Call] /\ CallsConsistent'
  <2> HIDE DEF k
  <2> QED
    BY <1>1, <1>2, <1>3, CallFacts, CallStep DEF TaskExists
<1> QED
  BY <1>4 DEF JoinTask, Elsewhere, TypeInv, TypeOK

LEMMA CreateTypes ==
  ASSUME TypeInv, NEW c \in Calls, CreateTask(c)
  PROVE  TypeInv'
<1> DEFINE new == [status |-> "PENDING", op |-> calls[c].op,
                   requestedBy |-> calls[c].actor, requester |-> calls[c].requester,
                   approvers |-> EligibleApprovers(ApprovalTier[calls[c].op][calls[c].ver])]
<1>1. new \in Task
  BY CallFacts DEF Task, TaskStatuses, EligibleApprovers, CreateTask, InFlight
<1>2. new # NoTask
  BY <1>1 DEF Task, TaskStatuses, NoTask
<1>3. tasks' = [tasks EXCEPT ![c] = new]
  BY DEF CreateTask
<1> HIDE DEF new
<1>4. /\ tasks' \in [Calls -> Task \cup {NoTask}]
      /\ \A u \in Calls : TaskExists(u) => TaskExists(u)'
  BY <1>1, <1>2, <1>3 DEF TypeInv, TypeOK, TaskExists
<1>5. calls' \in [Calls -> Call] /\ CallsConsistent'
  <2>1. Update(c, [calls[c] EXCEPT !.pc = "log", !.result = "parked"]) /\ InFlight(c)
    BY DEF CreateTask, LogNext, InFlight
  <2> QED
    BY <2>1, <1>4, Members, ResultStep DEF LogEntries
<1> QED
  BY <1>4, <1>5 DEF CreateTask, Elsewhere, TypeInv, TypeOK

LEMMA GrantTypes == ASSUME TypeInv, NEW c \in Calls, GrantApproval(c) PROVE TypeInv'
<1>1. TaskExists(calls[c].task) /\ calls[c].task \in Calls
  BY CallFacts DEF GrantApproval, Decided
<1>2. /\ tasks' \in [Calls -> Task \cup {NoTask}]
      /\ \A u \in Calls : TaskExists(u) => TaskExists(u)'
  BY <1>1, SetStatusType DEF GrantApproval, TaskStatuses, TypeInv
<1>3. InFlight(c) /\ Proceed(c, "exec")
  BY DEF GrantApproval, Decided, InFlight
<1>4. calls' \in [Calls -> Call] /\ CallsConsistent'
  BY <1>2, <1>3, Members, ProceedStep
<1> QED
  BY <1>2, <1>4 DEF GrantApproval, Elsewhere, TypeInv, TypeOK

LEMMA OutcomeTypes ==
  ASSUME TypeInv, NEW c \in Calls, CompleteApproval(c) \/ FailApproval(c)
  PROVE  TypeInv'
<1> USE DEF CompleteApproval, FailApproval
<1>1. TaskExists(calls[c].task) /\ calls[c].task \in Calls
  BY CallFacts
<1>2. /\ tasks' \in [Calls -> Task \cup {NoTask}]
      /\ \A u \in Calls : TaskExists(u) => TaskExists(u)'
  BY <1>1, SetStatusType DEF TaskStatuses, TypeInv
<1>3. PICK pc \in {"log", "done"}, result \in Results :
        /\ Update(c, [calls[c] EXCEPT !.pc = pc, !.result = result])
        /\ InFlight(c)
        /\ pc = "log" => result \in LogEntries
  BY Members DEF InFlight, LogNext, Return, LogEntries
<1>4. calls' \in [Calls -> Call] /\ CallsConsistent'
  BY <1>2, <1>3, Members, ResultStep
<1> QED
  BY <1>2, <1>4 DEF Elsewhere, TypeInv, TypeOK

LEMMA WriteLogTypes == ASSUME TypeInv, NEW c \in Calls, WriteLog(c) PROVE TypeInv'
<1> DEFINE k == [calls[c] EXCEPT !.pc = "done"]
<1>1. k \in Call
  BY CallFacts, Members DEF Call
<1>2. k.kind = calls[c].kind /\ k.actor = calls[c].actor /\ k.task = calls[c].task
      /\ k.pc = "done"
  BY CallFacts DEF Call
<1>3. Update(c, k) /\ tasks' = tasks /\ InFlight(c)
  BY DEF WriteLog, InFlight
<1>4. calls' \in [Calls -> Call] /\ CallsConsistent'
  <2> HIDE DEF k
  <2> QED
    BY <1>1, <1>2, <1>3, CallFacts, CallStep DEF TaskExists
<1>5. log' \subseteq Calls \X LogEntries
  BY CallFacts DEF WriteLog, TypeInv, TypeOK
<1> QED
  BY <1>4, <1>5 DEF WriteLog, Elsewhere, TypeInv, TypeOK

LEMMA ApproveTypes ==
  ASSUME TypeInv, NEW c \in Calls, NEW a \in Actors, NEW t \in Calls,
         Approve(c, a, t) \/ ApproveResource(c, a, t)
  PROVE  TypeInv'
<1>1. PICK pc \in {"pipeline", "done"}, result \in {"none", "threw"} :
        TakeUp(c, a, t, pc, result)
  BY DEF Approve, ApproveResource
<1> DEFINE op == tasks[t].op
           r == tasks[t].requester
           k == [calls[c] EXCEPT !.pc = pc, !.kind = "approve", !.actor = a, !.op = op,
                   !.task = t, !.requester = r, !.result = result]
<1>2. TaskExists(t) /\ tasks[t] \in Task
  BY <1>1 DEF TakeUp, CanResolve, Pending, TaskExists, TypeInv, TypeOK
<1>3. op \in Ops /\ r \in Actors \cup {NoActor}
  BY <1>2 DEF Task
<1>4. pc \in Pcs /\ result \in Results
  BY DEF Pcs, Results
<1>5. k \in Call
  <2> HIDE DEF op, r
  <2> QED
    BY <1>3, <1>4, CallFacts, Members, ApproveEdit
<1>6. k.kind = "approve" /\ k.actor = a /\ k.task = t /\ k.pc = pc /\ pc # "log"
  BY CallFacts DEF Call
<1>7. Update(c, k) /\ tasks' = tasks
  BY <1>1 DEF TakeUp
<1>8. calls' \in [Calls -> Call] /\ CallsConsistent'
  <2> HIDE DEF k
  <2> QED
    BY <1>2, <1>5, <1>6, <1>7, CallStep DEF TaskExists
<1> QED
  BY <1>1, <1>8 DEF TakeUp, Elsewhere, TypeInv, TypeOK

LEMMA RejectTypes ==
  ASSUME TypeInv, NEW c \in Calls, NEW a \in Actors, NEW t \in Calls, Reject(c, a, t)
  PROVE  TypeInv'
<1> DEFINE k == [calls[c] EXCEPT !.pc = "log", !.kind = "reject", !.actor = a,
                   !.op = tasks[t].op, !.task = t, !.result = "rejected"]
<1>1. TaskExists(t) /\ tasks[t] \in Task
  BY DEF Reject, CanResolve, Pending, TaskExists, TypeInv, TypeOK
<1>2. tasks[t].op \in Ops
  BY <1>1 DEF Task
<1>3. k \in Call
  BY <1>2, CallFacts, Members, RejectEdit
<1>4. k.kind = "reject" /\ k.actor = a /\ k.result \in LogEntries
  BY CallFacts DEF Call, LogEntries
<1>5. Update(c, k)
  BY DEF Reject
<1>6. /\ tasks' \in [Calls -> Task \cup {NoTask}]
      /\ \A u \in Calls : TaskExists(u) => TaskExists(u)'
  BY <1>1, SetStatusType DEF Reject, TaskStatuses, TypeInv
<1>7. calls' \in [Calls -> Call] /\ CallsConsistent'
  <2> HIDE DEF k
  <2> QED
    BY <1>3, <1>4, <1>5, <1>6, CallStep
<1> QED
  BY <1>6, <1>7 DEF Reject, Elsewhere, TypeInv, TypeOK

LEMMA CrashTypes == ASSUME TypeInv, Crash PROVE TypeInv'
<1>1. \A c \in Calls : [calls[c] EXCEPT !.pc = "done", !.result = "lost"] \in Call
  BY CallFacts, Members, ResultEdit
<1>2. calls' \in [Calls -> Call]
  BY <1>1, CallFacts DEF Crash
<1>3. ASSUME NEW c \in Calls
      PROVE  /\ calls'[c].kind = calls[c].kind
             /\ calls'[c].actor = calls[c].actor
             /\ calls'[c].task = calls[c].task
             /\ calls'[c].pc \in {"new", "done"}
  <2>1. CASE InFlight(c)
    <3>1. calls'[c] = [calls[c] EXCEPT !.pc = "done", !.result = "lost"]
      BY <2>1 DEF Crash
    <3> QED
      BY <3>1, CallFacts DEF Call
  <2>2. CASE ~InFlight(c)
    BY <2>2 DEF Crash, InFlight
  <2> QED
    BY <2>1, <2>2
<1>4. tasks' = tasks
  BY DEF Crash
<1>5. ApprovalsHaveTasks' /\ CallersKnown'
  BY <1>3, <1>4, CallFacts DEF ApprovalsHaveTasks, CallersKnown,
                    InFlight, TaskExists
<1>6. ResultsLogged'
  BY <1>3 DEF ResultsLogged
<1>7. /\ crashes < MaxCrashes /\ crashes' = crashes + 1
      /\ UNCHANGED <<tier, version, tasks, backend, log, changes>>
  BY DEF Crash
<1>8. crashes' \in 0 .. MaxCrashes
  BY <1>7, BoundsAssumption DEF TypeInv, TypeOK
<1>9. TypeOK'
  BY <1>2, <1>7, <1>8 DEF TypeInv, TypeOK
<1> QED
  BY <1>5, <1>6, <1>9 DEF TypeInv, CallsConsistent

\* Steps that leave the handlers and the tasks alone.
LEMMA OutsideTypes ==
  ASSUME TypeInv,
         \/ \E c \in Calls : Send(c) \/ BackendRuns(c)
         \/ \E a \in Actors, t \in Tiers : ChangeTier(a, t)
         \/ \E op \in Ops : AmendResource(op)
         \/ UNCHANGED vars
  PROVE  TypeInv'
<1>1. UNCHANGED <<calls, tasks>>
  BY DEF Send, BackendRuns, ChangeTier, AmendResource, vars
<1>2. CallsConsistent'
  BY <1>1 DEF TypeInv, CallsConsistent, ApprovalsHaveTasks, CallersKnown, ResultsLogged,
              InFlight, TaskExists
<1>3. CASE \E c \in Calls : Send(c) \/ BackendRuns(c)
  BY <1>2, <1>3 DEF Send, BackendRuns, Elsewhere, TypeInv, TypeOK
<1>4. CASE \E a \in Actors, t \in Tiers : ChangeTier(a, t)
  BY <1>2, <1>4, BoundsAssumption DEF ChangeTier, TypeInv, TypeOK
<1>5. CASE \E op \in Ops : AmendResource(op)
  <2>1. PICK op \in Ops : AmendResource(op)
    BY <1>5
  <2>2. version' \in [Ops -> Versions]
    BY <2>1, MaxVersionAssumption DEF AmendResource, Versions, TypeInv, TypeOK
  <2> QED
    BY <1>2, <2>1, <2>2, BoundsAssumption DEF AmendResource, TypeInv, TypeOK
<1>6. CASE UNCHANGED vars
  BY <1>2, <1>6 DEF vars, TypeInv, TypeOK
<1> QED
  BY <1>3, <1>4, <1>5, <1>6

LEMMA NextTypes == TypeInv /\ [Next]_vars => TypeInv'
BY FetchedTypes, SubmitTypes, DecisionTypes, ForwardTypes, JoinTypes, CreateTypes,
   GrantTypes, OutcomeTypes, WriteLogTypes, ApproveTypes, RejectTypes, CrashTypes,
   OutsideTypes
   DEF Next, Step, Resume, Arrive

\* The types, and what ties calls to tasks, hold together in every reachable state.
THEOREM TypeInvariant == Spec => []TypeInv
BY InitTypeInv, NextTypes, PTL DEF Spec

\* Every reachable state is well typed.
THEOREM TypeCorrect == Spec => []TypeOK
BY TypeInvariant, PTL DEF TypeInv

-----------------------------------------------------------------------------
(* What the steps do to the calls, field by field: the proofs below reason  *)
(* from these facts and never from the records.                             *)

Others(c) == \A d \in Calls \ {c} : calls'[d] = calls[d]

\* Call c keeps what it is about.
SameCall(c) ==
  /\ calls'[c].kind = calls[c].kind /\ calls'[c].actor = calls[c].actor
  /\ calls'[c].op = calls[c].op

SameCase(c) ==
  /\ SameCall(c)
  /\ calls'[c].task = calls[c].task /\ calls'[c].requester = calls[c].requester
  /\ calls'[c].ver = calls[c].ver

\* Call c gets the answer it waited for and goes on, or ends.
Answer(c) ==
  \/ DenyRequest(c) \/ FinishRequest(c) \/ DenyApproval(c) \/ Throw(c)
  \/ WriteLog(c) \/ CreateTask(c) \/ CompleteApproval(c) \/ FailApproval(c)
  \/ \E a \in Actors, t \in Calls : Refuse(c, a, t)

LEMMA AnswerEffect ==
  ASSUME TypeInv, NEW c \in Calls, Answer(c)
  PROVE  /\ Others(c) /\ SameCase(c) /\ calls'[c].tier = calls[c].tier
         /\ calls'[c].pc = "done" \/ (calls'[c].pc = "log" /\ InFlight(c))
<1>1. CASE WriteLog(c)
  <2>1. Update(c, [calls[c] EXCEPT !.pc = "done"])
    BY <1>1 DEF WriteLog
  <2> QED
    BY <2>1, CallFacts DEF Update, Others, SameCase, SameCall, Call, TypeInv, TypeOK
<1>2. CASE ~WriteLog(c)
  <2>1. PICK pc \in {"log", "done"}, result \in Results :
          /\ Update(c, [calls[c] EXCEPT !.pc = pc, !.result = result])
          /\ pc = "log" => InFlight(c)
    BY <1>2, Members
       DEF Answer, DenyRequest, FinishRequest, DenyApproval, Throw, CreateTask, Decided,
           CompleteApproval, FailApproval, Refuse, LogNext, Return, InFlight
  <2> QED
    BY <2>1, CallFacts DEF Update, Others, SameCase, SameCall, Call, TypeInv, TypeOK
<1> QED
  BY <1>1, <1>2

LEMMA ProceedEffect ==
  ASSUME TypeInv, NEW c \in Calls, NEW pc, Proceed(c, pc)
  PROVE  /\ Others(c) /\ SameCase(c)
         /\ calls'[c].tier = tier[calls[c].actor] /\ calls'[c].pc = pc
BY CallFacts DEF Proceed, Update, Others, SameCase, SameCall, Call, TypeInv, TypeOK

LEMMA FetchedEffect ==
  ASSUME TypeInv, NEW c \in Calls, Fetched(c)
  PROVE  /\ Others(c) /\ SameCall(c) /\ calls'[c].task = calls[c].task
         /\ calls[c].pc = "fetch" /\ calls'[c].pc = "pipeline"
BY CallFacts DEF Fetched, Update, Others, SameCall, Call, TypeInv, TypeOK

LEMMA JoinEffect ==
  ASSUME TypeInv, NEW c \in Calls, NEW t \in Calls, JoinTask(c, t)
  PROVE  /\ Others(c) /\ SameCall(c)
         /\ calls[c].pc = "approvers" /\ calls'[c].pc = "done"
BY CallFacts DEF JoinTask, Update, Others, SameCall, Call, TypeInv, TypeOK

LEMMA SubmitEffect ==
  ASSUME TypeInv, NEW c \in Calls, NEW a \in Actors, NEW op \in Ops, Submit(c, a, op)
  PROVE  /\ Others(c) /\ calls[c].pc = "new" /\ calls'[c].kind = "request"
         /\ calls'[c].pc \in {"fetch", "pipeline"}
BY CallFacts DEF Submit, Update, Others, Call, TypeInv, TypeOK

LEMMA ApproveEffect ==
  ASSUME TypeInv, NEW c \in Calls, NEW a \in Actors, NEW t \in Calls,
         Approve(c, a, t) \/ ApproveResource(c, a, t)
  PROVE  /\ Others(c) /\ calls[c].pc = "new" /\ calls'[c].kind = "approve"
         /\ calls'[c].pc \in {"pipeline", "done"} /\ calls'[c].task = t
         /\ calls'[c].actor = a /\ calls'[c].op = tasks[t].op
         /\ tasks' = tasks /\ backend' = backend /\ TaskExists(t) /\ CanResolve(a, t)
<1>1. PICK pc \in {"pipeline", "done"}, result \in {"none", "threw"} : TakeUp(c, a, t, pc, result)
  BY DEF Approve, ApproveResource
<1> QED
  BY <1>1, CallFacts
     DEF TakeUp, CanResolve, Pending, Update, Others, Call, TypeInv, TypeOK

LEMMA RejectEffect ==
  ASSUME TypeInv, NEW c \in Calls, NEW a \in Actors, NEW t \in Calls, Reject(c, a, t)
  PROVE  /\ Others(c) /\ calls[c].pc = "new" /\ calls'[c].kind = "reject"
         /\ calls'[c].pc = "log"
BY CallFacts DEF Reject, Update, Others, Call, TypeInv, TypeOK

LEMMA CrashEffect ==
  ASSUME TypeInv, Crash, NEW c \in Calls
  PROVE  /\ SameCase(c) /\ calls'[c].tier = calls[c].tier
         /\ calls'[c].pc = IF calls[c].pc = "new" THEN "new" ELSE "done"
<1>1. CASE InFlight(c)
  <2>1. calls'[c] = [calls[c] EXCEPT !.pc = "done", !.result = "lost"]
    BY <1>1 DEF Crash
  <2> QED
    BY <1>1, <2>1, CallFacts DEF Call, SameCase, SameCall, InFlight
<1>2. CASE ~InFlight(c)
  BY <1>2 DEF Crash, InFlight, SameCase, SameCall
<1> QED
  BY <1>1, <1>2

\* The same for the tasks.
OtherTasks(t) == \A u \in Calls \ {t} : tasks'[u] = tasks[u]

LEMMA SetStatusEffect ==
  ASSUME TypeInv, NEW t \in Calls, TaskExists(t), NEW s \in TaskStatuses,
         SetStatus(t, s)
  PROVE  /\ OtherTasks(t) /\ TaskExists(t)' /\ tasks'[t].status = s
         /\ tasks'[t].op = tasks[t].op /\ tasks'[t].approvers = tasks[t].approvers
         /\ tasks'[t].requestedBy = tasks[t].requestedBy
<1>1. tasks[t] \in Task
  BY DEF TypeInv, TypeOK, TaskExists
<1>2. tasks' = [tasks EXCEPT ![t] = [tasks[t] EXCEPT !.status = s]]
  BY DEF SetStatus
<1> QED
  BY <1>1, <1>2, SetStatusType DEF OtherTasks, Task, TypeInv, TypeOK

LEMMA CreateEffect ==
  ASSUME TypeInv, NEW c \in Calls, CreateTask(c)
  PROVE  /\ OtherTasks(c) /\ TaskExists(c)' /\ calls[c].pc = "approvers"
         /\ tasks'[c].status = "PENDING" /\ tasks'[c].op = calls[c].op
         /\ tasks'[c].requestedBy = calls[c].actor
<1>1. tasks' = [tasks EXCEPT ![c] =
                 [status |-> "PENDING", op |-> calls[c].op,
                  requestedBy |-> calls[c].actor, requester |-> calls[c].requester,
                  approvers |->
                    EligibleApprovers(ApprovalTier[calls[c].op][calls[c].ver])]]
      /\ calls[c].pc = "approvers"
  BY DEF CreateTask
<1>2. tasks'[c].status = "PENDING"
  BY <1>1 DEF TypeInv, TypeOK
<1> QED
  BY <1>1, <1>2 DEF OtherTasks, TaskExists, NoTask, TypeInv, TypeOK

\* The steps that change tasks, and how.
LEMMA TaskSteps ==
  ASSUME TypeInv, [Next]_vars
  PROVE  \/ tasks' = tasks
         \/ \E c \in Calls : CreateTask(c)
         \/ \E t \in Calls : /\ TaskExists(t)
                            /\ \E s \in TaskStatuses \ {"PENDING"} : SetStatus(t, s)
<1>1. ASSUME NEW c \in Calls,
             GrantApproval(c) \/ CompleteApproval(c) \/ FailApproval(c)
      PROVE  /\ calls[c].task \in Calls /\ TaskExists(calls[c].task)
             /\ \E s \in TaskStatuses \ {"PENDING"} : SetStatus(calls[c].task, s)
  BY <1>1, CallFacts
     DEF GrantApproval, Decided, CompleteApproval, FailApproval, TaskStatuses
<1>2. ASSUME NEW c \in Calls, NEW a \in Actors, NEW t \in Calls, Reject(c, a, t)
      PROVE  /\ TaskExists(t)
             /\ \E s \in TaskStatuses \ {"PENDING"} : SetStatus(t, s)
  BY <1>2 DEF Reject, CanResolve, Pending, TaskStatuses
<1>3. ASSUME NEW c \in Calls, NEW a \in Actors, NEW t \in Calls,
             Approve(c, a, t) \/ ApproveResource(c, a, t)
      PROVE  tasks' = tasks
  BY <1>3, ApproveEffect
<1> QED
  BY <1>1, <1>2, <1>3
     DEF Next, Step, Resume, Arrive, Submit, Fetched, DenyRequest, AskApprovers, ForwardRequest, JoinTask,
         FinishRequest, DenyApproval, Refuse, WriteLog, Throw, Crash, Send,
         BackendRuns, ChangeTier, AmendResource, vars

-----------------------------------------------------------------------------
(* A request repeated while its task is pending.                           *)

LEMMA NextPendingUnique ==
  TypeInv /\ PendingUnique /\ [Next]_vars => PendingUnique'
<1> SUFFICES ASSUME TypeInv, PendingUnique, [Next]_vars
             PROVE  PendingUnique'
  OBVIOUS
<1> USE DEF TaskFingerprint, Fingerprint
<1>1. CASE tasks' = tasks
  BY <1>1 DEF PendingUnique, Pending, TaskExists
<1>2. ASSUME NEW c \in Calls, CreateTask(c) PROVE PendingUnique'
  <2>1. /\ OtherTasks(c) /\ tasks'[c].op = calls[c].op
        /\ tasks'[c].requestedBy = calls[c].actor
    BY <1>2, CreateEffect
  <2>2. \A t \in Calls :
          ~(Pending(t) /\ TaskFingerprint(t) = Fingerprint(calls[c].actor, calls[c].op))
    BY <1>2 DEF CreateTask, PendingWith
  <2> QED
    BY <2>1, <2>2 DEF PendingUnique, Pending, TaskExists, OtherTasks
<1>3. ASSUME NEW t \in Calls, TaskExists(t), NEW s \in TaskStatuses \ {"PENDING"},
             SetStatus(t, s)
      PROVE  PendingUnique'
  <2>1. OtherTasks(t) /\ tasks'[t].status # "PENDING"
    BY <1>3, SetStatusEffect
  <2> QED
    BY <2>1 DEF PendingUnique, Pending, TaskExists, OtherTasks
<1> QED
  BY <1>1, <1>2, <1>3, TaskSteps

\* However repeated requests interleave with each other and with resolutions,
\* crashes and failed fetches, there is one pending task per fingerprint.
THEOREM PendingUniqueCorrect == Spec => []PendingUnique
<1>1. Init => PendingUnique
  BY DEF Init, PendingUnique, Pending, TaskExists
<1> QED
  BY <1>1, NextPendingUnique, TypeInvariant, PTL DEF Spec

-----------------------------------------------------------------------------
(* What a call has done by where it is.                                    *)

\* A call that has forwarded something, or created a task, is past the step
\* that does so, and only requests ask for approvers.
Progress ==
  \A c \in Calls :
    /\ Forwarded(c) => calls[c].pc \in {"exec", "log", "done"}
    /\ TaskExists(c) => calls[c].pc \in {"log", "done"}
    /\ calls[c].pc = "approvers" => calls[c].kind = "request"

\* What the steps do to one call, as far as Progress and the like care.
Outside ==
  \/ \E c \in Calls : Send(c) \/ BackendRuns(c)
  \/ \E a \in Actors, t \in Tiers : ChangeTier(a, t)
  \/ \E op \in Ops : AmendResource(op)
  \/ UNCHANGED vars

Forwarding(c) == AskApprovers(c) \/ ForwardRequest(c) \/ GrantApproval(c)

LEMMA StepCases ==
  ASSUME [Next]_vars
  PROVE  \/ Outside
         \/ Crash
         \/ \E c \in Calls :
              \/ Answer(c)
              \/ Forwarding(c)
              \/ Fetched(c)
              \/ \E t \in Calls : JoinTask(c, t)
              \/ \E a \in Actors, op \in Ops : Submit(c, a, op)
              \/ \E a \in Actors, t \in Calls :
                   Approve(c, a, t) \/ ApproveResource(c, a, t) \/ Reject(c, a, t)
BY DEF Next, Step, Resume, Arrive, Outside, Answer, Forwarding

LEMMA BackendSteps ==
  ASSUME TypeInv, [Next]_vars, NEW c \in Calls
  PROVE  /\ Forwarded(c) => Forwarded(c)'
         /\ Forwarded(c)' => Forwarded(c) \/ Send(c)
<1>1. CASE backend' = backend
  BY <1>1 DEF Forwarded
<1>2. ASSUME NEW d \in Calls, Send(d) \/ BackendRuns(d)
      PROVE  (Forwarded(c) => Forwarded(c)') /\ (Forwarded(c)' => Forwarded(c) \/ Send(c))
  BY <1>2 DEF Send, BackendRuns, Forwarded, TypeInv, TypeOK
<1>3. ASSUME NEW d \in Calls, NEW a \in Actors, NEW t \in Calls,
             Approve(d, a, t) \/ ApproveResource(d, a, t)
      PROVE  backend' = backend
  BY <1>3, ApproveEffect
<1>4. \/ backend' = backend
      \/ \E d \in Calls : Send(d) \/ BackendRuns(d)
  BY <1>3
     DEF Next, Step, Resume, Arrive, Submit, Fetched, DenyRequest, AskApprovers, ForwardRequest, JoinTask,
         CreateTask, FinishRequest, DenyApproval, GrantApproval, CompleteApproval,
         FailApproval, Reject, Refuse, WriteLog, Throw, Crash, ChangeTier,
         AmendResource, vars
<1> QED
  BY <1>1, <1>2, <1>4

\* A task appears only by the call that is named after it.
LEMMA TaskAppears ==
  ASSUME TypeInv, [Next]_vars, NEW c \in Calls
  PROVE  /\ TaskExists(c) => TaskExists(c)'
         /\ TaskExists(c)' => TaskExists(c) \/ CreateTask(c)
<1>1. ASSUME NEW d \in Calls, CreateTask(d), d # c PROVE tasks'[c] = tasks[c]
  BY <1>1, CreateEffect DEF OtherTasks
<1>2. ASSUME NEW d \in Calls, CreateTask(d), d = c PROVE TaskExists(c)'
  BY <1>2, CreateEffect
<1>3. ASSUME NEW t \in Calls, TaskExists(t), NEW s \in TaskStatuses, SetStatus(t, s)
      PROVE  TaskExists(c) <=> TaskExists(c)'
  BY <1>3, SetStatusEffect DEF OtherTasks, TaskExists
<1> QED
  BY <1>1, <1>2, <1>3, TaskSteps DEF TaskExists

\* Where a step can take one call.
OnItsWay(c) ==
  /\ calls[c].pc \in {"exec", "log", "done"} =>
       calls'[c].pc \in {"exec", "log", "done"} /\ SameCase(c)
         /\ calls'[c].tier = calls[c].tier
  /\ calls[c].pc \in {"log", "done"} => calls'[c].pc \in {"log", "done"}
  /\ \/ calls'[c].pc \in {calls[c].pc, "fetch", "pipeline", "exec", "log", "done"}
     \/ /\ calls[c].pc = "pipeline" /\ calls[c].kind = "request"
        /\ calls'[c].pc = "approvers"
  /\ calls[c].pc = "new" \/ calls'[c].kind = calls[c].kind

LEMMA PcSteps ==
  ASSUME TypeInv, [Next]_vars, NEW c \in Calls
  PROVE  OnItsWay(c)
<1> USE DEF OnItsWay, SameCase, SameCall
<1>1. CASE Outside
  BY <1>1 DEF Outside, Send, BackendRuns, ChangeTier, AmendResource, Elsewhere, vars
<1>2. CASE Crash
  BY <1>2, CrashEffect, CallFacts DEF Pcs
<1>3. ASSUME NEW d \in Calls, Answer(d) PROVE OnItsWay(c)
  <2>1. calls[d].pc = "new" \/ calls'[d].kind = calls[d].kind
    BY <1>3, AnswerEffect
  <2> QED
    BY <1>3, <2>1, AnswerEffect DEF Others
<1>4. ASSUME NEW d \in Calls, Forwarding(d) PROVE OnItsWay(c)
  <2>1. PICK pc \in {"approvers", "exec"} :
          /\ Proceed(d, pc) /\ calls[d].pc = "pipeline"
          /\ pc = "approvers" => calls[d].kind = "request"
    BY <1>4 DEF Forwarding, AskApprovers, ForwardRequest, GrantApproval, Decided
  <2> QED
    BY <2>1, ProceedEffect DEF Others
<1>5. ASSUME NEW d \in Calls, Fetched(d) PROVE OnItsWay(c)
  BY <1>5, FetchedEffect DEF Others
<1>6. ASSUME NEW d \in Calls, NEW t \in Calls, JoinTask(d, t) PROVE OnItsWay(c)
  BY <1>6, JoinEffect DEF Others
<1>7. ASSUME NEW d \in Calls, NEW a \in Actors, NEW op \in Ops, Submit(d, a, op)
      PROVE  OnItsWay(c)
  BY <1>7, SubmitEffect DEF Others
<1>8. ASSUME NEW d \in Calls, NEW a \in Actors, NEW t \in Calls,
             Approve(d, a, t) \/ ApproveResource(d, a, t) \/ Reject(d, a, t)
      PROVE  OnItsWay(c)
  BY <1>8, ApproveEffect, RejectEffect DEF Others
<1> QED
  BY <1>1, <1>2, <1>3, <1>4, <1>5, <1>6, <1>7, <1>8, StepCases

LEMMA NextProgress == TypeInv /\ Progress /\ [Next]_vars => Progress'
<1> SUFFICES ASSUME TypeInv, Progress, [Next]_vars, NEW c \in Calls
             PROVE  /\ Forwarded(c)' => calls'[c].pc \in {"exec", "log", "done"}
                    /\ TaskExists(c)' => calls'[c].pc \in {"log", "done"}
                    /\ calls'[c].pc = "approvers" => calls'[c].kind = "request"
  BY DEF Progress
<1>1. /\ Forwarded(c) => calls[c].pc \in {"exec", "log", "done"}
      /\ TaskExists(c) => calls[c].pc \in {"log", "done"}
      /\ calls[c].pc = "approvers" => calls[c].kind = "request"
  BY DEF Progress
<1>2. OnItsWay(c)
  BY PcSteps
<1>3. Send(c) => calls[c].pc = "exec"
  BY DEF Send
<1>4. CreateTask(c) => calls'[c].pc \in {"log", "done"}
  BY AnswerEffect DEF Answer
<1>5. (Forwarded(c)' => Forwarded(c) \/ Send(c))
      /\ (TaskExists(c)' => TaskExists(c) \/ CreateTask(c))
  BY BackendSteps, TaskAppears
<1> QED
  BY <1>1, <1>2, <1>3, <1>4, <1>5 DEF OnItsWay

\* What a call has done is behind it: in every reachable state.
THEOREM ProgressCorrect == Spec => []Progress
<1>1. Init => Progress
  BY DEF Init, Progress, Forwarded, TaskExists
<1> QED
  BY <1>1, NextProgress, TypeInvariant, PTL DEF Spec

-----------------------------------------------------------------------------
(* Only what both engines allowed is forwarded.                            *)

\* A call keeps what it is about, except that a request may be answered with
\* another call's task, and a new call becomes one of its kind.
Identity(c) ==
  \/ SameCall(c) /\ calls'[c].task = calls[c].task
  \/ SameCall(c) /\ calls[c].pc = "approvers"
  \/ calls[c].pc = "new" /\ calls'[c].kind \in {"request", "reject"}
  \/ \E a \in Actors, t \in Calls : Approve(c, a, t) \/ ApproveResource(c, a, t)

LEMMA IdentitySteps ==
  ASSUME TypeInv, [Next]_vars, NEW c \in Calls
  PROVE  Identity(c)
<1> USE DEF Identity, SameCase, SameCall
<1>1. CASE Outside
  BY <1>1 DEF Outside, Send, BackendRuns, ChangeTier, AmendResource, Elsewhere, vars
<1>2. CASE Crash
  BY <1>2, CrashEffect
<1>3. ASSUME NEW d \in Calls, Answer(d) PROVE Identity(c)
  BY <1>3, AnswerEffect DEF Others
<1>4. ASSUME NEW d \in Calls, Forwarding(d) PROVE Identity(c)
  <2>1. PICK pc : Proceed(d, pc)
    BY <1>4 DEF Forwarding, AskApprovers, ForwardRequest, GrantApproval
  <2> QED
    BY <2>1, ProceedEffect DEF Others
<1>5. ASSUME NEW d \in Calls, Fetched(d) PROVE Identity(c)
  BY <1>5, FetchedEffect DEF Others
<1>6. ASSUME NEW d \in Calls, NEW t \in Calls, JoinTask(d, t) PROVE Identity(c)
  BY <1>6, JoinEffect DEF Others
<1>7. ASSUME NEW d \in Calls, NEW a \in Actors, NEW op \in Ops, Submit(d, a, op)
      PROVE  Identity(c)
  BY <1>7, SubmitEffect DEF Others
<1>8. ASSUME NEW d \in Calls, NEW a \in Actors, NEW t \in Calls,
             Approve(d, a, t) \/ ApproveResource(d, a, t) \/ Reject(d, a, t)
      PROVE  Identity(c)
  BY <1>8, ApproveEffect, RejectEffect DEF Others
<1> QED
  BY <1>1, <1>2, <1>3, <1>4, <1>5, <1>6, <1>7, <1>8, StepCases

\* What a task was created with never changes.
LEMMA TaskKeeps ==
  ASSUME TypeInv, Progress, [Next]_vars, NEW t \in Calls, TaskExists(t)
  PROVE  /\ TaskExists(t)' /\ tasks'[t].op = tasks[t].op
         /\ tasks'[t].approvers = tasks[t].approvers
<1>1. ASSUME NEW c \in Calls, CreateTask(c) PROVE tasks'[t] = tasks[t]
  BY <1>1, CreateEffect DEF OtherTasks, Progress
<1>2. ASSUME NEW u \in Calls, TaskExists(u), NEW s \in TaskStatuses, SetStatus(u, s)
      PROVE  /\ TaskExists(t)' /\ tasks'[t].op = tasks[t].op
             /\ tasks'[t].approvers = tasks[t].approvers
  BY <1>2, SetStatusEffect DEF OtherTasks, TaskExists
<1> QED
  BY <1>1, <1>2, TaskSteps DEF TaskExists

\* An approval acts, as one of the approvers, on the operation its task stores.
Assigned ==
  \A c \in Calls : calls[c].kind = "approve" =>
    /\ TaskExists(calls[c].task)
    /\ calls[c].actor \in tasks[calls[c].task].approvers
    /\ calls[c].op = tasks[calls[c].task].op

LEMMA NextAssigned == TypeInv /\ Progress /\ Assigned /\ [Next]_vars => Assigned'
<1> SUFFICES ASSUME TypeInv, Progress, Assigned, [Next]_vars, NEW c \in Calls,
                    calls'[c].kind = "approve"
             PROVE  /\ TaskExists(calls[c].task)'
                    /\ calls'[c].actor \in tasks'[calls'[c].task].approvers
                    /\ calls'[c].op = tasks'[calls'[c].task].op
  BY DEF Assigned
<1>1. CASE SameCall(c) /\ calls'[c].task = calls[c].task
  BY <1>1, TaskKeeps, CallFacts DEF Assigned, SameCall, TaskExists
<1>2. CASE SameCall(c) /\ calls[c].pc = "approvers"
  BY <1>2 DEF SameCall, Progress
<1>3. ASSUME NEW a \in Actors, NEW t \in Calls,
             Approve(c, a, t) \/ ApproveResource(c, a, t)
      PROVE  /\ TaskExists(calls[c].task)'
             /\ calls'[c].actor \in tasks'[calls'[c].task].approvers
             /\ calls'[c].op = tasks'[calls'[c].task].op
  <2>1. TaskExists(t) /\ a \in tasks[t].approvers
    BY <1>3, ApproveEffect DEF CanResolve
  <2>2. calls'[c].task = t /\ calls'[c].actor = a /\ calls'[c].op = tasks[t].op
    BY <1>3, ApproveEffect
  <2>3. /\ TaskExists(t)' /\ tasks'[t].op = tasks[t].op
        /\ tasks'[t].approvers = tasks[t].approvers
    BY <2>1, TaskKeeps
  <2> QED
    BY <2>1, <2>2, <2>3 DEF TaskExists
<1> QED
  BY <1>1, <1>2, <1>3, IdentitySteps DEF Identity

\* The verdict on what call c has read.
RecordedVerdict(c) ==
  Verdict(calls[c].actor, calls[c].tier, calls[c].requester, calls[c].op, calls[c].ver)

\* A call about to forward, or that has forwarded, was allowed to.
Cleared ==
  Mode = "enforce" =>
    \A c \in Calls :
      calls[c].pc = "exec" \/ Forwarded(c) => RecordedVerdict(c) = "allow"

\* A call comes to forward only by being let through.
LEMMA ExecSteps ==
  ASSUME TypeInv, [Next]_vars, NEW c \in Calls, Mode = "enforce",
         calls'[c].pc = "exec", calls[c].pc # "exec"
  PROVE  RecordedVerdict(c)' = "allow"
<1>1. ~Outside
  BY DEF Outside, Send, BackendRuns, ChangeTier, AmendResource, Elsewhere, vars
<1>2. ~Crash
  BY CrashEffect
<1>3. PICK d \in Calls :
        \/ Answer(d)
        \/ Forwarding(d)
        \/ Fetched(d)
        \/ \E t \in Calls : JoinTask(d, t)
        \/ \E a \in Actors, op \in Ops : Submit(d, a, op)
        \/ \E a \in Actors, t \in Calls :
             Approve(d, a, t) \/ ApproveResource(d, a, t) \/ Reject(d, a, t)
  BY <1>1, <1>2, StepCases
<1>4. Forwarding(d) /\ d = c
  <2>1. CASE Forwarding(d)
    <3>1. PICK pc : Proceed(d, pc)
      BY <2>1 DEF Forwarding, AskApprovers, ForwardRequest, GrantApproval
    <3> QED
      BY <2>1, <3>1, ProceedEffect DEF Others
  <2>2. CASE ~Forwarding(d)
    <3>1. Others(d) /\ calls'[d].pc # "exec"
      BY <1>3, <2>2, AnswerEffect, FetchedEffect, JoinEffect, SubmitEffect,
         ApproveEffect, RejectEffect
    <3> QED
      BY <3>1 DEF Others
  <2> QED
    BY <2>1, <2>2
<1>5. ~AskApprovers(c)
  BY ProceedEffect DEF AskApprovers
<1>6. Proceed(c, "exec") /\ CallVerdict(c) = "allow"
  BY <1>4, <1>5, ModeAssumption DEF Forwarding, ForwardRequest, GrantApproval
<1>7. SameCase(c) /\ calls'[c].tier = tier[calls[c].actor]
  BY <1>6, ProceedEffect
<1> QED
  BY <1>6, <1>7 DEF RecordedVerdict, CallVerdict, Verdict, SameCase, SameCall

LEMMA NextCleared == TypeInv /\ Progress /\ Cleared /\ [Next]_vars => Cleared'
<1> SUFFICES ASSUME TypeInv, Progress, Cleared, [Next]_vars, Mode = "enforce",
                    NEW c \in Calls, calls'[c].pc = "exec" \/ Forwarded(c)'
             PROVE  RecordedVerdict(c)' = "allow"
  BY DEF Cleared
<1>1. CASE calls[c].pc \in {"exec", "log", "done"}
  <2>1. SameCase(c) /\ calls'[c].tier = calls[c].tier
    BY <1>1, PcSteps DEF OnItsWay
  <2>2. calls[c].pc = "exec" \/ Forwarded(c)
    BY <1>1, PcSteps, BackendSteps DEF OnItsWay, Send
  <2>3. RecordedVerdict(c) = "allow"
    BY <2>2 DEF Cleared
  <2> QED
    BY <2>1, <2>3 DEF RecordedVerdict, Verdict, SameCase, SameCall
<1>2. CASE calls[c].pc \notin {"exec", "log", "done"}
  <2>1. ~Forwarded(c)'
    BY <1>2, BackendSteps DEF Send, Progress
  <2> QED
    BY <1>2, <2>1, ExecSteps
<1> QED
  BY <1>1, <1>2

THEOREM ForwardedOnlyIfAllowedCorrect == Spec => []ForwardedOnlyIfAllowed
<1>1. Init => Assigned /\ Cleared
  BY DEF Init, Assigned, Cleared, Forwarded
<1>2. Assigned /\ Cleared => ForwardedOnlyIfAllowed
  BY DEF Assigned, Cleared, ForwardedOnlyIfAllowed, RecordedVerdict
<1> QED
  BY <1>1, <1>2, NextAssigned, NextCleared, TypeInvariant, ProgressCorrect, PTL DEF Spec

-----------------------------------------------------------------------------
(* What the decision log says.                                             *)

\* Entry e is true of what became of call c's request.
Tells(c, e) ==
  /\ e \in {"executed", "forwarded"} => backend[c] = "ok"
  /\ e \in {"denied", "parked", "approverNotPermitted", "rejected"} =>
       backend[c] = "idle"

\* What has been logged is true, and so is what is about to be; what a call has
\* logged it has logged on its way out.
LogKept ==
  /\ \A c \in Calls, e \in LogEntries :
       <<c, e>> \in log => Tells(c, e) /\ calls[c].pc \in {"log", "done"}
  /\ \A c \in Calls : calls[c].pc = "log" => Tells(c, calls[c].result)

\* What becomes true of a call's request stays true once the call is past the
\* step that sends it.
LEMMA TellsStays ==
  ASSUME TypeInv, [Next]_vars, NEW c \in Calls, NEW e, Tells(c, e),
         calls[c].pc # "exec"
  PROVE  Tells(c, e)'
<1>1. CASE backend' = backend
  BY <1>1 DEF Tells
<1>2. ASSUME NEW d \in Calls, Send(d) \/ BackendRuns(d)
      PROVE  Tells(c, e)'
  BY <1>2 DEF Send, BackendRuns, Tells, TypeInv, TypeOK
<1>3. ASSUME NEW d \in Calls, NEW a \in Actors, NEW t \in Calls,
             Approve(d, a, t) \/ ApproveResource(d, a, t)
      PROVE  backend' = backend
  BY <1>3, ApproveEffect
<1>4. \/ backend' = backend
      \/ \E d \in Calls : Send(d) \/ BackendRuns(d)
  BY <1>3
     DEF Next, Step, Resume, Arrive, Submit, Fetched, DenyRequest, AskApprovers,
         ForwardRequest, JoinTask, CreateTask, FinishRequest, DenyApproval,
         GrantApproval, CompleteApproval, FailApproval, Reject, Refuse, WriteLog,
         Throw, Crash, ChangeTier, AmendResource, vars
<1> QED
  BY <1>1, <1>2, <1>4

\* A call that ends with an entry ends with one that is true.
LEMMA AnswerTells ==
  ASSUME TypeInv, Progress, NEW c \in Calls, Answer(c), calls'[c].pc = "log"
  PROVE  Tells(c, calls[c].result)'
<1>1. ASSUME NEW result \in Results, LogNext(c, result)
      PROVE  calls'[c].result = result
  BY <1>1, CallFacts DEF LogNext, Update, Call, TypeInv, TypeOK
<1>2. ~WriteLog(c) /\ ~Throw(c) /\ ~FailApproval(c)
        /\ \A a \in Actors, t \in Calls : ~Refuse(c, a, t)
  <2>1. ASSUME NEW result \in Results, Return(c, result) PROVE FALSE
    BY <2>1, CallFacts DEF Return, Update, Call, TypeInv, TypeOK
  <2>2. ASSUME WriteLog(c) PROVE FALSE
    BY <2>2, CallFacts DEF WriteLog, Update, Call, TypeInv, TypeOK
  <2> QED
    BY <2>1, <2>2, Members DEF Throw, FailApproval, Refuse
<1>3. CASE DenyRequest(c) \/ DenyApproval(c) \/ CreateTask(c)
  <2>1. PICK result \in {"denied", "approverNotPermitted", "parked"} : LogNext(c, result)
    BY <1>3 DEF DenyRequest, DenyApproval, CreateTask
  <2>2. backend' = backend /\ calls[c].pc \in {"pipeline", "approvers"}
    BY <1>3 DEF DenyRequest, DenyApproval, CreateTask, Decided
  <2>3. backend'[c] = "idle"
    BY <2>2 DEF Progress, Forwarded
  <2> QED
    BY <1>1, <2>1, <2>3, Members DEF Tells
<1>4. CASE FinishRequest(c)
  <2>1. \/ backend'[c] = "ok" /\ LogNext(c, "forwarded")
        \/ LogNext(c, "forwardedWithError")
    BY <1>4 DEF FinishRequest
  <2> QED
    BY <1>1, <2>1, Members DEF Tells
<1>5. CASE CompleteApproval(c)
  <2>1. backend'[c] = "ok" /\ LogNext(c, "executed")
    BY <1>5 DEF CompleteApproval
  <2> QED
    BY <1>1, <2>1, Members DEF Tells
<1> QED
  BY <1>2, <1>3, <1>4, <1>5 DEF Answer

\* Who is about to log after a step was so before it, or ends with the truth.
LEMMA LogNextTells ==
  ASSUME TypeInv, Progress, [Next]_vars, NEW c \in Calls, calls'[c].pc = "log"
  PROVE  calls'[c] = calls[c] \/ Tells(c, calls[c].result)'
<1>1. CASE Outside
  BY <1>1 DEF Outside, Send, BackendRuns, ChangeTier, AmendResource, Elsewhere, vars
<1>2. CASE Crash
  BY <1>2, CrashEffect
<1>3. ASSUME NEW d \in Calls, Answer(d)
      PROVE  calls'[c] = calls[c] \/ Tells(c, calls[c].result)'
  BY <1>3, AnswerEffect, AnswerTells DEF Others
<1>4. ASSUME NEW d \in Calls, Forwarding(d) PROVE calls'[c] = calls[c]
  <2>1. PICK pc \in {"approvers", "exec"} : Proceed(d, pc)
    BY <1>4 DEF Forwarding, AskApprovers, ForwardRequest, GrantApproval
  <2> QED
    BY <2>1, ProceedEffect DEF Others
<1>5. ASSUME NEW d \in Calls,
             \/ Fetched(d)
             \/ \E t \in Calls : JoinTask(d, t)
             \/ \E a \in Actors, op \in Ops : Submit(d, a, op)
             \/ \E a \in Actors, t \in Calls : Approve(d, a, t) \/ ApproveResource(d, a, t)
      PROVE  calls'[c] = calls[c]
  BY <1>5, FetchedEffect, JoinEffect, SubmitEffect, ApproveEffect DEF Others
<1>6. ASSUME NEW d \in Calls, NEW a \in Actors, NEW t \in Calls, Reject(d, a, t)
      PROVE  calls'[c] = calls[c] \/ Tells(c, calls[c].result)'
  <2>1. CASE c = d
    <3>1. calls'[c].result = "rejected"
      BY <1>6, <2>1, CallFacts DEF Reject, Update, Call, TypeInv, TypeOK
    <3>2. backend'[c] = "idle"
      BY <1>6, <2>1 DEF Reject, Progress, Forwarded
    <3> QED
      BY <3>1, <3>2 DEF Tells
  <2> QED
    BY <1>6, <2>1, RejectEffect DEF Others
<1> QED
  BY <1>1, <1>2, <1>3, <1>4, <1>5, <1>6, StepCases

\* The log grows by the entry of the call that writes it.
LEMMA LogGrows ==
  ASSUME TypeInv, [Next]_vars, NEW c \in Calls, NEW e, <<c, e>> \in log'
  PROVE  <<c, e>> \in log \/ (WriteLog(c) /\ e = calls[c].result)
<1>1. ASSUME NEW d \in Calls, WriteLog(d)
      PROVE  <<c, e>> \in log \/ (d = c /\ e = calls[c].result)
  BY <1>1 DEF WriteLog
<1>2. ASSUME NEW d \in Calls, NEW a \in Actors, NEW t \in Calls,
             Approve(d, a, t) \/ ApproveResource(d, a, t)
      PROVE  log' = log
  BY <1>2 DEF Approve, ApproveResource, TakeUp
<1>3. log' = log \/ \E d \in Calls : WriteLog(d)
  BY <1>2
     DEF Next, Step, Resume, Arrive, Submit, Fetched, DenyRequest, AskApprovers,
         ForwardRequest, JoinTask, CreateTask, FinishRequest, DenyApproval,
         GrantApproval, CompleteApproval, FailApproval, Reject, Refuse, Throw, Crash,
         Send, BackendRuns, ChangeTier, AmendResource, vars
<1> QED
  BY <1>1, <1>3

LEMMA NextLogKept == TypeInv /\ Progress /\ LogKept /\ [Next]_vars => LogKept'
<1> SUFFICES ASSUME TypeInv, Progress, LogKept, [Next]_vars
             PROVE  LogKept'
  OBVIOUS
<1>1. ASSUME NEW c \in Calls, NEW e \in LogEntries, <<c, e>> \in log'
      PROVE  Tells(c, e)' /\ calls'[c].pc \in {"log", "done"}
  <2>1. Tells(c, e) /\ calls[c].pc \in {"log", "done"}
    BY <1>1, LogGrows DEF LogKept, WriteLog
  <2> QED
    BY <2>1, TellsStays, PcSteps DEF OnItsWay
<1>2. ASSUME NEW c \in Calls, calls'[c].pc = "log"
      PROVE  Tells(c, calls[c].result)'
  <2>1. CASE calls'[c] = calls[c]
    <3>1. PICK r : r = calls[c].result
      OBVIOUS
    <3>2. Tells(c, r)'
      BY <1>2, <2>1, <3>1, TellsStays DEF LogKept
    <3> QED
      BY <2>1, <3>1, <3>2 DEF Tells
  <2> QED
    BY <1>2, <2>1, LogNextTells
<1> QED
  BY <1>1, <1>2 DEF LogKept, Tells

\* No entry of the decision log claims an execution the backend did not carry
\* out, or denies one it did.
THEOREM LogSoundCorrect == Spec => []LogSound
<1>1. Init => LogKept
  BY DEF Init, LogKept
<1>2. LogKept => LogSound
  BY DEF LogKept, LogSound, Tells, LogEntries
<1> QED
  BY <1>1, <1>2, NextLogKept, TypeInvariant, ProgressCorrect, PTL DEF Spec

-----------------------------------------------------------------------------
(* One call at a time resolves a task: the gateway's tasks implement       *)
(* ApprovalTask.                                                           *)

-----------------------------------------------------------------------------
(* The inductive invariant.                                                *)

\* Approvals under way, before and after they were granted.
Resolving(c) == InFlight(c) /\ calls[c].kind = "approve"

Deciding(c) == calls[c].kind = "approve" /\ calls[c].pc \in {"fetch", "pipeline"}

Executing(c) == calls[c].kind = "approve" /\ calls[c].pc = "exec"

\* A task is resolved by one call.
OneAtATime ==
  \A c, d \in Calls :
    Resolving(c) /\ Resolving(d) /\ calls[c].task = calls[d].task => c = d

\* While a call decides, its task is open.
DecidingPending ==
  \A c \in Calls : Deciding(c) => tasks[calls[c].task].status = "PENDING"

\* While one executes, its task is approved, and nobody else has forwarded it.
ExecutingApproved ==
  \A c \in Calls : Executing(c) =>
    /\ tasks[calls[c].task].status = "APPROVED"
    /\ \A d \in Forwarders(calls[c].task) : d = c

\* An open task has not been forwarded.
PendingUnforwarded ==
  \A t \in Calls : tasks[t].status = "PENDING" => Forwarders(t) = {}

\* A closed task says what became of its request.
OutcomeKnown ==
  \A t \in Calls :
    /\ tasks[t].status = "REJECTED" => \A d \in Forwarders(t) : backend[d] = "error"
    /\ tasks[t].status = "EXECUTED" => \E d \in Forwarders(t) : backend[d] = "ok"

\* The inductive invariant.
SerialInv ==
  /\ OneAtATime
  /\ DecidingPending
  /\ ExecutingApproved
  /\ PendingUnforwarded
  /\ OutcomeKnown
  /\ ForwardedAtMostOnce

LEMMA InitSerialInv == Init => SerialInv
BY DEF Init, SerialInv, OneAtATime, Resolving, InFlight, DecidingPending, Deciding,
       ExecutingApproved, Executing, PendingUnforwarded, OutcomeKnown, NoTask,
       ForwardedAtMostOnce, Forwarders

-----------------------------------------------------------------------------
(* The steps, as far as the tasks are concerned.                           *)

\* Steps on one call that neither start nor end nor decide an approval.
Calm(c) ==
  \/ Fetched(c) \/ DenyRequest(c) \/ AskApprovers(c) \/ ForwardRequest(c)
  \/ FinishRequest(c) \/ DenyApproval(c) \/ WriteLog(c) \/ Throw(c)
  \/ \E t \in Calls : JoinTask(c, t)
  \/ \E a \in Actors, op \in Ops : Submit(c, a, op)
  \/ \E a \in Actors, t \in Calls : Refuse(c, a, t) \/ ApproveResource(c, a, t)

Quiet ==
  \/ \E c \in Calls : Calm(c)
  \/ Crash
  \/ \E a \in Actors, t \in Tiers : ChangeTier(a, t)
  \/ \E op \in Ops : AmendResource(op)
  \/ UNCHANGED vars

LEMMA SerialCases ==
  ASSUME [Next]_vars
  PROVE  \/ Quiet
         \/ \E c \in Calls :
              \/ CreateTask(c) \/ GrantApproval(c) \/ CompleteApproval(c)
              \/ FailApproval(c) \/ Send(c) \/ BackendRuns(c)
              \/ \E a \in Actors, t \in Calls : Approve(c, a, t) \/ Reject(c, a, t)
BY DEF Next, Step, Resume, Arrive, Quiet, Calm

\* An approval of call c after a step is one before it, and no further back.
Continues(c) ==
  calls'[c].kind = "approve" /\ InFlight(c)' =>
    /\ calls[c].kind = "approve" /\ calls'[c].task = calls[c].task
    /\ Deciding(c)' => Deciding(c)
    /\ Executing(c)' => Executing(c)
    /\ InFlight(c)

LEMMA AnswerContinues ==
  ASSUME TypeInv, NEW d \in Calls, Answer(d), NEW c \in Calls PROVE Continues(c)
BY AnswerEffect DEF Continues, Deciding, Executing, InFlight, Others, SameCase, SameCall

LEMMA QuietEffect ==
  ASSUME TypeInv, Progress, Quiet
  PROVE  /\ tasks' = tasks /\ backend' = backend
         /\ \A c \in Calls : Continues(c)
<1>1. tasks' = tasks /\ backend' = backend
  BY DEF Quiet, Calm, Fetched, DenyRequest, AskApprovers, ForwardRequest, FinishRequest,
         DenyApproval, WriteLog, Throw, JoinTask, Submit, Refuse, ApproveResource, TakeUp,
         Crash, ChangeTier, AmendResource, vars
<1> SUFFICES ASSUME NEW c \in Calls PROVE Continues(c)
  BY <1>1
<1> USE DEF Continues, Deciding, Executing, InFlight
<1>2. ASSUME NEW d \in Calls,
             \/ DenyRequest(d) \/ FinishRequest(d) \/ DenyApproval(d) \/ WriteLog(d)
             \/ Throw(d) \/ \E a \in Actors, t \in Calls : Refuse(d, a, t)
      PROVE  Continues(c)
  BY <1>2, AnswerContinues DEF Answer
<1>3. ASSUME NEW d \in Calls, Fetched(d) PROVE Continues(c)
  BY <1>3, FetchedEffect DEF Others, SameCall
<1>4. ASSUME NEW d \in Calls, AskApprovers(d) \/ ForwardRequest(d) PROVE Continues(c)
  <2>1. PICK pc : Proceed(d, pc) /\ calls[d].kind = "request"
    BY <1>4 DEF AskApprovers, ForwardRequest, Decided
  <2> QED
    BY <2>1, ProceedEffect DEF Others, SameCase, SameCall
<1>5. ASSUME NEW d \in Calls, NEW t \in Calls, JoinTask(d, t) PROVE Continues(c)
  BY <1>5, JoinEffect DEF Others, SameCall, Progress
<1>6. ASSUME NEW d \in Calls, NEW a \in Actors, NEW op \in Ops, Submit(d, a, op)
      PROVE  Continues(c)
  BY <1>6, SubmitEffect DEF Others
<1>7. CASE Crash
  BY <1>7, CrashEffect DEF SameCase, SameCall
<1>8. ASSUME calls' = calls PROVE Continues(c)
  BY <1>8
<1>9. ASSUME NEW d \in Calls, NEW a \in Actors, NEW t \in Calls, ApproveResource(d, a, t)
      PROVE  Continues(c)
  <2>1. Others(d) /\ calls'[d].pc = "done"
    <3>1. TakeUp(d, a, t, "done", "threw")
      BY <1>9 DEF ApproveResource
    <3> QED
      BY <3>1, CallFacts DEF TakeUp, Update, Others, Call, TypeInv, TypeOK
  <2> QED
    BY <2>1 DEF Others
<1> QED
  BY <1>2, <1>3, <1>4, <1>5, <1>6, <1>7, <1>8, <1>9
     DEF Quiet, Calm, ChangeTier, AmendResource, vars

\* Who has forwarded a task's request changes by Send only.
LEMMA ForwardersSteps ==
  ASSUME TypeInv, Progress, [Next]_vars, NEW t \in Calls, NEW d \in Calls
  PROVE  d \in Forwarders(t)' <=>
           \/ d \in Forwarders(t)
           \/ Send(d) /\ calls[d].kind = "approve" /\ calls[d].task = t
<1>1. CASE Forwarded(d)
  BY <1>1, BackendSteps, PcSteps DEF Forwarders, Progress, OnItsWay, SameCase, SameCall, Send,
     Forwarded
<1>2. CASE ~Forwarded(d) /\ Send(d)
  BY <1>2 DEF Forwarders, Forwarded, Send, TypeInv, TypeOK
<1>3. CASE ~Forwarded(d) /\ ~Send(d)
  BY <1>3, BackendSteps DEF Forwarders
<1> QED
  BY <1>1, <1>2, <1>3

LEMMA SameForwarders ==
  ASSUME TypeInv, Progress, [Next]_vars, \A d \in Calls : ~Send(d), NEW t \in Calls
  PROVE  Forwarders(t)' = Forwarders(t)
<1>1. Forwarders(t) \subseteq Calls /\ Forwarders(t)' \subseteq Calls
  BY DEF Forwarders
<1> QED
  BY <1>1, ForwardersSteps

LEMMA QuietSerial ==
  ASSUME TypeInv, Progress, SerialInv, [Next]_vars, Quiet
  PROVE  SerialInv'
<1> USE DEF SerialInv
<1>1. /\ tasks' = tasks /\ backend' = backend
      /\ \A c \in Calls : Continues(c)
  BY QuietEffect
<1>2. \A t \in Calls : Forwarders(t)' = Forwarders(t)
  <2>1. \A d \in Calls : ~Send(d)
    BY <1>1 DEF Send, TypeInv, TypeOK
  <2> QED
    BY <2>1, SameForwarders
<1>3. \A c \in Calls : calls[c].task \in Calls
  BY CallFacts
<1>4. OneAtATime'
  BY <1>1 DEF OneAtATime, Resolving, Continues
<1>5. DecidingPending'
  BY <1>1 DEF DecidingPending, Deciding, Continues, InFlight
<1>6. ExecutingApproved'
  BY <1>1, <1>2, <1>3 DEF ExecutingApproved, Executing, Continues, InFlight
<1>7. PendingUnforwarded' /\ OutcomeKnown' /\ ForwardedAtMostOnce'
  BY <1>1, <1>2 DEF PendingUnforwarded, OutcomeKnown, ForwardedAtMostOnce
<1> QED
  BY <1>4, <1>5, <1>6, <1>7

LEMMA SendSerial ==
  ASSUME TypeInv, Progress, SerialInv, [Next]_vars, NEW c \in Calls, Send(c)
  PROVE  SerialInv'
<1> USE DEF SerialInv
<1>1. /\ tasks' = tasks /\ calls' = calls /\ calls[c].pc = "exec"
      /\ backend[c] = "idle" /\ \A d \in Calls \ {c} : backend'[d] = backend[d]
  BY DEF Send, TypeInv, TypeOK
<1>2. \A d \in Calls \ {c} : ~Send(d)
  BY <1>1 DEF Send, TypeInv, TypeOK
<1>3. ASSUME NEW t \in Calls, NEW d \in Calls
      PROVE  d \in Forwarders(t)' =>
               \/ d \in Forwarders(t) /\ d # c
               \/ d = c /\ Executing(c) /\ calls[c].task = t
  BY <1>1, <1>2, ForwardersSteps DEF Forwarders, Forwarded, Executing
<1>4. ASSUME NEW t \in Calls, NEW d \in Forwarders(t)
      PROVE  d \in Forwarders(t)' /\ backend'[d] = backend[d] /\ d \in Calls
  BY <1>1, ForwardersSteps DEF Forwarders, Forwarded
<1>5. \A t \in Calls : Forwarders(t) \subseteq Calls /\ Forwarders(t)' \subseteq Calls
  BY DEF Forwarders
<1>6. OneAtATime' /\ DecidingPending'
  BY <1>1 DEF OneAtATime, Resolving, InFlight, DecidingPending, Deciding
<1>7. ExecutingApproved'
  <2> SUFFICES ASSUME NEW e \in Calls, Executing(e), NEW t \in Calls, t = calls[e].task
               PROVE  /\ tasks[t].status = "APPROVED"
                      /\ \A d \in Forwarders(t)' : d = e
    BY <1>1, CallFacts DEF ExecutingApproved, Executing
  <2>1. tasks[t].status = "APPROVED" /\ \A d \in Forwarders(t) : d = e
    BY DEF ExecutingApproved
  <2>2. Executing(c) /\ calls[c].task = t => c = e
    BY DEF OneAtATime, Resolving, Executing, InFlight
  <2> QED
    BY <1>3, <1>5, <2>1, <2>2
<1>8. PendingUnforwarded' /\ ForwardedAtMostOnce'
  <2> SUFFICES ASSUME NEW t \in Calls
               PROVE  /\ tasks[t].status = "PENDING" => Forwarders(t)' = {}
                      /\ \A d, e \in Forwarders(t)' : d = e
    BY <1>1 DEF PendingUnforwarded, ForwardedAtMostOnce
  <2>1. CASE Executing(c) /\ calls[c].task = t
    BY <1>3, <1>5, <2>1 DEF ExecutingApproved
  <2>2. CASE ~(Executing(c) /\ calls[c].task = t)
    BY <1>3, <1>5, <2>2 DEF PendingUnforwarded, ForwardedAtMostOnce
  <2> QED
    BY <2>1, <2>2
<1>9. OutcomeKnown'
  <2> SUFFICES ASSUME NEW t \in Calls
               PROVE  /\ tasks[t].status = "REJECTED" =>
                           \A d \in Forwarders(t)' : backend'[d] = "error"
                      /\ tasks[t].status = "EXECUTED" =>
                           \E d \in Forwarders(t)' : backend'[d] = "ok"
    BY <1>1 DEF OutcomeKnown
  <2>1. tasks[t].status = "REJECTED" => \A d \in Forwarders(t)' : d \in Forwarders(t)
    BY <1>3, <1>5 DEF ExecutingApproved
  <2> QED
    BY <1>4, <2>1 DEF OutcomeKnown
<1> QED
  BY <1>6, <1>7, <1>8, <1>9

LEMMA BackendSerial ==
  ASSUME TypeInv, Progress, SerialInv, [Next]_vars, NEW c \in Calls, BackendRuns(c)
  PROVE  SerialInv'
<1> USE DEF SerialInv
<1>1. /\ tasks' = tasks /\ calls' = calls /\ backend[c] = "sent"
      /\ \A d \in Calls \ {c} : backend'[d] = backend[d]
  BY DEF BackendRuns, TypeInv, TypeOK
<1>2. \A d \in Calls : ~Send(d)
  BY <1>1 DEF BackendRuns, Send, TypeInv, TypeOK
<1>3. \A t \in Calls : Forwarders(t)' = Forwarders(t) /\ Forwarders(t) \subseteq Calls
  BY <1>2, SameForwarders DEF Forwarders
<1>4. OneAtATime' /\ DecidingPending'
  BY <1>1 DEF OneAtATime, Resolving, InFlight, DecidingPending, Deciding
<1>5. ExecutingApproved'
  BY <1>1, <1>3, CallFacts DEF ExecutingApproved, Executing
<1>6. PendingUnforwarded' /\ ForwardedAtMostOnce'
  BY <1>1, <1>3 DEF PendingUnforwarded, ForwardedAtMostOnce
<1>7. OutcomeKnown'
  BY <1>1, <1>3 DEF OutcomeKnown
<1> QED
  BY <1>4, <1>5, <1>6, <1>7

LEMMA NoSend ==
  ASSUME TypeInv, Progress, [Next]_vars, backend' = backend
  PROVE  /\ \A d \in Calls : ~Send(d)
         /\ \A t \in Calls : Forwarders(t)' = Forwarders(t) /\ Forwarders(t) \subseteq Calls
<1>1. \A d \in Calls : ~Send(d)
  BY DEF Send, TypeInv, TypeOK
<1> QED
  BY <1>1, SameForwarders DEF Forwarders

\* A step that changes the status of a task nobody is resolving afterwards.
LEMMA MoveSerial ==
  ASSUME TypeInv, Progress, SerialInv, [Next]_vars, backend' = backend,
         NEW t \in Calls, OtherTasks(t),
         \A d \in Calls : Continues(d),
         \A d \in Calls : Deciding(d)' \/ Executing(d)' => calls'[d].task # t,
         tasks'[t].status = "PENDING" => Forwarders(t) = {},
         tasks'[t].status = "REJECTED" => \A d \in Forwarders(t) : backend[d] = "error",
         tasks'[t].status = "EXECUTED" => \E d \in Forwarders(t) : backend[d] = "ok"
  PROVE  SerialInv'
<1> USE DEF SerialInv
<1>1. \A u \in Calls : Forwarders(u)' = Forwarders(u) /\ Forwarders(u) \subseteq Calls
  BY NoSend
<1>2. \A d \in Calls : calls[d].task \in Calls
  BY CallFacts
<1>3. OneAtATime'
  BY DEF OneAtATime, Resolving, Continues
<1>4. DecidingPending'
  BY <1>2 DEF DecidingPending, Deciding, Continues, InFlight, OtherTasks
<1>5. ExecutingApproved'
  BY <1>1, <1>2 DEF ExecutingApproved, Executing, Continues, InFlight, OtherTasks
<1>6. PendingUnforwarded' /\ ForwardedAtMostOnce'
  BY <1>1 DEF PendingUnforwarded, ForwardedAtMostOnce, OtherTasks
<1>7. OutcomeKnown'
  BY <1>1 DEF OutcomeKnown, OtherTasks
<1> QED
  BY <1>3, <1>4, <1>5, <1>6, <1>7

LEMMA CreateSerial ==
  ASSUME TypeInv, Progress, SerialInv, [Next]_vars, NEW c \in Calls, CreateTask(c)
  PROVE  SerialInv'
<1>1. ~TaskExists(c)
  BY DEF CreateTask, Progress
<1>2. \A d \in Calls : Continues(d)
  BY AnswerContinues DEF Answer
<1>3. \A d \in Calls : calls[d].kind = "approve" => calls[d].task # c
  BY <1>1, CallFacts
<1>4. Forwarders(c) = {}
  BY <1>3 DEF Forwarders
<1>5. \A d \in Calls : Deciding(d)' \/ Executing(d)' => calls'[d].task # c
  BY <1>2, <1>3 DEF Continues, Deciding, Executing, InFlight
<1>6. OtherTasks(c) /\ tasks'[c].status = "PENDING" /\ backend' = backend
  BY CreateEffect DEF CreateTask
<1> QED
  BY <1>2, <1>4, <1>5, <1>6, MoveSerial

LEMMA OutcomeSerial ==
  ASSUME TypeInv, Progress, SerialInv, [Next]_vars, NEW c \in Calls,
         CompleteApproval(c) \/ FailApproval(c)
  PROVE  SerialInv'
<1> DEFINE t == calls[c].task
<1>1. \A d \in Calls : Continues(d)
  BY AnswerContinues DEF Answer
<1>2. Executing(c) /\ calls'[c].pc # "exec" /\ calls'[c].pc \notin {"fetch", "pipeline"}
  BY AnswerEffect DEF Answer, Executing, CompleteApproval, FailApproval
<1>3. t \in Calls /\ TaskExists(t)
  BY <1>2, CallFacts DEF Executing
<1>4. tasks[t].status = "APPROVED" /\ \A d \in Forwarders(t) : d = c
  BY <1>2 DEF SerialInv, ExecutingApproved
<1>5. c \in Forwarders(t) /\ backend' = backend
  BY <1>2 DEF Forwarders, Forwarded, Executing, CompleteApproval, FailApproval
<1>6. /\ OtherTasks(t)
      /\ \/ tasks'[t].status = "EXECUTED" /\ backend[c] = "ok"
         \/ tasks'[t].status = "REJECTED" /\ backend[c] = "error"
  BY <1>3, SetStatusEffect DEF CompleteApproval, FailApproval, TaskStatuses
<1>7. ASSUME NEW d \in Calls, Deciding(d)' \/ Executing(d)', calls'[d].task = t
      PROVE  FALSE
  <2>1. (Deciding(d) \/ Executing(d)) /\ calls[d].task = t
    BY <1>1, <1>7 DEF Continues, Deciding, Executing, InFlight
  <2>2. d = c
    BY <1>2, <2>1 DEF SerialInv, OneAtATime, Resolving, Deciding, Executing, InFlight
  <2> QED
    BY <1>2, <1>7, <2>2 DEF Deciding, Executing
<1> HIDE DEF t
<1> QED
  BY <1>1, <1>3, <1>4, <1>5, <1>6, <1>7, MoveSerial

LEMMA RejectSerial ==
  ASSUME TypeInv, Progress, SerialInv, [Next]_vars, Serial,
         NEW c \in Calls, NEW a \in Actors, NEW t \in Calls, Reject(c, a, t)
  PROVE  SerialInv'
<1>1. Pending(t) /\ Unattended(t) /\ SetStatus(t, "REJECTED") /\ backend' = backend
  BY DEF Reject, CanResolve
<1>2. \A d \in Calls : Continues(d)
  BY RejectEffect DEF Continues, Deciding, Executing, InFlight, Others
<1>3. OtherTasks(t) /\ tasks'[t].status = "REJECTED"
  BY <1>1, SetStatusEffect DEF Pending, TaskStatuses
<1>4. Forwarders(t) = {}
  BY <1>1 DEF SerialInv, PendingUnforwarded, Pending
<1>5. \A d \in Calls : Deciding(d)' \/ Executing(d)' => calls'[d].task # t
  BY <1>1, <1>2 DEF Unattended, Continues, Deciding, Executing, InFlight
<1> QED
  BY <1>1, <1>2, <1>3, <1>4, <1>5, MoveSerial

LEMMA ApproveSerial ==
  ASSUME TypeInv, Progress, SerialInv, [Next]_vars, Serial,
         NEW c \in Calls, NEW a \in Actors, NEW t \in Calls, Approve(c, a, t)
  PROVE  SerialInv'
<1> USE DEF SerialInv
<1>1. Pending(t) /\ Unattended(t) /\ tasks' = tasks /\ backend' = backend
  BY ApproveEffect DEF Approve, CanResolve
<1>2. /\ Others(c) /\ calls'[c].task = t
      /\ calls'[c].pc \in {"pipeline", "done"}
  BY ApproveEffect
<1>3. \A u \in Calls : Forwarders(u)' = Forwarders(u) /\ Forwarders(u) \subseteq Calls
  BY <1>1, NoSend
<1>4. \A d \in Calls : calls[d].task \in Calls
  BY CallFacts
<1>5. OneAtATime'
  BY <1>1, <1>2 DEF OneAtATime, Resolving, InFlight, Unattended, Others
<1>6. DecidingPending'
  BY <1>1, <1>2 DEF DecidingPending, Deciding, Others, Pending
<1>7. ExecutingApproved'
  BY <1>1, <1>2, <1>3, <1>4 DEF ExecutingApproved, Executing, Others
<1>8. PendingUnforwarded' /\ OutcomeKnown' /\ ForwardedAtMostOnce'
  BY <1>1, <1>3 DEF PendingUnforwarded, OutcomeKnown, ForwardedAtMostOnce
<1> QED
  BY <1>5, <1>6, <1>7, <1>8

LEMMA GrantEffect ==
  ASSUME TypeInv, NEW c \in Calls, GrantApproval(c)
  PROVE  /\ Deciding(c) /\ Resolving(c) /\ calls[c].task \in Calls
         /\ Others(c) /\ calls'[c].kind = "approve" /\ calls'[c].task = calls[c].task
         /\ calls'[c].pc = "exec" /\ OtherTasks(calls[c].task)
         /\ tasks'[calls[c].task].status = "APPROVED" /\ backend' = backend
<1>1. /\ Deciding(c) /\ Resolving(c) /\ Proceed(c, "exec") /\ backend' = backend
      /\ SetStatus(calls[c].task, "APPROVED")
  BY DEF GrantApproval, Decided, Deciding, Resolving, InFlight
<1>2. calls[c].task \in Calls /\ TaskExists(calls[c].task)
  BY <1>1, CallFacts DEF Deciding
<1>3. OtherTasks(calls[c].task) /\ tasks'[calls[c].task].status = "APPROVED"
  BY <1>1, <1>2, SetStatusEffect DEF TaskStatuses
<1> QED
  BY <1>1, <1>2, <1>3, ProceedEffect DEF SameCase, SameCall, Deciding

LEMMA GrantSerial ==
  ASSUME TypeInv, Progress, SerialInv, [Next]_vars, NEW c \in Calls, GrantApproval(c)
  PROVE  SerialInv'
<1> USE DEF SerialInv
<1> SUFFICES ASSUME NEW t \in Calls, t = calls[c].task
             PROVE  SerialInv'
  BY GrantEffect
<1>1. /\ Deciding(c) /\ Resolving(c) /\ Others(c) /\ OtherTasks(t)
      /\ calls'[c].kind = "approve" /\ calls'[c].task = t /\ calls'[c].pc = "exec"
      /\ tasks'[t].status = "APPROVED" /\ backend' = backend
  BY GrantEffect
<1>2. \A u \in Calls : Forwarders(u)' = Forwarders(u) /\ Forwarders(u) \subseteq Calls
  BY <1>1, NoSend
<1>3. \A d \in Calls : calls[d].task \in Calls
  BY CallFacts
<1>4. Forwarders(t) = {}
  BY <1>1 DEF DecidingPending, PendingUnforwarded
<1>5. \A d \in Calls \ {c} :
        calls'[d] = calls[d] /\ (Resolving(d) => calls[d].task # t)
  BY <1>1 DEF Others, OneAtATime
<1>6. OneAtATime'
  BY <1>1, <1>5 DEF OneAtATime, Resolving, InFlight
<1>7. DecidingPending'
  BY <1>1, <1>3, <1>5 DEF DecidingPending, Deciding, Resolving, InFlight, OtherTasks
<1>8. ExecutingApproved'
  BY <1>1, <1>2, <1>3, <1>4, <1>5
     DEF ExecutingApproved, Executing, Resolving, InFlight, OtherTasks
<1>9. PendingUnforwarded' /\ OutcomeKnown' /\ ForwardedAtMostOnce'
  BY <1>1, <1>2, <1>4
     DEF PendingUnforwarded, OutcomeKnown, ForwardedAtMostOnce, OtherTasks
<1> QED
  BY <1>6, <1>7, <1>8, <1>9

LEMMA NextSerialInv ==
  ASSUME Serial PROVE TypeInv /\ Progress /\ SerialInv /\ [Next]_vars => SerialInv'
BY SerialCases, QuietSerial, CreateSerial, GrantSerial, OutcomeSerial, SendSerial,
   BackendSerial, ApproveSerial, RejectSerial

\* While tasks are resolved by one call at a time, SerialInv holds.
THEOREM SerialInvCorrect == ASSUME Serial PROVE Spec => []SerialInv
BY InitSerialInv, NextSerialInv, TypeInvariant, ProgressCorrect, PTL DEF Spec

\* Without two resolutions at a time the stored request of a task is forwarded
\* at most once, whatever crashes, throws or changes in between.
THEOREM ForwardedAtMostOnceCorrect ==
  ASSUME Serial PROVE Spec => []ForwardedAtMostOnce
BY SerialInvCorrect, PTL DEF SerialInv

\* Without two resolutions at a time a closed task tells what happened.
THEOREM StatusTellsEffectCorrect == ASSUME Serial PROVE Spec => []StatusTellsEffect
<1>1. SerialInv => StatusTellsEffect
  BY DEF SerialInv, OutcomeKnown, StatusTellsEffect
<1> QED
  BY <1>1, SerialInvCorrect, PTL

-----------------------------------------------------------------------------
(* Refinement.                                                             *)

status == [t \in Calls |-> tasks[t].status]
forwards == [t \in Calls |-> Forwarders(t)]

\* A step that gives task t another status and forwards nothing.
LEMMA MoveMaps ==
  ASSUME TypeInv, Progress, [Next]_vars, backend' = backend, NEW t \in Calls, OtherTasks(t)
  PROVE  /\ status' = [status EXCEPT ![t] = tasks'[t].status]
         /\ forwards' = forwards
<1>1. forwards' = forwards
  BY NoSend DEF forwards
<1> QED
  BY <1>1 DEF status, OtherTasks

LEMMA InitMaps == Init => AbstractTask!TaskInit
BY DEF Init, AbstractTask!TaskInit, NoTask, Forwarders, Forwarded

LEMMA StepMaps ==
  ASSUME Serial, TypeInv, Progress, SerialInv, [Next]_vars
  PROVE  AbstractTask!TaskNext \/ UNCHANGED AbstractTask!taskVars
<1> USE DEF AbstractTask!Move
<1>1. CASE Quiet
  <2>1. status' = status /\ forwards' = forwards
    BY <1>1, QuietEffect, NoSend DEF status, forwards
  <2> QED
    BY <2>1 DEF AbstractTask!taskVars, status, forwards
<1>2. ASSUME NEW c \in Calls, CreateTask(c) PROVE AbstractTask!TaskNext
  <2>1. tasks[c] = NoTask
    BY <1>2 DEF CreateTask, Progress, TaskExists
  <2>2. backend' = backend /\ OtherTasks(c) /\ tasks'[c].status = "PENDING"
    BY <1>2, CreateEffect DEF CreateTask
  <2>3. status' = [status EXCEPT ![c] = "PENDING"] /\ forwards' = forwards
    BY <2>2, MoveMaps
  <2>4. AbstractTask!Create(c)
    BY <2>1, <2>3 DEF AbstractTask!Create, status, forwards, NoTask
  <2> QED
    BY <2>4 DEF AbstractTask!TaskNext
<1>3. ASSUME NEW c \in Calls, GrantApproval(c) PROVE AbstractTask!TaskNext
  <2>1. PICK t \in Calls : /\ t = calls[c].task /\ Deciding(c) /\ backend' = backend
                          /\ OtherTasks(t) /\ tasks'[t].status = "APPROVED"
    BY <1>3, GrantEffect
  <2>2. tasks[t].status = "PENDING"
    BY <2>1 DEF SerialInv, DecidingPending
  <2>3. status' = [status EXCEPT ![t] = "APPROVED"] /\ forwards' = forwards
    BY <2>1, MoveMaps
  <2>4. AbstractTask!Approve(t)
    BY <2>2, <2>3 DEF AbstractTask!Approve, status, forwards
  <2> QED
    BY <2>4 DEF AbstractTask!TaskNext
<1>4. ASSUME NEW c \in Calls, CompleteApproval(c) \/ FailApproval(c)
      PROVE  AbstractTask!TaskNext
  <2>1. PICK t \in Calls : t = calls[c].task /\ TaskExists(t) /\ Executing(c)
    BY <1>4, CallFacts DEF CompleteApproval, FailApproval, Executing
  <2>2. tasks[t].status = "APPROVED"
    BY <2>1 DEF SerialInv, ExecutingApproved
  <2>3. Forwarders(t) # {} /\ backend' = backend
    BY <1>4, <2>1 DEF Forwarders, Forwarded, Executing, CompleteApproval, FailApproval
  <2>4. OtherTasks(t) /\ tasks'[t].status \in {"EXECUTED", "REJECTED"}
    BY <1>4, <2>1, SetStatusEffect DEF CompleteApproval, FailApproval, TaskStatuses
  <2>5. /\ status' = [status EXCEPT ![t] = tasks'[t].status]
        /\ forwards' = forwards
    BY <2>3, <2>4, MoveMaps
  <2>6. AbstractTask!Complete(t) \/ AbstractTask!Fail(t)
    BY <2>2, <2>3, <2>4, <2>5
       DEF AbstractTask!Complete, AbstractTask!Fail, status, forwards
  <2> QED
    BY <2>6 DEF AbstractTask!TaskNext
<1>5. ASSUME NEW c \in Calls, NEW a \in Actors, NEW t \in Calls, Reject(c, a, t)
      PROVE  AbstractTask!TaskNext
  <2>1. Pending(t) /\ SetStatus(t, "REJECTED") /\ backend' = backend
    BY <1>5 DEF Reject, CanResolve
  <2>2. OtherTasks(t) /\ tasks'[t].status = "REJECTED"
    BY <2>1, SetStatusEffect DEF Pending, TaskStatuses
  <2>3. status' = [status EXCEPT ![t] = "REJECTED"] /\ forwards' = forwards
    BY <2>1, <2>2, MoveMaps
  <2>4. AbstractTask!Reject(t)
    BY <2>1, <2>3 DEF AbstractTask!Reject, status, forwards, Pending
  <2> QED
    BY <2>4 DEF AbstractTask!TaskNext
<1>6. ASSUME NEW c \in Calls, NEW a \in Actors, NEW t \in Calls, Approve(c, a, t)
      PROVE  UNCHANGED AbstractTask!taskVars
  <2>1. tasks' = tasks /\ backend' = backend
    BY <1>6, ApproveEffect
  <2> QED
    BY <2>1, NoSend DEF AbstractTask!taskVars
<1>7. ASSUME NEW c \in Calls, BackendRuns(c) PROVE UNCHANGED AbstractTask!taskVars
  <2>1. tasks' = tasks /\ \A d \in Calls : ~Send(d)
    BY <1>7 DEF BackendRuns, Send, TypeInv, TypeOK
  <2> QED
    BY <2>1, SameForwarders DEF AbstractTask!taskVars
<1>8. ASSUME NEW c \in Calls, Send(c), Executing(c)
      PROVE  AbstractTask!TaskNext
  <2>1. PICK t \in Calls : t = calls[c].task
    BY CallFacts
  <2>2. /\ tasks' = tasks /\ backend[c] = "idle"
        /\ \A d \in Calls \ {c} : ~Send(d)
    BY <1>8 DEF Send, TypeInv, TypeOK
  <2>3. tasks[t].status = "APPROVED" /\ Forwarders(t) = {}
    BY <1>8, <2>1, <2>2 DEF SerialInv, ExecutingApproved, Forwarders, Forwarded
  <2>4. \A u \in Calls : Forwarders(u) \subseteq Calls /\ Forwarders(u)' \subseteq Calls
    BY DEF Forwarders
  <2>5. \A u, d \in Calls :
          d \in Forwarders(u)' <=> d \in Forwarders(u) \/ (d = c /\ u = t)
    BY <1>8, <2>1, <2>2, ForwardersSteps DEF Executing
  <2>6. forwards' = [forwards EXCEPT ![t] = {c}] /\ status' = status
    <3>1. Forwarders(t)' = {c} /\ \A u \in Calls \ {t} : Forwarders(u)' = Forwarders(u)
      BY <2>3, <2>4, <2>5
    <3> QED
      BY <2>2, <3>1 DEF forwards, status
  <2>7. AbstractTask!Forward(t, c)
    BY <2>3, <2>6 DEF AbstractTask!Forward, status, forwards
  <2> QED
    BY <2>7 DEF AbstractTask!TaskNext
<1>9. ASSUME NEW c \in Calls, Send(c), ~Executing(c)
      PROVE  UNCHANGED AbstractTask!taskVars
  <2>1. tasks' = tasks /\ calls[c].kind # "approve" /\ \A d \in Calls \ {c} : ~Send(d)
    BY <1>9 DEF Send, Executing, TypeInv, TypeOK
  <2>2. \A u \in Calls : Forwarders(u) \subseteq Calls /\ Forwarders(u)' \subseteq Calls
    BY DEF Forwarders
  <2>3. \A u \in Calls : Forwarders(u)' = Forwarders(u)
    BY <2>1, <2>2, ForwardersSteps
  <2> QED
    BY <2>1, <2>3 DEF AbstractTask!taskVars
<1> QED
  BY <1>1, <1>2, <1>3, <1>4, <1>5, <1>6, <1>7, <1>8, <1>9, SerialCases

\* Without two resolutions at a time the gateway's tasks live the life that
\* ApprovalTask gives them.
THEOREM ImplementsApprovalTaskCorrect == ASSUME Serial PROVE Spec => ImplementsApprovalTask
<1>1. Serial /\ TypeInv /\ Progress /\ SerialInv /\ [Next]_vars
        => [AbstractTask!TaskNext]_(AbstractTask!taskVars)
  BY StepMaps
<1> QED
  BY <1>1, InitMaps, TypeInvariant, ProgressCorrect, SerialInvCorrect, PTL
     DEF Spec, ImplementsApprovalTask, AbstractTask!TaskSpec
=============================================================================
