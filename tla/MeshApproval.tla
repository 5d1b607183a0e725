---------------------------- MODULE MeshApproval ----------------------------
(***************************************************************************)
(* The write path of services/mesh-gateway: a request to act on a resource *)
(* (api/mesh.routes.ts) is put to the Authority and Governance Engines     *)
(* (domain/pipeline.ts) and denied, forwarded to the backend adapter, or   *)
(* parked as an approval task (domain/approvals.ts); an approver later     *)
(* rejects the task or approves it, and an approval is re-evaluated and    *)
(* forwarded (api/approvals.routes.ts).                                    *)
(*                                                                         *)
(* The gateway is one Node process: a handler runs without interruption    *)
(* from one await to the next, and any other handler may run while it      *)
(* waits.  A call is therefore a small process whose pc names the await it *)
(* is suspended on, and an action is the code between two awaits.  Tasks   *)
(* and the decision log are SQLite rows and survive a crash; calls do not. *)
(***************************************************************************)
EXTENDS Integers, FiniteSets

CONSTANTS
  Calls,         \* the HTTP calls made in a behaviour; a task is named by the
                 \* call that created it
  Actors,
  NoActor,       \* "unknown-requester", and a resource that tracks no requester
  Ops,           \* operations: adapter, path and body of a write
  Kind,          \* Kind[op]: which route serves it (see OpKinds)
  Key,           \* Key[op]: what of op the request fingerprint covers
  SodOps,        \* operations whose action is "approve" (rule SOD-GLOBAL-001)
  Owner,         \* Owner[op]: requesterId of the resource, or NoActor
  MinTier,       \* MinTier[op]: tier the Authority Engine requires
  ApprovalTier,  \* ApprovalTier[op][v]: tier below which Governance requires
                 \* approval when the resource is at version v
  MaxTier,
  MaxVersion,
  InitialTiers,  \* the assignments of tiers a behaviour may start from
  Mode,          \* enforcementMode: "enforce" or "shadow"
  Serial,        \* TRUE: nobody resolves a task while another call does
  CanThrow,      \* TRUE: a fetch to an engine or the adapter may throw
  MaxChanges,    \* bound on changes of tiers and resources
  MaxCrashes     \* bound on gateway crashes

VARIABLES
  tier,      \* tier[a]: a's standing in the Authority Engine's projection
  version,   \* version[op]: version of the backend resource op acts on
  calls,     \* the handlers' local state
  tasks,     \* mesh_approval_task and mesh_approval_assignment
  backend,   \* backend[c]: what became of call c's request to the adapter
  log,       \* mesh_decision_log: <<call, entry>> pairs
  changes,   \* environment changes so far
  crashes    \* crashes so far

vars == <<tier, version, calls, tasks, backend, log, changes, crashes>>

-----------------------------------------------------------------------------
\* "resource": POST /:adapter/:domain/:resource/:id/:action, judged on the
\* fetched resource; "create": a create or an MCP function, judged on its body;
\* "nested": /:adapter/ops/*, judged on its body.
OpKinds == {"resource", "create", "nested"}

\* -1 is an actor who is no Active authority subject, 0 one without a position.
Tiers == -1 .. MaxTier
Versions == 0 .. MaxVersion

ASSUME MaxTierAssumption == MaxTier \in Nat
ASSUME MaxVersionAssumption == MaxVersion \in Nat
ASSUME NoActorAssumption == NoActor \notin Actors
ASSUME OpsAssumption ==
  /\ Ops # {}
  /\ Kind \in [Ops -> OpKinds]
  /\ SodOps \subseteq Ops
  /\ Owner \in [Ops -> Actors \cup {NoActor}]
  /\ MinTier \in [Ops -> 0 .. MaxTier]
  /\ ApprovalTier \in [Ops -> [Versions -> 0 .. MaxTier]]
  /\ DOMAIN Key = Ops
ASSUME InitialTiersAssumption == InitialTiers \subseteq [Actors -> Tiers]
ASSUME ModeAssumption == Mode \in {"enforce", "shadow"}
ASSUME SwitchAssumption == Serial \in BOOLEAN /\ CanThrow \in BOOLEAN
ASSUME BoundsAssumption == MaxChanges \in Nat /\ MaxCrashes \in Nat

\* The operation and actor of a call nobody has made yet are of no account.
AnyOp == CHOOSE op \in Ops : TRUE

CallKinds == {"none", "request", "approve", "reject"}
Pcs == {"new", "fetch", "pipeline", "approvers", "exec", "log", "done"}
Results == {"none", "denied", "parked", "forwarded", "forwardedWithError",
            "refused", "approverNotPermitted", "rejected", "executed",
            "executionFailed", "threw", "lost"}

Call == [pc : Pcs, kind : CallKinds, actor : Actors \cup {NoActor}, op : Ops,
         task : Calls, requester : Actors \cup {NoActor}, tier : Tiers,
         ver : Versions, result : Results]

TaskStatuses == {"PENDING", "APPROVED", "REJECTED", "EXECUTED"}
NoTask == [status |-> "NONE"]
Task == [status : TaskStatuses, op : Ops, requestedBy : Actors,
         requester : Actors \cup {NoActor}, approvers : SUBSET Actors]

LogEntries == {"denied", "parked", "forwarded", "forwardedWithError",
               "approverNotPermitted", "rejected", "executed"}

TypeOK ==
  /\ tier \in [Actors -> Tiers]
  /\ version \in [Ops -> Versions]
  /\ calls \in [Calls -> Call]
  /\ tasks \in [Calls -> Task \cup {NoTask}]
  /\ backend \in [Calls -> {"idle", "sent", "ok", "error"}]
  /\ log \subseteq Calls \X LogEntries
  /\ changes \in 0 .. MaxChanges
  /\ crashes \in 0 .. MaxCrashes

-----------------------------------------------------------------------------
\* The decision a call is put to.

\* context.requesterId as the routes and buildDomainContext fill it in for a
\* call by actor a: a resource without a tracked requester falls back to a.
RequesterFor(op, a) ==
  CASE Kind[op] = "resource" -> IF Owner[op] = NoActor THEN a ELSE Owner[op]
    [] Kind[op] = "nested" /\ op \in SodOps -> NoActor
    [] OTHER -> a

\* evaluatePipeline over evaluateAuthority and the seeded governance rules: the
\* Authority Engine's tier rule first, separation of duties denies, and a tier
\* threshold asks for approval.
Verdict(a, t, requester, op, v) ==
  IF t < MinTier[op] THEN "deny"
  ELSE IF op \in SodOps /\ a = requester THEN "deny"
  ELSE IF t < ApprovalTier[op][v] THEN "approval"
  ELSE "allow"

CallVerdict(c) ==
  Verdict(calls[c].actor, tier[calls[c].actor], calls[c].requester,
          calls[c].op, calls[c].ver)

\* GET /authority/eligible-approvers?domain&tier
EligibleApprovers(t) == {a \in Actors : tier[a] >= t}

Fingerprint(a, op) == <<a, Key[op]>>

TaskExists(t) == tasks[t] # NoTask
Pending(t) == TaskExists(t) /\ tasks[t].status = "PENDING"
TaskFingerprint(t) == Fingerprint(tasks[t].requestedBy, tasks[t].op)

\* findPendingTaskByFingerprint
PendingWith(fp) == {t \in Calls : Pending(t) /\ TaskFingerprint(t) = fp}

\* A handler writes its log entry before it gives up the event loop; only a crash
\* comes between its rows and the entry.
EventLoopFree == \A c \in Calls : calls[c].pc # "log"

InFlight(c) == calls[c].pc \notin {"new", "done"}

\* Nobody else is busy resolving task t.
Unattended(t) ==
  \A c \in Calls : InFlight(c) /\ calls[c].kind = "approve" => calls[c].task # t

-----------------------------------------------------------------------------
Init ==
  /\ tier \in InitialTiers
  /\ version = [op \in Ops |-> 0]
  /\ calls = [c \in Calls |->
                [pc |-> "new", kind |-> "none", actor |-> NoActor, op |-> AnyOp,
                 task |-> c, requester |-> NoActor, tier |-> 0, ver |-> 0,
                 result |-> "none"]]
  /\ tasks = [c \in Calls |-> NoTask]
  /\ backend = [c \in Calls |-> "idle"]
  /\ log = {}
  /\ changes = 0
  /\ crashes = 0

Update(c, call) == calls' = [calls EXCEPT ![c] = call]

\* A handler that has written its rows goes on to write the log entry of that
\* outcome; one that has none to write is done.
LogNext(c, result) ==
  Update(c, [calls[c] EXCEPT !.pc = "log", !.result = result])
Return(c, result) ==
  Update(c, [calls[c] EXCEPT !.pc = "done", !.result = result])

\* A decision that lets call c go on, taken on its actor's tier of the moment.
Proceed(c, pc) ==
  Update(c, [calls[c] EXCEPT !.pc = pc, !.tier = tier[calls[c].actor]])

SetStatus(t, s) == tasks' = [tasks EXCEPT ![t].status = s]

Elsewhere == <<tier, version, changes, crashes>>

-----------------------------------------------------------------------------
\* Requests: handlePost, handleCreate, handleMcp, handleOps.

\* The routes up to their first await.
Submit(c, a, op) ==
  /\ calls[c].pc = "new"
  /\ Update(c, [calls[c] EXCEPT
       !.pc = IF Kind[op] = "resource" THEN "fetch" ELSE "pipeline",
       !.kind = "request", !.actor = a, !.op = op,
       !.requester = RequesterFor(op, a)])
  /\ UNCHANGED <<tasks, backend, log>>
  /\ UNCHANGED Elsewhere

\* The resource arrives and the context is built from it.
Fetched(c) ==
  /\ calls[c].pc = "fetch"
  /\ Update(c, [calls[c] EXCEPT
       !.pc = "pipeline", !.ver = version[calls[c].op]])
  /\ UNCHANGED <<tasks, backend, log>>
  /\ UNCHANGED Elsewhere

\* The engines have answered and the request is decided.
Decided(c, kind) == calls[c].pc = "pipeline" /\ calls[c].kind = kind

DenyRequest(c) ==
  /\ Decided(c, "request")
  /\ Mode = "enforce"
  /\ CallVerdict(c) = "deny"
  /\ LogNext(c, "denied")
  /\ UNCHANGED <<tasks, backend, log>>
  /\ UNCHANGED Elsewhere

AskApprovers(c) ==
  /\ Decided(c, "request")
  /\ Mode = "enforce"
  /\ CallVerdict(c) = "approval"
  /\ Proceed(c, "approvers")
  /\ UNCHANGED <<tasks, backend, log>>
  /\ UNCHANGED Elsewhere

ForwardRequest(c) ==
  /\ Decided(c, "request")
  /\ Mode = "shadow" \/ CallVerdict(c) = "allow"
  /\ Proceed(c, "exec")
  /\ UNCHANGED <<tasks, backend, log>>
  /\ UNCHANGED Elsewhere

\* The eligible approvers have arrived: answer with the pending task of the same
\* fingerprint, or create one.
JoinTask(c, t) ==
  /\ calls[c].pc = "approvers"
  /\ t \in PendingWith(Fingerprint(calls[c].actor, calls[c].op))
  /\ Update(c, [calls[c] EXCEPT !.pc = "done", !.result = "parked", !.task = t])
  /\ UNCHANGED <<tasks, backend, log>>
  /\ UNCHANGED Elsewhere

\* Mutant: the pending task was looked for before the approvers were awaited.
CreateTaskBlindly(c) ==
  /\ calls[c].pc = "approvers"
  /\ tasks' = [tasks EXCEPT ![c] =
       [status |-> "PENDING", op |-> calls[c].op,
        requestedBy |-> calls[c].actor, requester |-> calls[c].requester,
        approvers |->
          EligibleApprovers(ApprovalTier[calls[c].op][calls[c].ver])]]
  /\ LogNext(c, "parked")
  /\ UNCHANGED <<backend, log>>
  /\ UNCHANGED Elsewhere

CreateTask(c) ==
  /\ calls[c].pc = "approvers"
  /\ PendingWith(Fingerprint(calls[c].actor, calls[c].op)) = {}
  /\ tasks' = [tasks EXCEPT ![c] =
       [status |-> "PENDING", op |-> calls[c].op,
        requestedBy |-> calls[c].actor, requester |-> calls[c].requester,
        approvers |->
          EligibleApprovers(ApprovalTier[calls[c].op][calls[c].ver])]]
  /\ LogNext(c, "parked")
  /\ UNCHANGED <<backend, log>>
  /\ UNCHANGED Elsewhere

\* Mutant: an error answer is logged as a success.
FinishRequestOptimistically(c) ==
  /\ calls[c].pc = "exec"
  /\ calls[c].kind = "request"
  /\ backend[c] \in {"ok", "error"}
  /\ LogNext(c, "forwarded")
  /\ UNCHANGED <<tasks, backend, log>>
  /\ UNCHANGED Elsewhere

\* The adapter has answered a forwarded request.
FinishRequest(c) ==
  /\ calls[c].pc = "exec"
  /\ calls[c].kind = "request"
  /\ \/ backend[c] = "ok" /\ LogNext(c, "forwarded")
     \/ backend[c] = "error" /\ LogNext(c, "forwardedWithError")
  /\ UNCHANGED <<tasks, backend, log>>
  /\ UNCHANGED Elsewhere

-----------------------------------------------------------------------------
\* Approvals.

\* Mutant: the status of the task is not checked.
CanResolveAnyTask(a, t) == TaskExists(t) /\ a \in tasks[t].approvers

CanResolve(a, t) == Pending(t) /\ a \in tasks[t].approvers

\* Call c takes up the approval of task t by a.
TakeUp(c, a, t, pc, result) ==
  /\ calls[c].pc = "new"
  /\ CanResolve(a, t)
  /\ Update(c, [calls[c] EXCEPT
       !.pc = pc, !.kind = "approve", !.actor = a, !.op = tasks[t].op,
       !.task = t, !.requester = tasks[t].requester, !.result = result])
  /\ UNCHANGED <<tasks, backend, log>>
  /\ UNCHANGED Elsewhere

\* A create, an MCP function or a nested operation is put to the pipeline in its
\* stored context, with the approver for its actor.
Approve(c, a, t) ==
  /\ Serial => Unattended(t)
  /\ TakeUp(c, a, t, "pipeline", "none")
  /\ Kind[tasks[t].op] # "resource"

\* For any other action the resource is to be fetched anew, by the first five
\* pieces of "/mesh/<adapter>/<domain>/<resource>/<id>/<action>".  The path
\* starts with a "/", so the first piece is empty and the id is cut off, and
\* parseMeshPath throws before anything is awaited: 400, no row is written.
ApproveResource(c, a, t) ==
  /\ TakeUp(c, a, t, "done", "threw")
  /\ Kind[tasks[t].op] = "resource"

\* 404, 409 or 403 before anything is awaited, of an approval or a rejection.
Refuse(c, a, t) ==
  /\ calls[c].pc = "new"
  /\ ~CanResolve(a, t)
  /\ Return(c, "refused")
  /\ UNCHANGED <<tasks, backend, log>>
  /\ UNCHANGED Elsewhere

\* The approver is not allowed to do this: 403, and the task stays as it is.
DenyApproval(c) ==
  /\ Decided(c, "approve")
  /\ CallVerdict(c) # "allow"
  /\ LogNext(c, "approverNotPermitted")
  /\ UNCHANGED <<tasks, backend, log>>
  /\ UNCHANGED Elsewhere

\* Mutant: the approver is not put to the engines again.
GrantUnasked(c) ==
  /\ Decided(c, "approve")
  /\ SetStatus(calls[c].task, "APPROVED")
  /\ Proceed(c, "exec")
  /\ UNCHANGED <<backend, log>>
  /\ UNCHANGED Elsewhere

\* Mutant: the task is not marked before its request is forwarded.
GrantUnmarked(c) ==
  /\ Decided(c, "approve")
  /\ CallVerdict(c) = "allow"
  /\ Proceed(c, "exec")
  /\ UNCHANGED <<tasks, backend, log>>
  /\ UNCHANGED Elsewhere

\* setTaskApproved updates the row whatever its status has become meanwhile.
GrantApproval(c) ==
  /\ Decided(c, "approve")
  /\ CallVerdict(c) = "allow"
  /\ SetStatus(calls[c].task, "APPROVED")
  /\ Proceed(c, "exec")
  /\ UNCHANGED <<backend, log>>
  /\ UNCHANGED Elsewhere

\* Mutant: the adapter's answer is not awaited.
CompleteUnawaited(c) ==
  /\ calls[c].pc = "exec"
  /\ calls[c].kind = "approve"
  /\ backend[c] # "idle"
  /\ SetStatus(calls[c].task, "EXECUTED")
  /\ LogNext(c, "executed")
  /\ UNCHANGED <<backend, log>>
  /\ UNCHANGED Elsewhere

\* setTaskExecuted, or setTaskRejected with ExecutionFailedAfterApproval.
CompleteApproval(c) ==
  /\ calls[c].pc = "exec"
  /\ calls[c].kind = "approve"
  /\ backend[c] = "ok"
  /\ SetStatus(calls[c].task, "EXECUTED")
  /\ LogNext(c, "executed")
  /\ UNCHANGED <<backend, log>>
  /\ UNCHANGED Elsewhere

\* Mutant: a failed execution leaves the task as it is.
FailSilently(c) ==
  /\ calls[c].pc = "exec"
  /\ calls[c].kind = "approve"
  /\ backend[c] = "error"
  /\ Return(c, "executionFailed")
  /\ UNCHANGED <<tasks, backend, log>>
  /\ UNCHANGED Elsewhere

FailApproval(c) ==
  /\ calls[c].pc = "exec"
  /\ calls[c].kind = "approve"
  /\ backend[c] = "error"
  /\ SetStatus(calls[c].task, "REJECTED")
  /\ Return(c, "executionFailed")
  /\ UNCHANGED <<backend, log>>
  /\ UNCHANGED Elsewhere

\* POST /:taskId/reject has no await before its rows are written.
Reject(c, a, t) ==
  /\ calls[c].pc = "new"
  /\ CanResolve(a, t)
  /\ Serial => Unattended(t)
  /\ SetStatus(t, "REJECTED")
  /\ Update(c, [calls[c] EXCEPT
       !.pc = "log", !.kind = "reject", !.actor = a, !.op = tasks[t].op,
       !.task = t, !.result = "rejected"])
  /\ UNCHANGED <<backend, log>>
  /\ UNCHANGED Elsewhere

-----------------------------------------------------------------------------
\* logMeshEvent, then the response.
WriteLog(c) ==
  /\ calls[c].pc = "log"
  /\ log' = log \cup {<<c, calls[c].result>>}
  /\ Update(c, [calls[c] EXCEPT !.pc = "done"])
  /\ UNCHANGED <<tasks, backend>>
  /\ UNCHANGED Elsewhere

\* A fetch rejects (engine or adapter unreachable, an engine's error status):
\* the handler's catch answers an error and writes nothing.
Throw(c) ==
  /\ CanThrow
  /\ calls[c].pc \in {"fetch", "pipeline", "approvers", "exec"}
  /\ Return(c, "threw")
  /\ UNCHANGED <<tasks, backend, log>>
  /\ UNCHANGED Elsewhere

\* The gateway process dies and restarts: server.ts reads nothing back.
Crash ==
  /\ crashes < MaxCrashes
  /\ crashes' = crashes + 1
  /\ calls' = [c \in Calls |->
       IF InFlight(c) THEN [calls[c] EXCEPT !.pc = "done", !.result = "lost"]
       ELSE calls[c]]
  /\ UNCHANGED <<tier, version, tasks, backend, log, changes>>

\* The adapter's request leaves the gateway ...
Send(c) ==
  /\ calls[c].pc = "exec"
  /\ backend[c] = "idle"
  /\ backend' = [backend EXCEPT ![c] = "sent"]
  /\ UNCHANGED <<calls, tasks, log>>
  /\ UNCHANGED Elsewhere

\* ... and Foundation carries it out or refuses it, even if nobody waits.
BackendRuns(c) ==
  /\ backend[c] = "sent"
  /\ \E answer \in {"ok", "error"} : backend' = [backend EXCEPT ![c] = answer]
  /\ UNCHANGED <<calls, tasks, log>>
  /\ UNCHANGED Elsewhere

-----------------------------------------------------------------------------
\* Hire, promotion, termination, expiry: the Authority Engine's projection.
ChangeTier(a, t) ==
  /\ changes < MaxChanges
  /\ t # tier[a]
  /\ tier' = [tier EXCEPT ![a] = t]
  /\ changes' = changes + 1
  /\ UNCHANGED <<version, calls, tasks, backend, log, crashes>>

\* The backend resource is amended (its amount, its draft version).
AmendResource(op) ==
  /\ changes < MaxChanges
  /\ Kind[op] = "resource"
  /\ version[op] < MaxVersion
  /\ version' = [version EXCEPT ![op] = @ + 1]
  /\ changes' = changes + 1
  /\ UNCHANGED <<tier, calls, tasks, backend, log, crashes>>

-----------------------------------------------------------------------------
\* The settled await of call c is handled.
Resume(c) ==
  \/ Fetched(c)
  \/ DenyRequest(c)
  \/ AskApprovers(c)
  \/ ForwardRequest(c)
  \/ \E t \in Calls : JoinTask(c, t)
  \/ CreateTask(c)
  \/ FinishRequest(c)
  \/ DenyApproval(c)
  \/ GrantApproval(c)
  \/ CompleteApproval(c)
  \/ FailApproval(c)

\* Call c is made.
Arrive(c) ==
  \E a \in Actors :
    \/ \E op \in Ops : Submit(c, a, op)
    \/ \E t \in Calls :
         \/ Approve(c, a, t)
         \/ ApproveResource(c, a, t)
         \/ Reject(c, a, t)
         \/ Refuse(c, a, t)

\* What the gateway does on its own once a call has arrived.
Step(c) ==
  \/ EventLoopFree /\ Resume(c)
  \/ WriteLog(c)
  \/ Send(c)

Next ==
  \/ \E c \in Calls :
       \/ Step(c)
       \/ EventLoopFree /\ (Arrive(c) \/ Throw(c))
       \/ BackendRuns(c)
  \/ \E a \in Actors, t \in Tiers : ChangeTier(a, t)
  \/ \E op \in Ops : AmendResource(op)
  \/ Crash

Spec == Init /\ [][Next]_vars

\* The event loop runs every handler whose await has settled, and the services
\* behind it answer; nobody is obliged to make a call.
Fairness == \A c \in Calls : WF_vars(Step(c)) /\ WF_vars(BackendRuns(c))

FairSpec == Spec /\ Fairness

-----------------------------------------------------------------------------
\* Properties.

\* The type invariant is inductive only together with these: an approval works
\* on a task that exists (tasks are never deleted), whoever made a call that a
\* handler works on is known, and what is about to be logged is a log entry.
ApprovalsHaveTasks ==
  \A c \in Calls : calls[c].kind = "approve" => TaskExists(calls[c].task)

CallersKnown ==
  \A c \in Calls :
    /\ InFlight(c) => calls[c].kind # "none"
    /\ calls[c].kind # "none" => calls[c].actor \in Actors

ResultsLogged ==
  \A c \in Calls : calls[c].pc = "log" => calls[c].result \in LogEntries

CallsConsistent == ApprovalsHaveTasks /\ CallersKnown /\ ResultsLogged

TypeInv == TypeOK /\ CallsConsistent

\* The request of call c has been forwarded to the backend.
Forwarded(c) == backend[c] # "idle"

\* The approvals that have forwarded task t's stored request.
Forwarders(t) ==
  {c \in Calls : calls[c].kind = "approve" /\ calls[c].task = t /\ Forwarded(c)}

\* A request repeated while its task is pending is answered with that task:
\* however the repetitions interleave, no two pending tasks have one
\* fingerprint (mesh.routes.ts looks for a task and creates one without an
\* await in between; no database constraint backs it up).
PendingUnique ==
  \A t, u \in Calls :
    Pending(t) /\ Pending(u) /\ TaskFingerprint(t) = TaskFingerprint(u) => t = u

\* In enforce mode nothing reaches the backend, directly or through a task, but
\* for an actor whom both engines allowed outright to do it, on the tier and the
\* resource the call itself has read; through a task only for an actor the task
\* was assigned to.
ForwardedOnlyIfAllowed ==
  Mode = "enforce" =>
    \A c \in Calls : Forwarded(c) =>
      /\ Verdict(calls[c].actor, calls[c].tier, calls[c].requester, calls[c].op,
                 calls[c].ver) = "allow"
      /\ calls[c].kind = "approve" =>
           /\ TaskExists(calls[c].task)
           /\ calls[c].actor \in tasks[calls[c].task].approvers
           /\ calls[c].op = tasks[calls[c].task].op

\* No entry of the decision log claims an execution the backend did not carry
\* out, or calls denied, parked or refused what was forwarded.
LogSound ==
  \A c \in Calls :
    /\ \A e \in {"executed", "forwarded"} : <<c, e>> \in log => backend[c] = "ok"
    /\ \A e \in {"denied", "parked", "approverNotPermitted", "rejected"} :
         <<c, e>> \in log => backend[c] = "idle"

\* The stored request of a task reaches the backend at most once.
ForwardedAtMostOnce ==
  \A t \in Calls : \A c, d \in Forwarders(t) : c = d

\* A closed task tells what happened: REJECTED ones had no effect, EXECUTED ones
\* had one.
StatusTellsEffect ==
  \A t \in Calls : TaskExists(t) =>
    /\ tasks[t].status = "REJECTED" => \A c \in Forwarders(t) : backend[c] # "ok"
    /\ tasks[t].status = "EXECUTED" => \E c \in Forwarders(t) : backend[c] = "ok"

\* REJECTED is an end state of a task.
RejectedIsFinal ==
  [][\A t \in Calls :
       TaskExists(t) /\ tasks[t].status = "REJECTED" => tasks'[t] = tasks[t]]_vars

\* While every service answers, an approval by an approver the task was assigned
\* to is never answered with an internal error.
ApprovalsServed ==
  \A c \in Calls : calls[c].kind = "approve" => calls[c].result # "threw"

\* Every call that arrives is answered (or lost in a crash).
CallsAnswered ==
  \A c \in Calls : InFlight(c) ~> calls[c].pc = "done"

\* A task that has been approved is eventually executed or rejected.
ApprovedIsResolved ==
  \A t \in Calls :
    (TaskExists(t) /\ tasks[t].status = "APPROVED")
      ~> (tasks[t].status \in {"EXECUTED", "REJECTED"})

\* While nobody resolves a task another call is resolving, the tasks behave as
\* ApprovalTask says.
AbstractTask ==
  INSTANCE ApprovalTask WITH
    Tasks <- Calls, Senders <- Calls,
    status <- [t \in Calls |-> tasks[t].status],
    forwards <- [t \in Calls |-> Forwarders(t)]

ImplementsApprovalTask == AbstractTask!TaskSpec
=============================================================================
