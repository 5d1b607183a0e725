--------------------------- MODULE ApprovalQueue ---------------------------
(* The approval requests that navigator-ai keeps for its operators:             *)
(* services/navigatorService.ts, services/executor.ts, stores/navigatorStore.ts. *)
(* A request records an action that governance, or the mesh, wants approved; or *)
(* it tracks an ERP row that the authority rules flag (a draft customer, a      *)
(* submitted requisition, a pending journal), under one of the names its type   *)
(* goes by.  The database is synchronous: what a handler does between two       *)
(* awaits is one step.                                                          *)
EXTENDS Naturals, FiniteSets

CONSTANTS
  Requests,
  Names,      \* the names of the row's type: p2p_requisition, requisition
  Operators   \* the operators' calls that may be under way at a time

VARIABLES
  flagged,   \* the ERP row awaits approval
  request,   \* navigator_approval_request, and how often its action was sent
  sync,      \* an approvals page under way: what it read of the row
  operator   \* the operators' calls

queueVars == <<flagged, request, sync, operator>>

RequestStates == {"none", "PENDING", "APPROVED", "REJECTED", "ESCALATED", "EXPIRED"}
\* "lost" is a request recorded for an action that was not among the options.
RequestKinds == {"tracked", "action", "lost"}
\* under: the name that a tracked row is recorded under, as the page gave it
RequestRow == [kind : RequestKinds, status : RequestStates, sent : Nat, under : Names \cup {"none"}]
NoRequest == [kind |-> "tracked", status |-> "none", sent |-> 0, under |-> "none"]

Ready == [pc |-> "ready"]
NoSync == [read |-> "none", name |-> "none"]

\* The pending requests that track the row under a name
Tracked(rows, name) ==
  {r \in Requests : rows[r].kind = "tracked" /\ rows[r].status = "PENDING" /\ rows[r].under = name}

QueueInit ==
  /\ flagged \in BOOLEAN
  /\ request = [r \in Requests |-> NoRequest]
  /\ sync = [o \in Operators |-> NoSync]
  /\ operator = [o \in Operators |-> Ready]

\* The row is submitted, activated, posted or cancelled in the ERP.
FlagChanges ==
  /\ flagged' = ~flagged
  /\ UNCHANGED <<request, sync, operator>>

\* recordApprovalRequest
NewRequest(kind, name) == [kind |-> kind, status |-> "PENDING", sent |-> 0, under |-> name]
Recorded(r, kind, name) ==
  /\ request[r] = NoRequest
  /\ request' = [request EXCEPT ![r] = NewRequest(kind, name)]

\* executeDecision when the decision is to request approval
RequestApproval(r) ==
  /\ \E kind \in {"action", "lost"} : Recorded(r, kind, "none")
  /\ UNCHANGED <<flagged, sync, operator>>

\* The approvals page reads the row, by a name of its type that is as good as the
\* other, or all rows, by the name of their table.
ReadFlag(o) ==
  /\ sync[o] = NoSync
  /\ \E name \in Names :
       sync' = [sync EXCEPT ![o] = [read |-> IF flagged THEN "flagged" ELSE "clear", name |-> name]]
  /\ UNCHANGED <<flagged, request, operator>>

\* applyAuthorityDecision, on what was read: what is tracked is looked up, and
\* recorded, by the name as it was given.
ApplyAuthorityDecision(o) ==
  LET name == sync[o].name IN
  /\ \/ /\ sync[o].read = "flagged"
        /\ \/ Tracked(request, name) = {} /\ \E r \in Requests : Recorded(r, "tracked", name)
           \/ Tracked(request, name) # {} /\ UNCHANGED request
     \/ /\ sync[o].read = "clear"
        /\ request' = [r \in Requests |->
             IF r \in Tracked(request, name) THEN [request[r] EXCEPT !.status = "EXPIRED"]
             ELSE request[r]]
  /\ sync' = [sync EXCEPT ![o] = NoSync]
  /\ UNCHANGED <<flagged, operator>>

\* Mutant: any request whose status is another may be resolved, again if need be.
ResolvableAgain(status, to) == status # "none" /\ status # to

\* The statuses from which transitionApproval goes to another
Resolvable(status, to) == status = "PENDING" \/ (status = "ESCALATED" /\ to # "ESCALATED")

\* transitionApproval up to the publication of its event: check and update are one.
Transition(r, to) ==
  /\ Resolvable(request[r].status, to)
  /\ request' = [request EXCEPT ![r].status = to]

\* rejectApprovalRequest and escalateApprovalRequest
RejectOrEscalate(r) ==
  /\ \E to \in {"REJECTED", "ESCALATED"} : Transition(r, to)
  /\ UNCHANGED <<flagged, sync, operator>>

\* approveApprovalRequest up to the publication
ApproveRequest(o, r) ==
  /\ operator[o] = Ready
  /\ Transition(r, "APPROVED")
  /\ operator' = [operator EXCEPT ![o] = [pc |-> "publish", r |-> r]]
  /\ UNCHANGED <<flagged, sync>>

\* The call is over: the event could not be published, the request carries no
\* action, or the context of its action could not be built.
EndApproval(o) ==
  /\ operator[o] # Ready
  /\ operator' = [operator EXCEPT ![o] = Ready]
  /\ UNCHANGED <<flagged, request, sync>>

\* executeApprovedAction sends the action to the mesh; when that answers with a task
\* of its own, executeDecision records another request for the same action.
SendApproved(o) ==
  LET r == operator[o].r
      sent == [request EXCEPT ![r].sent = @ + 1] IN
  /\ operator[o] # Ready
  /\ request[r].kind = "action"
  /\ \/ request' = sent
     \/ \E next \in Requests, kind \in {"action", "lost"} :
          /\ request[next] = NoRequest
          /\ request' = [sent EXCEPT ![next] = NewRequest(kind, "none")]
  /\ operator' = [operator EXCEPT ![o] = Ready]
  /\ UNCHANGED <<flagged, sync>>

\* The process dies; the requests are in the database.
QueueRestart ==
  /\ operator' = [o \in Operators |-> Ready]
  /\ sync' = [o \in Operators |-> NoSync]
  /\ UNCHANGED <<flagged, request>>

QueueNext ==
  \/ FlagChanges
  \/ \E r \in Requests : RequestApproval(r) \/ RejectOrEscalate(r)
  \/ \E o \in Operators : \/ ReadFlag(o) \/ ApplyAuthorityDecision(o)
                          \/ EndApproval(o) \/ SendApproved(o)
                          \/ \E r \in Requests : ApproveRequest(o, r)
  \/ QueueRestart

QueueSpec == QueueInit /\ [][QueueNext]_queueVars

QueueTypeOK ==
  /\ flagged \in BOOLEAN
  /\ request \in [Requests -> RequestRow]
  /\ sync \in [Operators -> [read : {"none", "flagged", "clear"}, name : Names \cup {"none"}]]
  /\ operator \in [Operators -> {Ready} \cup [pc : {"publish"}, r : Requests]]

(* An action that was approved is sent at most once, and nothing else is sent:  *)
(* not a request that was rejected or has expired, whoever resolves it at the   *)
(* same time, and not again after its approval.  The synchronisation with the   *)
(* ERP, of which several may be under way with different readings of the row,   *)
(* leaves at most one request pending for it under each name.                   *)
RequestsSettledOnce ==
  /\ \A r \in Requests :
       /\ request[r].sent <= 1
       /\ request[r].sent = 1 => request[r].kind = "action" /\ request[r].status = "APPROVED"
  /\ \A name \in Names : Cardinality(Tracked(request, name)) <= 1

\* At most one request is open for the row.  It is not so: the page of one requisition
\* records a request under its own name for the type beside that of the queue, and a
\* request that was escalated can still be resolved when another is recorded.
OneOpen ==
  Cardinality({r \in Requests : request[r].kind = "tracked" /\
                                 request[r].status \in {"PENDING", "ESCALATED"}}) <= 1
=============================================================================
