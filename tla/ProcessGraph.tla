---------------------------- MODULE ProcessGraph ----------------------------
(***************************************************************************)
(* One business object as three services see it.  Foundation ERP owns its  *)
(* state and announces every change as an event; the event-processor's     *)
(* poll copies the events into the ledger; services/process-graph keeps no *)
(* state of it at all but rebuilds it from the ledger for every request    *)
(* (api/graph.routes.ts), has the engines judge the requested action, and  *)
(* records it as a command or parks it as an approval task                 *)
(* (api/approvals.routes.ts).  The integration hub (processFacade.ts) puts *)
(* an action to the graph first and then, if it was not refused, to the    *)
(* mesh, behind which the ERP decides by its own table.                    *)
(*                                                                         *)
(* Both services are Node processes: an action here is the code between    *)
(* two awaits of a handler, and pc names the await it waits for.           *)
(***************************************************************************)
EXTENDS FrontEnds, Naturals, Sequences

CONSTANTS
  Objects,                \* the types of aggregate a behaviour may be about
  Requesters,             \* Requesters[k]: calls that may ask for an action on a k;
                          \* the others only resolve tasks
  Calls,                  \* the requests made in a behaviour; an approval task is
                          \* named by the call that created it
  None,
  MeshAnswers,            \* what becomes of a request to the mesh, out of Answers
  MeshDelegationEnabled,  \* MESH_DELEGATION_ENABLED of process-graph
  StreamLimit,            \* how many events the ledger returns of an aggregate
  CanCrash,               \* TRUE: process-graph and the hub may die
  MaxMoves                \* bound on what others do to the object in the ERP

VARIABLES
  kind,     \* the type of the object
  history,  \* the states it has had in the ERP and the events that announced them
  polled,   \* how much of history the event-processor has polled
  ledger,   \* the ledger's events of the object, in replay order
  calls,    \* the handlers' local state
  tasks,    \* pge_approval_task
  log,      \* pge_command_log
  parked,   \* requests that wait for an approval in the mesh
  effects   \* requests that the ERP has carried out

vars == <<kind, history, polled, ledger, calls, tasks, log, parked, effects>>

-----------------------------------------------------------------------------
\* "forwarded": the mesh sent the request on to the ERP, "refused": it answered
\* 4xx, "parked": 202 with an approval task of its own, "lost": no answer arrived.
Answers == {"forwarded", "refused", "parked", "lost"}
Channels == {"hub", "delegation"}
Statuses == {"none", "Pending", "Approved", "Rejected"}
Pcs == {"idle", "rebuilding", "judging", "delegating", "executing", "done"}
Actions == UNION {GraphActions(k) : k \in Kinds}

ASSUME CallsAssumption == None \notin Calls
ASSUME ObjectsAssumption == Objects \subseteq Kinds /\ Requesters \in [Kinds -> SUBSET Calls]
ASSUME MeshAssumption ==
  MeshAnswers \subseteq Answers /\ MeshDelegationEnabled \in BOOLEAN /\ CanCrash \in BOOLEAN
ASSUME BoundsAssumption == StreamLimit \in Nat \ {0} /\ MaxMoves \in Nat

\* via: who waits for the answer; delegate: the payload names an adapter; task: the
\* approval task the call has resolved; seen: how much of history had been polled
\* when the request came in.
Call == [pc : Pcs, via : {"hub", "graph"}, action : Actions \cup {"none"},
         delegate : BOOLEAN, task : Calls \cup {None}, seen : Nat]

Task == [status : Statuses, action : Actions \cup {"none"}, delegate : BOOLEAN]

Command == [call : Calls, via : {"hub", "graph"}, task : Calls \cup {None},
            action : Actions, seen : Nat]

\* What the mesh is asked to do: by the hub or, as a delegation, by process-graph.
MeshRequest == [call : Calls, channel : Channels, action : Actions]

TypeOK ==
  /\ kind \in Objects
  /\ history \in Seq([state : STRING, events : Seq(STRING)])
  /\ polled \in 0 .. Len(history)
  /\ ledger \in Seq(STRING)
  /\ calls \in [Calls -> Call]
  /\ tasks \in [Calls -> Task]
  /\ log \subseteq Command
  /\ parked \subseteq MeshRequest
  /\ effects \subseteq MeshRequest

-----------------------------------------------------------------------------
Erp == history[Len(history)].state

\* What the ledger returns of the stream: its oldest events.
Stream == SubSeq(ledger, 1, IF Len(ledger) <= StreamLimit THEN Len(ledger) ELSE StreamLimit)

\* replayEvents: the state of the last event that the reducer knows.
Rebuilt ==
  LET known == {i \in DOMAIN Stream : Stream[i] \in DOMAIN Reducer[kind]}
  IN  IF known = {} THEN "Draft"
      ELSE Reducer[kind][Stream[CHOOSE i \in known : \A j \in known : j <= i]]

IdleCall == [pc |-> "idle", via |-> "graph", action |-> "none", delegate |-> FALSE,
             task |-> None, seen |-> 0]

Finished == [IdleCall EXCEPT !.pc = "done"]

NoTask == [status |-> "none", action |-> "none", delegate |-> FALSE]

Init ==
  /\ kind \in Objects
  /\ \E b \in Births[kind] : history = <<[state |-> b[1], events |-> b[2]]>>
  /\ polled = 0
  /\ ledger = <<>>
  /\ calls = [c \in Calls |-> IdleCall]
  /\ tasks = [c \in Calls |-> NoTask]
  /\ log = {}
  /\ parked = {}
  /\ effects = {}

-----------------------------------------------------------------------------
\* Foundation ERP.

Announce(m) == Append(history, [state |-> m[3], events |-> <<m[3]>>])

Accepts(a) == \E m \in ErpMoves[kind] : m[1] = Erp /\ m[2] = a

\* The ERP checks its own table, and answers 4xx if the operation is not in it or the
\* request has reached none.
Carried(request) ==
  \E m \in ErpMoves[kind] :
    /\ m[1] = Erp
    /\ m[2] \in Reached(kind, request.channel, request.action)
    /\ history' = Announce(m)
    /\ effects' = effects \cup {request}

Declined(request) ==
  /\ \A a \in Reached(kind, request.channel, request.action) : ~Accepts(a)
  /\ UNCHANGED <<history, effects>>

\* Another user or another handler of the ERP changes the object.
ErpMove ==
  /\ Len(history) <= MaxMoves
  /\ \E m \in ErpMoves[kind] : m[1] = Erp /\ history' = Announce(m)
  /\ UNCHANGED <<kind, polled, ledger, calls, tasks, log, parked, effects>>

\* Two events of one handler may carry the same millisecond; the ledger then orders
\* them by their random ids.
Orderings(events) == {events, [i \in DOMAIN events |-> events[Len(events) + 1 - i]]}

\* Mutant: the poll takes the last event for one it has already.
PollStopsShort ==
  /\ polled + 1 < Len(history)
  /\ polled' = polled + 1
  /\ \E events \in Orderings(history[polled + 1].events) : ledger' = ledger \o events
  /\ UNCHANGED <<kind, history, calls, tasks, log, parked, effects>>

\* The poll fetches the events of the next change.
Poll ==
  /\ polled < Len(history)
  /\ polled' = polled + 1
  /\ \E events \in Orderings(history[polled + 1].events) : ledger' = ledger \o events
  /\ UNCHANGED <<kind, history, calls, tasks, log, parked, effects>>

\* An approver in the mesh releases a request, or the lost one arrives late.
ReleaseParked ==
  /\ \E request \in parked :
       /\ parked' = parked \ {request}
       /\ Carried(request) \/ Declined(request)
  /\ UNCHANGED <<kind, polled, ledger, calls, tasks, log>>

-----------------------------------------------------------------------------
\* Requests to process-graph.

\* A request comes in, directly or as the first half of the hub's executeAction.
Submit(c, via, a, delegate) ==
  /\ calls[c].pc = "idle"
  /\ c \in Requesters[kind]
  /\ via = "hub" => a \in HubActions[kind]
  /\ calls' = [calls EXCEPT ![c] =
                 [pc |-> "rebuilding", via |-> via, action |-> a, delegate |-> delegate,
                  task |-> None, seen |-> polled]]
  /\ UNCHANGED <<kind, history, polled, ledger, tasks, log, parked, effects>>

\* Mutant: the status of the task is not looked at.
ResolveAgain(c, t, resolution) ==
  /\ calls[c].pc = "idle"
  /\ tasks[t].status # "none"
  /\ tasks' = [tasks EXCEPT ![t].status = resolution]
  /\ calls' = [calls EXCEPT ![c] =
                 IF resolution = "Rejected" THEN Finished
                 ELSE [pc |-> "rebuilding", via |-> "graph", action |-> tasks[t].action,
                       delegate |-> tasks[t].delegate, task |-> t, seen |-> polled]]
  /\ UNCHANGED <<kind, history, polled, ledger, log, parked, effects>>

\* POST /graph/approvals/:taskId/resolve: the task is read, checked and written
\* before the handler waits for anything.
Resolve(c, t, resolution) ==
  /\ calls[c].pc = "idle"
  /\ tasks[t].status = "Pending"
  /\ tasks' = [tasks EXCEPT ![t].status = resolution]
  /\ calls' = [calls EXCEPT ![c] =
                 IF resolution = "Rejected" THEN Finished
                 ELSE [pc |-> "rebuilding", via |-> "graph", action |-> tasks[t].action,
                       delegate |-> tasks[t].delegate, task |-> t, seen |-> polled]]
  /\ UNCHANGED <<kind, history, polled, ledger, log, parked, effects>>

End(c) == calls' = [calls EXCEPT ![c] = Finished]

\* Mutant: an approved command is not compared with the present state again.
RebuildTrustsTask(c) ==
  /\ calls[c].pc = "rebuilding"
  /\ IF \/ calls[c].task # None
        \/ ledger # <<>> /\ Offers(kind, Rebuilt, calls[c].action)
       THEN calls' = [calls EXCEPT ![c].pc = "judging"]
       ELSE End(c)
  /\ UNCHANGED <<kind, history, polled, ledger, tasks, log, parked, effects>>

\* The ledger answers: it must know the object (404), and the action must be one
\* that the graph offers in the rebuilt state (422, 409 stale_approval for a task).
Rebuild(c) ==
  /\ calls[c].pc = "rebuilding"
  /\ IF ledger # <<>> /\ Offers(kind, Rebuilt, calls[c].action)
       THEN calls' = [calls EXCEPT ![c].pc = "judging"]
       ELSE End(c)
  /\ UNCHANGED <<kind, history, polled, ledger, tasks, log, parked, effects>>

CommandOf(c) == [call |-> c, via |-> calls[c].via, task |-> calls[c].task,
                 action |-> calls[c].action, seen |-> calls[c].seen]

\* appendCommandLog, and the answer; the hub goes on with its request to the mesh.
Record(c) ==
  /\ log' = log \cup {CommandOf(c)}
  /\ IF calls[c].via = "hub" THEN calls' = [calls EXCEPT ![c].pc = "executing"] ELSE End(c)

\* An engine denies the action, or throws.
JudgeDenied(c) ==
  /\ calls[c].pc = "judging"
  /\ End(c)
  /\ UNCHANGED <<kind, history, polled, ledger, tasks, log, parked, effects>>

\* Mutant: the hub takes every answer below 400 for consent.
JudgeParksAndGoesOn(c) ==
  /\ calls[c].pc = "judging"
  /\ calls[c].task = None
  /\ tasks' = [tasks EXCEPT ![c] = [status |-> "Pending", action |-> calls[c].action,
                                    delegate |-> calls[c].delegate]]
  /\ IF calls[c].via = "hub" THEN calls' = [calls EXCEPT ![c].pc = "executing"] ELSE End(c)
  /\ UNCHANGED <<kind, history, polled, ledger, log, parked, effects>>

\* Governance requires an approval: 202.  The hub passes that on as it is.
JudgeParks(c) ==
  /\ calls[c].pc = "judging"
  /\ calls[c].task = None
  /\ tasks' = [tasks EXCEPT ![c] = [status |-> "Pending", action |-> calls[c].action,
                                    delegate |-> calls[c].delegate]]
  /\ End(c)
  /\ UNCHANGED <<kind, history, polled, ledger, log, parked, effects>>

\* The engines allow it; under an approved task, "requires approval" will do.
JudgeAllowed(c) ==
  /\ calls[c].pc = "judging"
  /\ IF MeshDelegationEnabled /\ calls[c].delegate
       THEN /\ calls' = [calls EXCEPT ![c].pc = "delegating"]
            /\ UNCHANGED log
       ELSE Record(c)
  /\ UNCHANGED <<kind, history, polled, ledger, tasks, parked, effects>>

\* What becomes of a request to the mesh.  A lost one has been carried out, or is
\* still on its way, or never will be.
Request(request, answer) ==
  \/ /\ answer = "forwarded"
     /\ Carried(request) \/ Declined(request)
     /\ UNCHANGED parked
  \/ /\ answer = "refused"
     /\ UNCHANGED <<history, effects, parked>>
  \/ /\ answer \in {"parked", "lost"}
     /\ parked' = parked \cup {request}
     /\ UNCHANGED <<history, effects>>

RequestOf(c, channel) == [call |-> c, channel |-> channel, action |-> calls[c].action]

\* delegateToMesh: any answer is recorded, a fetch that throws is not.
Delegate(c, answer) ==
  /\ calls[c].pc = "delegating"
  /\ Request(RequestOf(c, "delegation"), answer)
  /\ IF answer = "lost" THEN End(c) /\ UNCHANGED log ELSE Record(c)
  /\ UNCHANGED <<kind, polled, ledger, tasks>>

\* The hub's own request, after the graph has recorded the command.
HubExecute(c, answer) ==
  /\ calls[c].pc = "executing"
  /\ Request(RequestOf(c, "hub"), answer)
  /\ End(c)
  /\ UNCHANGED <<kind, polled, ledger, tasks, log>>

-----------------------------------------------------------------------------
\* process-graph dies: the calls in it end, and the hub's with them.
GraphCrash ==
  /\ CanCrash
  /\ \E c \in Calls : calls[c].pc \in {"rebuilding", "judging", "delegating"}
  /\ calls' = [c \in Calls |->
                 IF calls[c].pc \in {"rebuilding", "judging", "delegating"}
                   THEN Finished ELSE calls[c]]
  /\ UNCHANGED <<kind, history, polled, ledger, tasks, log, parked, effects>>

\* The hub dies: what the graph is handling goes on without it.
HubCrash ==
  /\ CanCrash
  /\ \E c \in Calls : calls[c].via = "hub"
  /\ calls' = [c \in Calls |->
                 IF calls[c].pc = "executing" THEN Finished
                 ELSE [calls[c] EXCEPT !.via = "graph"]]
  /\ UNCHANGED <<kind, history, polled, ledger, tasks, log, parked, effects>>

Handle(c) ==
  \/ Rebuild(c)
  \/ JudgeDenied(c)
  \/ JudgeParks(c)
  \/ JudgeAllowed(c)
  \/ \E answer \in MeshAnswers : Delegate(c, answer) \/ HubExecute(c, answer)

Next ==
  \/ ErpMove
  \/ Poll
  \/ ReleaseParked
  \/ GraphCrash
  \/ HubCrash
  \/ \E c \in Calls :
       \/ Handle(c)
       \/ \E via \in {"hub", "graph"}, a \in GraphActions(kind), delegate \in BOOLEAN :
            Submit(c, via, a, delegate)
       \/ \E t \in Calls, resolution \in {"Approved", "Rejected"} :
            Resolve(c, t, resolution)

Spec == Init /\ [][Next]_vars

\* The poll's timer keeps firing, and every service that is asked answers.
FairSpec == Spec /\ WF_vars(Poll) /\ \A c \in Calls : WF_vars(Handle(c))

-----------------------------------------------------------------------------
\* The types for which every event of the ERP has an entry in the reducers.
Complete == {"requisition", "purchaseOrder", "goodsReceipt", "supplier", "salesOrder",
             "arInvoice", "fiscalPeriod", "assignment", "credential"}

\* The types for which an action of the graph that has a route is one that the ERP
\* has in the same state.
Mirrored == {"requisition", "purchaseOrder", "goodsReceipt", "supplier", "salesOrder",
             "arInvoice", "fiscalPeriod", "employee", "assignment", "credential"}

\* The links and the tools that the ERP offers and then refuses.
DeadLinks == {<<"salesOrder", "Shipped", "close">>, <<"purchaseOrder", "PartiallyReceived", "cancel">>,
              <<"arInvoice", "PartPaid", "cancel">>}
DeadTools == {<<"salesOrder", "Confirmed", "invoice">>, <<"salesOrder", "Allocated", "invoice">>,
              <<"arInvoice", "PartPaid", "cancel">>}

\* The graph's name for a state of the ERP.
Canonical(state) ==
  CASE kind = "purchaseOrder" /\ state = "Sent"    -> "Issued"
    [] kind = "arInvoice" /\ state = "PartPaid"    -> "PartiallyPaid"
    [] kind = "arInvoice" /\ state = "Paid"        -> "FullyPaid"
    [] kind = "fiscalPeriod" /\ state = "Closing"  -> "PendingClose"
    [] OTHER                                       -> state

\* What the ledger holds is still returned as a whole.
StreamWhole == Len(ledger) <= StreamLimit

\* Safety: the state that process-graph rebuilds of an object is a state that the
\* object had in the ERP, behind by the events not polled and by nothing else,
\* whatever path of the ERP's table led there (replayEvents over the reducers).
RebuiltLagsOnly ==
  kind \in Complete /\ StreamWhole /\ polled > 0
    => Rebuilt = Canonical(history[polled].state)

\* Safety: nothing is offered that the ERP refuses: not by the graph on an object it
\* is up to date with (GET /graph/:domain/:aggregateType/:id), if the action reaches the
\* ERP at all, not by the ERP's own links, and not by the guards of its MCP tools.
OffersHonoured ==
  /\ kind \in Mirrored /\ StreamWhole /\ polled = Len(history)
       => \A a \in GraphActions(kind), channel \in Channels :
            Offers(kind, Rebuilt, a) => \A b \in Reached(kind, channel, a) : Accepts(b)
  /\ \A link \in Links[kind] :
       link[1] = Column(Erp) /\ <<kind, Erp, link[2]>> \notin DeadLinks
         => link[2] \in DOMAIN Routes[kind] /\ Accepts(Routes[kind][link[2]])
  /\ \A tool \in Tools[kind] :
       tool[1] = Column(Erp) /\ <<kind, Erp, tool[2]>> \notin DeadTools => Accepts(tool[2])

\* Safety: a recorded command was legal in a state that the object had no earlier
\* than the last poll before its request or, if it needed an approval, before the
\* approval: the state seen by the one who asked for it does not count.
CommandLegalSince ==
  kind \in Complete /\ StreamWhole
    => \A r \in log : \E i \in DOMAIN history :
         i >= r.seen /\ Offers(kind, Canonical(history[i].state), r.action)

\* Safety: an approval is spent on at most one command, and a task that is pending
\* or rejected on none, however often and by however many it is resolved.
ApprovalSpentOnce ==
  /\ \A r \in log : r.task # None => tasks[r.task].status = "Approved"
  /\ \A r, s \in log : r.task = s.task /\ r.task # None => r = s

\* Safety: what the hub has made the ERP do, or may still make it do once the mesh
\* releases it, is in the command log, and was never parked by the graph.
EffectsRecorded ==
  \A e \in effects \cup parked :
    e.channel = "hub" => /\ \E r \in log : r.call = e.call /\ r.action = e.action
                         /\ tasks[e.call].status = "none"

\* Liveness: while ledger, engines and mesh answer, every request is answered.
CallsAnswered ==
  \A c \in Calls : calls[c].pc \notin {"idle", "done"} ~> calls[c].pc = "done"

\* Liveness: once the object is left alone, the graph comes to show the state that
\* it has in the ERP, since the poll never stops short of the last event.
GraphCatchesUp ==
  <>[](kind \in Complete /\ StreamWhole => Rebuilt = Canonical(Erp))

\* migrations/001_init.sql calls the log a record of executed transitions: what the
\* hub is through with, and has a command in it, the ERP has done.
LoggedIsExecuted ==
  \A r \in log : r.via = "hub" /\ calls[r.call].pc = "done"
                   => \E e \in effects : e.call = r.call /\ e.channel = "hub"
=============================================================================
