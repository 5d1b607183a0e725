------------------------ MODULE ProcessGraph_proofs -------------------------
(***************************************************************************)
(* Theorems about ProcessGraph, for any number of calls and any bound on   *)
(* the ledger's stream: the commands and the approvals they are spent on,  *)
(* what the graph knows of an object's past, and that what is offered is   *)
(* accepted.                                                               *)
(***************************************************************************)
EXTENDS ProcessGraph, TLAPS

-----------------------------------------------------------------------------
(* The inductive invariant.                                                *)

\* What a call that is under way knows, and what it leaves when it ends.
CallSound(c) ==
  /\ calls[c].pc \notin {"idle", "done"} => calls[c].action \in Actions
  /\ calls[c].pc \in {"idle", "done"} => calls[c].task = None
  /\ calls[c].task # None => /\ calls[c].via = "graph"
                             /\ tasks[calls[c].task].status = "Approved"
  /\ calls[c].pc = "executing" =>
       \E r \in log : r.call = c /\ r.action = calls[c].action
  /\ tasks[c].status # "none" => calls[c].pc = "done" /\ tasks[c].action \in Actions

\* An approval is in the hands of one call, and of none once it is spent.
ApprovalsHeld ==
  /\ \A c, d \in Calls : calls[c].task = calls[d].task /\ calls[c].task # None => c = d
  /\ \A r \in log, c \in Calls : r.task # None => calls[c].task # r.task

\* The hub's requests are the last thing that its calls do.
HubEnds ==
  \A e \in effects \cup parked : e.channel = "hub" => calls[e.call].pc = "done"

\* Of the types, what the rest needs; the tables and what they say of the object's
\* history play no part in it.
Typed ==
  /\ kind \in Kinds
  /\ polled \in Nat
  /\ calls \in [Calls -> Call]
  /\ tasks \in [Calls -> Task]
  /\ log \subseteq Command
  /\ parked \subseteq MeshRequest
  /\ effects \subseteq MeshRequest

\* The inductive invariant.
GraphInv ==
  /\ Typed
  /\ \A c \in Calls : CallSound(c)
  /\ ApprovalsHeld
  /\ ApprovalSpentOnce
  /\ HubEnds
  /\ EffectsRecorded

-----------------------------------------------------------------------------
(* What the steps have in common.                                          *)

LEMMA CallTypes ==
  /\ IdleCall \in Call
  /\ Finished \in Call
  /\ Finished.pc = "done" /\ Finished.task = None /\ NoTask \in Task
BY DEF IdleCall, Finished, NoTask, Call, Task, Pcs, Statuses

\* A step that only moves call c on to another await.
LEMMA MoveOn ==
  ASSUME GraphInv, NEW c \in Calls, NEW pc \in {"judging", "delegating"},
         calls[c].pc \notin {"idle", "done", "executing"},
         calls' = [calls EXCEPT ![c].pc = pc],
         UNCHANGED <<kind, tasks, log, parked, effects>>, polled' = polled
  PROVE  GraphInv'
<1>1. /\ calls' \in [Calls -> Call]
      /\ calls'[c].pc = pc
      /\ calls'[c].task = calls[c].task
      /\ calls'[c].via = calls[c].via
      /\ calls'[c].action = calls[c].action
      /\ \A d \in Calls : d # c => calls'[d] = calls[d]
  BY DEF GraphInv, Typed, Call, Pcs
<1>2. Typed'
  BY <1>1 DEF GraphInv, Typed
<1>3. \A d \in Calls : CallSound(d)'
  BY <1>1 DEF GraphInv, CallSound
<1>4. ApprovalsHeld'
  BY <1>1 DEF GraphInv, ApprovalsHeld
<1>5. ApprovalSpentOnce' /\ EffectsRecorded'
  BY DEF GraphInv, ApprovalSpentOnce, EffectsRecorded
<1>6. HubEnds'
  BY <1>1 DEF GraphInv, HubEnds, Typed, MeshRequest
<1> QED BY <1>2, <1>3, <1>4, <1>5, <1>6 DEF GraphInv

\* A step that ends some calls, and does nothing else.
LEMMA EndCalls ==
  ASSUME GraphInv, NEW S \in SUBSET Calls,
         calls' = [d \in Calls |-> IF d \in S THEN Finished ELSE calls[d]],
         UNCHANGED <<kind, tasks, log, parked, effects>>, polled' = polled
  PROVE  GraphInv'
<1>1. calls' \in [Calls -> Call]
  BY CallTypes DEF GraphInv, Typed
<1>2. Typed'
  BY <1>1 DEF GraphInv, Typed
<1>3. \A d \in Calls : CallSound(d)'
  BY CallTypes DEF GraphInv, CallSound
<1>4. ApprovalsHeld'
  BY CallTypes DEF GraphInv, ApprovalsHeld
<1>5. ApprovalSpentOnce' /\ EffectsRecorded'
  BY DEF GraphInv, ApprovalSpentOnce, EffectsRecorded
<1>6. HubEnds'
  BY CallTypes DEF GraphInv, HubEnds, Typed, MeshRequest
<1> QED BY <1>2, <1>3, <1>4, <1>5, <1>6 DEF GraphInv

\* What a request to the mesh adds to those parked and carried out.
LEMMA RequestAdds ==
  ASSUME Typed, NEW request \in MeshRequest, NEW answer, Request(request, answer)
  PROVE  /\ parked' \subseteq MeshRequest
         /\ effects' \subseteq MeshRequest
         /\ effects' \cup parked' \subseteq effects \cup parked \cup {request}
BY DEF Typed, Request, Carried, Declined

LEMMA RequestTypes ==
  ASSUME GraphInv, NEW c \in Calls, calls[c].pc \notin {"idle", "done"},
         NEW channel \in Channels
  PROVE  /\ RequestOf(c, channel) \in MeshRequest
         /\ RequestOf(c, channel).call = c
         /\ RequestOf(c, channel).channel = channel
         /\ RequestOf(c, channel).action = calls[c].action
BY DEF GraphInv, CallSound, RequestOf, MeshRequest

LEMMA CommandTypes ==
  ASSUME GraphInv, NEW c \in Calls, calls[c].pc \notin {"idle", "done"}
  PROVE  /\ CommandOf(c) \in Command
         /\ CommandOf(c).call = c
         /\ CommandOf(c).task = calls[c].task
         /\ CommandOf(c).action = calls[c].action
<1>1. calls[c] \in Call /\ calls[c].action \in Actions
  BY DEF GraphInv, CallSound, Typed
<1> QED BY <1>1 DEF CommandOf, Command, Call

\* A step that records call c's command, on the way perhaps delegating it.
LEMMA RecordStep ==
  ASSUME GraphInv, NEW c \in Calls, calls[c].pc \in {"judging", "delegating"},
         Record(c), UNCHANGED <<kind, tasks>>, polled' = polled,
         parked' \subseteq MeshRequest, effects' \subseteq MeshRequest,
         effects' \cup parked' \subseteq
           effects \cup parked \cup {RequestOf(c, "delegation")}
  PROVE  GraphInv'
<1> DEFINE new == CommandOf(c)
<1>1. /\ new \in Command
      /\ new.call = c
      /\ new.task = calls[c].task
      /\ new.action = calls[c].action
      /\ log' = log \cup {new}
  BY CommandTypes DEF Record
<1> HIDE DEF new
<1>2. /\ calls' \in [Calls -> Call]
      /\ \A d \in Calls : d # c => calls'[d] = calls[d]
      /\ \/ calls'[c] = Finished
         \/ /\ calls'[c].pc = "executing"
            /\ calls'[c].task = calls[c].task
            /\ calls'[c].action = calls[c].action
            /\ calls[c].via = "hub"
  BY CallTypes DEF GraphInv, Typed, Record, End, Call, Pcs
<1>3. /\ calls'[c].task = None
      /\ calls'[c].pc \in {"executing", "done"}
  BY <1>2, CallTypes DEF GraphInv, CallSound
<1>4. Typed'
  BY <1>1, <1>2 DEF GraphInv, Typed
<1>5. ASSUME NEW d \in Calls PROVE CallSound(d)'
  <2>1. CASE d = c
    <3>1. \E r \in log' : r.call = c /\ r.action = calls[c].action
      BY <1>1
    <3>2. tasks[c].status = "none"
      BY DEF GraphInv, CallSound
    <3>3. calls[c].action \in Actions
      BY DEF GraphInv, CallSound
    <3> QED BY <2>1, <1>2, <1>3, <3>1, <3>2, <3>3, CallTypes DEF CallSound
  <2>2. CASE d # c
    BY <2>2, <1>1, <1>2 DEF GraphInv, CallSound
  <2> QED BY <2>1, <2>2
<1>6. ApprovalsHeld'
  <2>1. \A d, e \in Calls : calls'[d].task = calls'[e].task /\ calls'[d].task # None => d = e
    BY <1>2, <1>3 DEF GraphInv, ApprovalsHeld
  <2>2. ASSUME NEW r \in log', NEW d \in Calls, r.task # None
        PROVE  calls'[d].task # r.task
    BY <2>2, <1>1, <1>2, <1>3 DEF GraphInv, ApprovalsHeld
  <2> QED BY <2>1, <2>2 DEF ApprovalsHeld
<1>7. ApprovalSpentOnce'
  BY <1>1 DEF GraphInv, ApprovalSpentOnce, ApprovalsHeld, CallSound
<1>8. \A e \in effects' \cup parked' :
        e.channel = "hub" => e \in effects \cup parked
  BY RequestTypes DEF Channels
<1>9. HubEnds'
  <2> SUFFICES ASSUME NEW e \in effects' \cup parked', e.channel = "hub"
               PROVE  calls'[e.call].pc = "done"
    BY DEF HubEnds
  <2>1. calls[e.call].pc = "done" /\ e.call \in Calls
    BY <1>8 DEF GraphInv, HubEnds, Typed, MeshRequest
  <2> QED BY <2>1, <1>2
<1>10. EffectsRecorded'
  BY <1>8, <1>1 DEF GraphInv, EffectsRecorded
<1> QED BY <1>4, <1>5, <1>6, <1>7, <1>9, <1>10 DEF GraphInv

-----------------------------------------------------------------------------
(* The actions.                                                            *)

LEMMA InitInv == Init => GraphInv
<1> SUFFICES ASSUME Init PROVE GraphInv
  OBVIOUS
<1>1. Typed
  BY CallTypes, ObjectsAssumption DEF Init, Typed
<1>2. \A c \in Calls : CallSound(c)
  BY DEF Init, CallSound, IdleCall, NoTask
<1> QED BY <1>1, <1>2 DEF GraphInv, Init, ApprovalsHeld, ApprovalSpentOnce, HubEnds,
                      EffectsRecorded, IdleCall

\* The ERP and the poll touch none of it.
LEMMA OthersInv ==
  ASSUME GraphInv, polled' \in Nat, UNCHANGED <<kind, calls, tasks, log, parked, effects>>
  PROVE  GraphInv'
<1>1. Typed'
  BY DEF GraphInv, Typed
<1>2. \A c \in Calls : CallSound(c)'
  BY DEF GraphInv, CallSound
<1>3. ApprovalsHeld' /\ ApprovalSpentOnce'
  BY DEF GraphInv, ApprovalsHeld, ApprovalSpentOnce
<1>4. HubEnds' /\ EffectsRecorded'
  BY DEF GraphInv, HubEnds, EffectsRecorded
<1> QED BY <1>1, <1>2, <1>3, <1>4 DEF GraphInv

LEMMA ReleaseParkedInv == GraphInv /\ ReleaseParked => GraphInv'
<1> SUFFICES ASSUME GraphInv, ReleaseParked PROVE GraphInv'
  OBVIOUS
<1>1. /\ UNCHANGED <<kind, polled, calls, tasks, log>>
      /\ effects' \cup parked' \subseteq effects \cup parked
  BY DEF ReleaseParked, Carried, Declined
<1>2. Typed'
  BY <1>1 DEF GraphInv, Typed
<1>3. \A c \in Calls : CallSound(c)'
  BY <1>1 DEF GraphInv, CallSound
<1>4. ApprovalsHeld' /\ ApprovalSpentOnce'
  BY <1>1 DEF GraphInv, ApprovalsHeld, ApprovalSpentOnce
<1>5. HubEnds' /\ EffectsRecorded'
  BY <1>1 DEF GraphInv, HubEnds, EffectsRecorded
<1> QED BY <1>2, <1>3, <1>4, <1>5 DEF GraphInv

\* A call that begins is no other's, and holds no approval unless it has resolved it.
LEMMA SubmitInv ==
  ASSUME GraphInv, NEW c \in Calls, NEW via \in {"hub", "graph"},
         NEW a \in GraphActions(kind), NEW delegate \in BOOLEAN,
         Submit(c, via, a, delegate)
  PROVE  GraphInv'
<1>1. a \in Actions
  BY DEF GraphInv, Typed, Actions
<1>2. /\ calls' \in [Calls -> Call]
      /\ \A d \in Calls : d # c => calls'[d] = calls[d]
      /\ calls'[c].pc = "rebuilding"
      /\ calls'[c].action = a
      /\ calls'[c].task = None
  BY <1>1 DEF GraphInv, Typed, Submit, Call, Pcs
<1>3. UNCHANGED <<kind, polled, tasks, log, parked, effects>> /\ calls[c].pc = "idle"
  BY DEF Submit
<1>4. Typed'
  BY <1>2, <1>3 DEF GraphInv, Typed
<1>5. \A d \in Calls : CallSound(d)'
  BY <1>1, <1>2, <1>3 DEF GraphInv, CallSound
<1>6. ApprovalsHeld'
  BY <1>2, <1>3 DEF GraphInv, ApprovalsHeld
<1>7. ApprovalSpentOnce' /\ EffectsRecorded'
  BY <1>3 DEF GraphInv, ApprovalSpentOnce, EffectsRecorded
<1>8. HubEnds'
  BY <1>2, <1>3 DEF GraphInv, HubEnds, Typed, MeshRequest
<1> QED BY <1>4, <1>5, <1>6, <1>7, <1>8 DEF GraphInv

LEMMA ResolveInv ==
  ASSUME GraphInv, NEW c \in Calls, NEW t \in Calls,
         NEW resolution \in {"Approved", "Rejected"}, Resolve(c, t, resolution)
  PROVE  GraphInv'
<1>1. /\ UNCHANGED <<kind, polled, log, parked, effects>>
      /\ calls[c].pc = "idle"
      /\ tasks[t].status = "Pending"
  BY DEF Resolve
<1>2. /\ tasks' \in [Calls -> Task]
      /\ tasks'[t].status = resolution
      /\ tasks'[t].action = tasks[t].action
      /\ \A d \in Calls : d # t => tasks'[d] = tasks[d]
  BY DEF GraphInv, Typed, Resolve, Task, Statuses
<1>3. tasks[t].action \in Actions /\ calls[t].pc = "done" /\ t # c
  BY <1>1 DEF GraphInv, CallSound
<1>4. /\ calls' \in [Calls -> Call]
      /\ \A d \in Calls : d # c => calls'[d] = calls[d]
      /\ \/ calls'[c] = Finished
         \/ /\ calls'[c].pc = "rebuilding"
            /\ calls'[c].via = "graph"
            /\ calls'[c].action = tasks[t].action
            /\ calls'[c].task = t
            /\ resolution = "Approved"
  <2>1. CASE resolution = "Rejected"
    BY <2>1, CallTypes DEF GraphInv, Typed, Resolve
  <2>2. CASE resolution = "Approved"
    <3>1. [pc |-> "rebuilding", via |-> "graph", action |-> tasks[t].action,
           delegate |-> tasks[t].delegate, task |-> t, seen |-> polled] \in Call
      BY <1>3 DEF GraphInv, Typed, Call, Task, Pcs
    <3> QED BY <2>2, <3>1 DEF GraphInv, Typed, Resolve
  <2> QED BY <2>1, <2>2
<1>5. /\ \A d \in Calls : calls[d].task # t
      /\ \A r \in log : r.task # t
      /\ t # None
  BY <1>1, CallsAssumption DEF GraphInv, CallSound, ApprovalSpentOnce
<1>6. Typed'
  BY <1>1, <1>2, <1>4 DEF GraphInv, Typed
<1>7. ASSUME NEW d \in Calls PROVE CallSound(d)'
  <2>1. CASE d = c
    BY <2>1, <1>1, <1>2, <1>3, <1>4, CallTypes DEF GraphInv, CallSound
  <2>2. CASE d # c
    <3>1. calls[d].task # None => calls[d].task \in Calls
      BY DEF GraphInv, Typed, Call
    <3>2. tasks'[d].status # "none" => tasks[d].status # "none" /\ tasks'[d].action = tasks[d].action
      BY <1>1, <1>2
    <3> QED BY <2>2, <3>1, <3>2, <1>1, <1>2, <1>4, <1>5 DEF GraphInv, CallSound
  <2> QED BY <2>1, <2>2
<1>8. ApprovalsHeld'
  BY <1>1, <1>4, <1>5, CallTypes DEF GraphInv, ApprovalsHeld
<1>9. ApprovalSpentOnce'
  <2>1. \A r \in log : r.task # None => r.task \in Calls
    BY DEF GraphInv, Typed, Command
  <2> QED BY <2>1, <1>1, <1>2, <1>5 DEF GraphInv, ApprovalSpentOnce
<1>10. HubEnds'
  BY <1>1, <1>4 DEF GraphInv, HubEnds, Typed, MeshRequest
<1>11. EffectsRecorded'
  BY <1>1, <1>2 DEF GraphInv, EffectsRecorded, Typed, MeshRequest
<1> QED BY <1>6, <1>7, <1>8, <1>9, <1>10, <1>11 DEF GraphInv

\* End(c) in the form of EndCalls.
LEMMA EndInv ==
  ASSUME GraphInv, NEW c \in Calls, End(c),
         UNCHANGED <<kind, tasks, log, parked, effects>>, polled' = polled
  PROVE  GraphInv'
<1>1. calls' = [d \in Calls |-> IF d \in {c} THEN Finished ELSE calls[d]]
  BY DEF End, GraphInv, Typed
<1> QED BY <1>1, EndCalls

LEMMA JudgeParksInv ==
  ASSUME GraphInv, NEW c \in Calls, JudgeParks(c)
  PROVE  GraphInv'
<1>1. /\ UNCHANGED <<kind, polled, log, parked, effects>>
      /\ calls[c].pc = "judging"
      /\ calls[c].task = None
  BY DEF JudgeParks
<1>2. calls[c] \in Call /\ calls[c].action \in Actions
  BY <1>1 DEF GraphInv, CallSound, Typed
<1>3. /\ tasks' \in [Calls -> Task]
      /\ tasks'[c].action \in Actions
      /\ \A d \in Calls : d # c => tasks'[d] = tasks[d]
  BY <1>2 DEF GraphInv, Typed, JudgeParks, Task, Statuses, Call
<1>4. /\ calls' \in [Calls -> Call]
      /\ calls'[c] = Finished
      /\ \A d \in Calls : d # c => calls'[d] = calls[d]
  BY CallTypes DEF GraphInv, Typed, JudgeParks, End
<1>5. tasks[c].status = "none"
  BY <1>1 DEF GraphInv, CallSound
<1>6. /\ \A d \in Calls : calls[d].task # c
      /\ \A r \in log : r.task # c
      /\ \A e \in effects \cup parked : e.channel = "hub" => e.call # c
  BY <1>1, <1>5, CallsAssumption
     DEF GraphInv, CallSound, ApprovalSpentOnce, HubEnds
<1>7. Typed'
  BY <1>1, <1>3, <1>4 DEF GraphInv, Typed
<1>8. ASSUME NEW d \in Calls PROVE CallSound(d)'
  <2>1. CASE d = c
    BY <2>1, <1>3, <1>4, CallTypes DEF CallSound
  <2>2. CASE d # c
    <3>1. calls[d].task # None => calls[d].task \in Calls
      BY DEF GraphInv, Typed, Call
    <3> QED BY <2>2, <3>1, <1>1, <1>3, <1>4, <1>6 DEF GraphInv, CallSound
  <2> QED BY <2>1, <2>2
<1>9. ApprovalsHeld'
  BY <1>1, <1>4, CallTypes DEF GraphInv, ApprovalsHeld
<1>10. ApprovalSpentOnce'
  <2>1. \A r \in log : r.task # None => r.task \in Calls
    BY DEF GraphInv, Typed, Command
  <2> QED BY <2>1, <1>1, <1>3, <1>6 DEF GraphInv, ApprovalSpentOnce
<1>11. HubEnds'
  BY <1>1, <1>4, <1>6 DEF GraphInv, HubEnds, Typed, MeshRequest
<1>12. EffectsRecorded'
  BY <1>1, <1>3, <1>6 DEF GraphInv, EffectsRecorded, Typed, MeshRequest
<1> QED BY <1>7, <1>8, <1>9, <1>10, <1>11, <1>12 DEF GraphInv

LEMMA HandleInv ==
  ASSUME GraphInv, NEW c \in Calls, Handle(c)
  PROVE  GraphInv'
<1>1. CASE Rebuild(c)
  <2>1. CASE End(c)
    BY <1>1, <2>1, EndInv DEF Rebuild
  <2>2. CASE calls' = [calls EXCEPT ![c].pc = "judging"]
    BY <1>1, <2>2, MoveOn DEF Rebuild
  <2> QED BY <1>1, <2>1, <2>2 DEF Rebuild
<1>2. CASE JudgeDenied(c)
  BY <1>2, EndInv DEF JudgeDenied
<1>3. CASE JudgeParks(c)
  BY <1>3, JudgeParksInv
<1>4. CASE JudgeAllowed(c)
  <2>1. CASE Record(c)
    <3>1. parked' \subseteq MeshRequest /\ effects' \subseteq MeshRequest
      BY <1>4 DEF JudgeAllowed, GraphInv, Typed
    <3> QED BY <1>4, <2>1, <3>1, RecordStep DEF JudgeAllowed
  <2>2. CASE calls' = [calls EXCEPT ![c].pc = "delegating"] /\ UNCHANGED log
    BY <1>4, <2>2, MoveOn DEF JudgeAllowed
  <2> QED BY <1>4, <2>1, <2>2 DEF JudgeAllowed
<1>5. ASSUME NEW answer \in MeshAnswers, Delegate(c, answer) PROVE GraphInv'
  <2>1. /\ calls[c].pc = "delegating"
        /\ Request(RequestOf(c, "delegation"), answer)
        /\ UNCHANGED <<kind, polled, tasks>>
    BY <1>5 DEF Delegate
  <2>2. /\ RequestOf(c, "delegation") \in MeshRequest
        /\ RequestOf(c, "delegation").channel = "delegation"
    BY <2>1, RequestTypes DEF Channels
  <2>3. /\ parked' \subseteq MeshRequest
        /\ effects' \subseteq MeshRequest
        /\ effects' \cup parked' \subseteq
             effects \cup parked \cup {RequestOf(c, "delegation")}
    BY <2>1, <2>2, RequestAdds DEF GraphInv
  <2>4. CASE Record(c)
    BY <2>1, <2>3, <2>4, RecordStep
  <2>5. CASE End(c) /\ UNCHANGED log
    <3>1. calls' = [d \in Calls |-> IF d = c THEN Finished ELSE calls[d]]
      BY <2>5 DEF End, GraphInv, Typed
    <3>2. calls' \in [Calls -> Call]
      BY <3>1, CallTypes DEF GraphInv, Typed
    <3>3. Typed'
      BY <2>1, <2>3, <2>5, <3>2 DEF GraphInv, Typed
    <3>4. \A d \in Calls : CallSound(d)'
      BY <2>1, <2>5, <3>1, CallTypes DEF GraphInv, CallSound
    <3>5. ApprovalsHeld' /\ ApprovalSpentOnce'
      BY <2>1, <2>5, <3>1, CallTypes DEF GraphInv, ApprovalsHeld, ApprovalSpentOnce
    <3>6. HubEnds' /\ EffectsRecorded'
      <4>1. \A e \in effects' \cup parked' :
              e.channel = "hub" => e \in effects \cup parked /\ e.call \in Calls
        BY <2>2, <2>3 DEF GraphInv, Typed, MeshRequest
      <4> QED BY <4>1, <2>1, <2>5, <3>1, CallTypes DEF GraphInv, HubEnds, EffectsRecorded
    <3> QED BY <3>3, <3>4, <3>5, <3>6 DEF GraphInv
  <2> QED BY <1>5, <2>4, <2>5 DEF Delegate
<1>6. ASSUME NEW answer \in MeshAnswers, HubExecute(c, answer) PROVE GraphInv'
  <2> DEFINE request == RequestOf(c, "hub")
  <2>1. /\ calls[c].pc = "executing"
        /\ Request(request, answer)
        /\ UNCHANGED <<kind, polled, tasks, log>>
        /\ calls' = [d \in Calls |-> IF d = c THEN Finished ELSE calls[d]]
    BY <1>6 DEF HubExecute, End, GraphInv, Typed
  <2>2. /\ request \in MeshRequest
        /\ request.call = c
        /\ request.action = calls[c].action
    BY <2>1, RequestTypes DEF Channels
  <2> HIDE DEF request
  <2>3. /\ parked' \subseteq MeshRequest
        /\ effects' \subseteq MeshRequest
        /\ effects' \cup parked' \subseteq effects \cup parked \cup {request}
    BY <2>1, <2>2, RequestAdds DEF GraphInv
  <2>4. Typed'
    BY <2>1, <2>3, CallTypes DEF GraphInv, Typed
  <2>5. \A d \in Calls : CallSound(d)'
    BY <2>1, CallTypes DEF GraphInv, CallSound
  <2>6. ApprovalsHeld' /\ ApprovalSpentOnce'
    BY <2>1, CallTypes DEF GraphInv, ApprovalsHeld, ApprovalSpentOnce
  <2>7. /\ \E r \in log : r.call = c /\ r.action = calls[c].action
        /\ tasks[c].status = "none"
    BY <2>1 DEF GraphInv, CallSound
  <2>8. HubEnds'
    BY <2>1, <2>2, <2>3, CallTypes DEF GraphInv, HubEnds, Typed, MeshRequest
  <2>9. EffectsRecorded'
    BY <2>1, <2>2, <2>3, <2>7 DEF GraphInv, EffectsRecorded
  <2> QED BY <2>4, <2>5, <2>6, <2>8, <2>9 DEF GraphInv
<1> QED BY <1>1, <1>2, <1>3, <1>4, <1>5, <1>6 DEF Handle

LEMMA GraphCrashInv == GraphInv /\ GraphCrash => GraphInv'
<1> SUFFICES ASSUME GraphInv, GraphCrash PROVE GraphInv'
  OBVIOUS
<1> DEFINE S == {c \in Calls : calls[c].pc \in {"rebuilding", "judging", "delegating"}}
<1>1. calls' = [d \in Calls |-> IF d \in S THEN Finished ELSE calls[d]]
  BY DEF GraphCrash
<1> QED BY <1>1, EndCalls DEF GraphCrash

LEMMA HubCrashInv == GraphInv /\ HubCrash => GraphInv'
<1> SUFFICES ASSUME GraphInv, HubCrash PROVE GraphInv'
  OBVIOUS
<1>1. UNCHANGED <<kind, polled, tasks, log, parked, effects>>
  BY DEF HubCrash
<1>2. ASSUME NEW d \in Calls
      PROVE  /\ calls'[d] \in Call
             /\ \/ calls'[d] = Finished
                \/ /\ calls[d].pc # "executing"
                   /\ calls'[d].pc = calls[d].pc
                   /\ calls'[d].action = calls[d].action
                   /\ calls'[d].task = calls[d].task
                   /\ calls'[d].via = "graph"
  <2>1. CASE calls[d].pc = "executing"
    BY <2>1, CallTypes DEF HubCrash
  <2>2. CASE calls[d].pc # "executing"
    <3>1. calls'[d] = [calls[d] EXCEPT !.via = "graph"] /\ calls[d] \in Call
      BY <2>2 DEF HubCrash, GraphInv, Typed
    <3> QED BY <2>2, <3>1 DEF Call
  <2> QED BY <2>1, <2>2
<1>3. DOMAIN calls' = Calls /\ calls' = [d \in Calls |-> calls'[d]]
  BY DEF HubCrash
<1>4. Typed'
  BY <1>1, <1>2, <1>3 DEF GraphInv, Typed
<1>5. ASSUME NEW d \in Calls PROVE CallSound(d)'
  BY <1>1, <1>2, CallTypes DEF GraphInv, CallSound
<1>6. ApprovalsHeld' /\ ApprovalSpentOnce'
  BY <1>1, <1>2, CallTypes DEF GraphInv, ApprovalsHeld, ApprovalSpentOnce
<1>7. HubEnds' /\ EffectsRecorded'
  BY <1>1, <1>2, CallTypes DEF GraphInv, HubEnds, EffectsRecorded, Typed, MeshRequest
<1> QED BY <1>4, <1>5, <1>6, <1>7 DEF GraphInv

-----------------------------------------------------------------------------
(* The theorems.                                                           *)

\* GraphInv holds in every reachable state, whatever is requested, resolved,
\* delegated, lost or crashes, and whatever the tables say.
THEOREM GraphSafe == Spec => []GraphInv
<1>1. ASSUME GraphInv, [Next]_vars PROVE GraphInv'
  <2>1. CASE ErpMove
    BY <1>1, <2>1, OthersInv DEF ErpMove, GraphInv, Typed
  <2>2. CASE Poll
    BY <1>1, <2>2, OthersInv DEF Poll, GraphInv, Typed
  <2>3. CASE ReleaseParked
    BY <1>1, <2>3, ReleaseParkedInv
  <2>4. CASE GraphCrash
    BY <1>1, <2>4, GraphCrashInv
  <2>5. CASE HubCrash
    BY <1>1, <2>5, HubCrashInv
  <2>6. ASSUME NEW c \in Calls, Handle(c) PROVE GraphInv'
    BY <1>1, <2>6, HandleInv
  <2>7. ASSUME NEW c \in Calls, NEW via \in {"hub", "graph"}, NEW a \in GraphActions(kind),
               NEW delegate \in BOOLEAN, Submit(c, via, a, delegate)
        PROVE  GraphInv'
    BY <1>1, <2>7, SubmitInv
  <2>8. ASSUME NEW c \in Calls, NEW t \in Calls, NEW resolution \in {"Approved", "Rejected"},
               Resolve(c, t, resolution)
        PROVE  GraphInv'
    BY <1>1, <2>8, ResolveInv
  <2>9. CASE UNCHANGED vars
    BY <1>1, <2>9, OthersInv DEF vars, GraphInv, Typed
  <2> QED BY <1>1, <2>1, <2>2, <2>3, <2>4, <2>5, <2>6, <2>7, <2>8, <2>9 DEF Next
<1> QED BY <1>1, InitInv, PTL DEF Spec

\* An approval of the process graph is spent on at most one command.
THEOREM ApprovalIsSpentOnce == Spec => []ApprovalSpentOnce
<1>1. GraphInv => ApprovalSpentOnce
  BY DEF GraphInv
<1> QED BY <1>1, GraphSafe, PTL

\* What the hub makes the ERP do has been recorded, and was not parked.
THEOREM HubEffectsAreRecorded == Spec => []EffectsRecorded
<1>1. GraphInv => EffectsRecorded
  BY DEF GraphInv
<1> QED BY <1>1, GraphSafe, PTL

-----------------------------------------------------------------------------
(* The tables.  What the prover needs of them it works out case by case.   *)

\* The types of aggregate that the tables of the services are about.
LEMMA TheKinds ==
  Kinds = {"requisition", "purchaseOrder", "goodsReceipt", "supplier", "supplierInvoice",
           "apPayment", "quote", "salesOrder", "arInvoice", "arPayment", "journal",
           "fiscalPeriod", "employee", "assignment", "credential", "customer", "shipment",
           "fiscalYear", "project"}
BY DEF Kinds, ErpMoves

\* The types that each of the reducers has a table for.
LEMMA TheReducers ==
  /\ DOMAIN P2PReducer = {"requisition", "purchaseOrder", "goodsReceipt", "supplier",
                          "supplierInvoice", "apPayment"}
  /\ DOMAIN O2CReducer = {"quote", "salesOrder", "arInvoice", "arPayment"}
  /\ DOMAIN R2RReducer = {"journal", "fiscalPeriod"}
  /\ DOMAIN H2RReducer = {"employee", "assignment", "credential"}
BY DEF P2PReducer, O2CReducer, R2RReducer, H2RReducer

\* The reducer of k gives the event that announces state s the graph's name of s.
Fits(k, s) ==
  /\ s \in DOMAIN Reducer[k]
  /\ Reducer[k][s] =
       CASE k = "purchaseOrder" /\ s = "Sent"    -> "Issued"
         [] k = "arInvoice" /\ s = "PartPaid"    -> "PartiallyPaid"
         [] k = "arInvoice" /\ s = "Paid"        -> "FullyPaid"
         [] k = "fiscalPeriod" /\ s = "Closing"  -> "PendingClose"
         [] OTHER                                -> s

\* A move of the ERP announces a state that the reducer knows.
LEMMA MovesFit == \A k \in Mirrored : \A m \in ErpMoves[k] : Fits(k, m[3])
<1>1. \A k \in {"requisition", "goodsReceipt", "supplier"} :
        \A m \in ErpMoves[k] : Fits(k, m[3])
  BY TheKinds, TheReducers
     DEF ErpMoves, Reducer, Fits, With, Same, P2PReducer, RequisitionMoves,
         GoodsReceiptMoves, SupplierMoves
<1>2. \A m \in ErpMoves["purchaseOrder"] : Fits("purchaseOrder", m[3])
  BY TheKinds, TheReducers
     DEF ErpMoves, Reducer, Fits, With, Same, P2PReducer, PurchaseOrderMoves,
         ReceiptMovesOrder
<1>3. \A m \in ErpMoves["salesOrder"] : Fits("salesOrder", m[3])
  BY TheKinds, TheReducers
     DEF ErpMoves, Reducer, Fits, With, Same, O2CReducer, SalesOrderMoves
<1>4. \A m \in ErpMoves["arInvoice"] : Fits("arInvoice", m[3])
  BY TheKinds, TheReducers
     DEF ErpMoves, Reducer, Fits, With, Same, O2CReducer, ArInvoiceMoves
<1>5. \A m \in ErpMoves["fiscalPeriod"] : Fits("fiscalPeriod", m[3])
  BY TheKinds, TheReducers
     DEF ErpMoves, Reducer, Fits, With, Same, R2RReducer, FiscalPeriodMoves
<1>6. \A k \in {"employee", "assignment", "credential"} :
        \A m \in ErpMoves[k] : Fits(k, m[3])
  BY TheKinds, TheReducers
     DEF ErpMoves, Reducer, Fits, With, Same, H2RReducer, EmployeeMoves, AssignmentMoves,
         CredentialMoves
<1> QED
  BY <1>1, <1>2, <1>3, <1>4, <1>5, <1>6 DEF Mirrored

\* So does its creation, in one event; only that of an employee may announce another
\* state than the one it begins in.
LEMMA BirthsFit ==
  \A k \in Mirrored : \A b \in Births[k] :
    /\ Fits(k, b[1])
    /\ b[2] = <<b[1]>> \/ (k = "employee" /\ b[2] = <<"Candidate">>)
BY TheKinds, TheReducers
   DEF Mirrored, Births, Reducer, Fits, With, Same, P2PReducer, O2CReducer, R2RReducer,
       H2RReducer

LEMMA FitsAgain == \A s : Fits(kind, s) => Reducer[kind][s] = Canonical(s)
BY DEF Fits, Canonical

-----------------------------------------------------------------------------
(* What the graph sees of an object's past.                                *)

\* The states that the object can have in the ERP, and the changes that lead to them.
ErpStates == {b[1] : b \in Births[kind]} \cup {m[3] : m \in ErpMoves[kind]}
Changes ==
  {[state |-> b[1], events |-> b[2]] : b \in Births[kind]}
    \cup {[state |-> m[3], events |-> <<m[3]>>] : m \in ErpMoves[kind]}

\* The object has had a state from the start, each by a birth or a move; the ledger
\* holds the events that announced them, one for each, as far as it has been polled.
Chronicle ==
  /\ history \in Seq(Changes) /\ history # <<>>
  /\ polled <= Len(history)
  /\ kind \in Mirrored =>
       /\ ledger \in Seq(ErpStates)
       /\ Len(ledger) = polled
       /\ \A i \in 1 .. polled : history[i].events = <<ledger[i]>>

\* State s is announced as e.
Tells(s, e) == e = s \/ (kind = "employee" /\ e = "Candidate")

LEMMA ChangeIs ==
  ASSUME NEW h \in Changes
  PROVE  /\ h.state \in ErpStates
         /\ kind \in Mirrored => \E e \in ErpStates : Tells(h.state, e) /\ h.events = <<e>>
<1>1. ASSUME NEW b \in Births[kind], h = [state |-> b[1], events |-> b[2]], kind \in Mirrored
      PROVE  \E e \in ErpStates : Tells(h.state, e) /\ h.events = <<e>>
  <2>1. kind = "employee" => "Candidate" \in ErpStates
    BY TheKinds DEF ErpStates, Births
  <2> QED
    BY <1>1, <2>1, BirthsFit DEF ErpStates, Tells
<1> QED
  BY <1>1 DEF Changes, ErpStates, Tells

LEMMA InitChronicle == Init => Chronicle
<1> SUFFICES ASSUME Init PROVE Chronicle
  OBVIOUS
<1>1. PICK h \in Changes : history = <<h>>
  BY DEF Init, Changes
<1> QED
  BY <1>1 DEF Init, Chronicle

\* The ERP's part of a step: the object stays as it is, or moves by the ERP's table.
LEMMA HistorySteps ==
  ASSUME [Next]_vars
  PROVE  \/ history' = history
         \/ \E m \in ErpMoves[kind] : history' = Announce(m)
<1>1. ASSUME NEW request, Carried(request)
      PROVE  \E m \in ErpMoves[kind] : history' = Announce(m)
  BY <1>1 DEF Carried
<1>2. ASSUME NEW request, Declined(request) PROVE history' = history
  BY <1>2 DEF Declined
<1>3. ASSUME NEW request, NEW answer, Request(request, answer)
      PROVE  \/ history' = history
             \/ \E m \in ErpMoves[kind] : history' = Announce(m)
  BY <1>1, <1>2, <1>3 DEF Request
<1>4. ASSUME NEW c \in Calls, Handle(c)
      PROVE  \/ history' = history
             \/ \E m \in ErpMoves[kind] : history' = Announce(m)
  BY <1>3, <1>4
     DEF Handle, Rebuild, JudgeDenied, JudgeParks, JudgeAllowed, Delegate, HubExecute
<1> QED
  BY <1>1, <1>2, <1>4
     DEF Next, ErpMove, Poll, ReleaseParked, GraphCrash, HubCrash, Submit, Resolve, vars

LEMMA PollSteps ==
  ASSUME [Next]_vars
  PROVE  /\ kind' = kind
         /\ Poll \/ (polled' = polled /\ ledger' = ledger)
<1>1. ASSUME NEW c \in Calls, Handle(c) PROVE UNCHANGED <<kind, polled, ledger>>
  BY <1>1 DEF Handle, Rebuild, JudgeDenied, JudgeParks, JudgeAllowed, Delegate, HubExecute
<1> QED
  BY <1>1
     DEF Next, ErpMove, Poll, ReleaseParked, GraphCrash, HubCrash, Submit, Resolve, vars

LEMMA NextChronicle == GraphInv /\ Chronicle /\ [Next]_vars => Chronicle'
<1> SUFFICES ASSUME GraphInv, Chronicle, [Next]_vars
             PROVE  Chronicle'
  OBVIOUS
<1>1. kind' = kind /\ ErpStates' = ErpStates /\ Changes' = Changes /\ polled \in Nat
  BY PollSteps DEF ErpStates, Changes, GraphInv, Typed
<1>2. /\ history \in Seq(Changes) /\ history # <<>>
      /\ polled <= Len(history)
  BY DEF Chronicle
<1>3. /\ history' \in Seq(Changes) /\ history' # <<>>
      /\ Len(history) <= Len(history')
      /\ \A i \in 1 .. Len(history) : history'[i] = history[i]
  <2>1. CASE history' = history
    BY <1>2, <2>1
  <2>2. ASSUME NEW m \in ErpMoves[kind], history' = Announce(m)
        PROVE  /\ history' \in Seq(Changes) /\ history' # <<>>
               /\ Len(history) <= Len(history')
               /\ \A i \in 1 .. Len(history) : history'[i] = history[i]
    <3>1. PICK h \in Changes : history' = Append(history, h)
      BY <2>2 DEF Announce, Changes
    <3> QED
      BY <1>2, <3>1
  <2> QED
    BY <2>1, <2>2, HistorySteps
<1>4. polled' \in Nat /\ polled' <= Len(history')
  BY <1>1, <1>2, <1>3, PollSteps DEF Poll
<1>5. ASSUME kind \in Mirrored
      PROVE  /\ ledger' \in Seq(ErpStates)
             /\ Len(ledger') = polled'
             /\ \A i \in 1 .. polled' : history'[i].events = <<ledger'[i]>>
  <2>1. /\ ledger \in Seq(ErpStates)
        /\ Len(ledger) = polled
        /\ \A i \in 1 .. polled : history'[i].events = <<ledger[i]>>
    BY <1>1, <1>2, <1>3, <1>5 DEF Chronicle
  <2>2. CASE Poll
    <3>1. polled < Len(history) /\ polled' = polled + 1
      BY <2>2 DEF Poll
    <3>2. PICK s \in ErpStates : history[polled + 1].events = <<s>>
      <4>1. history[polled + 1] \in Changes
        BY <1>1, <1>2, <3>1
      <4> QED
        BY <1>5, <4>1, ChangeIs
    <3>3. Orderings(<<s>>) = {<<s>>}
      BY DEF Orderings
    <3>4. ledger' = ledger \o <<s>>
      <4>1. PICK e \in Orderings(history[polled + 1].events) : ledger' = ledger \o e
        BY <2>2 DEF Poll
      <4>2. e = <<s>>
        BY <3>2, <3>3
      <4> QED
        BY <4>1, <4>2
    <3>5. /\ ledger' \in Seq(ErpStates) /\ Len(ledger') = polled + 1
          /\ ledger'[polled + 1] = s
          /\ \A i \in 1 .. polled : ledger'[i] = ledger[i]
      BY <1>1, <2>1, <3>4
    <3>6. history'[polled + 1].events = <<s>>
      BY <1>1, <1>2, <1>3, <3>1, <3>2
    <3>7. ASSUME NEW i \in 1 .. polled + 1 PROVE history'[i].events = <<ledger'[i]>>
      <4>1. CASE i = polled + 1
        BY <3>5, <3>6, <4>1
      <4>2. CASE i \in 1 .. polled
        BY <2>1, <3>5, <4>2
      <4> QED
        BY <1>1, <4>1, <4>2
    <3> QED
      BY <3>1, <3>5, <3>7
  <2>3. CASE polled' = polled /\ ledger' = ledger
    BY <2>1, <2>3
  <2> QED
    BY <2>2, <2>3, PollSteps
<1> QED
  BY <1>1, <1>3, <1>4, <1>5 DEF Chronicle

\* What is replayed of a stream that the ledger returns as a whole is the last state
\* that was polled, as it was announced.
LEMMA ReplayedIs ==
  ASSUME GraphInv, Chronicle, kind \in Mirrored, StreamWhole, polled > 0
  PROVE  Rebuilt \in {Canonical(e) : e \in {e \in ErpStates : Tells(history[polled].state, e)}}
<1>1. /\ ledger \in Seq(ErpStates) /\ Len(ledger) = polled /\ polled \in Nat
      /\ history \in Seq(Changes) /\ polled <= Len(history)
      /\ history[polled].events = <<ledger[polled]>>
  BY DEF Chronicle, GraphInv, Typed
<1>2. DOMAIN Stream = 1 .. polled /\ \A i \in 1 .. polled : Stream[i] = ledger[i]
  BY <1>1 DEF Stream, StreamWhole
<1>3. \A i \in 1 .. polled : Fits(kind, ledger[i])
  <2>1. \A s \in ErpStates : Fits(kind, s)
    BY MovesFit, BirthsFit DEF ErpStates
  <2> QED
    BY <1>1, <2>1
<1>4. {i \in DOMAIN Stream : Stream[i] \in DOMAIN Reducer[kind]} = 1 .. polled
  BY <1>2, <1>3 DEF Fits
<1>5. (CHOOSE i \in 1 .. polled : \A j \in 1 .. polled : j <= i) = polled
  BY <1>1
<1>6. Rebuilt = Reducer[kind][Stream[polled]]
  BY <1>1, <1>4, <1>5 DEF Rebuilt
<1>7. Rebuilt = Canonical(ledger[polled])
  BY <1>1, <1>2, <1>3, <1>6, FitsAgain
<1>8. ledger[polled] \in ErpStates /\ Tells(history[polled].state, ledger[polled])
  <2>1. history[polled] \in Changes /\ ledger[polled] \in ErpStates
    BY <1>1
  <2>2. PICK e \in ErpStates :
          Tells(history[polled].state, e) /\ history[polled].events = <<e>>
    BY <2>1, ChangeIs
  <2>3. e = ledger[polled]
    <3>1. <<e>> = <<ledger[polled]>>
      BY <1>1, <2>2
    <3> QED
      BY <3>1
  <2> QED
    BY <2>1, <2>2, <2>3
<1> QED
  BY <1>7, <1>8

LEMMA RebuiltIs ==
  ASSUME GraphInv, Chronicle, kind \in Complete, StreamWhole, polled > 0
  PROVE  Rebuilt = Canonical(history[polled].state)
<1>1. kind \in Mirrored /\ kind # "employee"
  BY DEF Complete, Mirrored
<1> QED
  BY <1>1, ReplayedIs DEF Tells

-----------------------------------------------------------------------------
(* What a recorded command was judged by.                                  *)

\* Since the poll that was the last when the request came in, the object has been in
\* a state in which the graph offers the action.
Legal(seen, a) ==
  \E i \in DOMAIN history : i >= seen /\ Offers(kind, Canonical(history[i].state), a)

\* A call that the graph has let pass, and what it has recorded of it.
Judged ==
  /\ \A c \in Calls : calls[c].seen <= polled
  /\ kind \in Complete /\ StreamWhole =>
       /\ \A c \in Calls : calls[c].pc \in {"judging", "delegating"} =>
            Legal(calls[c].seen, calls[c].action)
       /\ \A r \in log : Legal(r.seen, r.action)

\* What a step does to a call, as far as that is concerned: it keeps its question or
\* is asked another, and is let pass by Rebuild.
Asks(c) ==
  /\ calls'[c].seen \in {calls[c].seen, 0, polled}
  /\ calls'[c].pc \in {"judging", "delegating"} =>
       /\ calls'[c].seen = calls[c].seen /\ calls'[c].action = calls[c].action
       /\ \/ calls[c].pc \in {"judging", "delegating"}
          \/ ledger # <<>> /\ Offers(kind, Rebuilt, calls[c].action)

LEMMA CallSteps ==
  ASSUME GraphInv, [Next]_vars, NEW c \in Calls
  PROVE  Asks(c)
<1>1. calls \in [Calls -> Call] /\ calls[c].seen \in Nat
  BY DEF GraphInv, Typed, Call
<1>2. Finished.pc = "done" /\ Finished.seen = 0
  BY DEF Finished, IdleCall
<1>3. CASE calls'[c] = calls[c]
  BY <1>3 DEF Asks
<1>4. CASE calls'[c] = Finished
  BY <1>2, <1>4 DEF Asks
<1>5. ASSUME NEW pc \in Pcs, calls'[c] = [calls[c] EXCEPT !.pc = pc],
             \/ pc \notin {"judging", "delegating"}
             \/ calls[c].pc \in {"judging", "delegating"}
             \/ ledger # <<>> /\ Offers(kind, Rebuilt, calls[c].action)
      PROVE  Asks(c)
  <2>1. /\ calls'[c].pc = pc /\ calls'[c].seen = calls[c].seen
        /\ calls'[c].action = calls[c].action
    BY <1>1, <1>5 DEF Call
  <2> QED
    BY <1>5, <2>1 DEF Asks
<1>6. ASSUME NEW d \in Calls, Handle(d) PROVE Asks(c)
  <2>1. CASE End(d)
    BY <1>1, <1>3, <1>4, <2>1 DEF End
  <2>2. CASE Rebuild(d)
    BY <1>1, <1>3, <1>5, <2>1, <2>2 DEF Rebuild, Pcs
  <2>3. CASE Record(d) /\ calls[d].pc \in {"judging", "delegating"}
    BY <1>1, <1>3, <1>5, <2>1, <2>3 DEF Record, Pcs
  <2>4. CASE JudgeAllowed(d)
    BY <1>1, <1>3, <1>5, <2>3, <2>4 DEF JudgeAllowed, Pcs
  <2> QED
    BY <1>6, <2>1, <2>2, <2>3, <2>4
       DEF Handle, JudgeDenied, JudgeParks, Delegate, HubExecute
<1>7. ASSUME NEW d \in Calls, NEW via \in {"hub", "graph"}, NEW a \in GraphActions(kind),
             NEW delegate \in BOOLEAN, Submit(d, via, a, delegate)
      PROVE  Asks(c)
  BY <1>1, <1>3, <1>7 DEF Submit, Asks
<1>8. ASSUME NEW d \in Calls, NEW t \in Calls, NEW resolution \in {"Approved", "Rejected"},
             Resolve(d, t, resolution)
      PROVE  Asks(c)
  <2>1. CASE resolution = "Rejected"
    BY <1>1, <1>3, <1>4, <1>8, <2>1 DEF Resolve
  <2>2. CASE resolution = "Approved"
    BY <1>1, <1>3, <1>8, <2>2 DEF Resolve, Asks
  <2> QED
    BY <2>1, <2>2
<1>9. CASE GraphCrash
  BY <1>3, <1>4, <1>9 DEF GraphCrash
<1>10. CASE HubCrash
  <2>1. CASE calls[c].pc = "executing"
    BY <1>4, <1>10, <2>1 DEF HubCrash
  <2>2. CASE calls[c].pc # "executing"
    <3>1. calls'[c] = [calls[c] EXCEPT !.via = "graph"]
      BY <1>10, <2>2 DEF HubCrash
    <3>2. /\ calls'[c].pc = calls[c].pc /\ calls'[c].seen = calls[c].seen
          /\ calls'[c].action = calls[c].action
      BY <1>1, <3>1 DEF Call
    <3> QED
      BY <3>2 DEF Asks
  <2> QED
    BY <2>1, <2>2
<1> QED
  BY <1>3, <1>6, <1>7, <1>8, <1>9, <1>10 DEF Next, ErpMove, Poll, ReleaseParked, vars

\* A command that is new in the log is one that a call was let pass with.
LEMMA LogSteps ==
  ASSUME GraphInv, [Next]_vars, NEW r \in log', r \notin log
  PROVE  \E c \in Calls : /\ calls[c].pc \in {"judging", "delegating"}
                          /\ r.seen = calls[c].seen /\ r.action = calls[c].action
<1>1. ASSUME NEW c \in Calls, Record(c)
      PROVE  r.seen = calls[c].seen /\ r.action = calls[c].action
  BY <1>1 DEF Record, CommandOf
<1>2. ASSUME NEW c \in Calls, Handle(c)
      PROVE  /\ calls[c].pc \in {"judging", "delegating"}
             /\ r.seen = calls[c].seen /\ r.action = calls[c].action
  BY <1>1, <1>2
     DEF Handle, Rebuild, JudgeDenied, JudgeParks, JudgeAllowed, Delegate, HubExecute
<1> QED
  BY <1>2
     DEF Next, ErpMove, Poll, ReleaseParked, GraphCrash, HubCrash, Submit, Resolve, vars

\* The object's past is only added to.
LEMMA PastStays ==
  ASSUME GraphInv, Chronicle, kind \in Mirrored, [Next]_vars
  PROVE  /\ DOMAIN history \subseteq DOMAIN history'
         /\ \A i \in DOMAIN history : history'[i] = history[i]
         /\ StreamWhole' => StreamWhole
<1>1. /\ history \in Seq(Changes) /\ ledger \in Seq(ErpStates)
      /\ Len(ledger) = polled /\ polled \in Nat
  BY DEF Chronicle, GraphInv, Typed
<1>2. ASSUME NEW m, history' = Announce(m)
      PROVE  /\ DOMAIN history \subseteq DOMAIN history'
             /\ \A i \in DOMAIN history : history'[i] = history[i]
  BY <1>1, <1>2 DEF Announce
<1>3. Len(ledger) <= Len(ledger')
  <2>1. Chronicle' /\ kind' = kind
    BY NextChronicle, PollSteps
  <2>2. Len(ledger') = polled'
    BY <2>1 DEF Chronicle
  <2> QED
    BY <1>1, <2>2, PollSteps DEF Poll
<1>4. StreamWhole' => StreamWhole
  <2>1. Len(ledger') \in Nat
    BY <1>1, PollSteps, NextChronicle DEF Chronicle
  <2> QED
    BY <1>1, <1>3, <2>1, BoundsAssumption DEF StreamWhole
<1> QED
  BY <1>2, <1>4, HistorySteps

LEMMA LegalStays ==
  ASSUME GraphInv, Chronicle, kind \in Complete, [Next]_vars, NEW seen, NEW a,
         Legal(seen, a)
  PROVE  Legal(seen, a)'
<1>1. kind' = kind
  BY PollSteps
<1>2. \A s : Canonical(s)' = Canonical(s)
  BY <1>1 DEF Canonical
<1>3. PICK i \in DOMAIN history :
        i >= seen /\ Offers(kind, Canonical(history[i].state), a)
  BY DEF Legal
<1>4. i \in DOMAIN history' /\ history'[i] = history[i]
  BY PastStays DEF Complete, Mirrored
<1> QED
  BY <1>1, <1>3, <1>4 DEF Legal, Canonical

\* What Rebuild lets pass is legal in the last state polled.
LEMMA PassedIsLegal ==
  ASSUME GraphInv, Chronicle, kind \in Complete, StreamWhole, NEW seen \in Nat, NEW a,
         seen <= polled, ledger # <<>>, Offers(kind, Rebuilt, a)
  PROVE  Legal(seen, a)
<1>1. /\ polled \in Nat /\ polled > 0 /\ polled <= Len(history)
      /\ history \in Seq(Changes)
  BY DEF Chronicle, GraphInv, Typed, Complete, Mirrored
<1>2. Rebuilt = Canonical(history[polled].state)
  BY <1>1, RebuiltIs
<1>3. polled \in DOMAIN history
  BY <1>1
<1> QED
  BY <1>2, <1>3 DEF Legal

LEMMA NextJudged == GraphInv /\ Chronicle /\ Judged /\ [Next]_vars => Judged'
<1> SUFFICES ASSUME GraphInv, Chronicle, Judged, [Next]_vars
             PROVE  Judged'
  OBVIOUS
<1>1. ASSUME NEW c \in Calls PROVE calls'[c].seen <= polled'
  <2>1. calls[c].seen \in Nat /\ calls[c].seen <= polled /\ polled \in Nat
    BY DEF Judged, GraphInv, Typed, Call
  <2>2. polled' \in Nat /\ polled <= polled'
    BY <2>1, PollSteps DEF Poll
  <2> QED
    BY <2>1, <2>2, CallSteps DEF Asks
<1>2. ASSUME kind' \in Complete, StreamWhole'
      PROVE  /\ \A c \in Calls : calls'[c].pc \in {"judging", "delegating"} =>
                  Legal(calls[c].seen, calls[c].action)'
             /\ \A r \in log' : Legal(r.seen, r.action)'
  <2>1. kind \in Complete /\ StreamWhole
    BY <1>2, PollSteps, PastStays DEF Complete, Mirrored
  <2>2. /\ \A c \in Calls : calls[c].pc \in {"judging", "delegating"} =>
             Legal(calls[c].seen, calls[c].action)
        /\ \A r \in log : Legal(r.seen, r.action)
    BY <2>1 DEF Judged
  <2>3. ASSUME NEW c \in Calls, calls'[c].pc \in {"judging", "delegating"}
        PROVE  Legal(calls[c].seen, calls[c].action)'
    <3>1. PICK seen \in Nat : /\ seen = calls[c].seen /\ seen = calls'[c].seen
                              /\ seen <= polled
      BY <2>3, CallSteps DEF Asks, Judged, GraphInv, Typed, Call
    <3>2. PICK a : a = calls[c].action /\ a = calls'[c].action
      BY <2>3, CallSteps DEF Asks
    <3>3. Legal(seen, a)
      BY <2>1, <2>2, <2>3, <3>1, <3>2, CallSteps, PassedIsLegal DEF Asks
    <3>4. Legal(seen, a)'
      BY <2>1, <3>1, <3>3, LegalStays
    <3> QED
      BY <3>1, <3>2, <3>4
  <2>4. ASSUME NEW r \in log' PROVE Legal(r.seen, r.action)'
    <3>1. Legal(r.seen, r.action)
      BY <2>2, <2>4, LogSteps
    <3> QED
      BY <2>1, <3>1, LegalStays
  <2> QED
    BY <2>3, <2>4
<1> QED
  BY <1>1, <1>2 DEF Judged

\* The past of an object is a birth and moves of the ERP's table, the ledger holds
\* what announced it as far as it was polled, and every command that was let pass was
\* legal in a state the object has had since (process-graph graph.ts, server.ts).
THEOREM GraphKnowsThePast == Spec => [](Chronicle /\ Judged)
<1>1. Init => Judged
  BY DEF Init, Judged, IdleCall
<1> QED
  BY <1>1, InitChronicle, NextChronicle, NextJudged, GraphSafe, PTL DEF Spec

\* The state that process-graph rebuilds of an object is one that it had in the ERP,
\* behind by the events not polled and by nothing else.
THEOREM RebuiltLags == Spec => []RebuiltLagsOnly
<1>1. GraphInv /\ Chronicle => RebuiltLagsOnly
  BY RebuiltIs DEF RebuiltLagsOnly
<1> QED
  BY <1>1, GraphSafe, GraphKnowsThePast, PTL

\* A command that is recorded was legal in a state that the object had no earlier than
\* the last poll before its request, or before its approval.
THEOREM CommandsAreLegal == Spec => []CommandLegalSince
<1>1. Judged => CommandLegalSince
  BY DEF Judged, CommandLegalSince, Legal
<1> QED
  BY <1>1, GraphKnowsThePast, PTL

-----------------------------------------------------------------------------
(* What is offered, against the ERP's table.                               *)

\* The states that the ERP's moves end in.
Ends ==
  {"Submitted", "Approved", "Rejected", "ConvertedToPO", "Cancelled", "Sent",
   "PartiallyReceived", "FullyReceived", "Closed", "Received", "Accepted", "Active",
   "Suspended", "Validated", "Posted", "Paid", "Applied", "Reconciled", "Expired",
   "ConvertedToOrder", "Shipped", "Delivered", "Confirmed", "Allocated", "Invoiced",
   "PartPaid", "Reversed", "Closing", "Locked", "OnLeave", "Terminated", "Completed",
   "Revoked", "OnHold"}

Leads(k, s, a) == \E r \in Ends : <<s, a, r>> \in ErpMoves[k]

\* States that are spoken of in some table, and that no object of that type ever has.
Never ==
  { <<"arPayment", "Received">>, <<"credential", "Active">>, <<"purchaseOrder", "Issued">>,
    <<"purchaseOrder", "Acknowledged">>, <<"purchaseOrder", "FullyPaid">>,
    <<"fiscalPeriod", "PendingClose">>, <<"employee", "Onboarding">> }

\* The ERP's links of type k, and the tools below, lead where its moves go.
LinksFit(k) ==
  \A link \in Links[k] :
    <<k, link[1]>> \notin Never /\ <<k, link[1], link[2]>> \notin DeadLinks =>
      link[2] \in DOMAIN Routes[k] /\ Leads(k, link[1], Routes[k][link[2]])

ToolsFit(k) ==
  \A tool \in Tools[k] :
    <<k, tool[1]>> \notin Never /\ <<k, tool[1], tool[2]>> \notin DeadTools =>
      Leads(k, tool[1], tool[2])

\* The types that each of the front ends' tables is about.
LEMMA TheTools ==
  /\ DOMAIN SalesTools =
       {"customer", "quote", "salesOrder", "shipment", "arInvoice", "arPayment"}
  /\ DOMAIN PurchaseTools =
       {"requisition", "supplier", "purchaseOrder", "goodsReceipt", "supplierInvoice",
        "apPayment"}
  /\ DOMAIN LedgerTools = {"fiscalYear", "fiscalPeriod", "journal"}
  /\ DOMAIN StaffTools = {"employee", "assignment", "credential"}
BY DEF SalesTools, PurchaseTools, LedgerTools, StaffTools

LEMMA TheRoutes ==
  /\ DOMAIN SalesRoutes = {"customer", "quote", "salesOrder"}
  /\ DOMAIN BillingRoutes = {"shipment", "arInvoice", "arPayment"}
  /\ DOMAIN PurchaseRoutes = {"supplier", "requisition", "purchaseOrder"}
  /\ DOMAIN PayableRoutes = {"goodsReceipt", "supplierInvoice", "apPayment"}
  /\ DOMAIN LedgerRoutes = {"fiscalYear", "fiscalPeriod", "journal"}
  /\ DOMAIN StaffRoutes = {"employee", "assignment", "credential"}
BY DEF SalesRoutes, BillingRoutes, PurchaseRoutes, PayableRoutes, LedgerRoutes, StaffRoutes

LEMMA AllLinksFit == \A k \in Kinds : LinksFit(k)
<1>1. LinksFit("requisition")
  BY TheKinds, TheRoutes
     DEF LinksFit, Leads, Ends, Never, Links, RequisitionLinks, Routes, PurchaseRoutes, With, Same, DeadLinks,
         ErpMoves, RequisitionMoves, RequisitionRoutes
<1>2. LinksFit("purchaseOrder")
  BY TheKinds, TheRoutes
     DEF LinksFit, Leads, Ends, Never, Links, PurchaseOrderLinks, Routes, PurchaseRoutes, With, Same, DeadLinks,
         ErpMoves, PurchaseOrderMoves, ReceiptMovesOrder
<1>3. LinksFit("goodsReceipt")
  BY TheKinds, TheRoutes
     DEF LinksFit, Leads, Ends, Never, Links, GoodsReceiptLinks, Routes, PayableRoutes, With, Same, DeadLinks,
         ErpMoves, GoodsReceiptMoves
<1>4. LinksFit("supplier")
  BY TheKinds, TheRoutes
     DEF LinksFit, Leads, Ends, Never, Links, SupplierLinks, Routes, PurchaseRoutes, With, Same, DeadLinks,
         ErpMoves, SupplierMoves
<1>5. LinksFit("supplierInvoice")
  BY TheKinds, TheRoutes
     DEF LinksFit, Leads, Ends, Never, Links, SupplierInvoiceLinks, Routes, PayableRoutes, With, Same, DeadLinks,
         ErpMoves, SupplierInvoiceMoves
<1>6. LinksFit("apPayment")
  BY TheKinds, TheRoutes
     DEF LinksFit, Leads, Ends, Never, Links, ApPaymentLinks, Routes, PayableRoutes, With, Same, DeadLinks,
         ErpMoves, ApPaymentMoves
<1>7. LinksFit("quote")
  BY TheKinds, TheRoutes
     DEF LinksFit, Leads, Ends, Never, Links, QuoteLinks, Routes, SalesRoutes, With, Same, DeadLinks,
         ErpMoves, QuoteMoves
<1>8. LinksFit("salesOrder")
  <2>1. ErpMoves["salesOrder"] = SalesOrderMoves /\ Links["salesOrder"] = OrderLinks
    BY DEF ErpMoves, Links
  <2>2. Routes["salesOrder"] =
          With(Same({"confirm", "allocate", "ship", "close", "cancel"}),
               "generate-invoice", "invoice")
    BY TheKinds, TheRoutes DEF Routes, SalesRoutes
  <2>3. /\ \A a \in {"confirm", "allocate", "ship", "close", "cancel"} :
             a \in DOMAIN Routes["salesOrder"] /\ Routes["salesOrder"][a] = a
        /\ "generate-invoice" \in DOMAIN Routes["salesOrder"]
        /\ Routes["salesOrder"]["generate-invoice"] = "invoice"
    BY <2>2 DEF With, Same
  <2> QED
    BY <2>1, <2>3 DEF LinksFit, Leads, Ends, OrderLinks, SalesOrderMoves, DeadLinks
<1>9. LinksFit("arInvoice")
  BY TheKinds, TheRoutes
     DEF LinksFit, Leads, Ends, Never, Links, InvoiceLinks, Routes, BillingRoutes, With, Same, DeadLinks,
         ErpMoves, ArInvoiceMoves
<1>10. LinksFit("arPayment")
  BY TheKinds, TheRoutes
     DEF LinksFit, Leads, Ends, Never, Links, PaymentLinks, Routes, BillingRoutes, With, Same, DeadLinks,
         ErpMoves, ArPaymentMoves
<1>11. LinksFit("journal")
  BY TheKinds, TheRoutes
     DEF LinksFit, Leads, Ends, Never, Links, JournalLinks, Routes, LedgerRoutes, With, Same, DeadLinks,
         ErpMoves, JournalMoves
<1>12. LinksFit("fiscalPeriod")
  BY TheKinds, TheRoutes
     DEF LinksFit, Leads, Ends, Never, Links, FiscalPeriodLinks, Routes, LedgerRoutes, With, Same, DeadLinks,
         ErpMoves, FiscalPeriodMoves
<1>13. LinksFit("employee")
  <2>1. ErpMoves["employee"] = EmployeeMoves /\ Links["employee"] = EmployeeLinks
    BY DEF ErpMoves, Links
  <2>2. Routes["employee"] =
          With(With(Same({"activate", "terminate"}), "leave", "goOnLeave"),
               "return", "returnFromLeave")
    BY TheKinds, TheRoutes DEF Routes, StaffRoutes
  <2>3. /\ {"activate", "terminate", "leave", "return"} \subseteq DOMAIN Routes["employee"]
        /\ \A a \in {"activate", "terminate"} : Routes["employee"][a] = a
        /\ Routes["employee"]["leave"] = "goOnLeave"
        /\ Routes["employee"]["return"] = "returnFromLeave"
    BY <2>2 DEF With, Same
  <2> QED
    BY <2>1, <2>3 DEF LinksFit, Leads, Ends, EmployeeLinks, EmployeeMoves
<1>14. LinksFit("assignment")
  <2>1. ErpMoves["assignment"] = AssignmentMoves /\ Links["assignment"] = AssignmentLinks
    BY DEF ErpMoves, Links
  <2>2. Routes["assignment"] =
          With(Same({"activate", "complete", "cancel"}), "end", "complete")
    BY TheKinds, TheRoutes DEF Routes, StaffRoutes
  <2>3. \A a \in {"activate", "complete", "cancel"} :
          a \in DOMAIN Routes["assignment"] /\ Routes["assignment"][a] = a
    BY <2>2 DEF With, Same
  <2> QED
    BY <2>1, <2>3 DEF LinksFit, Leads, Ends, AssignmentLinks, AssignmentMoves
<1>15. LinksFit("credential")
  BY TheKinds, TheRoutes
     DEF LinksFit, Leads, Ends, Never, Links, CredentialLinks, Routes, StaffRoutes, With, Same, DeadLinks,
         ErpMoves, CredentialMoves
<1>16. LinksFit("customer")
  BY TheKinds, TheRoutes
     DEF LinksFit, Leads, Ends, Never, Links, CustomerLinks, Routes, SalesRoutes, With, Same, DeadLinks,
         ErpMoves, CustomerMoves
<1>17. LinksFit("shipment")
  BY TheKinds, TheRoutes
     DEF LinksFit, Leads, Ends, Never, Links, ShipmentLinks, Routes, BillingRoutes, With, Same, DeadLinks,
         ErpMoves, ShipmentMoves
<1>18. LinksFit("fiscalYear")
  BY TheKinds, TheRoutes
     DEF LinksFit, Leads, Ends, Never, Links, FiscalYearLinks, Routes, LedgerRoutes, With, Same, DeadLinks,
         ErpMoves, FiscalYearMoves
<1>19. LinksFit("project")
  BY TheKinds, TheRoutes
     DEF LinksFit, Leads, Ends, Never, Links, ProjectLinks, Routes, ProjectRoutes, With, Same, DeadLinks,
         ErpMoves, ProjectMoves
<1> QED
  BY TheKinds, <1>1, <1>2, <1>3, <1>4, <1>5, <1>6, <1>7, <1>8, <1>9, <1>10, <1>11, <1>12,
      <1>13, <1>14, <1>15, <1>16, <1>17, <1>18, <1>19

LEMMA AllToolsFit == \A k \in Kinds : ToolsFit(k)
<1>1. ToolsFit("requisition")
  BY TheKinds, TheTools
     DEF ToolsFit, Leads, Ends, Never, Tools, PurchaseTools, DeadTools, ErpMoves,
         RequisitionMoves
<1>2. ToolsFit("purchaseOrder")
  BY TheKinds, TheTools
     DEF ToolsFit, Leads, Ends, Never, Tools, PurchaseTools, DeadTools, ErpMoves,
         PurchaseOrderMoves, ReceiptMovesOrder
<1>3. ToolsFit("goodsReceipt")
  BY TheKinds, TheTools
     DEF ToolsFit, Leads, Ends, Never, Tools, PurchaseTools, DeadTools, ErpMoves,
         GoodsReceiptMoves
<1>4. ToolsFit("supplier")
  BY TheKinds, TheTools
     DEF ToolsFit, Leads, Ends, Never, Tools, PurchaseTools, DeadTools, ErpMoves,
         SupplierMoves
<1>5. ToolsFit("supplierInvoice")
  BY TheKinds, TheTools
     DEF ToolsFit, Leads, Ends, Never, Tools, PurchaseTools, DeadTools, ErpMoves,
         SupplierInvoiceMoves
<1>6. ToolsFit("apPayment")
  BY TheKinds, TheTools
     DEF ToolsFit, Leads, Ends, Never, Tools, PurchaseTools, DeadTools, ErpMoves,
         ApPaymentMoves
<1>7. ToolsFit("quote")
  BY TheKinds, TheTools
     DEF ToolsFit, Leads, Ends, Never, Tools, SalesTools, DeadTools, ErpMoves,
         QuoteMoves
<1>8. ToolsFit("salesOrder")
  BY TheKinds, TheTools
     DEF ToolsFit, Leads, Ends, Never, Tools, SalesTools, DeadTools, ErpMoves,
         SalesOrderMoves
<1>9. ToolsFit("arInvoice")
  BY TheKinds, TheTools
     DEF ToolsFit, Leads, Ends, Never, Tools, SalesTools, DeadTools, ErpMoves,
         ArInvoiceMoves
<1>10. ToolsFit("arPayment")
  BY TheKinds, TheTools
     DEF ToolsFit, Leads, Ends, Never, Tools, SalesTools, DeadTools, ErpMoves,
         ArPaymentMoves
<1>11. ToolsFit("journal")
  BY TheKinds, TheTools
     DEF ToolsFit, Leads, Ends, Never, Tools, LedgerTools, DeadTools, ErpMoves,
         JournalMoves
<1>12. ToolsFit("fiscalPeriod")
  BY TheKinds, TheTools
     DEF ToolsFit, Leads, Ends, Never, Tools, LedgerTools, DeadTools, ErpMoves,
         FiscalPeriodMoves
<1>13. ToolsFit("employee")
  BY TheKinds, TheTools
     DEF ToolsFit, Leads, Ends, Never, Tools, StaffTools, DeadTools, ErpMoves,
         EmployeeMoves
<1>14. ToolsFit("assignment")
  BY TheKinds, TheTools
     DEF ToolsFit, Leads, Ends, Never, Tools, StaffTools, DeadTools, ErpMoves,
         AssignmentMoves
<1>15. ToolsFit("credential")
  BY TheKinds, TheTools
     DEF ToolsFit, Leads, Ends, Never, Tools, StaffTools, DeadTools, ErpMoves,
         CredentialMoves
<1>16. ToolsFit("customer")
  BY TheKinds, TheTools
     DEF ToolsFit, Leads, Ends, Never, Tools, SalesTools, DeadTools, ErpMoves,
         CustomerMoves
<1>17. ToolsFit("shipment")
  BY TheKinds, TheTools
     DEF ToolsFit, Leads, Ends, Never, Tools, SalesTools, DeadTools, ErpMoves,
         ShipmentMoves
<1>18. ToolsFit("fiscalYear")
  BY TheKinds, TheTools
     DEF ToolsFit, Leads, Ends, Never, Tools, LedgerTools, DeadTools, ErpMoves,
         FiscalYearMoves
<1>19. ToolsFit("project")
  BY TheKinds, TheTools
     DEF ToolsFit, Leads, Ends, Never, Tools, ProjectTools, DeadTools, ErpMoves,
         ProjectMoves
<1> QED
  BY TheKinds, <1>1, <1>2, <1>3, <1>4, <1>5, <1>6, <1>7, <1>8, <1>9, <1>10, <1>11, <1>12,
      <1>13, <1>14, <1>15, <1>16, <1>17, <1>18, <1>19

\* No object ever has one of those states, and only an invoice is paid in part.
LEMMA NeverHad ==
  ASSUME kind \in Kinds, NEW s \in ErpStates
  PROVE  /\ <<kind, s>> \notin Never
         /\ s = "PartPaid" => kind = "arInvoice"
<1>1. ASSUME NEW b \in Births[kind]
      PROVE  /\ <<kind, b[1]>> \notin Never
             /\ b[1] = "PartPaid" => kind = "arInvoice"
  BY <1>1, TheKinds DEF Births, Never
<1>2. ASSUME NEW m \in ErpMoves["arPayment"] \cup ErpMoves["credential"]
      PROVE  m[3] \notin {"Received", "Active", "PartPaid"}
  BY DEF ErpMoves, ArPaymentMoves, CredentialMoves
<1>3. ASSUME NEW m \in ErpMoves["purchaseOrder"]
      PROVE  m[3] \notin {"Issued", "Acknowledged", "FullyPaid", "PartPaid"}
  BY DEF ErpMoves, PurchaseOrderMoves, ReceiptMovesOrder
<1>4. ASSUME NEW m \in ErpMoves["fiscalPeriod"] \cup ErpMoves["employee"]
      PROVE  m[3] \notin {"PendingClose", "Onboarding", "PartPaid"}
  BY DEF ErpMoves, FiscalPeriodMoves, EmployeeMoves
<1>5. ASSUME NEW k \in Kinds,
             k \notin {"arInvoice", "arPayment", "credential", "purchaseOrder",
                       "fiscalPeriod", "employee"},
             NEW m \in ErpMoves[k]
      PROVE  m[3] # "PartPaid"
  BY <1>5, TheKinds
     DEF ErpMoves, RequisitionMoves, GoodsReceiptMoves, SupplierMoves, SupplierInvoiceMoves,
         ApPaymentMoves, QuoteMoves, CustomerMoves, ShipmentMoves, SalesOrderMoves,
         JournalMoves, FiscalYearMoves, AssignmentMoves, ProjectMoves
<1>6. ASSUME NEW m \in ErpMoves[kind]
      PROVE  /\ <<kind, m[3]>> \notin Never
             /\ m[3] = "PartPaid" => kind = "arInvoice"
  BY <1>2, <1>3, <1>4, <1>5, <1>6 DEF Never
<1> QED
  BY <1>1, <1>6 DEF ErpStates

LEMMA TheWords ==
  /\ DOMAIN PurchaseWords =
       {"requisition", "purchaseOrder", "goodsReceipt", "supplier", "supplierInvoice"}
  /\ DOMAIN SalesWords = {"quote", "salesOrder", "arInvoice"}
  /\ DOMAIN LedgerWords = {"journal", "fiscalPeriod"}
  /\ DOMAIN StaffWords = {"employee"}
  /\ DOMAIN SegmentOf =
       {"goodsReceipt", "journal", "quote", "requisition", "supplier", "employee"}
BY DEF PurchaseWords, SalesWords, LedgerWords, StaffWords, SegmentOf

LEMMA TheTransitions ==
  /\ DOMAIN PurchaseTransitions = {"requisition", "purchaseOrder", "goodsReceipt"}
  /\ DOMAIN PayableTransitions = {"supplierInvoice", "apPayment", "supplier"}
  /\ DOMAIN O2CTransitions = {"quote", "salesOrder", "arInvoice", "arPayment"}
  /\ DOMAIN R2RTransitions = {"journal", "fiscalPeriod"}
  /\ DOMAIN H2RTransitions = {"employee", "assignment", "credential"}
BY DEF PurchaseTransitions, PayableTransitions, O2CTransitions, R2RTransitions,
       H2RTransitions

\* The segments that an action may be sent to the ERP with.
Segments(k, a) ==
  {BackendAction(k, a)}
    \cup {BackendAction(k, CatalogueWord[k][b]) : b \in {a} \cap DOMAIN CatalogueWord[k]}

LEMMA ReachedBySegment ==
  ASSUME NEW k \in Kinds, NEW channel, NEW a, NEW b \in Reached(k, channel, a)
  PROVE  \E segment \in Segments(k, a) :
           segment \in DOMAIN Routes[k] /\ b = Routes[k][segment]
BY DEF Reached, Segments, HubActions

\* The graph's name of state s.
Named(k, s) ==
       CASE k = "purchaseOrder" /\ s = "Sent"    -> "Issued"
         [] k = "arInvoice" /\ s = "PartPaid"    -> "PartiallyPaid"
         [] k = "arInvoice" /\ s = "Paid"        -> "FullyPaid"
         [] k = "fiscalPeriod" /\ s = "Closing"  -> "PendingClose"
         [] OTHER                                -> s

\* And so does what the graph offers, by whatever segment it is sent.
OffersFit(k) ==
  \A t \in GraphTransitions[k] : \A segment \in Segments(k, t[2]) \cap DOMAIN Routes[k] :
    \A s : t[1] = Named(k, s) /\ <<k, s>> \notin Never => Leads(k, s, Routes[k][segment])

\* Nobody is onboarded through the graph: the word has no route in the ERP.
LEMMA EmployeeOffers ==
  /\ OffersFit("employee")
  /\ \A t \in GraphTransitions["employee"] :
       t[1] = "Candidate" => Segments("employee", t[2]) \cap DOMAIN Routes["employee"] = {}
<1>1. /\ \A a \in {"onboard", "activate", "terminate", "retire"} : Segments("employee", a) \subseteq {a}
      /\ Segments("employee", "goOnLeave") \subseteq {"goOnLeave", "leave"}
      /\ Segments("employee", "returnFromLeave") \subseteq {"return"}
  <2>1. CatalogueWord["employee"] = StaffWords.employee
    BY TheKinds, TheWords DEF CatalogueWord
  <2>2. /\ DOMAIN CatalogueWord["employee"] = {"goOnLeave", "returnFromLeave", "terminate"}
        /\ CatalogueWord["employee"]["goOnLeave"] = "place_on_leave"
        /\ CatalogueWord["employee"]["returnFromLeave"] = "return_from_leave"
        /\ CatalogueWord["employee"]["terminate"] = "terminate_employee"
    BY <2>1 DEF StaffWords, With, Same
  <2>3. /\ "employee" \in DOMAIN SegmentOf
        /\ DOMAIN SegmentOf["employee"] = {"place_on_leave", "return_from_leave", "returnFromLeave", "terminate_employee", "activate_employee"}
        /\ SegmentOf["employee"]["place_on_leave"] = "leave"
        /\ SegmentOf["employee"]["return_from_leave"] = "return"
        /\ SegmentOf["employee"]["returnFromLeave"] = "return"
        /\ SegmentOf["employee"]["terminate_employee"] = "terminate"
        /\ SegmentOf["employee"]["activate_employee"] = "activate"
    BY TheWords DEF SegmentOf, With, Same
  <2> QED
    BY <2>2, <2>3 DEF Segments, BackendAction
<1>2. /\ \A a \in {"activate", "terminate"} : Routes["employee"][a] = a
      /\ Routes["employee"]["leave"] = "goOnLeave"
      /\ Routes["employee"]["return"] = "returnFromLeave"
      /\ \A a \in {"onboard", "retire", "goOnLeave"} : a \notin DOMAIN Routes["employee"]
  BY TheKinds, TheRoutes DEF Routes, StaffRoutes, With, Same
<1>3. GraphTransitions["employee"] = H2RTransitions.employee /\ ErpMoves["employee"] = EmployeeMoves
  BY TheKinds, TheTransitions DEF GraphTransitions, ErpMoves
<1>4. OffersFit("employee")
  BY <1>1, <1>2, <1>3 DEF OffersFit, Named, Leads, Ends, Never, H2RTransitions, EmployeeMoves
<1> QED
  BY <1>1, <1>2, <1>3, <1>4 DEF H2RTransitions

LEMMA AllOffersFit == \A k \in Mirrored : OffersFit(k)
<1>1. OffersFit("requisition")
  <2>1. /\ \A a \in {"submit", "approve", "reject", "cancel"} : Segments("requisition", a) \subseteq {a}
        /\ Segments("requisition", "convertToPO") \subseteq {"convert"}
    <3>1. CatalogueWord["requisition"] = PurchaseWords.requisition
      BY TheKinds, TheWords DEF CatalogueWord
    <3>2. /\ DOMAIN CatalogueWord["requisition"] = {"submit", "approve", "convertToPO"}
          /\ \A a \in {"submit", "approve"} : CatalogueWord["requisition"][a] = a
          /\ CatalogueWord["requisition"]["convertToPO"] = "convert-to-po"
      BY <3>1 DEF PurchaseWords, With, Same
    <3>3. /\ "requisition" \in DOMAIN SegmentOf
          /\ DOMAIN SegmentOf["requisition"] = {"convertToPO", "convert-to-po"}
          /\ SegmentOf["requisition"]["convertToPO"] = "convert"
          /\ SegmentOf["requisition"]["convert-to-po"] = "convert"
      BY TheWords DEF SegmentOf, With, Same
    <3> QED
      BY <3>2, <3>3 DEF Segments, BackendAction
  <2>2. /\ \A a \in {"submit", "approve", "reject", "cancel"} : Routes["requisition"][a] = a
        /\ Routes["requisition"]["convert"] = "convertToPO"
    BY TheKinds, TheRoutes DEF Routes, PurchaseRoutes, RequisitionRoutes, With, Same
  <2>3. GraphTransitions["requisition"] = PurchaseTransitions.requisition /\ ErpMoves["requisition"] = RequisitionMoves
    BY TheKinds, TheTransitions DEF GraphTransitions, ErpMoves
  <2> QED
    BY <2>1, <2>2, <2>3 DEF OffersFit, Named, Leads, Ends, Never, PurchaseTransitions, RequisitionMoves
<1>2. OffersFit("purchaseOrder")
  <2>1. \A a \in {"approve", "send", "acknowledge", "invoice", "close", "receive", "cancel"} : Segments("purchaseOrder", a) \subseteq {a}
    <3>1. CatalogueWord["purchaseOrder"] = PurchaseWords.purchaseOrder
      BY TheKinds, TheWords DEF CatalogueWord
    <3>2. /\ DOMAIN CatalogueWord["purchaseOrder"] = {"approve", "send"}
          /\ \A a \in {"approve", "send"} : CatalogueWord["purchaseOrder"][a] = a
      BY <3>1 DEF PurchaseWords, With, Same
    <3>3. "purchaseOrder" \notin DOMAIN SegmentOf
      BY TheWords DEF SegmentOf, With, Same
    <3> QED
      BY <3>2, <3>3 DEF Segments, BackendAction
  <2>2. /\ \A a \in {"approve", "send", "close", "cancel"} : Routes["purchaseOrder"][a] = a
        /\ \A a \in {"acknowledge", "invoice", "receive"} : a \notin DOMAIN Routes["purchaseOrder"]
    BY TheKinds, TheRoutes DEF Routes, PurchaseRoutes, With, Same
  <2>3. GraphTransitions["purchaseOrder"] = PurchaseTransitions.purchaseOrder /\ ErpMoves["purchaseOrder"] = PurchaseOrderMoves
    BY TheKinds, TheTransitions DEF GraphTransitions, ErpMoves
  <2> QED
    BY <2>1, <2>2, <2>3 DEF OffersFit, Named, Leads, Ends, Never, PurchaseTransitions, PurchaseOrderMoves, ReceiptMovesOrder
<1>3. OffersFit("goodsReceipt")
  <2>1. /\ Segments("goodsReceipt", "receive_goods") \subseteq {"receive"}
        /\ Segments("goodsReceipt", "accept_goods") \subseteq {"accept"}
    BY TheKinds, TheWords DEF Segments, BackendAction, CatalogueWord, PurchaseWords, SegmentOf, With, Same
  <2>2. /\ Routes["goodsReceipt"]["receive"] = "receive_goods"
        /\ Routes["goodsReceipt"]["accept"] = "accept_goods"
    BY TheKinds, TheRoutes DEF Routes, PayableRoutes, With, Same
  <2>3. GraphTransitions["goodsReceipt"] = PurchaseTransitions.goodsReceipt /\ ErpMoves["goodsReceipt"] = GoodsReceiptMoves
    BY TheKinds, TheTransitions DEF GraphTransitions, ErpMoves
  <2> QED
    BY <2>1, <2>2, <2>3 DEF OffersFit, Named, Leads, Ends, Never, PurchaseTransitions, GoodsReceiptMoves
<1>4. OffersFit("supplier")
  <2>1. /\ \A a \in {"activate", "suspend", "deactivate"} : Segments("supplier", a) \subseteq {a}
        /\ Segments("supplier", "reactivate") \subseteq {"activate"}
    <3>1. CatalogueWord["supplier"] = PurchaseWords.supplier
      BY TheKinds, TheWords DEF CatalogueWord
    <3>2. /\ DOMAIN CatalogueWord["supplier"] = {"activate", "suspend", "reactivate", "deactivate"}
          /\ \A a \in {"activate", "suspend", "reactivate", "deactivate"} : CatalogueWord["supplier"][a] = a
      BY <3>1 DEF PurchaseWords, With, Same
    <3>3. /\ "supplier" \in DOMAIN SegmentOf
          /\ DOMAIN SegmentOf["supplier"] = {"reactivate"}
          /\ SegmentOf["supplier"]["reactivate"] = "activate"
      BY TheWords DEF SegmentOf, With, Same
    <3> QED
      BY <3>2, <3>3 DEF Segments, BackendAction
  <2>2. /\ \A a \in {"activate", "suspend"} : Routes["supplier"][a] = a
        /\ \A a \in {"deactivate"} : a \notin DOMAIN Routes["supplier"]
    BY TheKinds, TheRoutes DEF Routes, PurchaseRoutes, With, Same
  <2>3. GraphTransitions["supplier"] = PayableTransitions.supplier /\ ErpMoves["supplier"] = SupplierMoves
    BY TheKinds, TheTransitions DEF GraphTransitions, ErpMoves
  <2> QED
    BY <2>1, <2>2, <2>3 DEF OffersFit, Named, Leads, Ends, Never, PayableTransitions, SupplierMoves
<1>5. OffersFit("salesOrder")
  <2>1. /\ \A a \in {"confirm", "allocate", "ship", "close", "cancel"} : Segments("salesOrder", a) \subseteq {a}
        /\ Segments("salesOrder", "invoice") \subseteq {"invoice", "generate-invoice"}
    <3>1. CatalogueWord["salesOrder"] = SalesWords.salesOrder
      BY TheKinds, TheWords DEF CatalogueWord
    <3>2. /\ DOMAIN CatalogueWord["salesOrder"] = {"confirm", "allocate", "ship", "invoice"}
          /\ \A a \in {"confirm", "allocate", "ship"} : CatalogueWord["salesOrder"][a] = a
          /\ CatalogueWord["salesOrder"]["invoice"] = "generate-invoice"
      BY <3>1 DEF SalesWords, With, Same
    <3>3. "salesOrder" \notin DOMAIN SegmentOf
      BY TheWords DEF SegmentOf, With, Same
    <3> QED
      BY <3>2, <3>3 DEF Segments, BackendAction
  <2>2. /\ \A a \in {"confirm", "allocate", "ship", "close", "cancel"} : Routes["salesOrder"][a] = a
        /\ Routes["salesOrder"]["generate-invoice"] = "invoice"
        /\ \A a \in {"invoice"} : a \notin DOMAIN Routes["salesOrder"]
    BY TheKinds, TheRoutes DEF Routes, SalesRoutes, With, Same
  <2>3. GraphTransitions["salesOrder"] = O2CTransitions.salesOrder /\ ErpMoves["salesOrder"] = SalesOrderMoves
    BY TheKinds, TheTransitions DEF GraphTransitions, ErpMoves
  <2> QED
    BY <2>1, <2>2, <2>3 DEF OffersFit, Named, Leads, Ends, Never, O2CTransitions, SalesOrderMoves
<1>6. OffersFit("arInvoice")
  <2>1. \A a \in {"post", "cancel", "applyPayment", "writeOff"} : Segments("arInvoice", a) \subseteq {a}
    BY TheKinds, TheWords DEF Segments, BackendAction, CatalogueWord, SalesWords, SegmentOf, With, Same
  <2>2. /\ \A a \in {"post", "cancel"} : Routes["arInvoice"][a] = a
        /\ \A a \in {"applyPayment", "writeOff"} : a \notin DOMAIN Routes["arInvoice"]
    BY TheKinds, TheRoutes DEF Routes, BillingRoutes, With, Same
  <2>3. GraphTransitions["arInvoice"] = O2CTransitions.arInvoice /\ ErpMoves["arInvoice"] = ArInvoiceMoves
    BY TheKinds, TheTransitions DEF GraphTransitions, ErpMoves
  <2> QED
    BY <2>1, <2>2, <2>3 DEF OffersFit, Named, Leads, Ends, Never, O2CTransitions, ArInvoiceMoves
<1>7. OffersFit("fiscalPeriod")
  <2>1. /\ \A a \in {"reopen"} : Segments("fiscalPeriod", a) \subseteq {a}
        /\ Segments("fiscalPeriod", "beginClose") \subseteq {"beginClose", "start_period_close"}
        /\ Segments("fiscalPeriod", "close") \subseteq {"close", "close_fiscal_period"}
    BY TheKinds, TheWords DEF Segments, BackendAction, CatalogueWord, LedgerWords, SegmentOf, With, Same
  <2>2. /\ \A a \in {"close"} : Routes["fiscalPeriod"][a] = a
        /\ \A a \in {"beginClose", "start_period_close", "close_fiscal_period", "reopen"} : a \notin DOMAIN Routes["fiscalPeriod"]
    BY TheKinds, TheRoutes DEF Routes, LedgerRoutes, With, Same
  <2>3. GraphTransitions["fiscalPeriod"] = R2RTransitions.fiscalPeriod /\ ErpMoves["fiscalPeriod"] = FiscalPeriodMoves
    BY TheKinds, TheTransitions DEF GraphTransitions, ErpMoves
  <2> QED
    BY <2>1, <2>2, <2>3 DEF OffersFit, Named, Leads, Ends, Never, R2RTransitions, FiscalPeriodMoves
<1>8. OffersFit("employee")
  BY EmployeeOffers
<1>9. OffersFit("assignment")
  <2>1. \A a \in {"activate", "complete", "cancel"} : Segments("assignment", a) \subseteq {a}
    BY TheKinds, TheWords DEF Segments, BackendAction, CatalogueWord, SegmentOf, With, Same
  <2>2. \A a \in {"activate", "complete", "cancel"} : Routes["assignment"][a] = a
    BY TheKinds, TheRoutes DEF Routes, StaffRoutes, With, Same
  <2>3. GraphTransitions["assignment"] = H2RTransitions.assignment /\ ErpMoves["assignment"] = AssignmentMoves
    BY TheKinds, TheTransitions DEF GraphTransitions, ErpMoves
  <2> QED
    BY <2>1, <2>2, <2>3 DEF OffersFit, Named, Leads, Ends, Never, H2RTransitions, AssignmentMoves
<1>10. OffersFit("credential")
  <2>1. \A a \in {"expire", "revoke"} : Segments("credential", a) \subseteq {a}
    BY TheKinds, TheWords DEF Segments, BackendAction, CatalogueWord, SegmentOf, With, Same
  <2>2. \A a \in {"expire", "revoke"} : Routes["credential"][a] = a
    BY TheKinds, TheRoutes DEF Routes, StaffRoutes, With, Same
  <2>3. GraphTransitions["credential"] = H2RTransitions.credential /\ ErpMoves["credential"] = CredentialMoves
    BY TheKinds, TheTransitions DEF GraphTransitions, ErpMoves
  <2> QED
    BY <2>1, <2>2, <2>3 DEF OffersFit, Named, Leads, Ends, Never, H2RTransitions, CredentialMoves
<1> QED
  BY <1>1, <1>2, <1>3, <1>4, <1>5, <1>6, <1>7, <1>8, <1>9, <1>10 DEF Mirrored

-----------------------------------------------------------------------------
(* The last state of the object.                                           *)

LEMMA LastIs ==
  ASSUME GraphInv, Chronicle
  PROVE  /\ kind \in Kinds
         /\ Len(history) \in Nat /\ Len(history) > 0
         /\ Erp \in ErpStates
<1>1. kind \in Kinds
  BY DEF GraphInv, Typed
<1>2. history \in Seq(Changes) /\ history # <<>>
  BY DEF Chronicle
<1>3. Len(history) \in Nat /\ Len(history) > 0 /\ history[Len(history)] \in Changes
  BY <1>2
<1> QED
  BY <1>1, <1>3, ChangeIs DEF Erp

\* An operation that leads somewhere by the ERP's table is one that the ERP accepts.
LEMMA LeadsIsAccepted ==
  ASSUME NEW a, Leads(kind, Erp, a)
  PROVE  Accepts(a)
<1>1. PICK r \in Ends : <<Erp, a, r>> \in ErpMoves[kind]
  BY DEF Leads
<1> QED
  BY <1>1 DEF Accepts

\* What the graph offers on an object that it is up to date with.
LEMMA GraphHonoured ==
  ASSUME GraphInv, Chronicle, kind \in Mirrored, StreamWhole, polled = Len(history),
         NEW a \in GraphActions(kind), NEW channel \in Channels,
         Offers(kind, Rebuilt, a), NEW b \in Reached(kind, channel, a)
  PROVE  Accepts(b)
<1>1. kind \in Kinds /\ polled > 0 /\ Erp \in ErpStates /\ Erp = history[polled].state
  BY LastIs DEF Erp
<1>2. PICK t \in GraphTransitions[kind] : t[1] = Rebuilt /\ t[2] = a
  BY DEF Offers
<1>3. PICK segment \in Segments(kind, t[2]) :
        segment \in DOMAIN Routes[kind] /\ b = Routes[kind][segment]
  BY <1>1, <1>2, ReachedBySegment
<1>4. PICK e \in ErpStates : Tells(Erp, e) /\ Rebuilt = Canonical(e)
  BY <1>1, ReplayedIs
<1>5. CASE e = Erp
  <2>1. t[1] = Named(kind, Erp)
    BY <1>2, <1>4, <1>5 DEF Named, Canonical
  <2>2. <<kind, Erp>> \notin Never
    BY <1>1, NeverHad
  <2>3. Leads(kind, Erp, b)
    BY <1>3, <2>1, <2>2, AllOffersFit DEF OffersFit
  <2> QED
    BY <2>3, LeadsIsAccepted
<1>6. CASE kind = "employee" /\ e = "Candidate"
  <2>1. t[1] = "Candidate"
    BY <1>2, <1>4, <1>6 DEF Canonical
  <2> QED
    BY <1>2, <1>3, <1>6, <2>1, EmployeeOffers
<1> QED
  BY <1>4, <1>5, <1>6 DEF Tells

\* The ERP's own links, which it makes from the stored column.
LEMMA LinksHonoured ==
  ASSUME GraphInv, Chronicle, NEW link \in Links[kind], link[1] = Column(Erp),
         <<kind, Erp, link[2]>> \notin DeadLinks
  PROVE  link[2] \in DOMAIN Routes[kind] /\ Accepts(Routes[kind][link[2]])
<1>1. kind \in Kinds /\ Erp \in ErpStates
  BY LastIs
<1>2. <<kind, Erp>> \notin Never /\ (Erp = "PartPaid" => kind = "arInvoice")
  BY <1>1, NeverHad
<1>3. CASE Erp # "PartPaid"
  <2>1. link[1] = Erp
    BY <1>3 DEF Column
  <2>2. link[2] \in DOMAIN Routes[kind] /\ Leads(kind, Erp, Routes[kind][link[2]])
    BY <1>1, <1>2, <2>1, AllLinksFit DEF LinksFit
  <2> QED
    BY <2>2, LeadsIsAccepted
<1>4. CASE Erp = "PartPaid"
  <2>1. kind = "arInvoice" /\ link[1] = "Posted"
    BY <1>2, <1>4 DEF Column
  <2> QED
    BY <1>4, <2>1 DEF Links, InvoiceLinks, DeadLinks
<1> QED
  BY <1>3, <1>4

\* The guards of its MCP tools, which look at the same column.
LEMMA ToolsHonoured ==
  ASSUME GraphInv, Chronicle, NEW tool \in Tools[kind], tool[1] = Column(Erp),
         <<kind, Erp, tool[2]>> \notin DeadTools
  PROVE  Accepts(tool[2])
<1>1. kind \in Kinds /\ Erp \in ErpStates
  BY LastIs
<1>2. <<kind, Erp>> \notin Never /\ (Erp = "PartPaid" => kind = "arInvoice")
  BY <1>1, NeverHad
<1>3. CASE Erp # "PartPaid"
  <2>1. tool[1] = Erp
    BY <1>3 DEF Column
  <2>2. Leads(kind, Erp, tool[2])
    BY <1>1, <1>2, <2>1, AllToolsFit DEF ToolsFit
  <2> QED
    BY <2>2, LeadsIsAccepted
<1>4. CASE Erp = "PartPaid"
  <2>1. kind = "arInvoice" /\ tool[1] = "Posted"
    BY <1>2, <1>4 DEF Column
  <2> QED
    BY <1>4, <2>1, TheKinds, TheTools DEF Tools, SalesTools, DeadTools, Leads
<1> QED
  BY <1>3, <1>4

\* What the graph offers on an object it is up to date with, what the ERP's links offer
\* and what the guards of its MCP tools let through, the ERP accepts.
THEOREM OffersAreHonoured == Spec => []OffersHonoured
<1>1. GraphInv /\ Chronicle => OffersHonoured
  BY GraphHonoured, LinksHonoured, ToolsHonoured DEF OffersHonoured
<1> QED
  BY <1>1, GraphSafe, GraphKnowsThePast, PTL
=============================================================================
