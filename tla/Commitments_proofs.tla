------------------------- MODULE Commitments_proofs -------------------------
(***************************************************************************)
(* Theorems about what is committed to and carried out, for all documents, *)
(* amounts and bounds.                                                     *)
(*   Projects: the figures three services keep for a project agree.        *)
(*   Purchasing: what is ordered is what was approved.                     *)
(*   Contracts: versions, pins, quotes, orders and plans agree.            *)
(***************************************************************************)
EXTENDS Projects, Purchasing, Contracts, SetLemmas, SequenceTheorems

-----------------------------------------------------------------------------
(* Projects.                                                               *)

\* Nothing was worked or allocated before the task exists.
UnbornTasks ==
  \A t \in Tasks : ~ task[t].exists =>
    /\ worked[t] = 0 /\ task[t] = NoTask
    /\ \A r \in Resources : allotted[t][r] = 0

\* The inductive invariant.
ProjectsInv == ProjectsTypeOK /\ ProjectFiguresAgree /\ UnbornTasks

\* The figures agree at the start, and each service keeps them so.
LEMMA ProjectsInitially == ProjectsInit => ProjectsInv
<1> SUFFICES ASSUME ProjectsInit PROVE ProjectsInv
  OBVIOUS
<1>1. ProjectsTypeOK
  BY DEF ProjectsInit, ProjectsTypeOK, Balances, NoBalance, NoTask
<1>2. BalancesAgree /\ ItemsAgree /\ UnbornTasks
  BY DEF ProjectsInit, BalancesAgree, ItemsAgree, UnbornTasks, NoBalance, NoTask
<1>3. HoursAgree
  BY DEF ProjectsInit, HoursAgree, Beyond, NoTask
<1>4. AllocationsFit
  <2>1. ASSUME NEW r \in Resources PROVE DayOf(r) <= DayHours
    <3> DEFINE f == [t \in Tasks |-> allotted[t][r]]
    <3>1. \A t \in Tasks : f[t] = 0
      BY DEF ProjectsInit
    <3>2. SumFunctionOnSet(f, Tasks) = 0
      <4> HIDE DEF f
      <4> QED BY <3>1, ProjectsAssumption, SumZero
    <3> QED
      BY <3>2, ProjectsAssumption DEF DayOf, HoursOn
  <2>2. ASSUME NEW t \in Tasks PROVE ~ (task[t].estimated > 0)
    BY DEF ProjectsInit, NoTask
  <2> QED
    BY <2>1, <2>2 DEF AllocationsFit
<1> QED
  BY <1>1, <1>2, <1>3, <1>4 DEF ProjectsInv, ProjectFiguresAgree

\* A charge adds the same to the two copies and to what they were made from.
LEMMA ChargeAgrees ==
  ASSUME ProjectsInv, NEW part \in {"material", "labour"}, NEW c \in Nat, Charge(part, c)
  PROVE  /\ BalancesAgree'
         /\ project' \in [status : {"None", "Draft", "Active", "OnHold", "Completed", "Cancelled"},
                          budget : Nat, baseline : Nat, actual : Nat, balance : Balances]
         /\ wip' \in [status : {"None", "Open", "Closed"}, balance : Balances]
         /\ charged' \in [material : Nat, labour : Nat, released : Nat]
<1>1. /\ wip.balance \in Balances /\ project.balance = wip.balance
      /\ project.actual \in Nat /\ charged \in [material : Nat, labour : Nat, released : Nat]
      /\ BalancesAgree
  BY DEF ProjectsInv, ProjectsTypeOK, ProjectFiguresAgree, BalancesAgree
<1> DEFINE now == Added(wip.balance, part, c)
<1>0. /\ wip.balance.material \in Nat /\ wip.balance.labour \in Nat /\ wip.balance.total \in Nat
      /\ project.actual + c \in Nat
  BY <1>1 DEF Balances
<1>2. now \in Balances /\ now.total = wip.balance.total + c
  <2>1. CASE part = "material"
    <3>1. now = [wip.balance EXCEPT !.material = @ + c, !.total = @ + c]
      BY <2>1 DEF Added
    <3>2. wip.balance.material + c \in Nat /\ wip.balance.total + c \in Nat
      BY <1>0
    <3> HIDE DEF now
    <3> QED
      BY <1>1, <3>1, <3>2 DEF Balances
  <2>2. CASE part = "labour"
    <3>1. now = [wip.balance EXCEPT !.labour = @ + c, !.total = @ + c]
      BY <2>2 DEF Added
    <3>2. wip.balance.labour + c \in Nat /\ wip.balance.total + c \in Nat
      BY <1>0
    <3> HIDE DEF now
    <3> QED
      BY <1>1, <3>1, <3>2 DEF Balances
  <2> QED
    BY <2>1, <2>2
<1>3. /\ part = "material" => now.material = wip.balance.material + c /\ now.labour = wip.balance.labour
      /\ part = "labour" => now.labour = wip.balance.labour + c /\ now.material = wip.balance.material
  BY <1>1 DEF Balances, Added
<1>4. /\ wip' = [wip EXCEPT !.balance = now]
      /\ project' = [project EXCEPT !.balance = now, !.actual = @ + c]
      /\ charged' = [charged EXCEPT ![part] = @ + c]
  BY <1>1 DEF Charge
<1> HIDE DEF now
<1>5. project' \in [status : {"None", "Draft", "Active", "OnHold", "Completed", "Cancelled"},
                    budget : Nat, baseline : Nat, actual : Nat, balance : Balances]
      /\ project'.balance = now /\ project'.actual = project.actual + c
  BY <1>0, <1>2, <1>4 DEF ProjectsInv, ProjectsTypeOK
<1>6. wip' \in [status : {"None", "Open", "Closed"}, balance : Balances] /\ wip'.balance = now
  BY <1>2, <1>4 DEF ProjectsInv, ProjectsTypeOK
<1>7. /\ charged' \in [material : Nat, labour : Nat, released : Nat]
      /\ charged'.released = charged.released
      /\ part = "material" => charged'.material = charged.material + c /\ charged'.labour = charged.labour
      /\ part = "labour" => charged'.labour = charged.labour + c /\ charged'.material = charged.material
  BY <1>1, <1>4
<1>8. /\ wip.balance.material \in Nat /\ wip.balance.labour \in Nat /\ wip.balance.total \in Nat
      /\ charged.material \in Nat /\ charged.labour \in Nat /\ charged.released \in Nat
  BY <1>1 DEF Balances
<1>9. BalancesAgree'
  <2>1. CASE part = "material"
    BY <1>1, <1>2, <1>3, <1>5, <1>6, <1>7, <1>8, <2>1 DEF BalancesAgree
  <2>2. CASE part = "labour"
    BY <1>1, <1>2, <1>3, <1>5, <1>6, <1>7, <1>8, <2>2 DEF BalancesAgree
  <2> QED
    BY <2>1, <2>2
<1> QED
  BY <1>5, <1>6, <1>7, <1>9

\* What is not about balances is untouched by most steps.
LEMMA RestUntouched ==
  ASSUME ProjectsInv, UNCHANGED <<task, allotted, worked>>, cut \subseteq cut'
  PROVE  HoursAgree' /\ AllocationsFit' /\ UnbornTasks'
BY DEF ProjectsInv, ProjectFiguresAgree, HoursAgree, AllocationsFit, UnbornTasks, DayOf

LEMMA ProjectMoves ==
  ASSUME ProjectsInv,
         \/ \E b \in Budgets : CreateProject(b)
         \/ ActivateProject \/ HoldProject \/ ResumeProject \/ CompleteProject \/ CancelProject
  PROVE  ProjectsInv'
<1>1. /\ UNCHANGED <<planning, task, goods, charged, worked, cut>>
      /\ project' \in [status : {"None", "Draft", "Active", "OnHold", "Completed", "Cancelled"},
                       budget : Nat, baseline : Nat, actual : Nat, balance : Balances]
      /\ wip' \in [status : {"None", "Open", "Closed"}, balance : Balances]
      /\ project'.balance = project.balance /\ project'.actual = project.actual
      /\ wip'.balance = wip.balance
  BY ProjectsAssumption DEF CreateProject, ActivateProject, HoldProject, ResumeProject, MoveProject,
     CompleteProject, CancelProject, ProjectsInv, ProjectsTypeOK
<1>2. ProjectsTypeOK'
  BY <1>1 DEF ProjectsInv, ProjectsTypeOK, planning
<1>3. BalancesAgree' /\ ItemsAgree'
  BY <1>1 DEF ProjectsInv, ProjectFiguresAgree, BalancesAgree, ItemsAgree
<1> QED
  BY <1>1, <1>2, <1>3, RestUntouched DEF ProjectsInv, ProjectFiguresAgree, planning

LEMMA MaterialAndLabour ==
  ASSUME ProjectsInv, NEW c \in Costs, IssueMaterial(c) \/ PostLabourCost(c)
  PROVE  ProjectsInv'
<1>1. UNCHANGED <<planning, task, goods, worked, cut>> /\ (Charge("material", c) \/ Charge("labour", c))
  BY DEF IssueMaterial, PostLabourCost
<1>2. c \in Nat
  BY ProjectsAssumption
<1>3. /\ BalancesAgree'
      /\ project' \in [status : {"None", "Draft", "Active", "OnHold", "Completed", "Cancelled"},
                       budget : Nat, baseline : Nat, actual : Nat, balance : Balances]
      /\ wip' \in [status : {"None", "Open", "Closed"}, balance : Balances]
      /\ charged' \in [material : Nat, labour : Nat, released : Nat]
  BY <1>1, <1>2, ChargeAgrees
<1>4. ProjectsTypeOK' /\ ItemsAgree'
  BY <1>1, <1>3 DEF ProjectsInv, ProjectsTypeOK, ProjectFiguresAgree, ItemsAgree, planning
<1> QED
  BY <1>1, <1>3, <1>4, RestUntouched DEF ProjectsInv, ProjectFiguresAgree, planning

LEMMA LabourReleased ==
  ASSUME ProjectsInv, NEW c \in Costs, ReleaseLabour(c)
  PROVE  ProjectsInv'
<1>1. c \in Nat /\ UNCHANGED <<planning, task, goods, worked, cut>>
  BY ProjectsAssumption DEF ReleaseLabour
<1>2. wip.balance \in Balances /\ project.balance = wip.balance
  BY DEF ProjectsInv, ProjectsTypeOK, ProjectFiguresAgree, BalancesAgree
<1>3. c <= wip.balance.labour /\ c <= wip.balance.total
  BY <1>1, <1>2 DEF ReleaseLabour, Releasable, Balances
<1>4. /\ Relieved(wip.balance, c) \in Balances
      /\ Relieved(wip.balance, c).material = wip.balance.material
      /\ Relieved(wip.balance, c).labour = wip.balance.labour - c
      /\ Relieved(wip.balance, c).total = wip.balance.total - c
  <2>1. /\ Relieved(wip.balance, c) \in [material : {wip.balance.material},
                                          labour : {Beyond(wip.balance.labour, c)},
                                          total : {Beyond(wip.balance.total, c)}]
    BY <1>2 DEF Relieved, Balances
  <2>2. /\ Beyond(wip.balance.labour, c) = wip.balance.labour - c
        /\ Beyond(wip.balance.total, c) = wip.balance.total - c
        /\ wip.balance.labour - c \in Nat /\ wip.balance.total - c \in Nat
    BY <1>1, <1>2, <1>3 DEF Beyond, Balances
  <2> QED
    BY <1>2, <2>1, <2>2 DEF Balances
<1>5. /\ wip' = [wip EXCEPT !.balance = Relieved(wip.balance, c)]
      /\ project' = [project EXCEPT !.balance = Relieved(wip.balance, c)]
      /\ charged' = [charged EXCEPT !.released = @ + c]
  BY <1>2 DEF ReleaseLabour
<1>6. BalancesAgree'
  BY <1>1, <1>2, <1>4, <1>5 DEF ProjectsInv, ProjectsTypeOK, ProjectFiguresAgree, BalancesAgree, Balances
<1>7. ProjectsTypeOK' /\ ItemsAgree'
  BY <1>1, <1>4, <1>5 DEF ProjectsInv, ProjectsTypeOK, ProjectFiguresAgree, ItemsAgree, planning
<1> QED
  BY <1>1, <1>6, <1>7, RestUntouched DEF ProjectsInv, ProjectFiguresAgree, planning

LEMMA ItemsAndRequests ==
  ASSUME ProjectsInv,
         \/ FinishItem
         \/ \E c \in ChangeRequests, b \in Budgets : CreateChangeRequest(c, b)
         \/ \E c \in ChangeRequests : ApproveChangeRequest(c)
  PROVE  ProjectsInv'
<1>1. CASE FinishItem
  <2>1. UNCHANGED <<costs, planning, task, worked>> /\ cut \subseteq cut' /\ cut' \subseteq cut \cup {"goods"}
    BY <1>1 DEF FinishItem
  <2>2. ItemsAgree' /\ goods' \in [receipts : Nat, items : Nat]
    BY <1>1 DEF FinishItem, ItemsAgree, ProjectsInv, ProjectsTypeOK, ProjectFiguresAgree
  <2>3. ProjectsTypeOK' /\ BalancesAgree'
    BY <2>1, <2>2 DEF ProjectsInv, ProjectsTypeOK, ProjectFiguresAgree, BalancesAgree, costs, planning
  <2> QED
    BY <2>1, <2>2, <2>3, RestUntouched DEF ProjectsInv, ProjectFiguresAgree, planning
<1>2. ASSUME NEW c \in ChangeRequests, NEW b \in Budgets, CreateChangeRequest(c, b) PROVE ProjectsInv'
  <2>1. UNCHANGED <<costs, task, allotted, goods, worked, cut>>
    BY <1>2 DEF CreateChangeRequest
  <2>2. change' \in [ChangeRequests -> [status : {"None", "Pending", "Approved"},
                                        original : Nat, revised : Nat]]
    BY <1>2, ProjectsAssumption DEF CreateChangeRequest, ProjectsInv, ProjectsTypeOK
  <2>3. ProjectsTypeOK' /\ BalancesAgree' /\ ItemsAgree'
    BY <2>1, <2>2 DEF ProjectsInv, ProjectsTypeOK, ProjectFiguresAgree, BalancesAgree, ItemsAgree, costs
  <2> QED
    BY <2>1, <2>3, RestUntouched DEF ProjectsInv, ProjectFiguresAgree
<1>3. ASSUME NEW c \in ChangeRequests, ApproveChangeRequest(c) PROVE ProjectsInv'
  <2>1. /\ UNCHANGED <<wip, task, allotted, goods, charged, worked>>
        /\ change' = [change EXCEPT ![c].status = "Approved"]
        /\ cut \subseteq cut' /\ cut' \subseteq cut \cup {c}
        /\ project' = [project EXCEPT !.budget = change[c].revised] \/ project' = project
    BY <1>3 DEF ApproveChangeRequest
  <2>2. ProjectsTypeOK'
    <3>1. change[c].revised \in Nat
      BY DEF ProjectsInv, ProjectsTypeOK
    <3>2. project' \in [status : {"None", "Draft", "Active", "OnHold", "Completed", "Cancelled"},
                        budget : Nat, baseline : Nat, actual : Nat, balance : Balances]
      BY <2>1, <3>1 DEF ProjectsInv, ProjectsTypeOK
    <3>3. change' \in [ChangeRequests -> [status : {"None", "Pending", "Approved"},
                                          original : Nat, revised : Nat]]
      BY <2>1 DEF ProjectsInv, ProjectsTypeOK
    <3> QED
      BY <2>1, <3>2, <3>3 DEF ProjectsInv, ProjectsTypeOK
  <2>3. BalancesAgree' /\ ItemsAgree'
    BY <2>1 DEF ProjectsInv, ProjectsTypeOK, ProjectFiguresAgree, BalancesAgree, ItemsAgree
  <2> QED
    BY <2>1, <2>2, <2>3, RestUntouched DEF ProjectsInv, ProjectFiguresAgree
<1> QED
  BY <1>1, <1>2, <1>3

TaskRows == [exists : BOOLEAN, estimated : Nat, given : Nat, actual : Nat, remaining : Nat]

LEMMA TaskCreated ==
  ASSUME ProjectsInv, NEW t \in Tasks, NEW e \in Estimates, CreateTask(t, e)
  PROVE  ProjectsInv'
<1>1. e[1] \in Nat /\ e[2] \in Nat
  BY ProjectsAssumption
<1>2. /\ ~ task[t].exists
      /\ task' = [task EXCEPT ![t] = [exists |-> TRUE, estimated |-> e[1], given |-> e[2],
                                      actual |-> 0, remaining |-> e[2]]]
      /\ UNCHANGED <<costs, planning, goods, worked, cut>>
  BY DEF CreateTask
<1>3. task \in [Tasks -> TaskRows] /\ allotted \in [Tasks -> [Resources -> Nat]]
  BY DEF ProjectsInv, ProjectsTypeOK, TaskRows
<1>4. task' \in [Tasks -> TaskRows]
  BY <1>1, <1>2, <1>3 DEF TaskRows
<1>5. ProjectsTypeOK' /\ BalancesAgree' /\ ItemsAgree'
  BY <1>2, <1>4 DEF ProjectsInv, ProjectsTypeOK, TaskRows, ProjectFiguresAgree, BalancesAgree,
     ItemsAgree, costs, planning
<1>6. worked[t] = 0 /\ \A r \in Resources : allotted[t][r] = 0
  BY <1>2 DEF ProjectsInv, UnbornTasks
<1>7. HoursAgree'
  BY <1>1, <1>2, <1>3, <1>6 DEF ProjectsInv, ProjectFiguresAgree, HoursAgree, Beyond, TaskRows
<1>8. UnbornTasks'
  BY <1>2, <1>3 DEF ProjectsInv, UnbornTasks, planning
<1>9. HoursOn(allotted[t], Resources) = 0
  BY <1>6, ProjectsAssumption, SumZero DEF HoursOn
<1>10. AllocationsFit'
  <2>1. allotted' = allotted
    BY <1>2 DEF planning
  <2>2. \A r \in Resources : DayOf(r)' = DayOf(r)
    BY <2>1 DEF DayOf
  <2>3. ASSUME NEW u \in Tasks, task'[u].estimated > 0
        PROVE  HoursOn(allotted'[u], Resources) <= task'[u].estimated
    <3>1. CASE u = t
      BY <1>1, <1>2, <1>3, <1>9, <2>1, <2>3, <3>1
    <3>2. CASE u # t
      BY <1>2, <1>3, <2>1, <2>3, <3>2 DEF ProjectsInv, ProjectFiguresAgree, AllocationsFit
    <3> QED
      BY <3>1, <3>2
  <2> QED
    BY <2>2, <2>3 DEF AllocationsFit, ProjectsInv, ProjectFiguresAgree
<1> QED
  BY <1>5, <1>7, <1>8, <1>10 DEF ProjectsInv, ProjectFiguresAgree

LEMMA TaskAllocated ==
  ASSUME ProjectsInv, NEW t \in Tasks, NEW r \in Resources, NEW h \in Hours, AllocateTask(t, r, h)
  PROVE  ProjectsInv'
<1>1. h \in Nat
  BY ProjectsAssumption
<1>2. /\ task[t].exists /\ allotted[t][r] = 0
      /\ DayOf(r) + h <= DayHours
      /\ task[t].estimated > 0 => HoursOn(allotted[t], Resources) + h <= task[t].estimated
      /\ allotted' = [allotted EXCEPT ![t][r] = h]
      /\ UNCHANGED <<costs, change, task, goods, worked, cut>>
  BY DEF AllocateTask
<1>3. task \in [Tasks -> TaskRows] /\ allotted \in [Tasks -> [Resources -> Nat]]
  BY DEF ProjectsInv, ProjectsTypeOK, TaskRows
<1>4. /\ allotted' \in [Tasks -> [Resources -> Nat]]
      /\ allotted'[t][r] = h
      /\ \A u \in Tasks, s \in Resources : u # t \/ s # r => allotted'[u][s] = allotted[u][s]
  BY <1>1, <1>2, <1>3
<1>5. ProjectsTypeOK' /\ BalancesAgree' /\ ItemsAgree' /\ HoursAgree' /\ UnbornTasks'
  BY <1>2, <1>4 DEF ProjectsInv, ProjectsTypeOK, TaskRows, ProjectFiguresAgree, BalancesAgree,
     ItemsAgree, HoursAgree, UnbornTasks, costs
<1>6. ASSUME NEW s \in Resources PROVE DayOf(s)' <= DayHours
  <2> DEFINE f == [u \in Tasks |-> allotted[u][s]]
             g == [u \in Tasks |-> allotted'[u][s]]
  <2>1. DayOf(s) = SumFunctionOnSet(f, Tasks) /\ DayOf(s)' = SumFunctionOnSet(g, Tasks)
    BY DEF DayOf, HoursOn
  <2>2. \A u \in Tasks : f[u] \in Int /\ g[u] \in Int
    BY <1>3, <1>4
  <2>3. DayOf(s) <= DayHours
    BY DEF ProjectsInv, ProjectFiguresAgree, AllocationsFit
  <2>4. CASE s = r
    <3>1. f[t] = 0 /\ g[t] = h /\ \A u \in Tasks \ {t} : g[u] = f[u]
      BY <1>2, <1>4, <2>4
    <3>2. SumFunctionOnSet(f, Tasks) \in Int
      <4> HIDE DEF f, g
      <4> QED BY <2>2, ProjectsAssumption, SumType
    <3>3. SumFunctionOnSet(g, Tasks) = SumFunctionOnSet(f, Tasks) - f[t] + g[t]
      <4> HIDE DEF f, g
      <4> QED BY <2>2, <3>1, ProjectsAssumption, SumChanged
    <3> QED
      BY <1>1, <1>2, <2>1, <2>4, <3>1, <3>2, <3>3
  <2>5. CASE s # r
    <3>1. \A u \in Tasks : g[u] = f[u]
      BY <1>4, <2>5
    <3>2. SumFunctionOnSet(g, Tasks) = SumFunctionOnSet(f, Tasks)
      <4> HIDE DEF f, g
      <4> QED BY <3>1, ProjectsAssumption, SumSame
    <3> QED
      BY <2>1, <2>3, <3>2
  <2> QED
    BY <2>4, <2>5
<1>7. ASSUME NEW u \in Tasks, task'[u].estimated > 0
      PROVE  HoursOn(allotted'[u], Resources) <= task'[u].estimated
  <2>1. CASE u = t
    <3>1. \A s \in Resources : allotted[t][s] \in Int /\ allotted'[t][s] \in Int
      BY <1>3, <1>4
    <3>2. \A s \in Resources \ {r} : allotted'[t][s] = allotted[t][s]
      BY <1>4
    <3>3. SumFunctionOnSet(allotted'[t], Resources)
            = SumFunctionOnSet(allotted[t], Resources) - allotted[t][r] + allotted'[t][r]
      BY <3>1, <3>2, ProjectsAssumption, SumChanged
    <3>4. SumFunctionOnSet(allotted[t], Resources) \in Int
      BY <3>1, ProjectsAssumption, SumType
    <3> QED
      BY <1>1, <1>2, <1>4, <1>7, <2>1, <3>3, <3>4 DEF HoursOn
  <2>2. CASE u # t
    <3>1. allotted'[u] = allotted[u]
      BY <1>2, <1>3, <2>2
    <3> QED
      BY <1>2, <1>7, <3>1 DEF ProjectsInv, ProjectFiguresAgree, AllocationsFit
  <2> QED
    BY <2>1, <2>2
<1> QED
  BY <1>5, <1>6, <1>7 DEF ProjectsInv, ProjectFiguresAgree, AllocationsFit

LEMMA HoursWorked ==
  ASSUME ProjectsInv, NEW t \in Tasks, NEW h \in Hours, LogTaskHours(t, h) \/ PostTaskLabour(t, h)
  PROVE  ProjectsInv'
<1>1. h \in Nat
  BY ProjectsAssumption
<1>2. /\ task[t].exists
      /\ Charge("labour", h)
      /\ worked' = [worked EXCEPT ![t] = @ + h]
      /\ \/ task' = [task EXCEPT ![t] = Progressed(@, h)] /\ UNCHANGED cut
         \/ cut' = cut \cup {t} /\ UNCHANGED task
      /\ UNCHANGED <<planning, goods>>
  BY DEF LogTaskHours, PostTaskLabour
<1>3. task \in [Tasks -> TaskRows] /\ worked \in [Tasks -> Nat]
  BY DEF ProjectsInv, ProjectsTypeOK, TaskRows
<1>4. /\ BalancesAgree'
      /\ project' \in [status : {"None", "Draft", "Active", "OnHold", "Completed", "Cancelled"},
                       budget : Nat, baseline : Nat, actual : Nat, balance : Balances]
      /\ wip' \in [status : {"None", "Open", "Closed"}, balance : Balances]
      /\ charged' \in [material : Nat, labour : Nat, released : Nat]
  BY <1>1, <1>2, ChargeAgrees
<1>5. /\ task' \in [Tasks -> TaskRows] /\ worked' \in [Tasks -> Nat]
      /\ \A u \in Tasks : /\ task'[u].exists = task[u].exists
                          /\ task'[u].estimated = task[u].estimated
                          /\ u # t => task'[u] = task[u] /\ worked'[u] = worked[u]
  <2>1. /\ Progressed(task[t], h) \in TaskRows
        /\ Progressed(task[t], h).exists = task[t].exists
        /\ Progressed(task[t], h).estimated = task[t].estimated
    <3>1. /\ task[t].actual + h \in Nat /\ Beyond(task[t].remaining, h) \in Nat
          /\ task[t] \in TaskRows
      BY <1>1, <1>3 DEF TaskRows, Beyond
    <3> QED
      BY <3>1 DEF TaskRows, Progressed
  <2>2. worked' \in [Tasks -> Nat] /\ \A u \in Tasks : u # t => worked'[u] = worked[u]
    BY <1>1, <1>2, <1>3
  <2> QED
    BY <1>2, <1>3, <2>1, <2>2
<1>6. ProjectsTypeOK' /\ ItemsAgree'
  BY <1>2, <1>4, <1>5 DEF ProjectsInv, ProjectsTypeOK, TaskRows, ProjectFiguresAgree, ItemsAgree, planning
<1>7. HoursAgree'
  <2>1. ASSUME NEW u \in Tasks
        PROVE  /\ task'[u].actual <= worked'[u]
               /\ u \notin cut' => task'[u].actual = worked'[u]
               /\ task'[u].remaining = Beyond(task'[u].given, task'[u].actual)
    <3>1. /\ task[u].actual <= worked[u]
          /\ u \notin cut => task[u].actual = worked[u]
          /\ task[u].remaining = Beyond(task[u].given, task[u].actual)
          /\ task[u] \in TaskRows /\ worked[u] \in Nat
      BY <1>3 DEF ProjectsInv, ProjectFiguresAgree, HoursAgree
    <3>2. CASE u # t
      BY <1>2, <1>5, <3>1, <3>2
    <3>3. CASE u = t
      <4>1. worked'[t] = worked[t] + h
        BY <1>2, <1>3
      <4>2. CASE task' = [task EXCEPT ![t] = Progressed(@, h)] /\ UNCHANGED cut
        <5>1. /\ task'[t].actual = task[t].actual + h
              /\ task'[t].remaining = Beyond(task[t].remaining, h)
              /\ task'[t].given = task[t].given
          BY <1>3, <4>2 DEF Progressed, TaskRows
        <5> QED
          BY <1>1, <3>1, <3>3, <4>1, <4>2, <5>1 DEF TaskRows, Beyond
      <4>3. CASE cut' = cut \cup {t} /\ UNCHANGED task
        BY <1>1, <3>1, <3>3, <4>1, <4>3 DEF TaskRows
      <4> QED
        BY <1>2, <4>2, <4>3
    <3> QED
      BY <3>2, <3>3
  <2> QED
    BY <2>1 DEF HoursAgree, Beyond
<1>8. AllocationsFit' /\ UnbornTasks'
  BY <1>2, <1>5 DEF ProjectsInv, ProjectFiguresAgree, AllocationsFit, UnbornTasks, DayOf, planning
<1> QED
  BY <1>4, <1>6, <1>7, <1>8 DEF ProjectsInv, ProjectFiguresAgree

\* The balances of a project, the hours of its tasks, the allocations of its resources
\* and its finished items agree with the rows they are the figures of
\* (projectService.ts, timesheetService.ts, inventoryService.ts).
THEOREM ProjectsSafety == ProjectsSpec => [](ProjectsTypeOK /\ ProjectFiguresAgree)
<1>1. ProjectsInv /\ [ProjectsNext]_projectVars => ProjectsInv'
  <2>1. ProjectsInv /\ UNCHANGED projectVars => ProjectsInv'
    BY DEF projectVars, ProjectsInv, ProjectsTypeOK, ProjectFiguresAgree, BalancesAgree, HoursAgree,
       AllocationsFit, ItemsAgree, UnbornTasks, DayOf
  <2> QED
    BY <2>1, ProjectMoves, MaterialAndLabour, LabourReleased, ItemsAndRequests, TaskCreated,
       TaskAllocated, HoursWorked DEF ProjectsNext
<1>2. ProjectsInv => ProjectsTypeOK /\ ProjectFiguresAgree
  BY DEF ProjectsInv
<1> QED
  BY <1>1, <1>2, ProjectsInitially, PTL DEF ProjectsSpec

-----------------------------------------------------------------------------
(* Purchasing.                                                             *)

\* A requisition's row: its total is that of its lines, which are those that
\* were submitted unless it is still open or was cancelled.
SoundRow(row) ==
  \/ row = Missing
  \/ /\ row = [state |-> row.state, lines |-> row.lines, total |-> row.total,
               asked |-> row.asked]
     /\ row.state # "Missing"
     /\ row.total = SumOf(row.lines)
     /\ row.state \notin {"Draft", "Cancelled"} => row.lines = row.asked

\* A purchase order's row.
SoundPurchaseOrder(row) ==
  /\ row = [state |-> row.state, converts |-> row.converts, lines |-> row.lines,
            total |-> row.total, edited |-> row.edited]
  /\ row.edited \in BOOLEAN
  /\ row.lines # <<>> \/ row.edited = TRUE => row.total = SumOf(row.lines)

RowsSound ==
  /\ requisition = [r \in Requisitions |-> requisition[r]]
  /\ \A r \in Requisitions : SoundRow(requisition[r])
OrdersSound ==
  /\ \E S : purchase \in Seq(S)
  /\ \A o \in DOMAIN purchase : SoundPurchaseOrder(purchase[o])

\* An order that converts a requisition is its only one, made for good.
Converts(row) ==
  row.converts \in Requisitions =>
    /\ requisition[row.converts].state = "ConvertedToPO"
    /\ row.edited = FALSE =>
         /\ row.lines = requisition[row.converts].asked
         /\ row.total = SumOf(requisition[row.converts].asked)
ConversionsSound ==
  /\ \A o \in DOMAIN purchase : Converts(purchase[o])
  /\ \A o, p \in DOMAIN purchase :
       purchase[o].converts \in Requisitions /\ purchase[o].converts = purchase[p].converts
         => o = p
  /\ \A r \in Requisitions : requisition[r].state = "ConvertedToPO" =>
       \E o \in DOMAIN purchase : purchase[o].converts = r

\* Goods are received for orders that are past their draft.
SoundReceipt(g) ==
  \/ receipt[g] = Missing /\ billed[g] = {}
  \/ /\ receipt[g] = [state |-> receipt[g].state, of |-> receipt[g].of]
     /\ receipt[g].state # "Missing"
     /\ receipt[g].of \in DOMAIN purchase
     /\ purchase[receipt[g].of].state # "Draft"
     /\ billed[g] \subseteq {purchase[receipt[g].of].total}
ReceiptsSound ==
  /\ receipt = [g \in Receipts |-> receipt[g]]
  /\ billed = [g \in Receipts |-> billed[g]]
  /\ \A g \in Receipts : SoundReceipt(g)

\* The inductive invariant.
PurchasesInv == RowsSound /\ OrdersSound /\ ConversionsSound /\ ReceiptsSound

-----------------------------------------------------------------------------

\* A row that is appended to a table or replaced in it.
LEMMA Appended ==
  ASSUME NEW s, NEW x, \E S : s \in Seq(S)
  PROVE  /\ \E S : Append(s, x) \in Seq(S)
         /\ DOMAIN Append(s, x) = DOMAIN s \cup {Len(s) + 1}
         /\ Len(s) + 1 \notin DOMAIN s
         /\ Append(s, x)[Len(s) + 1] = x
         /\ \A o \in DOMAIN s : Append(s, x)[o] = s[o]
<1>1. PICK S : s \in Seq(S)
  OBVIOUS
<1>2. s \in Seq(S \cup {x}) /\ x \in S \cup {x}
  BY <1>1
<1> QED BY <1>2

LEMMA Replaced ==
  ASSUME NEW s, NEW x, NEW k \in DOMAIN s, \E S : s \in Seq(S)
  PROVE  /\ \E S : [s EXCEPT ![k] = x] \in Seq(S)
         /\ DOMAIN [s EXCEPT ![k] = x] = DOMAIN s
         /\ [s EXCEPT ![k] = x][k] = x
         /\ \A o \in DOMAIN s \ {k} : [s EXCEPT ![k] = x][o] = s[o]
<1>1. PICK S : s \in Seq(S)
  OBVIOUS
<1>2. s \in Seq(S \cup {x}) /\ x \in S \cup {x}
  BY <1>1
<1>3. [s EXCEPT ![k] = x] \in Seq(S \cup {x})
  BY <1>2
<1> QED BY <1>1, <1>3

\* The open requisitions' steps: one of them gets the row y.
LEMMA RowStep ==
  ASSUME PurchasesInv, NEW r \in Requisitions, NEW y, SoundRow(y),
         requisition' = [requisition EXCEPT ![r] = y],
         y.state # "ConvertedToPO", requisition[r].state # "ConvertedToPO",
         UNCHANGED <<purchase, receipt, billed>>
  PROVE  PurchasesInv'
<1> USE DEF PurchasesInv
<1>1. requisition'[r] = y /\ \A q \in Requisitions \ {r} : requisition'[q] = requisition[q]
  BY DEF RowsSound
<1>2. RowsSound'
  <2>1. \A q \in Requisitions : SoundRow(requisition'[q])
    BY <1>1 DEF RowsSound
  <2> QED BY <2>1 DEF RowsSound, SoundRow
<1>3. ConversionsSound'
  <2>1. \A o \in DOMAIN purchase : purchase[o].converts # r
    BY DEF ConversionsSound, Converts
  <2>2. \A o \in DOMAIN purchase : Converts(purchase[o])'
    BY <1>1, <2>1 DEF ConversionsSound, Converts
  <2>3. \A q \in Requisitions : requisition'[q].state = "ConvertedToPO" =>
          \E o \in DOMAIN purchase : purchase[o].converts = q
    BY <1>1 DEF ConversionsSound
  <2> QED BY <2>2, <2>3 DEF ConversionsSound
<1>4. OrdersSound' /\ ReceiptsSound'
  BY DEF OrdersSound, SoundPurchaseOrder, ReceiptsSound, SoundReceipt
<1> QED BY <1>2, <1>3, <1>4

\* What lines come to: nothing if there are none, and no less than nothing.
LEMMA EmptySum == SumOf(<<>>) = 0
BY SumEmpty DEF SumOf, SumFunction

LEMMA LinesSum == ASSUME NEW lines \in Seq(Nat) PROVE SumOf(lines) \in Nat
<1>1. IsFiniteSet(DOMAIN lines)
  BY FS_Interval
<1>2. \A i \in DOMAIN lines : lines[i] \in Nat
  OBVIOUS
<1> QED
  BY <1>1, <1>2, SumIsNat DEF SumOf, SumFunction

LEMMA TotalledRow ==
  ASSUME NEW row, NEW lines, SoundRow(row), row # Missing, row.state = "Draft"
  PROVE  SoundRow(Totalled(row, lines)) /\ Totalled(row, lines).state = "Draft"
<1>1. row = [state |-> row.state, lines |-> row.lines, total |-> row.total,
             asked |-> row.asked]
  BY DEF SoundRow
<1>2. PICK sum : sum = SumOf(lines)
  OBVIOUS
<1>3. Totalled(row, lines) = [[row EXCEPT !.lines = lines] EXCEPT !.total = sum]
  BY <1>1, <1>2 DEF Totalled
<1>4. [row EXCEPT !.lines = lines] = [state |-> "Draft", lines |-> lines, total |-> row.total,
                                      asked |-> row.asked]
  BY <1>1
<1>5. Totalled(row, lines) = [state |-> "Draft", lines |-> lines, total |-> sum,
                              asked |-> row.asked]
  BY <1>3, <1>4
<1> QED BY <1>2, <1>5 DEF SoundRow, Missing

LEMMA NewRowSound ==
  SoundRow(NewRequisition) /\ NewRequisition # Missing /\ NewRequisition.state = "Draft"
BY EmptySum DEF NewRequisition, SoundRow, Missing

\* Steps that replace the lines of an open requisition.
LEMMA LinesStep ==
  ASSUME PurchasesInv, NEW r \in Requisitions, NEW row, NEW lines,
         \/ row = requisition[r] /\ requisition[r].state = "Draft"
         \/ row = NewRequisition /\ requisition[r] = Missing,
         requisition' = [requisition EXCEPT ![r] = Totalled(row, lines)],
         UNCHANGED <<purchase, receipt, billed>>
  PROVE  PurchasesInv'
<1>1. SoundRow(requisition[r])
  BY DEF PurchasesInv, RowsSound
<1>2. SoundRow(row) /\ row # Missing /\ row.state = "Draft"
  BY <1>1, NewRowSound DEF Missing
<1>3. SoundRow(Totalled(row, lines)) /\ Totalled(row, lines).state = "Draft"
  BY <1>2, TotalledRow
<1>4. requisition[r].state # "ConvertedToPO"
  BY DEF Missing
<1> QED BY <1>3, <1>4, RowStep

\* What each handler does to the rows of the requisitions.
LEMMA CreateStep ==
  ASSUME PurchasesInv, NEW r \in Requisitions, CreateRequisition(r)
  PROVE  PurchasesInv'
<1>1. PICK y : y = NewRequisition
  OBVIOUS
<1>2. requisition[r].state # "ConvertedToPO"
  BY DEF CreateRequisition, Missing
<1>3. SoundRow(y) /\ y.state # "ConvertedToPO"
  BY <1>1, NewRowSound
<1>4. requisition' = [requisition EXCEPT ![r] = y] /\ UNCHANGED <<purchase, receipt, billed>>
  BY <1>1 DEF CreateRequisition
<1> QED BY <1>2, <1>3, <1>4, RowStep

LEMMA MoveRequisitionStep ==
  ASSUME PurchasesInv, NEW r \in Requisitions, MoveRequisition(r)
  PROVE  PurchasesInv'
<1>1. PICK move \in Tables!RequisitionMoves :
        /\ move[1] = requisition[r].state /\ move[2] # "convertToPO"
        /\ requisition' = [requisition EXCEPT ![r].state = move[3],
             ![r].asked = IF move[2] = "submit" THEN requisition[r].lines ELSE @]
  BY DEF MoveRequisition
<1> DEFINE old == requisition[r]
<1>2. PICK to : to = move[3]
  OBVIOUS
<1>3. \/ move[2] = "submit" /\ old.state = "Draft" /\ to = "Submitted"
      \/ move[2] # "submit" /\ old.state = "Submitted" /\ to \in {"Approved", "Rejected"}
      \/ move[2] # "submit" /\ old.state \in {"Draft", "Submitted", "Approved"} /\ to = "Cancelled"
  BY <1>1, <1>2 DEF Tables!RequisitionMoves
<1>4. PICK asked : asked = IF move[2] = "submit" THEN old.lines ELSE old.asked
  OBVIOUS
<1>5. SoundRow(old) /\ old # Missing
  BY <1>3 DEF PurchasesInv, RowsSound, Missing
<1>6. old = [state |-> old.state, lines |-> old.lines, total |-> old.total, asked |-> old.asked]
      /\ old.total = SumOf(old.lines)
      /\ (old.state \notin {"Draft", "Cancelled"} => old.lines = old.asked)
  BY <1>5 DEF SoundRow
<1> DEFINE y == [state |-> to, lines |-> old.lines, total |-> old.total, asked |-> asked]
<1>7. requisition' = [requisition EXCEPT ![r] = y]
  <2>1. requisition' = [requisition EXCEPT ![r] =
           [[old EXCEPT !.state = to] EXCEPT !.asked =
               IF move[2] = "submit" THEN old.lines ELSE [old EXCEPT !.state = to].asked]]
    BY <1>1, <1>2 DEF PurchasesInv, RowsSound
  <2>2. [old EXCEPT !.state = to]
          = [state |-> to, lines |-> old.lines, total |-> old.total, asked |-> old.asked]
    BY <1>6
  <2>3. [[old EXCEPT !.state = to] EXCEPT !.asked =
               IF move[2] = "submit" THEN old.lines ELSE [old EXCEPT !.state = to].asked] = y
    <3>1. PICK z : z = [old EXCEPT !.state = to]
      OBVIOUS
    <3>2. z = [state |-> to, lines |-> old.lines, total |-> old.total, asked |-> old.asked]
      BY <2>2, <3>1
    <3>3. (IF move[2] = "submit" THEN old.lines ELSE z.asked) = asked
      BY <1>4, <3>2
    <3>4. [z EXCEPT !.asked = asked] = y
      BY <3>2
    <3> QED BY <3>1, <3>3, <3>4
  <2> HIDE DEF y
  <2> QED BY <2>1, <2>3
<1>8. SoundRow(y)
  BY <1>3, <1>4, <1>6 DEF SoundRow
<1>9. y.state # "ConvertedToPO" /\ requisition[r].state # "ConvertedToPO"
  BY <1>3
<1> HIDE DEF y
<1> QED BY <1>7, <1>8, <1>9, RowStep DEF MoveRequisition

LEMMA OpenSteps ==
  ASSUME PurchasesInv, NEW r \in Requisitions,
         \/ AddRequisitionLine(r) \/ UpdateRequisitionLine(r) \/ RemoveRequisitionLine(r)
         \/ GenerateLines(r)
  PROVE  PurchasesInv'
<1>1. requisition = [q \in Requisitions |-> requisition[q]]
  BY DEF PurchasesInv, RowsSound
<1>2. ASSUME AddRequisitionLine(r) \/ UpdateRequisitionLine(r) \/ RemoveRequisitionLine(r)
      PROVE  /\ requisition[r].state = "Draft" /\ UNCHANGED <<purchase, receipt, billed>>
             /\ \E lines : requisition' = [requisition EXCEPT ![r] = Totalled(requisition[r], lines)]
  <2>1. CASE AddRequisitionLine(r)
    <3>1. PICK amount :
            requisition' = [requisition EXCEPT ![r] = Totalled(@, Append(@.lines, amount))]
      BY <2>1 DEF AddRequisitionLine
    <3>2. PICK lines : lines = Append(requisition[r].lines, amount)
      OBVIOUS
    <3>3. requisition' = [requisition EXCEPT ![r] = Totalled(requisition[r], lines)]
      BY <1>1, <3>1, <3>2
    <3> QED BY <2>1, <3>3 DEF AddRequisitionLine, IsOpen
  <2>2. CASE UpdateRequisitionLine(r)
    <3>1. PICK k, amount : requisition' = [requisition EXCEPT ![r] =
            Totalled(@, [requisition[r].lines EXCEPT ![k] = amount])]
      BY <2>2 DEF UpdateRequisitionLine
    <3>2. PICK lines : lines = [requisition[r].lines EXCEPT ![k] = amount]
      OBVIOUS
    <3>3. requisition' = [requisition EXCEPT ![r] = Totalled(requisition[r], lines)]
      BY <1>1, <3>1, <3>2
    <3> QED BY <2>2, <3>3 DEF UpdateRequisitionLine, IsOpen
  <2>3. CASE RemoveRequisitionLine(r)
    <3>1. PICK k :
            requisition' = [requisition EXCEPT ![r] = Totalled(@, RemoveAt(@.lines, k))]
      BY <2>3 DEF RemoveRequisitionLine
    <3>2. PICK lines : lines = RemoveAt(requisition[r].lines, k)
      OBVIOUS
    <3>3. requisition' = [requisition EXCEPT ![r] = Totalled(requisition[r], lines)]
      BY <1>1, <3>1, <3>2
    <3> QED BY <2>3, <3>3 DEF RemoveRequisitionLine, IsOpen
  <2> QED BY <1>2, <2>1, <2>2, <2>3
<1>3. CASE GenerateLines(r)
  <2>1. PICK row : row = IF requisition[r] = Missing THEN NewRequisition ELSE requisition[r]
    OBVIOUS
  <2>2. PICK shortages :
          requisition' = [requisition EXCEPT ![r] = Totalled(row, row.lines \o shortages)]
    BY <1>3, <2>1 DEF GenerateLines
  <2>3. \/ row = requisition[r] /\ requisition[r].state = "Draft"
        \/ row = NewRequisition /\ requisition[r] = Missing
    BY <1>3, <2>1 DEF GenerateLines, IsOpen
  <2>4. PICK lines : lines = row.lines \o shortages
    OBVIOUS
  <2>5. requisition' = [requisition EXCEPT ![r] = Totalled(row, lines)]
    BY <2>2, <2>4
  <2> QED BY <1>3, <2>3, <2>5, LinesStep DEF GenerateLines
<1>4. CASE AddRequisitionLine(r) \/ UpdateRequisitionLine(r) \/ RemoveRequisitionLine(r)
  <2>1. PICK lines : requisition' = [requisition EXCEPT ![r] = Totalled(requisition[r], lines)]
    BY <1>2, <1>4
  <2> QED BY <1>2, <1>4, <2>1, LinesStep
<1> QED BY <1>3, <1>4

-----------------------------------------------------------------------------

\* Steps that add an order.
LEMMA AddedOrder ==
  ASSUME PurchasesInv, NEW x, SoundPurchaseOrder(x), purchase' = Append(purchase, x),
         UNCHANGED <<receipt, billed>>
  PROVE  /\ OrdersSound' /\ ReceiptsSound'
         /\ DOMAIN purchase' = DOMAIN purchase \cup {Len(purchase) + 1}
         /\ Len(purchase) + 1 \notin DOMAIN purchase
         /\ purchase'[Len(purchase) + 1] = x
         /\ \A o \in DOMAIN purchase : purchase'[o] = purchase[o]
<1>1. /\ \E S : Append(purchase, x) \in Seq(S)
      /\ DOMAIN Append(purchase, x) = DOMAIN purchase \cup {Len(purchase) + 1}
      /\ Len(purchase) + 1 \notin DOMAIN purchase
      /\ Append(purchase, x)[Len(purchase) + 1] = x
      /\ \A o \in DOMAIN purchase : Append(purchase, x)[o] = purchase[o]
  BY Appended DEF PurchasesInv, OrdersSound
<1>2. /\ \E S : purchase' \in Seq(S)
      /\ DOMAIN purchase' = DOMAIN purchase \cup {Len(purchase) + 1}
      /\ purchase'[Len(purchase) + 1] = x
      /\ \A o \in DOMAIN purchase : purchase'[o] = purchase[o]
  BY <1>1, Zenon
<1>3. \A o \in DOMAIN purchase' : SoundPurchaseOrder(purchase'[o])
  BY <1>2 DEF PurchasesInv, OrdersSound
<1>4. OrdersSound'
  BY <1>2, <1>3 DEF OrdersSound, SoundPurchaseOrder
<1>5. ASSUME NEW g \in Receipts PROVE SoundReceipt(g)'
  <2>1. SoundReceipt(g)
    BY DEF PurchasesInv, ReceiptsSound
  <2> QED BY <1>2, <2>1 DEF SoundReceipt
<1>6. ReceiptsSound'
  BY <1>5 DEF PurchasesInv, ReceiptsSound
<1> QED BY <1>1, <1>2, <1>4, <1>6

\* And to those of the orders.
LEMMA NewOrderStep ==
  ASSUME PurchasesInv, CreatePurchaseOrder
  PROVE  PurchasesInv'
<1> USE DEF PurchasesInv
<1>1. PICK total : purchase' = Append(purchase, NewOrder(NoRequisition, <<>>, total))
  BY DEF CreatePurchaseOrder
<1>2. PICK x : x = NewOrder(NoRequisition, <<>>, total)
  OBVIOUS
<1>3. SoundPurchaseOrder(x) /\ x.converts \notin Requisitions
  BY <1>2, PurchasingAssumption DEF SoundPurchaseOrder, NewOrder
<1>4. /\ OrdersSound' /\ ReceiptsSound'
      /\ DOMAIN purchase' = DOMAIN purchase \cup {Len(purchase) + 1}
      /\ purchase'[Len(purchase) + 1] = x
      /\ \A o \in DOMAIN purchase : purchase'[o] = purchase[o]
  BY <1>1, <1>2, <1>3, AddedOrder DEF CreatePurchaseOrder
<1>5. requisition' = requisition
  BY DEF CreatePurchaseOrder
<1>6. RowsSound'
  BY <1>5 DEF RowsSound
<1>7. ConversionsSound'
  <2>1. \A o \in DOMAIN purchase' : purchase'[o].converts \in Requisitions =>
          o \in DOMAIN purchase /\ purchase'[o] = purchase[o]
    BY <1>3, <1>4
  <2>2. \A o \in DOMAIN purchase' : Converts(purchase[o])'
    BY <1>5, <2>1 DEF ConversionsSound, Converts
  <2>3. \A o, p \in DOMAIN purchase' :
          purchase'[o].converts \in Requisitions /\ purchase'[o].converts = purchase'[p].converts
            => o = p
    BY <2>1 DEF ConversionsSound
  <2>4. \A r \in Requisitions : requisition'[r].state = "ConvertedToPO" =>
          \E o \in DOMAIN purchase' : purchase'[o].converts = r
    BY <1>4, <1>5 DEF ConversionsSound
  <2> QED BY <2>2, <2>3, <2>4 DEF ConversionsSound
<1> QED BY <1>4, <1>6, <1>7

LEMMA ConvertStep ==
  ASSUME PurchasesInv, NEW r \in Requisitions, ConvertRequisition(r)
  PROVE  PurchasesInv'
<1> USE DEF PurchasesInv
<1> DEFINE old == requisition[r]
<1>1. old.state = "Approved" /\ SoundRow(old)
  BY DEF ConvertRequisition, RowsSound
<1>2. /\ old = [state |-> old.state, lines |-> old.lines, total |-> old.total,
                asked |-> old.asked]
      /\ old.total = SumOf(old.lines) /\ old.lines = old.asked
  BY <1>1 DEF SoundRow, Missing
<1>3. PICK x : x = NewOrder(r, old.lines, SumOf(old.lines))
  OBVIOUS
<1>4. purchase' = Append(purchase, x)
  BY <1>2, <1>3 DEF ConvertRequisition
<1>5. /\ SoundPurchaseOrder(x) /\ x.converts = r /\ x.lines = old.asked
      /\ x.total = SumOf(old.asked)
  BY <1>2, <1>3 DEF SoundPurchaseOrder, NewOrder
<1>6. /\ OrdersSound' /\ ReceiptsSound'
      /\ DOMAIN purchase' = DOMAIN purchase \cup {Len(purchase) + 1}
      /\ purchase'[Len(purchase) + 1] = x
      /\ \A o \in DOMAIN purchase : purchase'[o] = purchase[o]
  BY <1>4, <1>5, AddedOrder DEF ConvertRequisition
<1>7. /\ requisition' = [requisition EXCEPT ![r].state = "ConvertedToPO"]
      /\ requisition = [q \in Requisitions |-> requisition[q]]
  BY DEF ConvertRequisition, RowsSound
<1>8. /\ requisition'[r] = [old EXCEPT !.state = "ConvertedToPO"]
      /\ \A q \in Requisitions \ {r} : requisition'[q] = requisition[q]
      /\ requisition' = [q \in Requisitions |-> requisition'[q]]
  BY <1>7
<1>9. requisition'[r] = [state |-> "ConvertedToPO", lines |-> old.lines, total |-> old.total,
                         asked |-> old.asked]
  <2> PICK y : y = old
    OBVIOUS
  <2>1. y = [state |-> y.state, lines |-> y.lines, total |-> y.total, asked |-> y.asked]
    BY <1>2
  <2>2. [y EXCEPT !.state = "ConvertedToPO"]
          = [state |-> "ConvertedToPO", lines |-> y.lines, total |-> y.total, asked |-> y.asked]
    BY <2>1
  <2> QED BY <1>8, <2>2
<1>10. RowsSound'
  <2>1. SoundRow(requisition'[r])
    BY <1>2, <1>9 DEF SoundRow
  <2>2. \A q \in Requisitions : SoundRow(requisition'[q])
    BY <1>8, <2>1 DEF RowsSound
  <2> QED BY <1>8, <2>2 DEF RowsSound, SoundRow
<1>11. \A o \in DOMAIN purchase : purchase[o].converts # r
  BY <1>1 DEF ConversionsSound, Converts
<1>12. ConversionsSound'
  <2>1. \A o \in DOMAIN purchase' :
          \/ o \in DOMAIN purchase /\ purchase'[o] = purchase[o]
          \/ o = Len(purchase) + 1 /\ purchase'[o] = x
    BY <1>6
  <2>2. ASSUME NEW o \in DOMAIN purchase' PROVE Converts(purchase[o])'
    <3>1. CASE o \in DOMAIN purchase /\ purchase'[o] = purchase[o]
      BY <1>8, <1>11, <3>1 DEF ConversionsSound, Converts
    <3>2. CASE purchase'[o] = x
      BY <1>5, <1>9, <3>2 DEF Converts
    <3> QED BY <2>1, <3>1, <3>2
  <2>3. \A o, p \in DOMAIN purchase' :
          purchase'[o].converts \in Requisitions /\ purchase'[o].converts = purchase'[p].converts
            => o = p
    BY <1>5, <1>11, <2>1 DEF ConversionsSound
  <2>4. ASSUME NEW q \in Requisitions, requisition'[q].state = "ConvertedToPO"
        PROVE  \E o \in DOMAIN purchase' : purchase'[o].converts = q
    <3>1. CASE q = r
      BY <1>5, <1>6, <3>1
    <3>2. CASE q # r
      BY <1>6, <1>8, <2>4, <3>2 DEF ConversionsSound
    <3> QED BY <3>1, <3>2
  <2> QED BY <2>2, <2>3, <2>4 DEF ConversionsSound
<1> QED BY <1>6, <1>10, <1>12

\* Steps that change an order: its lines while it is a draft, or its state.
LEMMA ChangedOrder ==
  ASSUME PurchasesInv, NEW o \in DOMAIN purchase, NEW x, SoundPurchaseOrder(x),
         purchase' = [purchase EXCEPT ![o] = x], requisition' = requisition,
         x.converts = purchase[o].converts,
         x.edited = TRUE \/ (/\ x.edited = purchase[o].edited
                             /\ x.lines = purchase[o].lines /\ x.total = purchase[o].total)
  PROVE  /\ RowsSound' /\ OrdersSound' /\ ConversionsSound'
         /\ DOMAIN purchase' = DOMAIN purchase
         /\ purchase'[o] = x
         /\ \A p \in DOMAIN purchase \ {o} : purchase'[p] = purchase[p]
<1> USE DEF PurchasesInv
<1>1. /\ \E S : [purchase EXCEPT ![o] = x] \in Seq(S)
      /\ DOMAIN [purchase EXCEPT ![o] = x] = DOMAIN purchase
      /\ [purchase EXCEPT ![o] = x][o] = x
      /\ \A p \in DOMAIN purchase \ {o} : [purchase EXCEPT ![o] = x][p] = purchase[p]
  BY Replaced DEF OrdersSound
<1>2. /\ \E S : purchase' \in Seq(S)
      /\ DOMAIN purchase' = DOMAIN purchase
      /\ purchase'[o] = x
      /\ \A p \in DOMAIN purchase \ {o} : purchase'[p] = purchase[p]
  BY <1>1, Zenon
<1>3. \A p \in DOMAIN purchase' : SoundPurchaseOrder(purchase'[p])
  BY <1>2 DEF OrdersSound
<1>4. OrdersSound'
  BY <1>2, <1>3 DEF OrdersSound, SoundPurchaseOrder
<1>5. RowsSound'
  BY DEF RowsSound
<1>6. \A p \in DOMAIN purchase : purchase'[p].converts = purchase[p].converts
  BY <1>2
<1>7. ASSUME NEW p \in DOMAIN purchase PROVE Converts(purchase[p])'
  <2>1. Converts(purchase[p])
    BY DEF ConversionsSound
  <2>2. CASE p = o
    BY <1>2, <2>1, <2>2 DEF Converts
  <2>3. CASE p # o
    BY <1>2, <2>1, <2>3 DEF Converts
  <2> QED BY <2>2, <2>3
<1>8. ConversionsSound'
  BY <1>2, <1>6, <1>7 DEF ConversionsSound
<1> QED BY <1>2, <1>4, <1>5, <1>8

LEMMA EditStep ==
  ASSUME PurchasesInv, NEW o \in DOMAIN purchase, ChangePurchaseOrderLines(o)
  PROVE  PurchasesInv'
<1> USE DEF PurchasesInv
<1>1. PICK lines : purchase' = [purchase EXCEPT ![o] = [Totalled(@, lines) EXCEPT !.edited = TRUE]]
  BY DEF ChangePurchaseOrderLines
<1>2. PICK y : y = purchase[o]
  OBVIOUS
<1>3. SoundPurchaseOrder(y) /\ y.state = "Draft"
  BY <1>2 DEF OrdersSound, ChangePurchaseOrderLines, IsOpen
<1>4. PICK sum : sum = SumOf(lines)
  OBVIOUS
<1>5. y = [state |-> y.state, converts |-> y.converts, lines |-> y.lines,
           total |-> y.total, edited |-> y.edited]
  BY <1>3 DEF SoundPurchaseOrder
<1> DEFINE x == [state |-> y.state, converts |-> y.converts, lines |-> lines,
                 total |-> sum, edited |-> TRUE]
<1>6. [Totalled(y, lines) EXCEPT !.edited = TRUE] = x
  <2>1. Totalled(y, lines) = [[y EXCEPT !.lines = lines] EXCEPT !.total = sum]
    BY <1>4 DEF Totalled
  <2>2. [y EXCEPT !.lines = lines] = [state |-> y.state, converts |-> y.converts,
          lines |-> lines, total |-> y.total, edited |-> y.edited]
    BY <1>5
  <2>3. Totalled(y, lines) = [state |-> y.state, converts |-> y.converts, lines |-> lines,
                              total |-> sum, edited |-> y.edited]
    BY <2>1, <2>2
  <2>4. PICK z : z = Totalled(y, lines)
    OBVIOUS
  <2>5. z = [state |-> y.state, converts |-> y.converts, lines |-> lines,
             total |-> sum, edited |-> y.edited]
    BY <2>3, <2>4
  <2>6. [z EXCEPT !.edited = TRUE] = x
    <3>1. PICK t : t = TRUE
      OBVIOUS
    <3>2. [z EXCEPT !.edited = t] = [state |-> y.state, converts |-> y.converts, lines |-> lines,
                                     total |-> sum, edited |-> t]
      BY <2>5
    <3> QED BY <3>1, <3>2, Zenon
  <2> QED BY <2>4, <2>6
<1>7. SoundPurchaseOrder(x) /\ x.converts = y.converts /\ x.edited = TRUE
  BY <1>4 DEF SoundPurchaseOrder
<1> HIDE DEF x
<1>8. purchase' = [purchase EXCEPT ![o] = x]
  <2>1. purchase' = [purchase EXCEPT ![o] = [Totalled(purchase[o], lines) EXCEPT !.edited = TRUE]]
    BY <1>1
  <2> QED BY <1>2, <1>6, <2>1
<1>9. UNCHANGED <<requisition, receipt, billed>>
  BY DEF ChangePurchaseOrderLines
<1>10. /\ RowsSound' /\ OrdersSound' /\ ConversionsSound'
       /\ DOMAIN purchase' = DOMAIN purchase
       /\ \A p \in DOMAIN purchase \ {o} : purchase'[p] = purchase[p]
  BY <1>2, <1>7, <1>8, <1>9, ChangedOrder
<1>11. ASSUME NEW g \in Receipts PROVE SoundReceipt(g)'
  <2>1. SoundReceipt(g)
    BY DEF ReceiptsSound
  <2>2. CASE receipt[g] = Missing /\ billed[g] = {}
    BY <1>9, <2>2 DEF SoundReceipt
  <2>3. CASE /\ receipt[g].of \in DOMAIN purchase
             /\ purchase[receipt[g].of].state # "Draft"
    <3>1. receipt[g].of \in DOMAIN purchase \ {o}
      BY <1>2, <1>3, <2>3
    <3>2. purchase'[receipt[g].of] = purchase[receipt[g].of]
      BY <1>10, <3>1
    <3> QED BY <1>9, <1>10, <2>1, <2>3, <3>2 DEF SoundReceipt
  <2> QED BY <2>1, <2>2, <2>3 DEF SoundReceipt
<1> QED BY <1>9, <1>10, <1>11 DEF ReceiptsSound

\* An order whose state moves on does so for good.
LEMMA MovedOrder ==
  ASSUME PurchasesInv, NEW o \in DOMAIN purchase, NEW to, to # "Draft",
         purchase' = [purchase EXCEPT ![o].state = to], requisition' = requisition
  PROVE  /\ RowsSound' /\ OrdersSound' /\ ConversionsSound'
         /\ DOMAIN purchase' = DOMAIN purchase
         /\ \A p \in DOMAIN purchase : /\ purchase'[p].total = purchase[p].total
                                       /\ purchase[p].state # "Draft" => purchase'[p].state # "Draft"
<1> USE DEF PurchasesInv
<1>2. PICK y : y = purchase[o]
  OBVIOUS
<1>3. SoundPurchaseOrder(y)
  BY <1>2 DEF OrdersSound
<1> DEFINE x == [state |-> to, converts |-> y.converts, lines |-> y.lines,
                 total |-> y.total, edited |-> y.edited]
<1>5. y = [state |-> y.state, converts |-> y.converts, lines |-> y.lines,
           total |-> y.total, edited |-> y.edited]
  BY <1>3 DEF SoundPurchaseOrder
<1>6. [y EXCEPT !.state = to] = x
  BY <1>5
<1>7. SoundPurchaseOrder(x) /\ x.converts = y.converts /\ x.edited = y.edited /\ x.lines = y.lines
      /\ x.total = y.total /\ x.state = to
  BY <1>3 DEF SoundPurchaseOrder
<1> HIDE DEF x
<1>8. purchase' = [purchase EXCEPT ![o] = x]
  <2>1. purchase' = [purchase EXCEPT ![o] = [purchase[o] EXCEPT !.state = to]]
    OBVIOUS
  <2> QED BY <1>2, <1>6, <2>1
<1>10. /\ RowsSound' /\ OrdersSound' /\ ConversionsSound'
       /\ DOMAIN purchase' = DOMAIN purchase
       /\ purchase'[o] = x
       /\ \A p \in DOMAIN purchase \ {o} : purchase'[p] = purchase[p]
  BY <1>2, <1>7, <1>8, ChangedOrder
<1> QED BY <1>2, <1>7, <1>10

LEMMA ReceiptsKept ==
  ASSUME PurchasesInv, UNCHANGED <<receipt, billed>>, DOMAIN purchase' = DOMAIN purchase,
         \A p \in DOMAIN purchase : /\ purchase'[p].total = purchase[p].total
                                    /\ purchase[p].state # "Draft" => purchase'[p].state # "Draft"
  PROVE  ReceiptsSound'
<1>1. ASSUME NEW g \in Receipts PROVE SoundReceipt(g)'
  <2>1. SoundReceipt(g)
    BY DEF PurchasesInv, ReceiptsSound
  <2> QED BY <2>1 DEF SoundReceipt
<1> QED BY <1>1 DEF PurchasesInv, ReceiptsSound

LEMMA MovePurchaseOrderStep ==
  ASSUME PurchasesInv, NEW o \in DOMAIN purchase, MovePurchaseOrder(o)
  PROVE  PurchasesInv'
<1>1. PICK move \in Tables!PurchaseOrderMoves : purchase' = [purchase EXCEPT ![o].state = move[3]]
  BY DEF MovePurchaseOrder
<1>2. PICK to : to = move[3]
  OBVIOUS
<1>3. to # "Draft"
  BY <1>1, <1>2 DEF Tables!PurchaseOrderMoves, Tables!ReceiptMovesOrder
<1>4. purchase' = [purchase EXCEPT ![o].state = to]
  BY <1>1, <1>2
<1>5. /\ RowsSound' /\ OrdersSound' /\ ConversionsSound'
      /\ DOMAIN purchase' = DOMAIN purchase
      /\ \A p \in DOMAIN purchase : /\ purchase'[p].total = purchase[p].total
                                    /\ purchase[p].state # "Draft" => purchase'[p].state # "Draft"
  BY <1>3, <1>4, MovedOrder DEF MovePurchaseOrder
<1>6. ReceiptsSound'
  BY <1>5, ReceiptsKept DEF MovePurchaseOrder
<1> QED BY <1>5, <1>6 DEF PurchasesInv

-----------------------------------------------------------------------------

\* And to those of the receipts and their bills.
LEMMA NewReceiptStep ==
  ASSUME PurchasesInv, NEW g \in Receipts, NEW o \in DOMAIN purchase, CreateGoodsReceipt(g, o)
  PROVE  PurchasesInv'
<1> USE DEF PurchasesInv
<1>1. /\ receipt[g] = Missing /\ purchase[o].state # "Draft"
      /\ receipt' = [receipt EXCEPT ![g] = [state |-> "Draft", of |-> o]]
      /\ UNCHANGED <<requisition, purchase, billed>>
  BY DEF CreateGoodsReceipt
<1>2. /\ receipt'[g] = [state |-> "Draft", of |-> o]
      /\ \A h \in Receipts \ {g} : receipt'[h] = receipt[h]
      /\ receipt' = [h \in Receipts |-> receipt'[h]]
  BY <1>1 DEF ReceiptsSound
<1>3. billed[g] = {}
  BY <1>1 DEF ReceiptsSound, SoundReceipt, Missing
<1>4. SoundReceipt(g)'
  BY <1>1, <1>2, <1>3 DEF SoundReceipt
<1>5. \A h \in Receipts \ {g} : SoundReceipt(h)'
  BY <1>1, <1>2 DEF ReceiptsSound, SoundReceipt
<1>6. ReceiptsSound'
  BY <1>1, <1>2, <1>4, <1>5 DEF ReceiptsSound
<1>7. RowsSound' /\ OrdersSound' /\ ConversionsSound'
  BY <1>1 DEF RowsSound, OrdersSound, SoundPurchaseOrder, ConversionsSound, Converts
<1> QED BY <1>6, <1>7

LEMMA BillStep ==
  ASSUME PurchasesInv, NEW g \in Receipts, CreateInvoiceFromReceipt(g)
  PROVE  PurchasesInv'
<1> USE DEF PurchasesInv
<1>1. /\ receipt[g].state = "Accepted"
      /\ billed' = [billed EXCEPT ![g] = @ \cup {purchase[receipt[g].of].total}]
      /\ UNCHANGED <<requisition, purchase, receipt>>
  BY DEF CreateInvoiceFromReceipt
<1>2. /\ billed'[g] = billed[g] \cup {purchase[receipt[g].of].total}
      /\ \A h \in Receipts \ {g} : billed'[h] = billed[h]
      /\ billed' = [h \in Receipts |-> billed'[h]]
  BY <1>1 DEF ReceiptsSound
<1>3. receipt[g] # Missing
  BY <1>1 DEF Missing
<1>4. SoundReceipt(g)'
  BY <1>1, <1>2, <1>3 DEF ReceiptsSound, SoundReceipt
<1>5. \A h \in Receipts \ {g} : SoundReceipt(h)'
  BY <1>1, <1>2 DEF ReceiptsSound, SoundReceipt
<1>6. ReceiptsSound'
  BY <1>1, <1>2, <1>4, <1>5 DEF ReceiptsSound
<1>7. RowsSound' /\ OrdersSound' /\ ConversionsSound'
  BY <1>1 DEF RowsSound, OrdersSound, SoundPurchaseOrder, ConversionsSound, Converts
<1> QED BY <1>6, <1>7

LEMMA MoveReceiptStep ==
  ASSUME PurchasesInv, NEW g \in Receipts, MoveGoodsReceipt(g)
  PROVE  PurchasesInv'
<1> USE DEF PurchasesInv
<1>1. PICK move \in Tables!GoodsReceiptMoves :
       /\ move[1] = receipt[g].state
       /\ receipt' = [receipt EXCEPT ![g].state = move[3]]
       /\ IF move[3] = "Accepted"
          THEN \E state \in {"PartiallyReceived", "FullyReceived"} :
                 purchase' = [purchase EXCEPT ![receipt[g].of].state = state]
          ELSE UNCHANGED purchase
  BY DEF MoveGoodsReceipt
<1>2. PICK to : to = move[3]
  OBVIOUS
<1>3. to # "Missing" /\ receipt[g].state # "Missing"
  BY <1>1, <1>2 DEF Tables!GoodsReceiptMoves
<1>4. SoundReceipt(g) /\ receipt[g] # Missing
  BY <1>3 DEF ReceiptsSound, Missing
<1>5. PICK y : y = receipt[g]
  OBVIOUS
<1>6. y = [state |-> y.state, of |-> y.of] /\ y.of \in DOMAIN purchase
  BY <1>4, <1>5 DEF SoundReceipt
<1>7. UNCHANGED <<requisition, billed>>
  BY DEF MoveGoodsReceipt
<1>8. /\ RowsSound' /\ OrdersSound' /\ ConversionsSound'
      /\ DOMAIN purchase' = DOMAIN purchase
      /\ \A p \in DOMAIN purchase : /\ purchase'[p].total = purchase[p].total
                                    /\ purchase[p].state # "Draft" => purchase'[p].state # "Draft"
  <2>1. CASE purchase' = purchase
    BY <1>7, <2>1 DEF RowsSound, OrdersSound, SoundPurchaseOrder, ConversionsSound, Converts
  <2>2. ASSUME NEW state \in {"PartiallyReceived", "FullyReceived"},
               purchase' = [purchase EXCEPT ![y.of].state = state]
        PROVE  /\ RowsSound' /\ OrdersSound' /\ ConversionsSound'
               /\ DOMAIN purchase' = DOMAIN purchase
               /\ \A p \in DOMAIN purchase :
                    /\ purchase'[p].total = purchase[p].total
                    /\ purchase[p].state # "Draft" => purchase'[p].state # "Draft"
    BY <1>6, <1>7, <2>2, MovedOrder
  <2> QED BY <1>1, <1>5, <2>1, <2>2
<1>9. /\ receipt'[g] = [state |-> to, of |-> y.of]
      /\ \A h \in Receipts \ {g} : receipt'[h] = receipt[h]
      /\ receipt' = [h \in Receipts |-> receipt'[h]]
  <2>1. receipt = [h \in Receipts |-> receipt[h]]
    BY DEF ReceiptsSound
  <2>2. receipt' = [receipt EXCEPT ![g] = [y EXCEPT !.state = to]]
    BY <1>1, <1>2, <1>5, <2>1
  <2>3. [y EXCEPT !.state = to] = [state |-> to, of |-> y.of]
    BY <1>6
  <2> QED BY <2>1, <2>2, <2>3
<1>10. SoundReceipt(g)'
  BY <1>3, <1>4, <1>5, <1>6, <1>7, <1>8, <1>9 DEF SoundReceipt
<1>11. ASSUME NEW h \in Receipts \ {g} PROVE SoundReceipt(h)'
  <2>1. SoundReceipt(h)
    BY DEF ReceiptsSound
  <2> QED BY <1>7, <1>8, <1>9, <2>1 DEF SoundReceipt
<1>12. ReceiptsSound'
  <2>1. \A h \in Receipts : SoundReceipt(h)'
    BY <1>10, <1>11
  <2> QED BY <1>7, <1>9, <2>1 DEF ReceiptsSound
<1> QED BY <1>8, <1>12

-----------------------------------------------------------------------------

\* The invariant says what is claimed, holds at the start, and is kept.
LEMMA PurchasesInvImplies == PurchasesInv => PurchasesAgree
<1> SUFFICES ASSUME PurchasesInv PROVE PurchasesAgree
  OBVIOUS
<1> USE DEF PurchasesInv
<1>1. \A o \in DOMAIN purchase : purchase[o].edited \in BOOLEAN
  BY DEF OrdersSound, SoundPurchaseOrder
<1>2. ASSUME NEW r \in Requisitions, requisition[r] # Missing
      PROVE  LET row == requisition[r]
                 made == {o \in DOMAIN purchase : purchase[o].converts = r} IN
             /\ row.total = SumOf(row.lines)
             /\ row.state \notin {"Draft", "Cancelled"} => row.lines = row.asked
             /\ Cardinality(made) = IF row.state = "ConvertedToPO" THEN 1 ELSE 0
             /\ \A o \in made : ~purchase[o].edited =>
                  purchase[o].lines = row.asked /\ purchase[o].total = SumOf(row.asked)
  <2> DEFINE row == requisition[r]
             made == {o \in DOMAIN purchase : purchase[o].converts = r}
  <2>1. /\ row.total = SumOf(row.lines)
        /\ row.state \notin {"Draft", "Cancelled"} => row.lines = row.asked
    BY <1>2 DEF RowsSound, SoundRow
  <2>2. \A o \in made : /\ row.state = "ConvertedToPO"
                        /\ purchase[o].edited = FALSE =>
                             purchase[o].lines = row.asked /\ purchase[o].total = SumOf(row.asked)
    BY DEF ConversionsSound, Converts
  <2>3. CASE row.state = "ConvertedToPO"
    <3>1. PICK o \in made : TRUE
      BY <2>3 DEF ConversionsSound
    <3>2. made = {o}
      BY <3>1 DEF ConversionsSound
    <3> HIDE DEF made
    <3>3. Cardinality(made) = 1
      BY <3>2, FS_Singleton
    <3> QED BY <1>1, <2>1, <2>2, <2>3, <3>3 DEF made
  <2>4. CASE row.state # "ConvertedToPO"
    <3>1. made = {}
      BY <2>2, <2>4
    <3> HIDE DEF made
    <3>2. Cardinality(made) = 0
      BY <3>1, FS_EmptySet
    <3> QED BY <1>1, <2>1, <2>2, <2>4, <3>2 DEF made
  <2> QED BY <2>3, <2>4
<1>3. \A o \in DOMAIN purchase : purchase[o].lines # <<>> \/ purchase[o].edited =>
         purchase[o].total = SumOf(purchase[o].lines)
  BY <1>1 DEF OrdersSound, SoundPurchaseOrder
<1>4. \A g \in Receipts : receipt[g] # Missing => billed[g] \subseteq {purchase[receipt[g].of].total}
  BY DEF ReceiptsSound, SoundReceipt
<1> QED BY <1>2, <1>3, <1>4 DEF PurchasesAgree

LEMMA PurchasesInit == PurchasingInit => PurchasesInv
<1> SUFFICES ASSUME PurchasingInit PROVE PurchasesInv
  OBVIOUS
<1>1. <<>> \in Seq({}) /\ DOMAIN purchase = {}
  BY DEF PurchasingInit
<1>2. OrdersSound
  BY <1>1 DEF PurchasingInit, OrdersSound
<1> QED BY <1>1, <1>2 DEF PurchasingInit, PurchasesInv, RowsSound, SoundRow, ConversionsSound,
                          ReceiptsSound, SoundReceipt, Missing

LEMMA PurchasesStep == PurchasesInv /\ [PurchasingNext]_purchasingVars => PurchasesInv'
<1> SUFFICES ASSUME PurchasesInv, [PurchasingNext]_purchasingVars PROVE PurchasesInv'
  OBVIOUS
<1>1. CASE UNCHANGED purchasingVars
  BY <1>1 DEF purchasingVars, PurchasesInv, RowsSound, OrdersSound, SoundPurchaseOrder, ConversionsSound,
              Converts, ReceiptsSound, SoundReceipt
<1> QED
  BY <1>1, CreateStep, MoveRequisitionStep, OpenSteps, ConvertStep, NewOrderStep, EditStep, MovePurchaseOrderStep,
     NewReceiptStep, MoveReceiptStep, BillStep DEF PurchasingNext

\* What is ordered is what was approved, and what a receipt bills is what was
\* ordered (requisitionService.ts, purchaseOrderService.ts, goodsReceiptService.ts).
THEOREM OrderedAsApproved == PurchasingSpec => []PurchasesAgree
BY PurchasesInit, PurchasesStep, PurchasesInvImplies, PTL DEF PurchasingSpec

-----------------------------------------------------------------------------
(* Their types.  The shape of a row is in the invariant above; what its     *)
(* fields hold is not needed there, and is shown here on top of it.         *)

RequisitionRow ==
  [state : RequisitionStates, lines : Seq(Nat), total : Nat, asked : Seq(Nat)]
PurchaseRow ==
  [state : PurchaseStates, converts : Requisitions \cup {NoRequisition},
   lines : Seq(Nat), total : Nat, edited : BOOLEAN]

\* New lines of a row, and the rows that the handlers make.
LEMMA TotalledTypes ==
  ASSUME NEW lines \in Seq(Nat)
  PROVE  /\ \A row \in RequisitionRow : Totalled(row, lines) \in RequisitionRow
         /\ \A row \in PurchaseRow :
              [Totalled(row, lines) EXCEPT !.edited = TRUE] \in PurchaseRow
<1>1. PICK sum \in Nat : sum = SumOf(lines)
  BY LinesSum
<1>2. ASSUME NEW row \in RequisitionRow PROVE Totalled(row, lines) \in RequisitionRow
  <2>1. [row EXCEPT !.lines = lines] \in RequisitionRow
    BY DEF RequisitionRow
  <2>2. \A y \in RequisitionRow : [y EXCEPT !.total = sum] \in RequisitionRow
    BY DEF RequisitionRow
  <2> QED
    BY <1>1, <2>1, <2>2 DEF Totalled
<1>3. ASSUME NEW row \in PurchaseRow
      PROVE  [Totalled(row, lines) EXCEPT !.edited = TRUE] \in PurchaseRow
  <2>1. [row EXCEPT !.lines = lines] \in PurchaseRow
    BY DEF PurchaseRow
  <2>2. \A y \in PurchaseRow : [y EXCEPT !.total = sum] \in PurchaseRow
    BY DEF PurchaseRow
  <2>3. \A y \in PurchaseRow : [y EXCEPT !.edited = TRUE] \in PurchaseRow
    BY DEF PurchaseRow
  <2> QED
    BY <1>1, <2>1, <2>2, <2>3 DEF Totalled
<1> QED
  BY <1>2, <1>3

LEMMA NewRowTypes ==
  /\ NewRequisition \in RequisitionRow
  /\ \A r \in Requisitions \cup {NoRequisition}, lines \in Seq(Nat), total \in Nat :
       NewOrder(r, lines, total) \in PurchaseRow
BY DEF NewRequisition, NewOrder, RequisitionRow, PurchaseRow, RequisitionStates, PurchaseStates

LEMMA ChangedTypes ==
  ASSUME NEW lines \in Seq(Nat), NEW amount \in Nat, NEW k \in DOMAIN lines
  PROVE  /\ [lines EXCEPT ![k] = amount] \in Seq(Nat)
         /\ RemoveAt(lines, k) \in Seq(Nat)
<1>1. [lines EXCEPT ![k] = amount] \in Seq(Nat)
  BY ExceptSeq
<1>2. SubSeq(lines, 1, k - 1) \in Seq(Nat) /\ SubSeq(lines, k + 1, Len(lines)) \in Seq(Nat)
  BY SubSeqProperties
<1> QED
  BY <1>1, <1>2, ConcatProperties DEF RemoveAt

\* Steps that change one row.
LEMMA RequisitionTypes ==
  ASSUME PurchasesInv, PurchasingTypeOK, NEW r \in Requisitions, NEW y \in RequisitionRow,
         requisition' = [requisition EXCEPT ![r] = y], UNCHANGED <<purchase, receipt, billed>>
  PROVE  PurchasingTypeOK'
<1>1. \A q \in Requisitions : requisition'[q] = IF q = r THEN y ELSE requisition[q]
  BY DEF PurchasesInv, RowsSound
<1>2. \A q \in Requisitions : requisition'[q] = Missing \/ requisition'[q] \in RequisitionRow
  BY <1>1 DEF PurchasingTypeOK, RequisitionRow
<1> QED
  BY <1>2 DEF PurchasingTypeOK, RequisitionRow

LEMMA PurchaseTypes ==
  ASSUME PurchasingTypeOK, DOMAIN purchase \subseteq DOMAIN purchase',
         \A o \in DOMAIN purchase' : \/ o \in DOMAIN purchase /\ purchase'[o] = purchase[o]
                                    \/ purchase'[o] \in PurchaseRow
  PROVE  /\ \A o \in DOMAIN purchase' : purchase'[o] \in PurchaseRow
         /\ \A g \in Receipts : receipt[g] = Missing \/
              receipt[g] \in [state : {"Draft", "Received", "Accepted"}, of : DOMAIN purchase']
BY DEF PurchasingTypeOK, PurchaseRow

LEMMA RequisitionStepTypes ==
  ASSUME PurchasesInv, PurchasingTypeOK, NEW r \in Requisitions,
         \/ CreateRequisition(r) \/ MoveRequisition(r) \/ GenerateLines(r)
         \/ AddRequisitionLine(r) \/ UpdateRequisitionLine(r) \/ RemoveRequisitionLine(r)
  PROVE  PurchasingTypeOK'
<1>1. requisition = [q \in Requisitions |-> requisition[q]]
  BY DEF PurchasesInv, RowsSound
<1>2. requisition[r] = Missing \/ requisition[r] \in RequisitionRow
  BY DEF PurchasingTypeOK, RequisitionRow
<1>3. Missing.state = "Missing"
  BY DEF Missing
<1>4. UNCHANGED <<purchase, receipt, billed>>
  BY DEF CreateRequisition, MoveRequisition, GenerateLines, AddRequisitionLine,
         UpdateRequisitionLine, RemoveRequisitionLine
<1>5. \E y \in RequisitionRow : requisition' = [requisition EXCEPT ![r] = y]
  <2>1. CASE CreateRequisition(r)
    BY <2>1, NewRowTypes DEF CreateRequisition
  <2>2. CASE MoveRequisition(r)
    <3>1. PICK move \in Tables!RequisitionMoves :
            /\ move[1] = requisition[r].state
            /\ requisition' = [requisition EXCEPT ![r].state = move[3],
                 ![r].asked = IF move[2] = "submit" THEN requisition[r].lines ELSE @]
      BY <2>2 DEF MoveRequisition
    <3>2. move[1] # "Missing" /\ move[3] \in RequisitionStates
      BY <3>1 DEF Tables!RequisitionMoves, RequisitionStates
    <3>3. PICK old \in RequisitionRow : old = requisition[r]
      BY <1>2, <1>3, <3>1, <3>2
    <3>4. [old EXCEPT !.state = move[3]] \in RequisitionRow
      BY <3>2 DEF RequisitionRow
    <3>5. PICK z \in RequisitionRow : z = [old EXCEPT !.state = move[3]]
      BY <3>4
    <3>6. PICK asked \in Seq(Nat) : asked = IF move[2] = "submit" THEN old.lines ELSE z.asked
      BY DEF RequisitionRow
    <3>7. [z EXCEPT !.asked = asked] \in RequisitionRow
      BY DEF RequisitionRow
    <3>8. requisition' = [requisition EXCEPT ![r] = [z EXCEPT !.asked = asked]]
      BY <1>1, <3>1, <3>3, <3>5, <3>6
    <3> QED
      BY <3>7, <3>8
  <2>3. CASE GenerateLines(r)
    <3>1. PICK row \in RequisitionRow, shortages \in BoundedSeq(Totals, MaxTotal) :
            requisition' = [requisition EXCEPT ![r] = Totalled(row, row.lines \o shortages)]
      <4>1. PICK row : row = IF requisition[r] = Missing THEN NewRequisition ELSE requisition[r]
        OBVIOUS
      <4>2. row \in RequisitionRow
        BY <1>2, <4>1, NewRowTypes
      <4> QED
        BY <2>3, <4>1, <4>2 DEF GenerateLines
    <3>2. shortages \in Seq(Nat)
      <4>1. PICK m \in 0..MaxTotal : shortages \in [1..m -> Totals]
        BY DEF BoundedSeq, SeqOf
      <4>2. m \in Nat /\ Totals \subseteq Nat
        BY <4>1, PurchasingAssumption
      <4>3. [1..m -> Totals] \subseteq [1..m -> Nat]
        BY <4>2
      <4>4. shortages \in [1..m -> Nat]
        BY <4>1, <4>3
      <4> QED
        BY <4>2, <4>4
    <3>3. row.lines \o shortages \in Seq(Nat)
      BY <3>2, ConcatProperties DEF RequisitionRow
    <3> QED
      BY <3>1, <3>3, TotalledTypes
  <2>4. CASE AddRequisitionLine(r) \/ UpdateRequisitionLine(r) \/ RemoveRequisitionLine(r)
    <3>1. PICK old \in RequisitionRow : old = requisition[r]
      BY <1>2, <1>3, <2>4 DEF AddRequisitionLine, UpdateRequisitionLine, RemoveRequisitionLine,
                              IsOpen
    <3>2. old.lines \in Seq(Nat)
      BY DEF RequisitionRow
    <3>3. \E lines \in Seq(Nat) : requisition' = [requisition EXCEPT ![r] = Totalled(old, lines)]
      <4>1. CASE AddRequisitionLine(r)
        <5>1. PICK amount \in Totals :
                requisition' = [requisition EXCEPT ![r] = Totalled(@, Append(@.lines, amount))]
          BY <4>1 DEF AddRequisitionLine
        <5>2. Append(old.lines, amount) \in Seq(Nat)
          BY <3>2, PurchasingAssumption
        <5> QED
          BY <1>1, <3>1, <5>1, <5>2
      <4>2. CASE UpdateRequisitionLine(r)
        <5>1. PICK k \in DOMAIN old.lines, amount \in Totals :
                requisition' = [requisition EXCEPT ![r] =
                                  Totalled(@, [old.lines EXCEPT ![k] = amount])]
          BY <3>1, <4>2 DEF UpdateRequisitionLine
        <5>2. [old.lines EXCEPT ![k] = amount] \in Seq(Nat)
          BY <3>2, PurchasingAssumption, ChangedTypes
        <5> QED
          BY <1>1, <3>1, <5>1, <5>2
      <4>3. CASE RemoveRequisitionLine(r)
        <5>1. PICK k \in DOMAIN old.lines :
                requisition' = [requisition EXCEPT ![r] = Totalled(@, RemoveAt(@.lines, k))]
          BY <3>1, <4>3 DEF RemoveRequisitionLine
        <5>2. RemoveAt(old.lines, k) \in Seq(Nat)
          BY <3>2, ChangedTypes
        <5> QED
          BY <1>1, <3>1, <5>1, <5>2
      <4> QED
        BY <2>4, <4>1, <4>2, <4>3
    <3> QED
      BY <3>3, TotalledTypes
  <2> QED
    BY <2>1, <2>2, <2>3, <2>4
<1> QED
  BY <1>4, <1>5, RequisitionTypes

LEMMA OrderStepTypes ==
  ASSUME PurchasesInv, PurchasingTypeOK
  PROVE  /\ CreatePurchaseOrder => PurchasingTypeOK'
         /\ \A r \in Requisitions : ConvertRequisition(r) => PurchasingTypeOK'
         /\ \A o \in DOMAIN purchase :
              ChangePurchaseOrderLines(o) \/ MovePurchaseOrder(o) => PurchasingTypeOK'
<1>0. \E S : purchase \in Seq(S)
  BY DEF PurchasesInv, OrdersSound
<1>1. ASSUME NEW x \in PurchaseRow, purchase' = Append(purchase, x)
      PROVE  /\ \A o \in DOMAIN purchase' : purchase'[o] \in PurchaseRow
             /\ \A g \in Receipts : receipt[g] = Missing \/
                  receipt[g] \in [state : {"Draft", "Received", "Accepted"}, of : DOMAIN purchase']
  <2>1. /\ DOMAIN purchase' = DOMAIN purchase \cup {Len(purchase) + 1}
        /\ purchase'[Len(purchase) + 1] = x
        /\ \A o \in DOMAIN purchase : purchase'[o] = purchase[o]
    BY <1>0, <1>1, Appended
  <2> QED
    BY <2>1, PurchaseTypes
<1>2. ASSUME NEW o \in DOMAIN purchase, NEW x \in PurchaseRow, purchase' = [purchase EXCEPT ![o] = x]
      PROVE  /\ \A p \in DOMAIN purchase' : purchase'[p] \in PurchaseRow
             /\ \A g \in Receipts : receipt[g] = Missing \/
                  receipt[g] \in [state : {"Draft", "Received", "Accepted"}, of : DOMAIN purchase']
  <2>1. /\ DOMAIN purchase' = DOMAIN purchase
        /\ purchase'[o] = x
        /\ \A p \in DOMAIN purchase \ {o} : purchase'[p] = purchase[p]
    BY <1>0, <1>2, Replaced
  <2> QED
    BY <2>1, PurchaseTypes
<1>3. CASE CreatePurchaseOrder
  <2>1. PICK total \in Totals \cup {0} :
          purchase' = Append(purchase, NewOrder(NoRequisition, <<>>, total))
    BY <1>3 DEF CreatePurchaseOrder
  <2>2. NewOrder(NoRequisition, <<>>, total) \in PurchaseRow
    <3>1. total \in Nat
      BY PurchasingAssumption
    <3>2. <<>> \in Seq(Nat)
      OBVIOUS
    <3> QED
      BY <3>1, <3>2, NewRowTypes
  <2> QED
    BY <1>1, <1>3, <2>1, <2>2 DEF CreatePurchaseOrder, PurchasingTypeOK, PurchaseRow
<1>4. ASSUME NEW r \in Requisitions, ConvertRequisition(r)
      PROVE  PurchasingTypeOK'
  <2>1. PICK old \in RequisitionRow : old = requisition[r]
    BY <1>4 DEF ConvertRequisition, PurchasingTypeOK, RequisitionRow, Missing
  <2>2. PICK total \in Nat : total = IF old.lines = <<>> THEN old.total ELSE SumOf(old.lines)
    BY LinesSum DEF RequisitionRow
  <2>3. purchase' = Append(purchase, NewOrder(r, old.lines, total))
    BY <1>4, <2>1, <2>2 DEF ConvertRequisition
  <2>4. NewOrder(r, old.lines, total) \in PurchaseRow
    BY NewRowTypes DEF RequisitionRow
  <2>5. [old EXCEPT !.state = "ConvertedToPO"] \in RequisitionRow
    BY DEF RequisitionRow, RequisitionStates
  <2>6. \A q \in Requisitions :
          requisition'[q] = IF q = r THEN [old EXCEPT !.state = "ConvertedToPO"] ELSE requisition[q]
    BY <1>4, <2>1 DEF ConvertRequisition, PurchasesInv, RowsSound
  <2>7. \A q \in Requisitions : requisition'[q] = Missing \/ requisition'[q] \in RequisitionRow
    BY <2>5, <2>6 DEF PurchasingTypeOK, RequisitionRow
  <2> QED
    BY <1>1, <1>4, <2>3, <2>4, <2>7
       DEF ConvertRequisition, PurchasingTypeOK, RequisitionRow, PurchaseRow
<1>5. ASSUME NEW o \in DOMAIN purchase, ChangePurchaseOrderLines(o) PROVE PurchasingTypeOK'
  <2>1. PICK y \in PurchaseRow : y = purchase[o]
    BY DEF PurchasingTypeOK, PurchaseRow
  <2>2. PICK lines \in ChangedLines(y.lines) :
          purchase' = [purchase EXCEPT ![o] = [Totalled(@, lines) EXCEPT !.edited = TRUE]]
    BY <1>5, <2>1 DEF ChangePurchaseOrderLines
  <2>3. lines \in Seq(Nat)
    <3>1. y.lines \in Seq(Nat)
      BY DEF PurchaseRow
    <3>2. \/ \E amount \in Totals : lines = Append(y.lines, amount)
          \/ \E k \in DOMAIN y.lines, amount \in Totals : lines = [y.lines EXCEPT ![k] = amount]
          \/ \E k \in DOMAIN y.lines : lines = RemoveAt(y.lines, k)
      BY <2>2 DEF ChangedLines
    <3>3. CASE \E amount \in Totals : lines = Append(y.lines, amount)
      BY <3>1, <3>3, PurchasingAssumption
    <3>4. CASE \E k \in DOMAIN y.lines, amount \in Totals : lines = [y.lines EXCEPT ![k] = amount]
      BY <3>1, <3>4, ChangedTypes, PurchasingAssumption
    <3>5. CASE \E k \in DOMAIN y.lines : lines = RemoveAt(y.lines, k)
      BY <3>1, <3>5, ChangedTypes
    <3> QED
      BY <3>2, <3>3, <3>4, <3>5
  <2>4. [Totalled(y, lines) EXCEPT !.edited = TRUE] \in PurchaseRow
    BY <2>3, TotalledTypes
  <2>5. purchase' = [purchase EXCEPT ![o] = [Totalled(y, lines) EXCEPT !.edited = TRUE]]
    BY <1>0, <2>1, <2>2
  <2> QED
    BY <1>2, <1>5, <2>4, <2>5 DEF ChangePurchaseOrderLines, PurchasingTypeOK, PurchaseRow
<1>6. ASSUME NEW o \in DOMAIN purchase, MovePurchaseOrder(o) PROVE PurchasingTypeOK'
  <2>1. PICK y \in PurchaseRow : y = purchase[o]
    BY DEF PurchasingTypeOK, PurchaseRow
  <2>2. PICK move \in Tables!PurchaseOrderMoves : purchase' = [purchase EXCEPT ![o].state = move[3]]
    BY <1>6 DEF MovePurchaseOrder
  <2>3. move[3] \in PurchaseStates
    BY <2>2 DEF Tables!PurchaseOrderMoves, Tables!ReceiptMovesOrder, PurchaseStates
  <2>4. [y EXCEPT !.state = move[3]] \in PurchaseRow
    BY <2>3 DEF PurchaseRow
  <2>5. purchase' = [purchase EXCEPT ![o] = [y EXCEPT !.state = move[3]]]
    BY <1>0, <2>1, <2>2
  <2> QED
    BY <1>2, <1>6, <2>4, <2>5 DEF MovePurchaseOrder, PurchasingTypeOK, PurchaseRow
<1> QED
  BY <1>3, <1>4, <1>5, <1>6

LEMMA ReceiptStepTypes ==
  ASSUME PurchasesInv, PurchasingTypeOK, NEW g \in Receipts
  PROVE  /\ \A o \in DOMAIN purchase : CreateGoodsReceipt(g, o) => PurchasingTypeOK'
         /\ MoveGoodsReceipt(g) => PurchasingTypeOK'
         /\ CreateInvoiceFromReceipt(g) => PurchasingTypeOK'
<1> DEFINE Row(d) == [state : {"Draft", "Received", "Accepted"}, of : d]
<1>0. receipt = [h \in Receipts |-> receipt[h]]
  BY DEF PurchasesInv, ReceiptsSound
<1>1. ASSUME NEW o \in DOMAIN purchase, CreateGoodsReceipt(g, o) PROVE PurchasingTypeOK'
  <2>1. [state |-> "Draft", of |-> o] \in Row(DOMAIN purchase)
    OBVIOUS
  <2>2. \A h \in Receipts : receipt'[h] = Missing \/ receipt'[h] \in Row(DOMAIN purchase)
    BY <1>0, <1>1, <2>1 DEF CreateGoodsReceipt, PurchasingTypeOK
  <2> QED
    BY <1>1, <2>2 DEF CreateGoodsReceipt, PurchasingTypeOK
<1>2. CASE MoveGoodsReceipt(g)
  <2>1. PICK move \in Tables!GoodsReceiptMoves :
         /\ move[1] = receipt[g].state
         /\ receipt' = [receipt EXCEPT ![g].state = move[3]]
         /\ \/ \E state \in {"PartiallyReceived", "FullyReceived"} :
                 purchase' = [purchase EXCEPT ![receipt[g].of].state = state]
            \/ UNCHANGED purchase
    BY <1>2 DEF MoveGoodsReceipt
  <2>2. move[1] # "Missing" /\ move[3] \in {"Received", "Accepted"}
    BY DEF Tables!GoodsReceiptMoves
  <2>3. PICK y \in Row(DOMAIN purchase) : y = receipt[g]
    BY <2>1, <2>2 DEF PurchasingTypeOK, Missing
  <2>4. y.of \in DOMAIN purchase /\ [y EXCEPT !.state = move[3]] \in Row(DOMAIN purchase)
    BY <2>2
  <2>5. \A h \in Receipts : receipt'[h] = IF h = g THEN [y EXCEPT !.state = move[3]] ELSE receipt[h]
    BY <1>0, <2>1, <2>3
  <2>6. \A h \in Receipts : receipt'[h] = Missing \/ receipt'[h] \in Row(DOMAIN purchase)
    BY <2>4, <2>5 DEF PurchasingTypeOK
  <2>7. DOMAIN purchase' = DOMAIN purchase /\ \A o \in DOMAIN purchase' : purchase'[o] \in PurchaseRow
    <3>1. CASE UNCHANGED purchase
      BY <3>1 DEF PurchasingTypeOK, PurchaseRow
    <3>2. ASSUME NEW state \in {"PartiallyReceived", "FullyReceived"},
                 purchase' = [purchase EXCEPT ![y.of].state = state]
          PROVE  DOMAIN purchase' = DOMAIN purchase
                 /\ \A o \in DOMAIN purchase' : purchase'[o] \in PurchaseRow
      <4>1. PICK z \in PurchaseRow : z = purchase[y.of]
        BY <2>4 DEF PurchasingTypeOK, PurchaseRow
      <4>2. [z EXCEPT !.state = state] \in PurchaseRow
        BY DEF PurchaseRow, PurchaseStates
      <4>3. \E S : purchase \in Seq(S)
        BY DEF PurchasesInv, OrdersSound
      <4>4. purchase' = [purchase EXCEPT ![y.of] = [z EXCEPT !.state = state]]
        BY <3>2, <4>1, <4>3
      <4>5. /\ DOMAIN purchase' = DOMAIN purchase
            /\ purchase'[y.of] = [z EXCEPT !.state = state]
            /\ \A p \in DOMAIN purchase \ {y.of} : purchase'[p] = purchase[p]
        BY <2>4, <4>3, <4>4, Replaced
      <4> QED
        BY <4>2, <4>5 DEF PurchasingTypeOK, PurchaseRow
    <3> QED
      BY <2>1, <2>3, <3>1, <3>2
  <2> QED
    BY <1>2, <2>6, <2>7 DEF MoveGoodsReceipt, PurchasingTypeOK, PurchaseRow
<1>3. CASE CreateInvoiceFromReceipt(g)
  <2>1. receipt[g].state = "Accepted"
    BY <1>3 DEF CreateInvoiceFromReceipt
  <2>2. receipt[g].of \in DOMAIN purchase
    BY <2>1 DEF PurchasingTypeOK, Missing
  <2>3. purchase[receipt[g].of].total \in Nat
    BY <2>2 DEF PurchasingTypeOK
  <2>4. billed' \in [Receipts -> SUBSET Nat]
    BY <1>3, <2>3 DEF CreateInvoiceFromReceipt, PurchasingTypeOK
  <2> QED
    BY <1>3, <2>4 DEF CreateInvoiceFromReceipt, PurchasingTypeOK
<1> QED
  BY <1>1, <1>2, <1>3

\* Every requisition, order, receipt and bill holds what its table holds.
THEOREM PurchasingTypeCorrect == PurchasingSpec => []PurchasingTypeOK
<1>1. PurchasingInit => PurchasingTypeOK
  BY DEF PurchasingInit, PurchasingTypeOK
<1>2. PurchasesInv /\ PurchasingTypeOK /\ [PurchasingNext]_purchasingVars => PurchasingTypeOK'
  <2> SUFFICES ASSUME PurchasesInv, PurchasingTypeOK, [PurchasingNext]_purchasingVars
               PROVE  PurchasingTypeOK'
    OBVIOUS
  <2>1. CASE UNCHANGED purchasingVars
    BY <2>1 DEF purchasingVars, PurchasingTypeOK
  <2> QED
    BY <2>1, RequisitionStepTypes, OrderStepTypes, ReceiptStepTypes DEF PurchasingNext
<1>3. PurchasingSpec => []PurchasesInv
  BY PurchasesInit, PurchasesStep, PTL DEF PurchasingSpec
<1> QED
  BY <1>1, <1>2, <1>3, PTL DEF PurchasingSpec

-----------------------------------------------------------------------------
(* Contracts.                                                              *)

-----------------------------------------------------------------------------
(* Tables.                                                                 *)

\* The rows of a table, one that is added, one that is replaced, two tables joined.
LEMMA TableIndex ==
  ASSUME NEW S, NEW s \in Seq(S)
  PROVE  /\ Len(s) \in Nat /\ DOMAIN s = 1 .. Len(s)
         /\ \A i \in DOMAIN s : s[i] \in S
         /\ IsFiniteSet(DOMAIN s)
<1>1. Len(s) \in Nat /\ DOMAIN s = 1 .. Len(s) /\ \A i \in DOMAIN s : s[i] \in S
  OBVIOUS
<1>2. IsFiniteSet(1 .. Len(s))
  BY <1>1, FS_Interval
<1> QED BY <1>1, <1>2

LEMMA RowAdded ==
  ASSUME NEW S, NEW s \in Seq(S), NEW x \in S
  PROVE  /\ Append(s, x) \in Seq(S)
         /\ Len(Append(s, x)) = Len(s) + 1
         /\ DOMAIN Append(s, x) = DOMAIN s \cup {Len(s) + 1}
         /\ Len(s) + 1 \notin DOMAIN s
         /\ Append(s, x)[Len(s) + 1] = x
         /\ \A o \in DOMAIN s : Append(s, x)[o] = s[o]
OBVIOUS

LEMMA RowReplaced ==
  ASSUME NEW S, NEW s \in Seq(S), NEW k \in DOMAIN s, NEW x \in S
  PROVE  /\ [s EXCEPT ![k] = x] \in Seq(S)
         /\ Len([s EXCEPT ![k] = x]) = Len(s)
         /\ DOMAIN [s EXCEPT ![k] = x] = DOMAIN s
         /\ [s EXCEPT ![k] = x][k] = x
         /\ \A o \in DOMAIN s \ {k} : [s EXCEPT ![k] = x][o] = s[o]
OBVIOUS

LEMMA RowsJoined ==
  ASSUME NEW S, NEW s \in Seq(S), NEW t \in Seq(S)
  PROVE  /\ s \o t \in Seq(S)
         /\ DOMAIN s \subseteq DOMAIN (s \o t)
         /\ \A o \in DOMAIN s : (s \o t)[o] = s[o]
         /\ \A o \in DOMAIN (s \o t) \ DOMAIN s : \E i \in DOMAIN t : (s \o t)[o] = t[i]
<1>1. /\ s \o t \in Seq(S) /\ Len(s \o t) = Len(s) + Len(t)
      /\ DOMAIN s = 1 .. Len(s) /\ DOMAIN t = 1 .. Len(t)
      /\ DOMAIN (s \o t) = 1 .. Len(s) + Len(t)
      /\ Len(s) \in Nat /\ Len(t) \in Nat
  OBVIOUS
<1>2. \A o \in 1 .. Len(s) : (s \o t)[o] = s[o]
  OBVIOUS
<1>3. ASSUME NEW o \in (1 .. Len(s) + Len(t)) \ (1 .. Len(s))
      PROVE  o - Len(s) \in 1 .. Len(t) /\ (s \o t)[o] = t[o - Len(s)]
  <2>1. o \in Nat /\ o > Len(s) /\ o <= Len(s) + Len(t)
    BY <1>1
  <2> QED BY <1>1, <2>1
<1> QED BY <1>1, <1>2, <1>3

-----------------------------------------------------------------------------
(* The contract and its versions.                                          *)

Version == [status : {"Draft", "Approved", "Superseded"}, value : Nat, deliverables : Nat]

\* Versions are in order, and the contract names one of them or none.
TermsInv ==
  /\ contract \in [status : {"None", "Draft", "Active"}, current : Nat]
  /\ terms \in Seq(Version)
  /\ contract.current \in {None} \cup DOMAIN terms
  /\ contract.status = "None" => terms = <<>>
  /\ VersionsInOrder

\* What is agreed is kept, whatever is agreed anew.
AgreedGrows ==
  /\ contract.current <= contract'.current
  /\ DOMAIN terms \subseteq DOMAIN terms'
  /\ \A v \in DOMAIN terms : terms'[v].value = terms[v].value

\* What a draft changes of a contract.
LEMMA AddDraftEffect ==
  ASSUME TermsInv, NEW value \in ContractValues, NEW n \in Deliverables, AddDraft(value, n)
  PROVE  /\ terms' \in Seq(Version)
         /\ Len(terms) \in Nat /\ Len(terms') = Len(terms) + 1
         /\ DOMAIN terms = 1 .. Len(terms) /\ DOMAIN terms' = 1 .. Len(terms) + 1
         /\ terms'[Len(terms) + 1].status = "Draft"
         /\ \A v \in DOMAIN terms : terms'[v] = terms[v]
<1> DEFINE x == [status |-> "Draft", value |-> value, deliverables |-> n]
<1>1. x \in Version /\ x.status = "Draft"
  BY ContractsAssumption DEF Version
<1>2. terms' = Append(terms, x)
  BY DEF AddDraft
<1> HIDE DEF x
<1>3. terms \in Seq(Version)
  BY DEF TermsInv
<1> QED BY <1>1, <1>2, <1>3

\* The handlers of contracts.
LEMMA CreateContractStep ==
  ASSUME TermsInv, NEW value \in ContractValues, NEW n \in Deliverables,
         CreateContract(value, n)
  PROVE  TermsInv' /\ AgreedGrows
<1>1. /\ terms' \in Seq(Version)
      /\ Len(terms) \in Nat /\ Len(terms') = Len(terms) + 1
      /\ DOMAIN terms = 1 .. Len(terms) /\ DOMAIN terms' = 1 .. Len(terms) + 1
      /\ terms'[Len(terms) + 1].status = "Draft"
      /\ \A v \in DOMAIN terms : terms'[v] = terms[v]
  BY AddDraftEffect DEF CreateContract
<1>2. Len(terms) = 0 /\ contract.current = 0
  BY DEF TermsInv, CreateContract, None
<1>3. contract' = [status |-> "Draft", current |-> 0]
  BY <1>2 DEF TermsInv, CreateContract
<1>4. VersionsInOrder'
  BY <1>1, <1>2, <1>3 DEF VersionsInOrder, None
<1> QED BY <1>1, <1>2, <1>3, <1>4 DEF TermsInv, AgreedGrows, None

LEMMA AmendStep ==
  ASSUME TermsInv, NEW value \in ContractValues, NEW n \in Deliverables,
         CreateContractAmendment(value, n)
  PROVE  TermsInv' /\ AgreedGrows
<1>1. /\ terms' \in Seq(Version)
      /\ Len(terms) \in Nat /\ Len(terms') = Len(terms) + 1
      /\ DOMAIN terms = 1 .. Len(terms) /\ DOMAIN terms' = 1 .. Len(terms) + 1
      /\ terms'[Len(terms) + 1].status = "Draft"
      /\ \A v \in DOMAIN terms : terms'[v] = terms[v]
  BY AddDraftEffect DEF CreateContractAmendment
<1>2. /\ contract' = contract /\ contract.status = "Active" /\ contract.current \in Nat
      /\ \A v \in DOMAIN terms : terms[v].status # "Draft"
      /\ contract.current \in {0} \cup (1 .. Len(terms))
  BY <1>1 DEF CreateContractAmendment, TermsInv, None
<1>3. VersionsInOrder'
  <2>1. ASSUME NEW v \in DOMAIN terms'
        PROVE  \/ v < contract.current /\ terms'[v].status = "Superseded"
               \/ v = contract.current /\ terms'[v].status = "Approved"
               \/ v > contract.current /\ terms'[v].status = "Draft" /\ v = Len(terms')
    <3>1. CASE v \in DOMAIN terms
      BY <1>1, <1>2, <3>1 DEF TermsInv, VersionsInOrder
    <3>2. CASE v = Len(terms) + 1
      <4>1. contract.current < v
        <5>1. contract.current \in Nat /\ Len(terms) \in Nat
          BY <1>1, <1>2
        <5>2. contract.current \in {0} \cup (1 .. Len(terms))
          BY <1>2
        <5>3. contract.current <= Len(terms)
          BY <5>1, <5>2
        <5> QED BY <3>2, <5>1, <5>3
      <4>2. v = Len(terms')
        BY <1>1, <3>2
      <4>3. terms'[v].status = "Draft"
        BY <1>1, <3>2
      <4> QED BY <1>1, <1>2, <4>1, <4>2, <4>3
    <3> QED BY <1>1, <3>1, <3>2
  <2> QED BY <1>2, <2>1 DEF TermsInv, VersionsInOrder
<1> QED BY <1>1, <1>2, <1>3 DEF TermsInv, AgreedGrows

LEMMA ApproveVersionStep ==
  ASSUME TermsInv, NEW v \in DOMAIN terms, ApproveContractVersion(v)
  PROVE  TermsInv' /\ AgreedGrows
<1>1. /\ terms \in Seq(Version) /\ Len(terms) \in Nat /\ DOMAIN terms = 1 .. Len(terms)
      /\ contract.current \in Nat
  BY DEF TermsInv
<1>2. v > contract.current /\ v = Len(terms)
  BY DEF ApproveContractVersion, TermsInv, VersionsInOrder
<1>3. contract' = [status |-> "Active", current |-> v]
  BY DEF ApproveContractVersion
<1>4. /\ DOMAIN terms' = DOMAIN terms
      /\ \A w \in DOMAIN terms : terms'[w] =
           IF w = v THEN [terms[w] EXCEPT !.status = "Approved"]
           ELSE IF w = contract.current THEN [terms[w] EXCEPT !.status = "Superseded"]
           ELSE terms[w]
  BY DEF ApproveContractVersion, Approved
<1>5. ASSUME NEW w \in DOMAIN terms
      PROVE  /\ terms'[w] \in Version /\ terms'[w].value = terms[w].value
             /\ terms'[w].status = IF w = v THEN "Approved"
                                   ELSE IF w = contract.current THEN "Superseded"
                                   ELSE terms[w].status
  <2>1. PICK s : s = IF w = v THEN "Approved"
                     ELSE IF w = contract.current THEN "Superseded" ELSE terms[w].status
    OBVIOUS
  <2>2. terms[w] \in Version
    BY <1>1
  <2>3. s \in {"Draft", "Approved", "Superseded"}
    BY <2>1, <2>2 DEF Version
  <2>4. terms'[w] = [terms[w] EXCEPT !.status = s]
    <3>1. CASE w = v
      BY <1>4, <2>1, <3>1
    <3>2. CASE w # v /\ w = contract.current
      BY <1>4, <2>1, <3>2
    <3>3. CASE w # v /\ w # contract.current
      <4>1. terms'[w] = terms[w] /\ s = terms[w].status
        BY <1>4, <2>1, <3>3
      <4> QED BY <2>2, <4>1 DEF Version
    <3> QED BY <3>1, <3>2, <3>3
  <2>5. terms'[w] \in Version /\ terms'[w].value = terms[w].value /\ terms'[w].status = s
    BY <2>2, <2>3, <2>4 DEF Version
  <2> QED BY <2>1, <2>5
<1>6. terms' \in Seq(Version) /\ Len(terms') = Len(terms)
  <2>1. terms' = [w \in 1 .. Len(terms) |-> terms'[w]]
    BY <1>1 DEF ApproveContractVersion, Approved
  <2> QED BY <1>1, <1>5, <2>1
<1>8. VersionsInOrder'
  <2>1. ASSUME NEW w \in DOMAIN terms
        PROVE  \/ w < v /\ terms'[w].status = "Superseded"
               \/ w = v /\ terms'[w].status = "Approved"
    <3>1. CASE w = v
      BY <1>5, <3>1
    <3>2. CASE w # v
      <4>1. w < v
        BY <1>1, <1>2, <3>2
      <4>2. \/ w < contract.current /\ terms[w].status = "Superseded"
            \/ w = contract.current
        BY <1>2, <3>2 DEF TermsInv, VersionsInOrder
      <4> QED BY <1>5, <3>2, <4>1, <4>2
    <3> QED BY <3>1, <3>2
  <2>2. v # 0
    BY <1>1
  <2> QED BY <1>3, <1>4, <2>1, <2>2 DEF VersionsInOrder, None
<1> QED BY <1>1, <1>2, <1>3, <1>4, <1>5, <1>6, <1>8 DEF TermsInv, AgreedGrows

\* A version that is pinned to is one up to the current one.
LEMMA NotDraft ==
  ASSUME TermsInv, NEW v \in DOMAIN terms, v <= contract.current
  PROVE  terms[v].status # "Draft"
BY DEF TermsInv, VersionsInOrder

-----------------------------------------------------------------------------
(* Projects and their work breakdown.                                      *)

Engagement == [status : {"Open", "Ended"}, version : Nat]
Element == [project : Nat, version : Nat, sku : SUBSET Skus]

\* Projects and their elements name versions that were agreed.
WorkInv ==
  /\ engagement \in Seq(Engagement) /\ element \in Seq(Element)
  /\ \A e \in DOMAIN engagement : /\ engagement[e].version \in DOMAIN terms
                                  /\ engagement[e].version <= contract.current
  /\ \A w \in DOMAIN element : /\ element[w].project \in DOMAIN engagement
                               /\ element[w].version \in DOMAIN terms
                               /\ element[w].version <= contract.current

\* Projects keep their version, and elements all they have.
WorkGrows ==
  /\ DOMAIN engagement \subseteq DOMAIN engagement'
  /\ \A e \in DOMAIN engagement : engagement'[e].version = engagement[e].version
  /\ DOMAIN element \subseteq DOMAIN element'
  /\ \A w \in DOMAIN element : element'[w] = element[w]

\* Work that is mapped stays mapped while versions are only added.
LEMMA WorkKept ==
  ASSUME TermsInv, TermsInv', WorkInv, AgreedGrows, UNCHANGED work
  PROVE  WorkInv' /\ WorkGrows
<1>1. /\ \A e \in DOMAIN engagement : engagement[e].version \in Nat
      /\ \A w \in DOMAIN element : element[w].version \in Nat
      /\ contract.current \in Nat /\ contract'.current \in Nat
  BY DEF TermsInv, WorkInv, Engagement, Element
<1>2. engagement' = engagement /\ element' = element
  BY DEF work
<1>3. /\ \A e \in DOMAIN engagement : /\ engagement[e].version \in DOMAIN terms'
                                      /\ engagement[e].version <= contract'.current
      /\ \A w \in DOMAIN element : /\ element[w].version \in DOMAIN terms'
                                   /\ element[w].version <= contract'.current
  BY <1>1 DEF WorkInv, AgreedGrows
<1> QED BY <1>2, <1>3 DEF WorkInv, WorkGrows

LEMMA ElementsAre ==
  ASSUME NEW e \in Nat, NEW v \in Nat, NEW d \in SUBSET Skus, NEW n \in Nat
  PROVE  /\ Elements(e, v, d, n) \in Seq(Element)
         /\ DOMAIN Elements(e, v, d, n) = 1 .. n
         /\ \A i \in 1 .. n : /\ Elements(e, v, d, n)[i].project = e
                              /\ Elements(e, v, d, n)[i].version = v
<1>1. [project |-> e, version |-> v, sku |-> d] \in Element
  BY DEF Element
<1> QED BY <1>1 DEF Elements

\* The handlers of projects and of their work breakdown.
LEMMA EngageStep ==
  ASSUME TermsInv, WorkInv, CreateEngagement
  PROVE  WorkInv' /\ WorkGrows
<1> DEFINE v == contract.current
           n == 1 + terms[v].deliverables
           k == Len(engagement) + 1
           x == [status |-> "Open", version |-> v]
<1>1. /\ v \in DOMAIN terms /\ v \in Nat /\ n \in Nat /\ k \in Nat
      /\ engagement \in Seq(Engagement) /\ element \in Seq(Element)
  <2>1. v # 0 /\ terms \in Seq(Version) /\ v \in Nat /\ v \in {0} \cup DOMAIN terms
    BY DEF CreateEngagement, TermsInv, None
  <2>2. terms[v] \in Version
    BY <2>1
  <2>3. n \in Nat
    BY <2>2 DEF Version
  <2> QED BY <2>1, <2>3 DEF WorkInv
<1>2. /\ engagement' = Append(engagement, x)
      /\ element' = element \o Elements(k, v, {}, n)
      /\ terms' = terms /\ contract' = contract
  BY DEF CreateEngagement, agreed
<1>3. x \in Engagement /\ x.version = v
  BY <1>1 DEF Engagement
<1>4. /\ Elements(k, v, {}, n) \in Seq(Element)
      /\ \A i \in DOMAIN Elements(k, v, {}, n) : /\ Elements(k, v, {}, n)[i].project = k
                                                 /\ Elements(k, v, {}, n)[i].version = v
  BY <1>1, ElementsAre
<1>5. PICK more : more = Elements(k, v, {}, n)
  OBVIOUS
<1> HIDE DEF n, x
<1>6. /\ engagement' \in Seq(Engagement)
      /\ DOMAIN engagement' = DOMAIN engagement \cup {k}
      /\ engagement'[k].version = v
      /\ \A e \in DOMAIN engagement : engagement'[e] = engagement[e]
  BY <1>1, <1>2, <1>3, RowAdded
<1>7. /\ element' \in Seq(Element)
      /\ DOMAIN element \subseteq DOMAIN element'
      /\ \A w \in DOMAIN element : element'[w] = element[w]
      /\ \A w \in DOMAIN element' \ DOMAIN element : \E i \in DOMAIN more : element'[w] = more[i]
  <2>1. element' = element \o more /\ more \in Seq(Element)
    BY <1>2, <1>4, <1>5
  <2> QED BY <1>1, <2>1, RowsJoined
<1>8. \A w \in DOMAIN element' \ DOMAIN element : element'[w].project = k /\ element'[w].version = v
  BY <1>4, <1>5, <1>7
<1> QED BY <1>1, <1>2, <1>6, <1>7, <1>8 DEF WorkInv, WorkGrows

LEMMA EndStep ==
  ASSUME TermsInv, WorkInv, NEW e \in DOMAIN engagement, EndEngagement(e)
  PROVE  WorkInv' /\ WorkGrows
<1>1. /\ engagement \in Seq(Engagement) /\ engagement[e] \in Engagement
  BY TableIndex DEF WorkInv
<1>2. PICK x : x = [engagement[e] EXCEPT !.status = "Ended"]
  OBVIOUS
<1>3. x \in Engagement /\ x.version = engagement[e].version
  BY <1>1, <1>2 DEF Engagement
<1>4. /\ engagement' = [engagement EXCEPT ![e] = x]
      /\ element' = element /\ terms' = terms /\ contract' = contract
  BY <1>2 DEF EndEngagement, agreed
<1>5. /\ engagement' \in Seq(Engagement) /\ DOMAIN engagement' = DOMAIN engagement
      /\ engagement'[e] = x
      /\ \A p \in DOMAIN engagement \ {e} : engagement'[p] = engagement[p]
  BY <1>1, <1>3, <1>4, RowReplaced
<1>6. \A p \in DOMAIN engagement : engagement'[p].version = engagement[p].version
  BY <1>3, <1>5
<1> QED BY <1>4, <1>5, <1>6 DEF WorkInv, WorkGrows

LEMMA ElementStep ==
  ASSUME TermsInv, WorkInv, NEW e \in DOMAIN engagement,
         NEW d \in SUBSET Skus, CreateElement(e, d)
  PROVE  WorkInv' /\ WorkGrows
<1>1. /\ engagement \in Seq(Engagement) /\ engagement[e] \in Engagement
      /\ element \in Seq(Element) /\ e \in Nat
  BY TableIndex DEF WorkInv
<1>2. PICK v : v = engagement[e].version
  OBVIOUS
<1>3. v \in Nat
  BY <1>1, <1>2 DEF Engagement
<1>4. PICK more : more = Elements(e, v, d, 1)
  OBVIOUS
<1>5. /\ more \in Seq(Element)
      /\ \A i \in DOMAIN more : more[i].project = e /\ more[i].version = v
  BY <1>1, <1>3, <1>4, ElementsAre
<1>6. /\ element' = element \o more /\ engagement' = engagement
      /\ terms' = terms /\ contract' = contract
  BY <1>2, <1>4 DEF CreateElement, agreed
<1>7. /\ element' \in Seq(Element)
      /\ DOMAIN element \subseteq DOMAIN element'
      /\ \A w \in DOMAIN element : element'[w] = element[w]
      /\ \A w \in DOMAIN element' \ DOMAIN element : \E i \in DOMAIN more : element'[w] = more[i]
  BY <1>1, <1>5, <1>6, RowsJoined
<1>8. \A w \in DOMAIN element' \ DOMAIN element : element'[w].project = e /\ element'[w].version = v
  BY <1>5, <1>7
<1> QED BY <1>2, <1>6, <1>7, <1>8 DEF WorkInv, WorkGrows

-----------------------------------------------------------------------------
(* Quotes.                                                                 *)

QuoteLine == [sku : Skus, total : Nat]
Quote == [state : {"Draft", "Sent", "Accepted", "Rejected", "Expired", "ConvertedToOrder"},
          total : Nat, lines : Seq(QuoteLine)]

\* What lines come to.
LinesTotal(lines) ==
  SumFunctionOnSet([i \in DOMAIN lines |-> lines[i].total], DOMAIN lines)

SoundQuote(q) ==
  /\ q \in Quote
  /\ Len(q.lines) <= MaxQuoteLines
  /\ q.total = LinesTotal(q.lines)

\* Every quote has the total of its lines.
QuoteInv ==
  /\ quote \in Seq(Quote)
  /\ \A q \in DOMAIN quote : SoundQuote(quote[q])

Converted == {q \in DOMAIN quote : quote[q].state = "ConvertedToOrder"}

\* The total of a quote that has no lines, and of one that has one more.
LEMMA NoLines == LinesTotal(<<>>) = 0
<1>1. DOMAIN <<>> = {}
  OBVIOUS
<1>2. SumFunctionOnSet([i \in DOMAIN <<>> |-> <<>>[i].total], {}) = 0
  BY SumEmpty
<1> QED BY <1>1, <1>2, Zenon DEF LinesTotal

LEMMA LineAdded ==
  ASSUME NEW lines \in Seq(QuoteLine), NEW l \in QuoteLine
  PROVE  /\ LinesTotal(lines) \in Nat
         /\ LinesTotal(Append(lines, l)) = LinesTotal(lines) + l.total
<1> DEFINE n == Len(lines) + 1
           f == [i \in DOMAIN lines |-> lines[i].total]
           g == [i \in DOMAIN Append(lines, l) |-> Append(lines, l)[i].total]
           S == DOMAIN lines
<1>1. /\ DOMAIN Append(lines, l) = S \cup {n} /\ n \notin S
      /\ Append(lines, l)[n] = l
      /\ \A i \in S : Append(lines, l)[i] = lines[i]
  BY RowAdded
<1>2. IsFiniteSet(S) /\ \A i \in S : lines[i] \in QuoteLine
  BY TableIndex
<1>3. \A i \in S : f[i] \in Nat
  BY <1>2 DEF QuoteLine
<1>4. g[n] = l.total /\ l.total \in Nat
  BY <1>1 DEF QuoteLine
<1>5. \A i \in S : g[i] = f[i]
  BY <1>1
<1>6. LinesTotal(lines) = SumFunctionOnSet(f, S)
  BY DEF LinesTotal
<1>7. LinesTotal(Append(lines, l)) = SumFunctionOnSet(g, S \cup {n})
  BY <1>1, Zenon DEF LinesTotal
<1> HIDE DEF n, f, g, S
<1>8. SumFunctionOnSet(f, S) \in Nat
  BY <1>2, <1>3, SumIsNat
<1>9. \A i \in S \cup {n} : g[i] \in Int
  BY <1>3, <1>4, <1>5
<1>10. SumFunctionOnSet(g, S \cup {n}) = SumFunctionOnSet(g, S) + g[n]
  BY <1>1, <1>2, <1>9, SumAdded
<1>11. SumFunctionOnSet(g, S) = SumFunctionOnSet(f, S)
  BY <1>2, <1>5, SumSame
<1> QED BY <1>4, <1>6, <1>7, <1>8, <1>10, <1>11

\* Steps that put one quote in the place of another.
LEMMA QuoteReplaced ==
  ASSUME QuoteInv, NEW q \in DOMAIN quote, NEW x, SoundQuote(x),
         quote' = [quote EXCEPT ![q] = x]
  PROVE  /\ QuoteInv'
         /\ Converted' = IF x.state = "ConvertedToOrder" THEN Converted \cup {q}
                         ELSE Converted \ {q}
<1>1. quote \in Seq(Quote) /\ x \in Quote
  BY DEF QuoteInv, SoundQuote
<1>2. /\ quote' \in Seq(Quote) /\ DOMAIN quote' = DOMAIN quote
      /\ quote'[q] = x
      /\ \A p \in DOMAIN quote \ {q} : quote'[p] = quote[p]
  BY <1>1, RowReplaced
<1>3. \A p \in DOMAIN quote' : SoundQuote(quote'[p])
  BY <1>2 DEF QuoteInv
<1>4. QuoteInv'
  BY <1>2, <1>3 DEF QuoteInv, SoundQuote
<1>5. Converted' = IF x.state = "ConvertedToOrder" THEN Converted \cup {q} ELSE Converted \ {q}
  BY <1>2 DEF Converted
<1> QED BY <1>4, <1>5

\* The handlers of quotes.
LEMMA CreateQuoteStep ==
  ASSUME QuoteInv, CreateQuote
  PROVE  QuoteInv' /\ Converted' = Converted
<1> DEFINE n == Len(quote) + 1
<1>1. PICK x : x = [state |-> "Draft", total |-> 0, lines |-> <<>>]
  OBVIOUS
<1>2. /\ x \in Quote /\ x.state = "Draft" /\ x.lines = <<>> /\ x.total = 0
      /\ Len(x.lines) = 0
  BY <1>1 DEF Quote
<1>3. SoundQuote(x)
  BY <1>2, NoLines, ContractsAssumption DEF SoundQuote
<1>4. quote' = Append(quote, x) /\ quote \in Seq(Quote)
  BY <1>1 DEF CreateQuote, QuoteInv
<1>5. /\ quote' \in Seq(Quote) /\ DOMAIN quote' = DOMAIN quote \cup {n} /\ n \notin DOMAIN quote
      /\ quote'[n] = x
      /\ \A p \in DOMAIN quote : quote'[p] = quote[p]
  BY <1>2, <1>4, RowAdded
<1>6. \A p \in DOMAIN quote' : SoundQuote(quote'[p])
  BY <1>3, <1>5 DEF QuoteInv
<1>7. QuoteInv'
  BY <1>5, <1>6 DEF QuoteInv, SoundQuote
<1>8. Converted' = Converted
  BY <1>2, <1>5 DEF Converted
<1> QED BY <1>7, <1>8

LEMMA AddQuoteLineStep ==
  ASSUME QuoteInv, NEW q \in DOMAIN quote, NEW s \in Skus, NEW price \in Prices,
         AddQuoteLine(q, s, price)
  PROVE  QuoteInv' /\ Converted' = Converted
<1>1. PICK y : y = quote[q]
  OBVIOUS
<1>2. y \in Quote /\ y.state \in {"Draft", "Sent"} /\ Len(y.lines) < MaxQuoteLines
      /\ y.total = LinesTotal(y.lines)
  BY <1>1 DEF QuoteInv, SoundQuote, AddQuoteLine
<1>3. PICK l : l = [sku |-> s, total |-> price]
  OBVIOUS
<1>4. l \in QuoteLine /\ l.total = price /\ price \in Nat
  BY <1>3, ContractsAssumption DEF QuoteLine
<1>5. y.lines \in Seq(QuoteLine) /\ y.total \in Nat
  BY <1>2 DEF Quote
<1>6. PICK lines : lines = Append(y.lines, l)
  OBVIOUS
<1>7. lines \in Seq(QuoteLine) /\ Len(lines) = Len(y.lines) + 1 /\ Len(y.lines) \in Nat
  BY <1>4, <1>5, <1>6
<1>8. LinesTotal(lines) = y.total + price
  BY <1>2, <1>4, <1>5, <1>6, LineAdded
<1>9. PICK x : x = [state |-> y.state, total |-> y.total + price, lines |-> lines]
  OBVIOUS
<1>10. SoundQuote(x)
  <2>1. x \in Quote
    BY <1>2, <1>4, <1>5, <1>7, <1>9 DEF Quote
  <2>2. Len(lines) <= MaxQuoteLines
    BY <1>2, <1>7, ContractsAssumption
  <2> QED BY <1>8, <1>9, <2>1, <2>2 DEF SoundQuote
<1>11. quote' = [quote EXCEPT ![q] = x]
  <2>1. quote' = [quote EXCEPT ![q].lines = Append(@, l), ![q].total = @ + price]
    BY <1>3 DEF AddQuoteLine
  <2>2. PICK z : z = [y EXCEPT !.lines = lines]
    OBVIOUS
  <2>3. z = [state |-> y.state, total |-> y.total, lines |-> lines]
    BY <1>2, <2>2 DEF Quote
  <2>4. [z EXCEPT !.total = @ + price] = x
    BY <1>9, <2>3
  <2>5. quote' = [quote EXCEPT ![q] = [z EXCEPT !.total = @ + price]]
    BY <1>1, <1>6, <2>1, <2>2 DEF QuoteInv
  <2> QED BY <2>4, <2>5
<1>12. /\ QuoteInv'
       /\ Converted' = IF x.state = "ConvertedToOrder" THEN Converted \cup {q}
                       ELSE Converted \ {q}
  BY <1>10, <1>11, QuoteReplaced
<1>13. x.state # "ConvertedToOrder" /\ q \notin Converted
  BY <1>1, <1>2, <1>9 DEF Converted
<1> QED BY <1>12, <1>13

\* A quote gets another state.
LEMMA QuoteMoved ==
  ASSUME QuoteInv, NEW q \in DOMAIN quote,
         NEW to \in {"Sent", "Accepted", "Rejected", "Expired", "ConvertedToOrder"},
         quote' = [quote EXCEPT ![q].state = to]
  PROVE  /\ QuoteInv'
         /\ Converted' = IF to = "ConvertedToOrder" THEN Converted \cup {q}
                         ELSE Converted \ {q}
<1>1. PICK y : y = quote[q]
  OBVIOUS
<1>2. SoundQuote(y)
  BY <1>1 DEF QuoteInv
<1>3. PICK x : x = [y EXCEPT !.state = to]
  OBVIOUS
<1>4. x \in Quote /\ x.state = to /\ x.lines = y.lines /\ x.total = y.total
  BY <1>2, <1>3 DEF SoundQuote, Quote
<1>5. SoundQuote(x)
  BY <1>2, <1>4 DEF SoundQuote
<1>6. quote' = [quote EXCEPT ![q] = x]
  BY <1>1, <1>3
<1>7. /\ QuoteInv'
      /\ Converted' = IF x.state = "ConvertedToOrder" THEN Converted \cup {q}
                      ELSE Converted \ {q}
  BY <1>5, <1>6, QuoteReplaced
<1> QED BY <1>4, <1>7

LEMMA MoveQuoteStep ==
  ASSUME QuoteInv, NEW q \in DOMAIN quote,
         NEW to \in {"Sent", "Accepted", "Rejected", "Expired"}, MoveQuote(q, to)
  PROVE  QuoteInv' /\ Converted' = Converted
<1>1. quote' = [quote EXCEPT ![q].state = to] /\ quote[q].state # "ConvertedToOrder"
  BY DEF MoveQuote, QuoteTransitions
<1>2. QuoteInv' /\ Converted' = Converted \ {q}
  BY <1>1, QuoteMoved
<1>3. q \notin Converted
  BY <1>1 DEF Converted
<1> QED BY <1>2, <1>3

-----------------------------------------------------------------------------
(* Orders.                                                                 *)

OrderLine == [sku : Skus, total : Nat, project : Nat, element : Nat, version : Nat]
Order == [state : {"Draft", "Confirmed", "Allocated", "Shipped", "Cancelled"},
          version : Nat, total : Nat, lines : Seq(OrderLine)]

\* A line with an element is mapped, to what is there and of the order's version.
MappedLine(l, v) ==
  l.element # None =>
    /\ l.project \in DOMAIN engagement /\ l.element \in DOMAIN element
    /\ IsMapped(l, v)

\* What was a service when it was ordered is one still.
SoundLine(l, v, state) ==
  /\ MappedLine(l, v)
  /\ l.version # None => IsService(l.sku)
  /\ l.version # None /\ state \notin {"Draft", "Cancelled"} => l.element # None
  /\ l.project \in {None} \cup DOMAIN engagement
  /\ l.element \in {None} \cup DOMAIN element

SoundOrder(o) ==
  /\ o \in Order
  /\ o.version \in {None} \cup DOMAIN terms /\ o.version <= contract.current
  /\ Len(o.lines) <= MaxQuoteLines
  /\ o.total = LinesTotal(o.lines)
  /\ \A i \in DOMAIN o.lines : SoundLine(o.lines[i], o.version, o.state)

\* No element is mapped to two lines.
ElementsApart ==
  \A o, p \in DOMAIN order : \A i \in DOMAIN order[o].lines, j \in DOMAIN order[p].lines :
    order[o].lines[i].element # None
      /\ order[o].lines[i].element = order[p].lines[j].element
    => o = p /\ i = j

\* Every order is sound, and no two lines share an element.
OrderInv ==
  /\ order \in Seq(Order)
  /\ \A o \in DOMAIN order : SoundOrder(order[o])
  /\ ElementsApart

\* An article that is sold as a service stays one.
CatalogueOK == catalogue \in [Skus -> {"None", "physical", "service"}]
ServicesKept == \A s \in Skus : IsService(s) => IsService(s)'

\* An order is as sound when more is agreed, or more work planned.
LEMMA OrderStillSound ==
  ASSUME NEW o, SoundOrder(o), TermsInv, TermsInv', AgreedGrows, WorkGrows, ServicesKept
  PROVE  SoundOrder(o)'
<1>1. o \in Order
  BY DEF SoundOrder
<1>2. o.version \in {None} \cup DOMAIN terms' /\ o.version <= contract'.current
  BY <1>1 DEF SoundOrder, AgreedGrows, TermsInv, Order
<1>3. ASSUME NEW i \in DOMAIN o.lines
      PROVE  SoundLine(o.lines[i], o.version, o.state)'
  <2>1. PICK l : l = o.lines[i]
    OBVIOUS
  <2>2. l \in OrderLine
    BY <1>1, <2>1 DEF Order
  <2>3. SoundLine(l, o.version, o.state)
    BY <2>1 DEF SoundOrder
  <2>4. MappedLine(l, o.version)'
    BY <2>3 DEF SoundLine, MappedLine, IsMapped, WorkGrows
  <2>5. l.version # None => IsService(l.sku)'
    BY <2>2, <2>3 DEF SoundLine, ServicesKept, OrderLine
  <2>6. SoundLine(l, o.version, o.state)'
    BY <2>3, <2>4, <2>5 DEF SoundLine, WorkGrows
  <2> QED BY <2>1, <2>6
<1> QED BY <1>2, <1>3 DEF SoundOrder

LEMMA OrdersKept ==
  ASSUME OrderInv, order' = order, TermsInv, TermsInv', AgreedGrows, WorkGrows, ServicesKept
  PROVE  OrderInv'
<1>1. \A o \in DOMAIN order : SoundOrder(order[o])'
  BY OrderStillSound DEF OrderInv
<1> QED BY <1>1 DEF OrderInv, ElementsApart, SoundOrder

\* Steps that change an order, or add one: all but its soundness, and what its
\* elements are, is taken care of.
LEMMA OrderReplaced ==
  ASSUME OrderInv, NEW o \in DOMAIN order, NEW x, x \in Order, SoundOrder(x)',
         order' = [order EXCEPT ![o] = x],
         UNCHANGED <<agreed, catalogue, work>>
  PROVE  /\ order' \in Seq(Order) /\ DOMAIN order' = DOMAIN order
         /\ order'[o] = x
         /\ \A p \in DOMAIN order \ {o} : order'[p] = order[p]
         /\ \A p \in DOMAIN order' : SoundOrder(order[p])'
<1>1. /\ order' \in Seq(Order) /\ DOMAIN order' = DOMAIN order
      /\ order'[o] = x
      /\ \A p \in DOMAIN order \ {o} : order'[p] = order[p]
  BY RowReplaced DEF OrderInv
<1>2. \A p \in DOMAIN order \ {o} : SoundOrder(order[p])'
  <2>1. ASSUME NEW p \in DOMAIN order \ {o} PROVE SoundOrder(order[p])'
    <3>1. SoundOrder(order[p]) /\ order'[p] = order[p]
      BY <1>1 DEF OrderInv
    <3> QED BY <3>1 DEF SoundOrder, SoundLine, MappedLine, IsMapped, IsService, agreed, work
  <2> QED BY <2>1
<1>3. SoundOrder(order[o])'
  BY <1>1
<1> QED BY <1>1, <1>2, <1>3

\* An order moves on, its lines being as they were.
LEMMA OrderMoved ==
  ASSUME OrderInv, NEW o \in DOMAIN order,
         NEW to \in {"Confirmed", "Allocated", "Shipped", "Cancelled"},
         order' = [order EXCEPT ![o].state = to],
         UNCHANGED <<agreed, catalogue, work>>,
         \/ to = "Cancelled"
         \/ order[o].state \notin {"Draft", "Cancelled"}
         \/ \A i \in DOMAIN order[o].lines :
              order[o].lines[i].version # None => order[o].lines[i].element # None
  PROVE  /\ OrderInv'
         /\ DOMAIN order' = DOMAIN order
         /\ \A p \in DOMAIN order : /\ order'[p].lines = order[p].lines
                                    /\ order[p].state # "Draft" => order'[p].state # "Draft"
<1>1. PICK y : y = order[o]
  OBVIOUS
<1>2. SoundOrder(y)
  BY <1>1 DEF OrderInv
<1>3. PICK x : x = [y EXCEPT !.state = to]
  OBVIOUS
<1>4. x \in Order /\ x.state = to /\ x.lines = y.lines /\ x.total = y.total /\ x.version = y.version
  BY <1>2, <1>3 DEF SoundOrder, Order
<1>5. \A i \in DOMAIN x.lines : SoundLine(x.lines[i], x.version, x.state)
  <2>1. ASSUME NEW i \in DOMAIN y.lines PROVE SoundLine(y.lines[i], y.version, to)
    <3>1. SoundLine(y.lines[i], y.version, y.state)
      BY <1>2 DEF SoundOrder
    <3>2. y.lines[i].version # None /\ to \notin {"Draft", "Cancelled"} => y.lines[i].element # None
      BY <1>1, <3>1 DEF SoundLine
    <3> QED BY <3>1, <3>2 DEF SoundLine
  <2> QED BY <1>4, <2>1
<1>6. SoundOrder(x)
  BY <1>2, <1>4, <1>5 DEF SoundOrder
<1>7. SoundOrder(x)'
  BY <1>6 DEF SoundOrder, SoundLine, MappedLine, IsMapped, IsService, agreed, work
<1>8. order' = [order EXCEPT ![o] = x]
  BY <1>1, <1>3
<1>9. /\ order' \in Seq(Order) /\ DOMAIN order' = DOMAIN order
      /\ order'[o] = x
      /\ \A p \in DOMAIN order \ {o} : order'[p] = order[p]
      /\ \A p \in DOMAIN order' : SoundOrder(order[p])'
  BY <1>4, <1>7, <1>8, OrderReplaced
<1>10. \A p \in DOMAIN order : order'[p].lines = order[p].lines
  BY <1>1, <1>4, <1>9
<1>11. ElementsApart'
  <2>1. ElementsApart
    BY DEF OrderInv
  <2> QED BY <1>9, <1>10, <2>1 DEF ElementsApart
<1>12. OrderInv'
  BY <1>9, <1>11 DEF OrderInv
<1>13. \A p \in DOMAIN order : order[p].state # "Draft" => order'[p].state # "Draft"
  BY <1>1, <1>4, <1>9
<1> QED BY <1>9, <1>10, <1>12, <1>13

\* The handlers of orders.
LEMMA ConfirmStep ==
  ASSUME OrderInv, NEW o \in DOMAIN order, ConfirmOrder(o)
  PROVE  /\ OrderInv'
         /\ DOMAIN order' = DOMAIN order
         /\ \A p \in DOMAIN order : /\ order'[p].lines = order[p].lines
                                    /\ order[p].state # "Draft" => order'[p].state # "Draft"
<1>1. ASSUME NEW i \in DOMAIN order[o].lines, order[o].lines[i].version # None
      PROVE  order[o].lines[i].element # None
  <2>1. IsService(order[o].lines[i].sku)
    BY <1>1 DEF OrderInv, SoundOrder, SoundLine
  <2>2. IsMapped(order[o].lines[i], order[o].version)
    BY <2>1 DEF ConfirmOrder
  <2> QED BY <2>2 DEF IsMapped
<1> QED BY <1>1, OrderMoved DEF ConfirmOrder

LEMMA MoveOrderStep ==
  ASSUME OrderInv, NEW o \in DOMAIN order, NEW to \in {"Allocated", "Shipped", "Cancelled"},
         MoveOrder(o, to)
  PROVE  /\ OrderInv'
         /\ DOMAIN order' = DOMAIN order
         /\ \A p \in DOMAIN order : /\ order'[p].lines = order[p].lines
                                    /\ order[p].state # "Draft" => order'[p].state # "Draft"
<1>1. to = "Cancelled" \/ order[o].state \notin {"Draft", "Cancelled"}
  BY DEF MoveOrder, OrderTransitions
<1> QED BY <1>1, OrderMoved DEF MoveOrder

\* The lines of an order are those of its quote.
LEMMA OrderOfQuote ==
  ASSUME TermsInv, WorkInv, CatalogueOK, QuoteInv, NEW q \in DOMAIN quote,
         NEW v \in {None} \cup DOMAIN terms, NEW e \in {None} \cup DOMAIN engagement,
         CreateOrderFromQuote(q, v, e)
  PROVE  \E x : /\ SoundOrder(x)
                /\ order' = Append(order, x)
                /\ \A i \in DOMAIN x.lines : x.lines[i].element = None
<1>1. PICK lines : lines = quote[q].lines
  OBVIOUS
<1>2. /\ quote[q].total \in Nat /\ quote[q].total = LinesTotal(lines)
      /\ lines \in Seq(QuoteLine) /\ Len(lines) <= MaxQuoteLines
  BY <1>1 DEF QuoteInv, SoundQuote, Quote
<1>3. /\ Len(lines) \in Nat /\ DOMAIN lines = 1 .. Len(lines)
      /\ \A i \in DOMAIN lines : lines[i] \in QuoteLine
  BY <1>2, TableIndex
<1>4. /\ v \in Nat /\ v <= contract.current /\ v \in {None} \cup DOMAIN terms
      /\ e \in Nat
  <2>1. terms \in Seq(Version) /\ engagement \in Seq(Engagement) /\ contract.current \in Nat
    BY DEF TermsInv, WorkInv
  <2>2. v # None => contract.current = v
    BY DEF CreateOrderFromQuote, IsCurrent
  <2> QED BY <2>1, <2>2 DEF None
<1> DEFINE Ordered(l) == [sku |-> l.sku, total |-> l.total, project |-> e, element |-> None,
                          version |-> IF IsService(l.sku) THEN v ELSE None]
           ordered == [i \in DOMAIN lines |-> Ordered(lines[i])]
           x == [state |-> "Draft", version |-> v, total |-> quote[q].total, lines |-> ordered]
<1>5. order' = Append(order, x)
  BY <1>1 DEF CreateOrderFromQuote
<1>6. ASSUME NEW i \in DOMAIN lines
      PROVE  Ordered(lines[i]) \in OrderLine /\ SoundLine(Ordered(lines[i]), v, "Draft")
  <2>1. PICK s : s = lines[i].sku
    OBVIOUS
  <2>2. s \in Skus /\ lines[i].total \in Nat
    BY <1>3, <2>1 DEF QuoteLine
  <2>3. PICK w : w = IF IsService(s) THEN v ELSE None
    OBVIOUS
  <2>4. w \in Nat /\ (w # None => IsService(s))
    BY <1>4, <2>3 DEF None
  <2>5. Ordered(lines[i]) = [sku |-> s, total |-> lines[i].total, project |-> e,
                             element |-> None, version |-> w]
    BY <2>1, <2>3
  <2> HIDE DEF Ordered
  <2> QED BY <1>4, <2>2, <2>4, <2>5 DEF OrderLine, SoundLine, MappedLine, None
<1>7. ordered \in Seq(OrderLine) /\ Len(ordered) = Len(lines) /\ DOMAIN ordered = DOMAIN lines
  <2>1. \A i \in DOMAIN lines : Ordered(lines[i]) \in OrderLine
    BY <1>6
  <2> HIDE DEF Ordered
  <2> QED BY <1>3, <2>1
<1>8. LinesTotal(ordered) = LinesTotal(lines)
  <2>1. \A i \in DOMAIN lines : ordered[i].total = lines[i].total
    OBVIOUS
  <2>2. PICK o : o = ordered
    OBVIOUS
  <2> HIDE DEF ordered
  <2>3. [i \in DOMAIN o |-> o[i].total] = [i \in DOMAIN lines |-> lines[i].total]
        /\ DOMAIN o = DOMAIN lines
    BY <1>7, <2>1, <2>2
  <2> QED BY <2>2, <2>3, Zenon DEF LinesTotal
<1>9. \A i \in DOMAIN ordered : SoundLine(ordered[i], v, "Draft") /\ ordered[i].element = None
  <2>1. ASSUME NEW i \in DOMAIN lines
        PROVE  SoundLine(ordered[i], v, "Draft") /\ ordered[i].element = None
    <3>1. ordered[i] = Ordered(lines[i])
      OBVIOUS
    <3>2. Ordered(lines[i]).element = None
      OBVIOUS
    <3> HIDE DEF Ordered
    <3> QED BY <1>6, <3>1, <3>2
  <2> QED BY <1>7, <2>1
<1>10. x.lines = ordered /\ x.version = v /\ x.state = "Draft" /\ x.total = quote[q].total
  OBVIOUS
<1>11. x \in Order
  <2> HIDE DEF ordered
  <2> QED BY <1>2, <1>4, <1>7 DEF Order
<1> HIDE DEF x, ordered
<1>12. SoundOrder(x)
  BY <1>2, <1>4, <1>7, <1>8, <1>9, <1>10, <1>11 DEF SoundOrder
<1> QED BY <1>5, <1>9, <1>10, <1>12

LEMMA OrderStep ==
  ASSUME TermsInv, WorkInv, CatalogueOK, QuoteInv, OrderInv,
         Len(order) = Cardinality(Converted),
         NEW q \in DOMAIN quote,
         NEW v \in {None} \cup DOMAIN terms, NEW e \in {None} \cup DOMAIN engagement,
         CreateOrderFromQuote(q, v, e)
  PROVE  /\ QuoteInv' /\ OrderInv'
         /\ Len(order') = Cardinality(Converted')
         /\ DOMAIN order \subseteq DOMAIN order'
         /\ \A o \in DOMAIN order : order'[o] = order[o]
<1>1. PICK x : /\ SoundOrder(x)
               /\ order' = Append(order, x)
               /\ \A i \in DOMAIN x.lines : x.lines[i].element = None
  BY OrderOfQuote
<1>2. /\ quote' = [quote EXCEPT ![q].state = "ConvertedToOrder"]
      /\ quote[q].state = "Accepted"
      /\ UNCHANGED <<agreed, catalogue, work>>
  BY DEF CreateOrderFromQuote
<1>3. QuoteInv' /\ Converted' = Converted \cup {q}
  BY <1>2, QuoteMoved
<1> DEFINE n == Len(order) + 1
<1>4. order \in Seq(Order) /\ x \in Order /\ Len(order) \in Nat
  BY <1>1 DEF OrderInv, SoundOrder
<1>5. /\ order' \in Seq(Order) /\ Len(order') = Len(order) + 1
      /\ DOMAIN order' = DOMAIN order \cup {n} /\ n \notin DOMAIN order
      /\ order'[n] = x
      /\ \A o \in DOMAIN order : order'[o] = order[o]
  BY <1>1, <1>4, RowAdded
<1>6. \A o \in DOMAIN order' : SoundOrder(order'[o])
  BY <1>1, <1>5 DEF OrderInv
<1>7. \A o \in DOMAIN order' : SoundOrder(order[o])'
  BY <1>2, <1>6 DEF SoundOrder, SoundLine, MappedLine, IsMapped, IsService, agreed, work
<1>8. ElementsApart'
  <2>1. ElementsApart
    BY DEF OrderInv
  <2> HIDE DEF n
  <2> SUFFICES ASSUME NEW o \in DOMAIN order', NEW p \in DOMAIN order',
                      NEW i \in DOMAIN order'[o].lines, NEW j \in DOMAIN order'[p].lines,
                      order'[o].lines[i].element # None,
                      order'[o].lines[i].element = order'[p].lines[j].element
               PROVE  o = p /\ i = j
    BY DEF ElementsApart
  <2>2. o # n /\ p # n
    BY <1>1, <1>5
  <2>3. o \in DOMAIN order /\ p \in DOMAIN order /\ order'[o] = order[o] /\ order'[p] = order[p]
    BY <1>5, <2>2
  <2> QED BY <2>1, <2>3 DEF ElementsApart
<1>9. OrderInv'
  BY <1>5, <1>7, <1>8 DEF OrderInv
<1>10. Len(order') = Cardinality(Converted')
  <2>1. IsFiniteSet(Converted)
    <3>1. IsFiniteSet(DOMAIN quote)
      BY TableIndex DEF QuoteInv
    <3>2. Converted \in SUBSET DOMAIN quote
      BY DEF Converted
    <3> QED BY <3>1, <3>2, FS_Subset
  <2>2. q \notin Converted
    BY <1>2 DEF Converted
  <2>3. Cardinality(Converted \cup {q}) = Cardinality(Converted) + 1
    BY <2>1, <2>2, FS_AddElement
  <2> QED BY <1>3, <1>5, <2>3
<1> QED BY <1>3, <1>5, <1>9, <1>10

\* An order line is mapped to an element of a project.
LEMMA AssignStep ==
  ASSUME TermsInv, WorkInv, OrderInv, NEW x \in OrderLines, NEW w \in DOMAIN element,
         AssignOrderLineWbs(x, w)
  PROVE  /\ OrderInv'
         /\ DOMAIN order' = DOMAIN order
         /\ \A p \in DOMAIN order :
              /\ order[p].state # "Draft" => order'[p] = order[p]
              /\ DOMAIN order'[p].lines = DOMAIN order[p].lines
              /\ \A i \in DOMAIN order[p].lines :
                   order'[p].lines[i].total = order[p].lines[i].total
<1>1. PICK a, b : a = x[1] /\ b = x[2]
  OBVIOUS
<1>2. a \in DOMAIN order /\ b \in DOMAIN order[a].lines /\ b \in 1 .. MaxQuoteLines
  BY <1>1 DEF OrderLines
<1>3. PICK y, v, e, l : /\ y = order[a] /\ v = y.version /\ e = element[w].project
                        /\ l = y.lines[b]
  OBVIOUS
<1>4. SoundOrder(y) /\ y \in Order
  BY <1>2, <1>3 DEF OrderInv, SoundOrder
<1>5. y.lines \in Seq(OrderLine) /\ l \in OrderLine /\ SoundLine(l, v, y.state)
  <2>1. y.lines \in Seq(OrderLine)
    BY <1>4 DEF Order
  <2> QED BY <1>2, <1>3, <1>4, <2>1, TableIndex DEF SoundOrder
<1>6. /\ y.state = "Draft" /\ v # None /\ IsService(l.sku)
      /\ engagement[e].version = v /\ element[w].version = v
      /\ \A z \in OrderLines \ {x} : LineAt(z).element # w
      /\ UNCHANGED <<agreed, catalogue, work, quote, plan>>
  BY <1>1, <1>3 DEF AssignOrderLineWbs, Mappable, LineAt, OrderOf
<1>7. /\ e \in DOMAIN engagement /\ e \in Nat /\ e # None /\ w \in Nat /\ w # None /\ v \in Nat
  <2>1. engagement \in Seq(Engagement) /\ element \in Seq(Element) /\ e \in DOMAIN engagement
    BY <1>3 DEF WorkInv
  <2>2. v \in Nat
    BY <1>3, <1>4 DEF Order
  <2> QED BY <2>1, <2>2 DEF None
<1>8. PICK k : k = [sku |-> l.sku, total |-> l.total, project |-> e, element |-> w, version |-> v]
  OBVIOUS
<1>9. /\ k \in OrderLine /\ k.total = l.total /\ k.element = w /\ k.version = v
      /\ k.project = e /\ k.sku = l.sku
  BY <1>5, <1>7, <1>8 DEF OrderLine
<1>10. SoundLine(k, v, y.state)
  BY <1>3, <1>6, <1>7, <1>9 DEF SoundLine, MappedLine, IsMapped
<1>11. PICK lines : lines = [y.lines EXCEPT ![b] = k]
  OBVIOUS
<1>12. /\ lines \in Seq(OrderLine) /\ Len(lines) = Len(y.lines)
       /\ DOMAIN lines = DOMAIN y.lines
       /\ lines[b] = k /\ \A i \in DOMAIN y.lines \ {b} : lines[i] = y.lines[i]
  BY <1>2, <1>3, <1>5, <1>9, <1>11, RowReplaced
<1>13. PICK z : z = [y EXCEPT !.lines = lines]
  OBVIOUS
<1>14. /\ z \in Order /\ z.lines = lines /\ z.state = y.state /\ z.version = y.version
       /\ z.total = y.total
  BY <1>4, <1>12, <1>13 DEF Order
<1>15. order' = [order EXCEPT ![a] = z]
  <2>1. order' = [order EXCEPT ![a].lines[b] = [@ EXCEPT !.project = e, !.element = w, !.version = v]]
    BY <1>1, <1>3 DEF AssignOrderLineWbs, OrderOf
  <2>2. [l EXCEPT !.project = e, !.element = w, !.version = v] = k
    <3>1. l = [sku |-> l.sku, total |-> l.total, project |-> l.project, element |-> l.element,
               version |-> l.version]
      BY <1>5 DEF OrderLine
    <3>2. PICK t : t = [l EXCEPT !.project = e]
      OBVIOUS
    <3>3. t = [sku |-> l.sku, total |-> l.total, project |-> e, element |-> l.element,
               version |-> l.version]
      BY <3>1, <3>2
    <3>4. PICK u : u = [t EXCEPT !.element = w]
      OBVIOUS
    <3>5. u = [sku |-> l.sku, total |-> l.total, project |-> e, element |-> w,
               version |-> l.version]
      BY <3>3, <3>4
    <3>6. [u EXCEPT !.version = v] = k
      BY <1>8, <3>5
    <3>7. [l EXCEPT !.project = e, !.element = w, !.version = v] = [u EXCEPT !.version = v]
      BY <3>2, <3>4
    <3> QED BY <3>6, <3>7
  <2>3. order \in Seq(Order)
    BY <1>2 DEF OrderInv
  <2>4. order' = [order EXCEPT ![a] = [y EXCEPT !.lines = [y.lines EXCEPT ![b] =
                     [l EXCEPT !.project = e, !.element = w, !.version = v]]]]
    BY <1>2, <1>3, <1>4, <1>5, <2>1, <2>3 DEF Order
  <2> QED BY <1>11, <1>13, <2>2, <2>4
<1>16. LinesTotal(lines) = LinesTotal(y.lines)
  <2>1. \A i \in DOMAIN y.lines : lines[i].total = y.lines[i].total
    BY <1>3, <1>9, <1>12
  <2>2. [i \in DOMAIN lines |-> lines[i].total] = [i \in DOMAIN y.lines |-> y.lines[i].total]
    BY <1>12, <2>1
  <2> QED BY <1>12, <2>2, Zenon DEF LinesTotal
<1>17. \A i \in DOMAIN lines : SoundLine(lines[i], v, y.state)
  BY <1>3, <1>4, <1>10, <1>12 DEF SoundOrder
<1>18. SoundOrder(z)
  BY <1>3, <1>4, <1>12, <1>14, <1>16, <1>17 DEF SoundOrder
<1>19. SoundOrder(z)'
  BY <1>6, <1>18 DEF SoundOrder, SoundLine, MappedLine, IsMapped, IsService, agreed, work
<1>20. /\ order' \in Seq(Order) /\ DOMAIN order' = DOMAIN order
       /\ order'[a] = z
       /\ \A p \in DOMAIN order \ {a} : order'[p] = order[p]
       /\ \A p \in DOMAIN order' : SoundOrder(order[p])'
  BY <1>2, <1>6, <1>14, <1>15, <1>19, OrderReplaced
<1>21. ASSUME NEW p \in DOMAIN order, NEW i \in DOMAIN order[p].lines, ~(p = a /\ i = b)
       PROVE  /\ order'[p].lines[i] = order[p].lines[i]
              /\ order[p].lines[i].element # w
  <2>1. order'[p].lines[i] = order[p].lines[i]
    <3>1. CASE p = a
      BY <1>3, <1>12, <1>14, <1>20, <1>21, <3>1
    <3>2. CASE p # a
      BY <1>20, <3>2
    <3> QED BY <3>1, <3>2
  <2>2. i \in 1 .. MaxQuoteLines
    <3>1. order[p].lines \in Seq(OrderLine) /\ Len(order[p].lines) <= MaxQuoteLines
      BY DEF OrderInv, SoundOrder, Order
    <3> QED BY <3>1, ContractsAssumption
  <2>3. PICK t : t = <<p, i>>
    OBVIOUS
  <2>4. t \in OrderLines \ {x} /\ t[1] = p /\ t[2] = i
    BY <1>1, <1>21, <2>2, <2>3 DEF OrderLines
  <2>5. LineAt(t) = order[p].lines[i]
    BY <2>4 DEF LineAt
  <2> QED BY <1>6, <2>1, <2>4, <2>5
<1>22. order'[a].lines[b] = k /\ \A p \in DOMAIN order : DOMAIN order'[p].lines = DOMAIN order[p].lines
  BY <1>3, <1>12, <1>14, <1>20
<1>23. ElementsApart'
  <2>1. ElementsApart
    BY DEF OrderInv
  <2>2. SUFFICES ASSUME NEW o \in DOMAIN order, NEW p \in DOMAIN order,
                      NEW i \in DOMAIN order[o].lines, NEW j \in DOMAIN order[p].lines,
                      order'[o].lines[i].element # None,
                      order'[o].lines[i].element = order'[p].lines[j].element
               PROVE  o = p /\ i = j
    BY <1>20, <1>22 DEF ElementsApart
  <2>3. CASE (o = a /\ i = b) \/ (p = a /\ j = b)
    BY <1>9, <1>21, <1>22, <2>2, <2>3
  <2>4. CASE ~(o = a /\ i = b) /\ ~(p = a /\ j = b)
    <3>1. order'[o].lines[i] = order[o].lines[i] /\ order'[p].lines[j] = order[p].lines[j]
      BY <1>21, <2>4
    <3> QED BY <2>1, <2>2, <3>1 DEF ElementsApart
  <2> QED BY <2>3, <2>4
<1>24. OrderInv'
  BY <1>20, <1>23 DEF OrderInv
<1>25. ASSUME NEW p \in DOMAIN order, NEW i \in DOMAIN order[p].lines
       PROVE  order'[p].lines[i].total = order[p].lines[i].total
  <2>1. CASE p = a /\ i = b
    BY <1>3, <1>9, <1>22, <2>1
  <2>2. CASE ~(p = a /\ i = b)
    BY <1>21, <2>2
  <2> QED BY <2>1, <2>2
<1>26. \A p \in DOMAIN order : order[p].state # "Draft" => order'[p] = order[p]
  BY <1>3, <1>6, <1>20
<1> QED BY <1>20, <1>22, <1>24, <1>25, <1>26

-----------------------------------------------------------------------------
(* Milestones.                                                             *)

Plan == [line : Nat \X Nat, amount : Nat, version : Nat, project : Nat, element : Nat]

\* Milestone m is planned for a line that is as it was then.
SoundPlan(m) ==
  LET x == plan[m].line
      l == LineAt(x)
  IN  /\ x \in OrderLines
      /\ OrderOf(x).state # "Draft"
      /\ l.project = plan[m].project /\ l.element = plan[m].element
      /\ l.version = plan[m].version
      /\ plan[m].version \in DOMAIN terms

\* No more is planned for a line, or for a version, than it is worth.
PlanInv ==
  /\ plan \in Seq(Plan)
  /\ \A m \in DOMAIN plan : SoundPlan(m)
  /\ \A x \in OrderLines : PlannedForLine(x) <= LineAt(x).total
  /\ \A v \in DOMAIN terms : PlannedForVersion(v) <= terms[v].value

\* What is planned, and what a plan that is added leaves of the others.
LEMMA PlanTypes ==
  ASSUME plan \in Seq(Plan)
  PROVE  /\ IsFiniteSet(DOMAIN plan)
         /\ \A m \in DOMAIN plan : plan[m].amount \in Nat
<1>1. IsFiniteSet(DOMAIN plan) /\ \A m \in DOMAIN plan : plan[m] \in Plan
  BY TableIndex
<1> QED BY <1>1 DEF Plan

\* A milestone more adds its amount to the sums it belongs to.
LEMMA PlanAdded ==
  ASSUME plan \in Seq(Plan), NEW x, NEW a \in Nat, NEW v, NEW row \in Plan,
         row.line = x, row.amount = a, row.version = v, plan' = Append(plan, row)
  PROVE  /\ \A y : PlannedForLine(y)' = PlannedForLine(y) + (IF y = x THEN a ELSE 0)
         /\ \A u : PlannedForVersion(u)' = PlannedForVersion(u) + (IF u = v THEN a ELSE 0)
<1> DEFINE n == Len(plan) + 1
           D == DOMAIN plan
           f == [m \in D |-> plan[m].amount]
           g == [m \in DOMAIN plan' |-> plan'[m].amount]
<1>1. /\ DOMAIN plan' = D \cup {n} /\ n \notin D
      /\ plan'[n] = row
      /\ \A m \in D : plan'[m] = plan[m]
  BY RowAdded
<1>2. IsFiniteSet(D) /\ \A m \in D : f[m] \in Nat
  BY PlanTypes
<1>3. g[n] = a /\ \A m \in D : g[m] = f[m]
  BY <1>1
<1>4. ASSUME NEW S \in SUBSET D
      PROVE  /\ SumFunctionOnSet(g, S) = SumFunctionOnSet(f, S)
             /\ SumFunctionOnSet(f, S) \in Nat
             /\ SumFunctionOnSet(g, S \cup {n}) = SumFunctionOnSet(f, S) + a
  <2> HIDE DEF n, D, f, g
  <2>1. IsFiniteSet(S) /\ n \notin S
    BY <1>1, <1>2, FS_Subset
  <2>2. \A m \in S : f[m] \in Nat /\ g[m] = f[m]
    BY <1>2, <1>3
  <2>3. SumFunctionOnSet(g, S) = SumFunctionOnSet(f, S)
    BY <2>1, <2>2, SumSame
  <2>4. SumFunctionOnSet(f, S) \in Nat
    BY <2>1, <2>2, SumIsNat
  <2>5. \A m \in S \cup {n} : g[m] \in Int
    BY <1>3, <2>2
  <2>6. SumFunctionOnSet(g, S \cup {n}) = SumFunctionOnSet(g, S) + g[n]
    BY <2>1, <2>5, SumAdded
  <2> QED BY <1>3, <2>3, <2>4, <2>6
<1>5. ASSUME NEW y PROVE PlannedForLine(y)' = PlannedForLine(y) + (IF y = x THEN a ELSE 0)
  <2> DEFINE S == {m \in D : plan[m].line = y}
             T == {m \in DOMAIN plan' : plan'[m].line = y}
  <2>1. PlannedForLine(y) = SumFunctionOnSet(f, S) /\ PlannedForLine(y)' = SumFunctionOnSet(g, T)
    BY DEF PlannedForLine, Planned
  <2>2. T = IF y = x THEN S \cup {n} ELSE S
    BY <1>1
  <2>3. S \in SUBSET D
    OBVIOUS
  <2> HIDE DEF S, T, f, g, D, n
  <2>4. /\ SumFunctionOnSet(g, S) = SumFunctionOnSet(f, S)
        /\ SumFunctionOnSet(f, S) \in Nat
        /\ SumFunctionOnSet(g, S \cup {n}) = SumFunctionOnSet(f, S) + a
    BY <1>4, <2>3
  <2>5. CASE y = x
    <3>1. T = S \cup {n}
      BY <2>2, <2>5
    <3>2. SumFunctionOnSet(g, T) = SumFunctionOnSet(f, S) + a
      BY <2>4, <3>1
    <3> QED BY <2>1, <2>5, <3>2
  <2>6. CASE y # x
    <3>1. T = S
      BY <2>2, <2>6
    <3>2. SumFunctionOnSet(g, T) = SumFunctionOnSet(f, S)
      BY <2>4, <3>1
    <3> QED BY <2>1, <2>4, <2>6, <3>2
  <2> QED BY <2>5, <2>6
<1>6. ASSUME NEW u PROVE PlannedForVersion(u)' = PlannedForVersion(u) + (IF u = v THEN a ELSE 0)
  <2> DEFINE S == {m \in D : plan[m].version = u}
             T == {m \in DOMAIN plan' : plan'[m].version = u}
  <2>1. PlannedForVersion(u) = SumFunctionOnSet(f, S) /\ PlannedForVersion(u)' = SumFunctionOnSet(g, T)
    BY DEF PlannedForVersion, Planned
  <2>2. T = IF u = v THEN S \cup {n} ELSE S
    BY <1>1
  <2>3. S \in SUBSET D
    OBVIOUS
  <2> HIDE DEF S, T, f, g, D, n
  <2>4. /\ SumFunctionOnSet(g, S) = SumFunctionOnSet(f, S)
        /\ SumFunctionOnSet(f, S) \in Nat
        /\ SumFunctionOnSet(g, S \cup {n}) = SumFunctionOnSet(f, S) + a
    BY <1>4, <2>3
  <2>5. CASE u = v
    <3>1. T = S \cup {n}
      BY <2>2, <2>5
    <3>2. SumFunctionOnSet(g, T) = SumFunctionOnSet(f, S) + a
      BY <2>4, <3>1
    <3> QED BY <2>1, <2>5, <3>2
  <2>6. CASE u # v
    <3>1. T = S
      BY <2>2, <2>6
    <3>2. SumFunctionOnSet(g, T) = SumFunctionOnSet(f, S)
      BY <2>4, <3>1
    <3> QED BY <2>1, <2>4, <2>6, <3>2
  <2> QED BY <2>5, <2>6
<1> QED BY <1>5, <1>6

\* Nothing is planned yet of what no milestone names.
LEMMA NothingPlanned ==
  ASSUME plan \in Seq(Plan), NEW x
  PROVE  /\ (\A m \in DOMAIN plan : plan[m].line # x) => PlannedForLine(x) = 0
         /\ (\A m \in DOMAIN plan : plan[m].version # x) => PlannedForVersion(x) = 0
<1>1. ASSUME \A m \in DOMAIN plan : plan[m].line # x PROVE PlannedForLine(x) = 0
  <2>1. {m \in DOMAIN plan : plan[m].line = x} = {}
    BY <1>1
  <2> QED BY <2>1, SumEmpty, Zenon DEF PlannedForLine, Planned
<1>2. ASSUME \A m \in DOMAIN plan : plan[m].version # x PROVE PlannedForVersion(x) = 0
  <2>1. {m \in DOMAIN plan : plan[m].version = x} = {}
    BY <1>2
  <2> QED BY <2>1, SumEmpty, Zenon DEF PlannedForVersion, Planned
<1> QED BY <1>1, <1>2

\* Where the lines of orders are.
LEMMA LineIs ==
  ASSUME OrderInv, NEW x
  PROVE  x \in OrderLines =>
           /\ x[1] \in DOMAIN order /\ x[2] \in DOMAIN order[x[1]].lines
           /\ x[2] \in 1 .. MaxQuoteLines /\ x = <<x[1], x[2]>>
           /\ x \in Nat \X Nat
           /\ LineAt(x) \in OrderLine
           /\ SoundLine(LineAt(x), OrderOf(x).version, OrderOf(x).state)
<1> SUFFICES ASSUME x \in OrderLines
             PROVE  /\ x[1] \in DOMAIN order /\ x[2] \in DOMAIN order[x[1]].lines
                    /\ x[2] \in 1 .. MaxQuoteLines /\ x = <<x[1], x[2]>>
                    /\ x \in Nat \X Nat
                    /\ LineAt(x) \in OrderLine
                    /\ SoundLine(LineAt(x), OrderOf(x).version, OrderOf(x).state)
  OBVIOUS
<1>1. /\ x[1] \in DOMAIN order /\ x[2] \in DOMAIN order[x[1]].lines
      /\ x[2] \in 1 .. MaxQuoteLines /\ x = <<x[1], x[2]>>
  BY DEF OrderLines
<1>2. order \in Seq(Order) /\ SoundOrder(order[x[1]]) /\ order[x[1]] \in Order
  BY <1>1 DEF OrderInv, SoundOrder
<1>3. x[1] \in Nat /\ x[2] \in Nat
  BY <1>1, <1>2, ContractsAssumption
<1>4. order[x[1]].lines \in Seq(OrderLine)
  BY <1>2 DEF Order
<1>5. LineAt(x) \in OrderLine
  BY <1>1, <1>4, TableIndex DEF LineAt
<1>6. SoundLine(LineAt(x), OrderOf(x).version, OrderOf(x).state)
  BY <1>1, <1>2 DEF SoundOrder, LineAt, OrderOf
<1> QED BY <1>1, <1>3, <1>5, <1>6

\* Steps that plan nothing: orders are added, or change only while they are drafts.
LEMMA PlansKept ==
  ASSUME PlanInv, OrderInv, OrderInv', plan' = plan, AgreedGrows, TermsInv',
         DOMAIN order \subseteq DOMAIN order',
         \A o \in DOMAIN order :
           /\ DOMAIN order'[o].lines = DOMAIN order[o].lines
           /\ \A i \in DOMAIN order[o].lines :
                /\ order'[o].lines[i].total = order[o].lines[i].total
                /\ order[o].state # "Draft" => order'[o].lines[i] = order[o].lines[i]
           /\ order[o].state # "Draft" => order'[o].state # "Draft"
  PROVE  PlanInv'
<1>1. ASSUME NEW x \in OrderLines
      PROVE  /\ x \in OrderLines' /\ LineAt(x)'.total = LineAt(x).total
             /\ OrderOf(x).state # "Draft" =>
                  LineAt(x)' = LineAt(x) /\ OrderOf(x)'.state # "Draft"
  <2>1. /\ x[1] \in DOMAIN order /\ x[2] \in DOMAIN order[x[1]].lines
        /\ x[2] \in 1 .. MaxQuoteLines /\ x = <<x[1], x[2]>>
    BY LineIs
  <2> QED BY <2>1 DEF OrderLines, LineAt, OrderOf
<1>2. ASSUME NEW m \in DOMAIN plan PROVE SoundPlan(m)'
  <2>1. SoundPlan(m)
    BY DEF PlanInv
  <2>2. PICK x : x = plan[m].line
    OBVIOUS
  <2>3. x \in OrderLines /\ OrderOf(x).state # "Draft"
    BY <2>1, <2>2 DEF SoundPlan
  <2>4. x \in OrderLines' /\ LineAt(x)' = LineAt(x) /\ OrderOf(x)'.state # "Draft"
    BY <1>1, <2>3
  <2>5. plan'[m] = plan[m]
    OBVIOUS
  <2>6. DOMAIN terms \subseteq DOMAIN terms'
    BY DEF AgreedGrows
  <2>7. /\ LineAt(x).project = plan[m].project /\ LineAt(x).element = plan[m].element
        /\ LineAt(x).version = plan[m].version /\ plan[m].version \in DOMAIN terms
    BY <2>1, <2>2 DEF SoundPlan
  <2>8. (plan[m].line)' = x
    BY <2>2
  <2>9. LineAt(plan[m].line)' = LineAt(x)' /\ OrderOf(plan[m].line)' = OrderOf(x)'
    BY <2>8 DEF LineAt, OrderOf
  <2> QED BY <2>4, <2>5, <2>6, <2>7, <2>8, <2>9 DEF SoundPlan
<1>3. \A y : PlannedForLine(y)' = PlannedForLine(y) /\ PlannedForVersion(y)' = PlannedForVersion(y)
  BY DEF PlannedForLine, PlannedForVersion, Planned
<1>4. plan \in Seq(Plan)
  BY DEF PlanInv
<1>5. ASSUME NEW x \in OrderLines'
      PROVE  PlannedForLine(x)' <= LineAt(x)'.total
  <2>1. CASE x \in OrderLines
    <3>1. PlannedForLine(x) <= LineAt(x).total
      BY <2>1 DEF PlanInv
    <3> QED BY <1>1, <1>3, <2>1, <3>1
  <2>2. CASE x \notin OrderLines
    <3>1. \A m \in DOMAIN plan : plan[m].line # x
      BY <2>2 DEF PlanInv, SoundPlan
    <3>2. PlannedForLine(x)' = 0
      BY <1>3, <1>4, <3>1, NothingPlanned
    <3>3. x[1] \in DOMAIN order' /\ x[2] \in DOMAIN order'[x[1]].lines
      BY DEF OrderLines
    <3>4. order'[x[1]].lines \in Seq(OrderLine)
      BY <3>3 DEF OrderInv, SoundOrder, Order
    <3>5. LineAt(x)' \in OrderLine
      BY <3>3, <3>4, TableIndex DEF LineAt
    <3> QED BY <3>2, <3>5 DEF OrderLine
  <2> QED BY <2>1, <2>2
<1>6. ASSUME NEW v \in DOMAIN terms'
      PROVE  PlannedForVersion(v)' <= terms'[v].value
  <2>1. CASE v \in DOMAIN terms
    <3>1. PlannedForVersion(v) <= terms[v].value
      BY <2>1 DEF PlanInv
    <3> QED BY <1>3, <2>1, <3>1 DEF AgreedGrows
  <2>2. CASE v \notin DOMAIN terms
    <3>1. \A m \in DOMAIN plan : plan[m].version # v
      BY <2>2 DEF PlanInv, SoundPlan
    <3>2. PlannedForVersion(v)' = 0
      BY <1>3, <1>4, <3>1, NothingPlanned
    <3>3. terms'[v] \in Version
      BY TableIndex DEF TermsInv
    <3> QED BY <3>2, <3>3 DEF Version
  <2> QED BY <2>1, <2>2
<1>7. \A m \in DOMAIN plan' : SoundPlan(m)'
  BY <1>2
<1> QED BY <1>4, <1>5, <1>6, <1>7 DEF PlanInv

LEMMA PlanStep ==
  ASSUME TermsInv, WorkInv, OrderInv, PlanInv, NEW x \in OrderLines, NEW a \in Billings,
         PlanMilestone(x, a)
  PROVE  PlanInv'
<1>1. PICK l : l = LineAt(x)
  OBVIOUS
<1>2. /\ x \in Nat \X Nat /\ l \in OrderLine
      /\ SoundLine(l, OrderOf(x).version, OrderOf(x).state)
  BY <1>1, LineIs
<1>3. /\ IsMapped(l, OrderOf(x).version)
      /\ OrderOf(x).state # "Draft"
      /\ PlannedForLine(x) + a <= l.total
      /\ PlannedForVersion(l.version) + a <= terms[l.version].value
      /\ UNCHANGED <<agreed, catalogue, work, sales>>
  BY <1>1 DEF PlanMilestone
<1>4. l.version \in DOMAIN terms
  BY <1>2, <1>3 DEF IsMapped, SoundLine, MappedLine, WorkInv
<1>5. PICK row : row = [line |-> x, amount |-> a, version |-> l.version,
                        project |-> l.project, element |-> l.element]
  OBVIOUS
<1>6. /\ row \in Plan /\ row.line = x /\ row.amount = a /\ row.version = l.version
      /\ row.project = l.project /\ row.element = l.element /\ a \in Nat
  BY <1>2, <1>5, ContractsAssumption DEF Plan, OrderLine
<1>7. plan' = Append(plan, row) /\ plan \in Seq(Plan)
  BY <1>1, <1>5 DEF PlanMilestone, PlanInv
<1>8. /\ terms' = terms /\ order' = order /\ OrderLines' = OrderLines
      /\ \A y : LineAt(y)' = LineAt(y) /\ OrderOf(y)' = OrderOf(y)
  BY <1>3 DEF agreed, sales, OrderLines, LineAt, OrderOf
<1>9. /\ \A y : PlannedForLine(y)' = PlannedForLine(y) + (IF y = x THEN a ELSE 0)
      /\ \A u : PlannedForVersion(u)' = PlannedForVersion(u) + (IF u = l.version THEN a ELSE 0)
  BY <1>6, <1>7, PlanAdded
<1>10. ASSUME NEW S \in SUBSET DOMAIN plan
       PROVE  SumFunctionOnSet([m \in DOMAIN plan |-> plan[m].amount], S) \in Nat
  <2>1. IsFiniteSet(S) /\ \A m \in S : [k \in DOMAIN plan |-> plan[k].amount][m] \in Nat
    BY <1>7, PlanTypes, FS_Subset
  <2> QED BY <2>1, SumIsNat
<1>11. \A y : PlannedForLine(y) \in Nat /\ PlannedForVersion(y) \in Nat
  <2>1. ASSUME NEW y PROVE PlannedForLine(y) \in Nat
    <3>1. {m \in DOMAIN plan : plan[m].line = y} \in SUBSET DOMAIN plan
      OBVIOUS
    <3> QED BY <1>10, <3>1 DEF PlannedForLine, Planned
  <2>2. ASSUME NEW y PROVE PlannedForVersion(y) \in Nat
    <3>1. {m \in DOMAIN plan : plan[m].version = y} \in SUBSET DOMAIN plan
      OBVIOUS
    <3> QED BY <1>10, <3>1 DEF PlannedForVersion, Planned
  <2> QED BY <2>1, <2>2
<1>12. ASSUME NEW y \in OrderLines' PROVE PlannedForLine(y)' <= LineAt(y)'.total
  <2>1. PlannedForLine(y) <= LineAt(y).total /\ PlannedForLine(y) \in Nat
    BY <1>8, <1>11, <1>12 DEF PlanInv
  <2>2. CASE y = x
    BY <1>1, <1>3, <1>8, <1>9, <2>2
  <2>3. CASE y # x
    BY <1>8, <1>9, <2>1, <2>3
  <2> QED BY <2>2, <2>3
<1>13. ASSUME NEW v \in DOMAIN terms' PROVE PlannedForVersion(v)' <= terms'[v].value
  <2>1. PlannedForVersion(v) <= terms[v].value /\ PlannedForVersion(v) \in Nat
    BY <1>8, <1>11, <1>13 DEF PlanInv
  <2>2. CASE v = l.version
    BY <1>3, <1>8, <1>9, <2>2
  <2>3. CASE v # l.version
    BY <1>8, <1>9, <2>1, <2>3
  <2> QED BY <2>2, <2>3
<1>14. /\ plan' \in Seq(Plan)
       /\ DOMAIN plan' = DOMAIN plan \cup {Len(plan) + 1}
       /\ plan'[Len(plan) + 1] = row
       /\ \A m \in DOMAIN plan : plan'[m] = plan[m]
  BY <1>6, <1>7, RowAdded
<1>15. ASSUME NEW m \in DOMAIN plan' PROVE SoundPlan(m)'
  <2>1. CASE m \in DOMAIN plan
    <3>1. SoundPlan(m) /\ plan'[m] = plan[m]
      BY <1>14, <2>1 DEF PlanInv
    <3> QED BY <1>8, <3>1 DEF SoundPlan, LineAt, OrderOf
  <2>2. CASE plan'[m] = row
    <3>1. plan'[m].line = x
      BY <1>6, <2>2
    <3>2. LineAt(plan[m].line)' = l /\ OrderOf(plan[m].line)' = OrderOf(x)
      BY <1>1, <1>8, <3>1 DEF LineAt, OrderOf
    <3> QED BY <1>3, <1>4, <1>6, <1>8, <2>2, <3>1, <3>2 DEF SoundPlan
  <2> QED BY <1>14, <2>1, <2>2
<1> QED BY <1>12, <1>13, <1>14, <1>15 DEF PlanInv

-----------------------------------------------------------------------------
(* Together.                                                               *)

\* The inductive invariant; there is one order for each converted quote.
CommitmentsInv ==
  /\ TermsInv /\ WorkInv /\ CatalogueOK /\ QuoteInv /\ OrderInv
  /\ Len(order) = Cardinality(Converted)
  /\ PlanInv

\* What the steps of others leave alone.
LEMMA AgreedSame == ASSUME TermsInv, UNCHANGED agreed PROVE TermsInv' /\ AgreedGrows
<1>1. contract' = contract /\ terms' = terms
  BY DEF agreed
<1>2. contract.current \in Nat
  BY DEF TermsInv
<1> QED BY <1>1, <1>2 DEF TermsInv, AgreedGrows, VersionsInOrder

LEMMA QuotesSame == ASSUME QuoteInv, quote' = quote PROVE QuoteInv' /\ Converted' = Converted
BY DEF QuoteInv, SoundQuote, Converted

LEMMA CatalogueSame ==
  ASSUME CatalogueOK, catalogue' = catalogue PROVE CatalogueOK' /\ ServicesKept
BY DEF CatalogueOK, ServicesKept, IsService

\* Steps that change no order and plan nothing.
LEMMA OthersStep ==
  ASSUME CommitmentsInv, TermsInv', WorkInv', CatalogueOK', QuoteInv', Converted' = Converted,
         AgreedGrows, WorkGrows, ServicesKept, order' = order, plan' = plan
  PROVE  CommitmentsInv'
<1> USE DEF CommitmentsInv
<1>1. OrderInv'
  BY OrdersKept
<1>2. PlanInv'
  BY <1>1, PlansKept
<1> QED BY <1>1, <1>2

LEMMA SkuStep ==
  ASSUME CommitmentsInv, NEW s \in Skus, NEW type \in {"physical", "service"}, CreateSku(s, type)
  PROVE  CommitmentsInv'
<1> USE DEF CommitmentsInv
<1>1. CatalogueOK' /\ ServicesKept
  BY DEF CreateSku, CatalogueOK, ServicesKept, IsService
<1>2. UNCHANGED agreed /\ UNCHANGED work /\ quote' = quote /\ order' = order /\ plan' = plan
  BY DEF CreateSku, sales
<1>3. TermsInv' /\ AgreedGrows /\ QuoteInv' /\ Converted' = Converted
  BY <1>2, AgreedSame, QuotesSame
<1>4. WorkInv' /\ WorkGrows
  BY <1>2, <1>3, WorkKept
<1> QED BY <1>1, <1>2, <1>3, <1>4, OthersStep

\* The handlers by what they change, each with the rest of the invariant.
LEMMA AgreeSteps ==
  ASSUME CommitmentsInv,
         \/ \E value \in ContractValues, n \in Deliverables :
              CreateContract(value, n) \/ CreateContractAmendment(value, n)
         \/ \E v \in DOMAIN terms : ApproveContractVersion(v)
  PROVE  CommitmentsInv'
<1> USE DEF CommitmentsInv
<1>1. TermsInv' /\ AgreedGrows
  BY CreateContractStep, AmendStep, ApproveVersionStep
<1>2. UNCHANGED work /\ catalogue' = catalogue /\ quote' = quote /\ order' = order /\ plan' = plan
  BY DEF CreateContract, CreateContractAmendment, ApproveContractVersion, sales
<1>3. CatalogueOK' /\ ServicesKept /\ QuoteInv' /\ Converted' = Converted
  BY <1>2, CatalogueSame, QuotesSame
<1>4. WorkInv' /\ WorkGrows
  BY <1>1, <1>2, WorkKept
<1> QED BY <1>1, <1>2, <1>3, <1>4, OthersStep

LEMMA WorkSteps ==
  ASSUME CommitmentsInv,
         \/ CreateEngagement
         \/ \E e \in DOMAIN engagement :
              EndEngagement(e) \/ \E d \in {{}} \cup {{s} : s \in Skus} : CreateElement(e, d)
  PROVE  CommitmentsInv'
<1> USE DEF CommitmentsInv
<1>1. \A d \in {{}} \cup {{s} : s \in Skus} : d \in SUBSET Skus
  OBVIOUS
<1>2. WorkInv' /\ WorkGrows
  BY <1>1, EngageStep, EndStep, ElementStep
<1>3. UNCHANGED agreed /\ catalogue' = catalogue /\ quote' = quote /\ order' = order /\ plan' = plan
  BY DEF CreateEngagement, EndEngagement, CreateElement, sales
<1>4. TermsInv' /\ AgreedGrows /\ CatalogueOK' /\ ServicesKept /\ QuoteInv' /\ Converted' = Converted
  BY <1>3, AgreedSame, CatalogueSame, QuotesSame
<1> QED BY <1>2, <1>3, <1>4, OthersStep

LEMMA QuoteSteps ==
  ASSUME CommitmentsInv,
         \/ CreateQuote
         \/ \E q \in DOMAIN quote :
              \/ \E s \in Skus, price \in Prices : AddQuoteLine(q, s, price)
              \/ \E to \in {"Sent", "Accepted", "Rejected", "Expired"} : MoveQuote(q, to)
  PROVE  CommitmentsInv'
<1> USE DEF CommitmentsInv
<1>1. QuoteInv' /\ Converted' = Converted
  BY CreateQuoteStep, AddQuoteLineStep, MoveQuoteStep
<1>2. UNCHANGED agreed /\ UNCHANGED work /\ catalogue' = catalogue /\ order' = order /\ plan' = plan
  BY DEF CreateQuote, AddQuoteLine, MoveQuote
<1>3. TermsInv' /\ AgreedGrows /\ CatalogueOK' /\ ServicesKept
  BY <1>2, AgreedSame, CatalogueSame
<1>4. WorkInv' /\ WorkGrows
  BY <1>2, <1>3, WorkKept
<1> QED BY <1>1, <1>2, <1>3, <1>4, OthersStep

LEMMA OrderSteps ==
  ASSUME CommitmentsInv,
         \/ \E q \in DOMAIN quote, v \in {None} \cup DOMAIN terms,
               e \in {None} \cup DOMAIN engagement : CreateOrderFromQuote(q, v, e)
         \/ \E x \in OrderLines, w \in DOMAIN element : AssignOrderLineWbs(x, w)
         \/ \E o \in DOMAIN order :
              ConfirmOrder(o) \/ \E to \in {"Allocated", "Shipped", "Cancelled"} : MoveOrder(o, to)
  PROVE  CommitmentsInv'
<1> USE DEF CommitmentsInv
<1>1. UNCHANGED agreed /\ UNCHANGED work /\ catalogue' = catalogue /\ plan' = plan
  BY DEF CreateOrderFromQuote, AssignOrderLineWbs, ConfirmOrder, MoveOrder
<1>2. TermsInv' /\ AgreedGrows /\ CatalogueOK' /\ ServicesKept
  BY <1>1, AgreedSame, CatalogueSame
<1>3. WorkInv' /\ WorkGrows
  BY <1>1, <1>2, WorkKept
<1>4. ASSUME NEW q \in DOMAIN quote, NEW v \in {None} \cup DOMAIN terms,
             NEW e \in {None} \cup DOMAIN engagement, CreateOrderFromQuote(q, v, e)
      PROVE  CommitmentsInv'
  <2>1. /\ QuoteInv' /\ OrderInv'
        /\ Len(order') = Cardinality(Converted')
        /\ DOMAIN order \subseteq DOMAIN order'
        /\ \A o \in DOMAIN order : order'[o] = order[o]
    BY <1>4, OrderStep
  <2>2. PlanInv'
    BY <1>1, <1>2, <2>1, PlansKept
  <2> QED BY <1>2, <1>3, <2>1, <2>2
<1>5. ASSUME OrderInv', DOMAIN order' = DOMAIN order, quote' = quote,
             \A o \in DOMAIN order :
               /\ DOMAIN order'[o].lines = DOMAIN order[o].lines
               /\ \A i \in DOMAIN order[o].lines :
                    /\ order'[o].lines[i].total = order[o].lines[i].total
                    /\ order[o].state # "Draft" => order'[o].lines[i] = order[o].lines[i]
               /\ order[o].state # "Draft" => order'[o].state # "Draft"
      PROVE  CommitmentsInv'
  <2>1. PlanInv'
    BY <1>1, <1>2, <1>5, PlansKept
  <2>2. QuoteInv' /\ Converted' = Converted
    BY <1>5, QuotesSame
  <2>3. Len(order') = Len(order)
    <3>1. order \in Seq(Order) /\ order' \in Seq(Order)
      BY <1>5 DEF OrderInv
    <3>2. 1 .. Len(order') = 1 .. Len(order) /\ Len(order) \in Nat /\ Len(order') \in Nat
      BY <1>5, <3>1
    <3> QED BY <3>2
  <2> QED BY <1>2, <1>3, <1>5, <2>1, <2>2, <2>3
<1>6. ASSUME NEW x \in OrderLines, NEW w \in DOMAIN element, AssignOrderLineWbs(x, w)
      PROVE  CommitmentsInv'
  <2>1. /\ OrderInv' /\ DOMAIN order' = DOMAIN order
        /\ \A p \in DOMAIN order :
              /\ order[p].state # "Draft" => order'[p] = order[p]
              /\ DOMAIN order'[p].lines = DOMAIN order[p].lines
              /\ \A i \in DOMAIN order[p].lines :
                   order'[p].lines[i].total = order[p].lines[i].total
    BY <1>6, AssignStep
  <2>2. quote' = quote
    BY <1>6 DEF AssignOrderLineWbs
  <2> QED BY <1>5, <2>1, <2>2
<1>7. ASSUME NEW o \in DOMAIN order,
             ConfirmOrder(o) \/ \E to \in {"Allocated", "Shipped", "Cancelled"} : MoveOrder(o, to)
      PROVE  CommitmentsInv'
  <2>1. /\ OrderInv' /\ DOMAIN order' = DOMAIN order
        /\ \A p \in DOMAIN order : /\ order'[p].lines = order[p].lines
                                   /\ order[p].state # "Draft" => order'[p].state # "Draft"
    BY <1>7, ConfirmStep, MoveOrderStep
  <2>2. quote' = quote
    BY <1>7 DEF ConfirmOrder, MoveOrder
  <2> QED BY <1>5, <2>1, <2>2
<1> QED BY <1>4, <1>6, <1>7

LEMMA PlanSteps ==
  ASSUME CommitmentsInv, NEW x \in OrderLines, NEW a \in Billings, PlanMilestone(x, a)
  PROVE  CommitmentsInv'
<1> USE DEF CommitmentsInv
<1>1. PlanInv'
  BY PlanStep
<1>2. UNCHANGED agreed /\ UNCHANGED work /\ catalogue' = catalogue /\ quote' = quote /\ order' = order
  BY DEF PlanMilestone, sales
<1>3. TermsInv' /\ AgreedGrows /\ CatalogueOK' /\ ServicesKept /\ QuoteInv' /\ Converted' = Converted
  BY <1>2, AgreedSame, CatalogueSame, QuotesSame
<1>4. WorkInv' /\ WorkGrows
  BY <1>2, <1>3, WorkKept
<1>5. OrderInv'
  BY <1>2, <1>3, <1>4, OrdersKept
<1> QED BY <1>1, <1>2, <1>3, <1>4, <1>5

LEMMA CommitmentsStep == CommitmentsInv /\ [ContractsNext]_contractsVars => CommitmentsInv'
<1> SUFFICES ASSUME CommitmentsInv, [ContractsNext]_contractsVars PROVE CommitmentsInv'
  OBVIOUS
<1>1. CASE UNCHANGED contractsVars
  <2> USE DEF CommitmentsInv
  <2>1. UNCHANGED agreed /\ UNCHANGED work /\ catalogue' = catalogue
        /\ quote' = quote /\ order' = order /\ plan' = plan
    BY <1>1 DEF contractsVars, agreed, work
  <2>2. TermsInv' /\ AgreedGrows /\ CatalogueOK' /\ ServicesKept /\ QuoteInv' /\ Converted' = Converted
    BY <2>1, AgreedSame, CatalogueSame, QuotesSame
  <2>3. WorkInv' /\ WorkGrows
    BY <2>1, <2>2, WorkKept
  <2> QED BY <2>1, <2>2, <2>3, OthersStep
<1> QED
  BY <1>1, SkuStep, AgreeSteps, WorkSteps, QuoteSteps, OrderSteps, PlanSteps DEF ContractsNext

LEMMA CommitmentsInit == ContractsInit => CommitmentsInv
<1> SUFFICES ASSUME ContractsInit PROVE CommitmentsInv
  OBVIOUS
<1>1. /\ terms = <<>> /\ engagement = <<>> /\ element = <<>>
      /\ quote = <<>> /\ order = <<>> /\ plan = <<>>
      /\ contract = [status |-> "None", current |-> None]
      /\ catalogue = [s \in Skus |-> "None"]
  BY DEF ContractsInit
<1>2. \A S : <<>> \in Seq(S)
  OBVIOUS
<1>3. DOMAIN <<>> = {} /\ Len(<<>>) = 0
  OBVIOUS
<1>4. TermsInv
  BY <1>1, <1>2, <1>3 DEF TermsInv, VersionsInOrder, None
<1>5. WorkInv /\ CatalogueOK /\ QuoteInv
  BY <1>1, <1>2, <1>3 DEF WorkInv, CatalogueOK, QuoteInv
<1>6. OrderInv /\ OrderLines = {}
  BY <1>1, <1>2, <1>3 DEF OrderInv, ElementsApart, OrderLines
<1>7. Len(order) = Cardinality(Converted)
  <2>1. Converted = {}
    BY <1>1, <1>3 DEF Converted
  <2> QED BY <1>1, <1>3, <2>1, FS_EmptySet
<1>8. PlanInv
  BY <1>1, <1>2, <1>3, <1>6 DEF PlanInv
<1> QED BY <1>4, <1>5, <1>6, <1>7, <1>8 DEF CommitmentsInv

LEMMA CommitmentsInvImplies == CommitmentsInv => CommitmentsHold
<1> SUFFICES ASSUME CommitmentsInv PROVE CommitmentsHold
  OBVIOUS
<1> USE DEF CommitmentsInv
<1>1. VersionsInOrder
  BY DEF TermsInv
<1>2. PinsAreApproved
  <2>1. \A o \in DOMAIN order : order[o].version # None =>
          order[o].version \in DOMAIN terms /\ order[o].version <= contract.current
    BY DEF OrderInv, SoundOrder
  <2>2. \A v \in {engagement[e].version : e \in DOMAIN engagement}
               \cup {element[w].version : w \in DOMAIN element}
               \cup {order[o].version : o \in DOMAIN order} :
          v # None => v \in DOMAIN terms /\ v <= contract.current
    BY <2>1 DEF WorkInv
  <2> QED BY <2>2, NotDraft DEF PinsAreApproved
<1>3. OrdersAreQuotes
  <2>1. Len(order) = Cardinality({q \in DOMAIN quote : quote[q].state = "ConvertedToOrder"})
    BY DEF Converted
  <2>2. \A o \in DOMAIN order :
          order[o].total = SumFunctionOnSet([i \in DOMAIN order[o].lines |->
                                               order[o].lines[i].total], DOMAIN order[o].lines)
    BY DEF OrderInv, SoundOrder, LinesTotal
  <2> QED BY <2>1, <2>2 DEF OrdersAreQuotes
<1>4. MappingsAgree
  <2>1. ASSUME NEW x \in OrderLines
        PROVE  /\ LineAt(x).element # None =>
                    /\ IsMapped(LineAt(x), OrderOf(x).version)
                    /\ \A y \in OrderLines \ {x} : LineAt(y).element # LineAt(x).element
               /\ (LineAt(x).version # None /\ OrderOf(x).state \notin {"Draft", "Cancelled"}) =>
                    LineAt(x).element # None
    <3>1. /\ x[1] \in DOMAIN order /\ x[2] \in DOMAIN order[x[1]].lines
          /\ x = <<x[1], x[2]>>
          /\ SoundLine(LineAt(x), OrderOf(x).version, OrderOf(x).state)
      BY LineIs
    <3>2. ASSUME NEW y \in OrderLines, LineAt(x).element # None, LineAt(y).element = LineAt(x).element
          PROVE  y = x
      <4>1. /\ y[1] \in DOMAIN order /\ y[2] \in DOMAIN order[y[1]].lines
            /\ y = <<y[1], y[2]>>
        BY LineIs
      <4>2. x[1] = y[1] /\ x[2] = y[2]
        BY <3>1, <3>2, <4>1 DEF OrderInv, ElementsApart, LineAt
      <4> QED BY <3>1, <4>1, <4>2
    <3> QED BY <3>1, <3>2 DEF SoundLine, MappedLine
  <2> QED BY <2>1 DEF MappingsAgree
<1>5. PlansHold
  BY DEF PlansHold, PlanInv, SoundPlan
<1> QED BY <1>1, <1>2, <1>3, <1>4, <1>5 DEF CommitmentsHold

\* The tables hold what they hold, and what a row refers to is there.
LEMMA CommitmentsTypes == CommitmentsInv => ContractsTypeOK
<1> SUFFICES ASSUME CommitmentsInv PROVE ContractsTypeOK
  OBVIOUS
<1>1. /\ contract.status \in {"None", "Draft", "Active"}
      /\ contract.current \in {None} \cup DOMAIN terms
      /\ \A v \in DOMAIN terms : terms[v].status \in {"Draft", "Approved", "Superseded"}
  <2>1. terms \in Seq(Version) /\ contract.status \in {"None", "Draft", "Active"}
    BY DEF CommitmentsInv, TermsInv
  <2>2. \A v \in DOMAIN terms : terms[v] \in Version
    BY <2>1, TableIndex
  <2> QED
    BY <2>1, <2>2 DEF CommitmentsInv, TermsInv, Version
<1>2. catalogue \in [Skus -> {"None", "physical", "service"}]
  BY DEF CommitmentsInv, CatalogueOK
<1>3. /\ \A e \in DOMAIN engagement : engagement[e].version \in DOMAIN terms
      /\ \A w \in DOMAIN element : element[w].project \in DOMAIN engagement
  BY DEF CommitmentsInv, WorkInv
<1>4. \A o \in DOMAIN order : order[o].version \in {None} \cup DOMAIN terms
  BY DEF CommitmentsInv, OrderInv, SoundOrder
<1>5. \A x \in OrderLines : /\ LineAt(x).project \in {None} \cup DOMAIN engagement
                           /\ LineAt(x).element \in {None} \cup DOMAIN element
  BY LineIs DEF CommitmentsInv, SoundLine
<1>6. \A m \in DOMAIN plan : plan[m].line \in OrderLines /\ plan[m].amount \in Nat
  BY PlanTypes DEF CommitmentsInv, PlanInv, SoundPlan
<1> QED
  BY <1>1, <1>2, <1>3, <1>4, <1>5, <1>6 DEF ContractsTypeOK

\* The versions of a contract, the pins to them, the mapping of service lines to work
\* and the milestones planned for it agree, whatever is amended
\* (contractService.ts, quoteService.ts, orderService.ts, wbsService.ts).
THEOREM CommitmentsAlwaysHold == ContractsSpec => [](ContractsTypeOK /\ CommitmentsHold)
BY CommitmentsInit, CommitmentsStep, CommitmentsInvImplies, CommitmentsTypes, PTL DEF ContractsSpec
=============================================================================
