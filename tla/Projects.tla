------------------------------ MODULE Projects ------------------------------
(***************************************************************************)
(* What a project costs, in services/foundation-erp: material issued from  *)
(* stock (domain/inv/inventoryService.ts) and labour                       *)
(* (domain/proj/projectService.ts) are added to its work in progress, and  *)
(* milestones release labour to expense                                    *)
(* (domain/o2c/invoice/invoiceService.ts).  The figures are kept twice, in *)
(* proj_wip and in proj_project, by the statements of three services; the  *)
(* hours are kept a third time, with the task they were worked on.         *)
(*                                                                         *)
(* Handlers run to their end without yielding.  What of a handler is not   *)
(* in one transaction a crash can cut in two.  An hour costs 1.  A task's  *)
(* status is what its remaining hours say, and nothing looks at it: it is  *)
(* left out.                                                               *)
(***************************************************************************)
EXTENDS Integers, Functions, FiniteSets

CONSTANTS
  Tasks, ChangeRequests,
  Resources,   \* employees whose hours of the day are known
  Budgets,     \* first budgets, and what a change request adds
  Costs,       \* costs of an issue of material, of labour, of a finished item
  Hours,       \* hours allocated and hours worked
  Estimates,   \* pairs: a task's estimate and the hours given as remaining
  DayHours,    \* h2r_employee_availability of the day
  MaxCost,     \* bound on what is charged to the project
  MaxGoods     \* bound on the number of finished items

ASSUME ProjectsAssumption ==
  /\ IsFiniteSet(Tasks) /\ IsFiniteSet(Resources)
  /\ Budgets \subseteq Nat /\ Costs \subseteq Nat \ {0} /\ Hours \subseteq Nat \ {0}
  /\ Estimates \subseteq Nat \X Nat
  /\ DayHours \in Nat /\ MaxCost \in Nat /\ MaxGoods \in Nat

VARIABLES
  project,   \* proj_project
  wip,       \* proj_wip
  change,    \* proj_project_change_request
  task,      \* proj_task, with the remaining hours it was given first
  allotted,  \* proj_task_allocation: an employee's hours for a task, on the day
  goods,     \* finished items: receipts into stock, and rows of proj_finished_item
  charged,   \* the sums of inv_movement, proj_labor_entry and wip_released_amount
  worked,    \* the hours that labour was entered for, by task
  cut        \* what a crash has separated from its labour or its receipt

projectVars == <<project, wip, change, task, allotted, goods, charged, worked, cut>>
costs == <<project, wip, charged>>
planning == <<change, allotted>>

-----------------------------------------------------------------------------
NoBalance == [material |-> 0, labour |-> 0, total |-> 0]
NoTask == [exists |-> FALSE, estimated |-> 0, given |-> 0, actual |-> 0, remaining |-> 0]
Beyond(a, b) == IF a > b THEN a - b ELSE 0

ProjectsInit ==
  /\ project = [status |-> "None", budget |-> 0, baseline |-> 0, actual |-> 0, balance |-> NoBalance]
  /\ wip = [status |-> "None", balance |-> NoBalance]
  /\ change = [c \in ChangeRequests |-> [status |-> "None", original |-> 0, revised |-> 0]]
  /\ task = [t \in Tasks |-> NoTask]
  /\ allotted = [t \in Tasks |-> [r \in Resources |-> 0]]
  /\ goods = [receipts |-> 0, items |-> 0]
  /\ charged = [material |-> 0, labour |-> 0, released |-> 0]
  /\ worked = [t \in Tasks |-> 0]
  /\ cut = {}

-----------------------------------------------------------------------------
\* The project.

CreateProject(b) ==
  /\ project.status = "None"
  /\ project' = [project EXCEPT !.status = "Draft", !.budget = b, !.baseline = b]
  /\ wip' = [wip EXCEPT !.status = "Open"]
  /\ UNCHANGED <<planning, task, goods, charged, worked, cut>>

MoveProject(from, to) ==
  /\ project.status = from
  /\ project' = [project EXCEPT !.status = to]
  /\ UNCHANGED <<wip, planning, task, goods, charged, worked, cut>>
ActivateProject == MoveProject("Draft", "Active")
HoldProject == MoveProject("Active", "OnHold")
ResumeProject == MoveProject("OnHold", "Active")

CompleteProject ==
  /\ project.status \in {"Active", "OnHold"}
  /\ project' = [project EXCEPT !.status = "Completed"]
  /\ wip' = [wip EXCEPT !.status = "Closed"]
  /\ UNCHANGED <<planning, task, goods, charged, worked, cut>>

CancelProject ==
  /\ project.status \notin {"None", "Cancelled"}
  /\ project' = [project EXCEPT !.status = "Cancelled"]
  /\ UNCHANGED <<wip, planning, task, goods, charged, worked, cut>>

-----------------------------------------------------------------------------
\* Work in progress.

Added(balance, part, c) == [balance EXCEPT ![part] = @ + c, !.total = @ + c]

\* Both rows grow by a cost of material or labour.
Charge(part, c) ==
  /\ charged.material + charged.labour + c <= MaxCost
  /\ wip.status = "Open"
  /\ wip' = [wip EXCEPT !.balance = Added(@, part, c)]
  /\ project' = [project EXCEPT !.balance = Added(@, part, c), !.actual = @ + c]
  /\ charged' = [charged EXCEPT ![part] = @ + c]

\* postInventoryMovement, for an issue with a project.
IssueMaterial(c) ==
  /\ project.status \in {"Active", "OnHold"}
  /\ Charge("material", c)
  /\ UNCHANGED <<planning, task, goods, worked, cut>>

\* postLaborCost, for labour of no task.
PostLabourCost(c) ==
  /\ project.status = "Active"
  /\ Charge("labour", c)
  /\ UNCHANGED <<planning, task, goods, worked, cut>>

\* Mutant: material is released with the labour.
ReleasableOfTotal == wip.balance.total
\* What is there to be released; the milestone's share of it is OrderToCash's.
Releasable == IF wip.balance.labour < wip.balance.total THEN wip.balance.labour
                                                        ELSE wip.balance.total

Relieved(balance, c) ==
  [balance EXCEPT !.labour = Beyond(@, c), !.total = Beyond(@, c)]

\* accountProjectMilestoneCompletion, in whatever state the project and its WIP are.
ReleaseLabour(c) ==
  /\ c <= Releasable
  /\ wip' = [wip EXCEPT !.balance = Relieved(@, c)]
  /\ project' = [project EXCEPT !.balance = Relieved(@, c)]
  /\ charged' = [charged EXCEPT !.released = @ + c]
  /\ UNCHANGED <<planning, task, goods, worked, cut>>

\* createProjectFinishedItem: the receipt into stock, and then the row; work in
\* progress stays as it is.
FinishItem ==
  /\ project.status = "Active" /\ wip.status = "Open"
  /\ goods.receipts < MaxGoods
  /\ \/ goods' = [receipts |-> goods.receipts + 1, items |-> goods.items + 1] /\ UNCHANGED cut
     \/ goods' = [goods EXCEPT !.receipts = @ + 1] /\ cut' = cut \cup {"goods"}
  /\ UNCHANGED <<costs, planning, task, worked>>

-----------------------------------------------------------------------------
\* Change requests.

\* The request keeps the budget of this moment with its addition.
CreateChangeRequest(c, delta) ==
  /\ project.status # "None" /\ change[c].status = "None"
  /\ change' = [change EXCEPT ![c] = [status |-> "Pending", original |-> project.budget,
                                      revised |-> project.budget + delta]]
  /\ UNCHANGED <<costs, task, allotted, goods, worked, cut>>

\* The request is approved, and then the budget replaced by the one kept.
ApproveChangeRequest(c) ==
  /\ change[c].status = "Pending"
  /\ change' = [change EXCEPT ![c].status = "Approved"]
  /\ \/ project' = [project EXCEPT !.budget = change[c].revised] /\ UNCHANGED cut
     \/ cut' = cut \cup {c} /\ UNCHANGED project
  /\ UNCHANGED <<wip, task, allotted, goods, charged, worked>>

-----------------------------------------------------------------------------
\* Tasks.

\* The estimate and the hours that remain of it are given one by one.
CreateTask(t, e) ==
  /\ project.status = "Active" /\ ~task[t].exists
  /\ task' = [task EXCEPT ![t] = [exists |-> TRUE, estimated |-> e[1], given |-> e[2],
                                  actual |-> 0, remaining |-> e[2]]]
  /\ UNCHANGED <<costs, planning, goods, worked, cut>>

\* createTaskAllocation: once for a task, within the hours of the employee's day
\* (contractors, and employees without availability, are not held to a day) and
\* within the task's estimate, when it has one.
HoursOn(f, S) == SumFunctionOnSet(f, S)
DayOf(r) == HoursOn([t \in Tasks |-> allotted[t][r]], Tasks)

AllocateTask(t, r, h) ==
  /\ task[t].exists /\ allotted[t][r] = 0
  /\ DayOf(r) + h <= DayHours
  /\ task[t].estimated > 0 => HoursOn(allotted[t], Resources) + h <= task[t].estimated
  /\ allotted' = [allotted EXCEPT ![t][r] = h]
  /\ UNCHANGED <<costs, change, task, goods, worked, cut>>

Progressed(row, h) == [row EXCEPT !.actual = @ + h, !.remaining = Beyond(@, h)]

\* logTaskHours: labour of no task, in a transaction of its own, and then the task.
LogTaskHours(t, h) ==
  /\ task[t].exists /\ project.status = "Active"
  /\ Charge("labour", h)
  /\ worked' = [worked EXCEPT ![t] = @ + h]
  /\ \/ task' = [task EXCEPT ![t] = Progressed(@, h)] /\ UNCHANGED cut
     \/ cut' = cut \cup {t} /\ UNCHANGED task
  /\ UNCHANGED <<planning, goods>>

\* postLaborCost, for a timesheet line with a task: one transaction.
PostTaskLabour(t, h) ==
  /\ task[t].exists /\ project.status = "Active"
  /\ Charge("labour", h)
  /\ worked' = [worked EXCEPT ![t] = @ + h]
  /\ task' = [task EXCEPT ![t] = Progressed(@, h)]
  /\ UNCHANGED <<planning, goods, cut>>

-----------------------------------------------------------------------------
ProjectsNext ==
  \/ \E b \in Budgets : CreateProject(b)
  \/ ActivateProject \/ HoldProject \/ ResumeProject \/ CompleteProject \/ CancelProject
  \/ \E c \in Costs : IssueMaterial(c) \/ PostLabourCost(c) \/ ReleaseLabour(c)
  \/ FinishItem
  \/ \E c \in ChangeRequests, b \in Budgets : CreateChangeRequest(c, b)
  \/ \E c \in ChangeRequests : ApproveChangeRequest(c)
  \/ \E t \in Tasks, e \in Estimates : CreateTask(t, e)
  \/ \E t \in Tasks, r \in Resources, h \in Hours : AllocateTask(t, r, h)
  \/ \E t \in Tasks, h \in Hours : LogTaskHours(t, h) \/ PostTaskLabour(t, h)

ProjectsSpec == ProjectsInit /\ [][ProjectsNext]_projectVars

-----------------------------------------------------------------------------
Balances == [material : Nat, labour : Nat, total : Nat]

\* Every table holds what its columns allow.
ProjectsTypeOK ==
  /\ project \in [status : {"None", "Draft", "Active", "OnHold", "Completed", "Cancelled"},
                  budget : Nat, baseline : Nat, actual : Nat, balance : Balances]
  /\ wip \in [status : {"None", "Open", "Closed"}, balance : Balances]
  /\ change \in [ChangeRequests -> [status : {"None", "Pending", "Approved"},
                               original : Nat, revised : Nat]]
  /\ task \in [Tasks -> [exists : BOOLEAN, estimated : Nat, given : Nat,
                         actual : Nat, remaining : Nat]]
  /\ allotted \in [Tasks -> [Resources -> Nat]]
  /\ goods \in [receipts : Nat, items : Nat]
  /\ charged \in [material : Nat, labour : Nat, released : Nat]
  /\ worked \in [Tasks -> Nat]
  /\ cut \subseteq Tasks \cup ChangeRequests \cup {"goods"}

\* The two copies of a balance agree with each other and with the movements, the
\* labour and the releases they were made from.
BalancesAgree ==
  /\ project.balance = wip.balance
  /\ wip.balance.material = charged.material
  /\ wip.balance.labour + charged.released = charged.labour
  /\ wip.balance.total = wip.balance.material + wip.balance.labour
  /\ project.actual = charged.material + charged.labour

\* A task's hours are those its labour was entered for, unless a crash came
\* between the two; what remains is what they leave of the hours first given.
HoursAgree ==
  \A t \in Tasks :
    /\ task[t].actual <= worked[t]
    /\ t \notin cut => task[t].actual = worked[t]
    /\ task[t].remaining = Beyond(task[t].given, task[t].actual)

\* Nobody is given more hours than the day has, and no estimated task more than
\* its estimate.
AllocationsFit ==
  /\ \A r \in Resources : DayOf(r) <= DayHours
  /\ \A t \in Tasks : task[t].estimated > 0 =>
                        HoursOn(allotted[t], Resources) <= task[t].estimated

\* A finished item in stock has its row, unless a crash came between the two.
ItemsAgree ==
  /\ goods.items <= goods.receipts
  /\ "goods" \notin cut => goods.items = goods.receipts

\* The figures three services keep for a project agree: its balances, its hours,
\* its allocations and its finished items.
ProjectFiguresAgree == BalancesAgree /\ HoursAgree /\ AllocationsFit /\ ItemsAgree

\* The budget is the baseline and what the approved requests add to it.  It is not:
\* each request keeps a whole budget, and the last one approved takes its place.
BudgetAddsUp ==
  cut \cap ChangeRequests = {} =>
    project.budget = project.baseline
      + SumFunctionOnSet([c \in ChangeRequests |-> change[c].revised - change[c].original],
                         {c \in ChangeRequests : change[c].status = "Approved"})
=============================================================================
