# A TLA+ verification of the Constitutional ERP services

The repository is a set of small Node services around an ERP. A request to
change something is a *governed operation*: it is put to an authority engine
(who may do it) and a governance engine (under which rules), and then denied,
carried out, or parked until somebody approves it. Everything that happens is
recorded as events, collected in one ledger, and read back by the services that
decide. This directory models the parts of that where order, concurrency and
failure matter, checks the models with TLC and proves the main results with
TLAPS.

1. [The system](#1-the-system) - 2. [Modules](#2-modules) -
3. [MeshApproval](#3-meshapproval) - 4. [EventLedger](#4-eventledger) -
5. [OrderToCash](#5-ordertocash) - 6. [ProcessGraph](#6-processgraph) -
7. [Contractors](#7-contractors) - 8. [Projections](#8-projections) -
9. [Inventory](#9-inventory) - 10. [ApprovalQueue](#10-approvalqueue) -
11. [CaiplSessions](#11-caiplsessions) - 12. [Projects](#12-projects) -
13. [GeneralLedger](#13-generalledger) - 14. [Contracts](#14-contracts) -
15. [EngineRules](#15-enginerules) - 16. [Identity](#16-identity) -
17. [Navigator](#17-navigator) - 18. [Purchasing](#18-purchasing) -
19. [Runs and bounds](#19-runs-and-bounds) - 20. [Proofs](#20-proofs) -
21. [Where code and documents disagree](#21-where-code-and-documents-disagree) -
22. [Not modelled](#22-not-modelled) - 23. [Plan](#23-plan)

Every service is one Express process over its own SQLite file, opened with the
synchronous better-sqlite3. So inside a process a handler runs without
interruption up to its next `await` (of a `fetch` to another service), a
`transaction(...)` is atomic and durable, and whatever is in a JavaScript
variable dies with the process. Handlers of the ERP never await: there an HTTP
request is one step, unless it dies between two transactions. This is the
concurrency model of all modules here.

## 1. The system

### Inventory

| component (`src/services/...`) | state it keeps | operations | talks to |
|---|---|---|---|
| **mesh-gateway** | `mesh_approval_task`, `mesh_approval_assignment`, `mesh_decision_log`; the local variables of handlers that wait | submit a resource action, create, MCP call or nested operation; approve; reject; read-only queries | authority-engine, governance-engine, the ERP's adapter |
| **event-processor** | `ledger_events`, `ledger_dead_letter`, `cep_source_cursor`; replay status and polls in memory | replay at start, poll every few seconds, ingest posted events, derive SLA postings, query, replay one aggregate | all event sources (by cursor); read by process-graph |
| **foundation-erp: event store** | `event` | append inside the domain's transaction; list behind a cursor | polled by event-processor, authority- and governance-engine |
| **foundation-erp: order to cash** | `quote`, `sales_order`(+lines), `shipment`, `invoice`(+tax lines), `payment`, `contract` | the transitions of each; generate a (milestone) invoice; register, apply, reconcile, cancel a payment | journals, inventory, projects, tax |
| **foundation-erp: procure to pay** | requisition, purchase order, goods receipt, supplier invoice, AP payment and their lines | transitions, receiving, matching of contractors' accruals, postings | journals, inventory, tax |
| **foundation-erp: record to report** | `journal`, account, ledger, fiscal period, posting profile, rate | post, reverse, cancel a journal; open and close periods; revalue | called by every other domain |
| **foundation-erp: hire to retire** | employee, position, assignment, credential, timesheet(+lines) | hire, promote, assign, terminate, credential expiry; fill, submit, approve, import timesheets | events feed the authority and governance projections |
| **foundation-erp: inventory** | on-hand and bin balances, movements, reservations, lots, serials, cycle counts, BOMs | post a movement, reserve/release, put away/pick, count and post the count | journals, project WIP |
| **foundation-erp: projects, internal trade** | project, WBS, milestone, stage gate, WIP, labour, finished items; internal trades | activate/hold/resume/complete/cancel; approve milestones and changes; post cost; trade | contracts, invoices, inventory, journals |
| **foundation-erp: tax** | configurations, rates, tax lines, settlements | look up and compute, post, settle | invoices, journals |
| **foundation-erp: front ends** | none | REST, hypermedia and MCP routes | the domains |
| **authority-engine** | `authority_subject`, `authority_position`, `authority_rule`, `authority_credential`, the cursor | replay and poll the ERP, apply events to the projection, evaluate, list eligible approvers | foundation-erp; asked by mesh-gateway, process-graph |
| **governance-engine** | `governance_rule`, `governance_actor_credential`, `governance_action_history`, the cursor | as above; evaluate rules over a context | foundation-erp, mesh log; asked by mesh-gateway, process-graph |
| **process-graph** | `pge_command_log`, `pge_approval_task` | rebuild an aggregate from the ledger, list and evaluate transitions, record a command, approve one | event-processor, both engines |
| **integration-hub** | sessions and transcripts, a row each | run a command through process-graph and then the mesh; sessions | process-graph, mesh-gateway |
| **navigator-ai** | executions, approval requests and their callbacks, CAIPL sessions and plans | plan, execute, ask for approval, resume | integration-hub, mesh-gateway, an LLM |
| **user-identity** | `identity_user`, `refresh_token` | sign in, refresh, revoke | - |
| **erp-mapping-tool-api** | mapping tables | create, read, update, delete rows | - |
| **UIs** (`src/apps`), **infra, docs** | - | - | the hub |

### What is hard, and what makes each part correct

* **mesh-gateway.** Decisions are taken before an `await` and acted on after
  it; the same task may be approved twice, or approved and rejected, while its
  request is on its way; fetches throw; the process dies between two rows.
  Correct means: a repeated request shares the pending task; nothing is
  forwarded but on an outright "allow"; a stored request goes out at most once;
  the final status of a task tells whether it took effect; the log claims
  nothing that did not happen; every call is answered.
* **event-processor.** The timer starts polls that overlap; a batch may be full;
  rows are malformed; the process dies between rows; clients post the same
  events that polls bring. Correct means: no cursor passes an event that is not
  in the ledger or the dead letters; "Ready" means caught up; nothing is
  buried twice; every recorded event arrives; every costing event has its
  posting.
* **authority and governance engines.** The same polling, but a batch is one
  transaction: a row that cannot be applied rolls back the batch and is fetched
  again. The names of events have to be the ones the ERP emits (they are not,
  section 8); rows may refer to what the engine was never told; rows of one
  instant may be applied in either order; overlapping polls may apply old rows
  after new ones. Correct means: the projection equals the fold of the events that
  the engine understands, nothing it cannot apply is passed over, and a terminated
  employee, or an expired or revoked credential, loses authority.
* **process-graph and integration-hub.** A command is judged on a state rebuilt
  from a ledger that lags, the engines are awaited, and the command is recorded
  without another look; then the mesh may refuse what has been recorded.
  Correct means: an approval is used once, a transition is made once from the
  state it starts in, and command log and ERP end up in agreement.
* **ERP life cycles.** Long sequences of legal calls over several documents.
  Correct means relations between documents: an invoice's amount paid is the sum
  of its applied payments; what was posted and not reversed is what the
  documents say; no milestone, line or contract is billed beyond its amount; no
  more is received than ordered, reserved than on hand; posted journals balance
  and stay out of closed periods.
* **inventory, projects, general ledger.** The same quantity is kept in several
  places (on hand, bins, lots and reservations; the work in progress of a project
  and its row; a journal and its ledger entries) and changed by handlers that know
  of some of them only. Correct means that they agree after every call, wherever a
  handler was cut short.
* **navigator-ai.** An operator and a poll resolve one request at once; versions
  are compared before an await and written after it; an action is executed before
  it is recorded. Correct means: an approved action is sent once; a decision is
  settled once, and the ERP asked once for what it says.

`PROJECT.json` lists each such hazard at the line where it bites, with the
properties that would catch it, or the reason why none does yet.

## 2. Modules

| module | stands for | extends / uses |
|---|---|---|
| `ApprovalTask` | what an approval task promises: life cycle and one forwarding | - |
| `MeshApproval` | the write path of mesh-gateway | `INSTANCE ApprovalTask` as refinement |
| `MCMeshApproval` | instances for TLC | `MeshApproval` |
| `MeshApproval_proofs` | types, deduplication, enforcement, the decision log; for tasks resolved by one call at a time also the refinement | `MeshApproval` |
| `EventLedger` | event-processor, and the event stores it polls | - |
| `MCEventLedger` | instances for TLC | `EventLedger` |
| `EventLedger_proofs` | cursor safety, readiness, derivation, serial polls | `EventLedger` |
| `OrderToCash` | orders, project milestones, invoices, payments and their control accounts | - |
| `MCOrderToCash` | instances for TLC | `OrderToCash` |
| `OrderToCash_proofs` | types, single billing, what the control accounts hold, what is billed of an order and left in work in progress | `OrderToCash`, `SetLemmas` |
| `ProcessTables` | the life cycles of 19 types of object: the ERP's tables, the graph's reducers and transitions | - |
| `FrontEnds` | the ERP's routes, links and MCP tools, the hub's catalogue and the mesh's adapter, as tables | `ProcessTables` |
| `ProcessGraph` | ledger, process-graph, hub, mesh and ERP around one object | `FrontEnds` |
| `MCProcessGraph` | an instance for TLC | `ProcessGraph` |
| `ProcessGraph_proofs` | approvals are spent once, effects are recorded, commands are legal, offers are honoured | `ProcessGraph` |
| `Contractors` | timesheets, labour, accruals, supplier invoices, payments | - |
| `Projections` | what authority- and governance-engine project of the ERP's events | - |
| `Inventory` | one article's stock, its promises and its value | - |
| `ApprovalQueue` | navigator-ai's approval requests | - |
| `CaiplSessions` | navigator-ai's conversations and decisions | - |
| `Projects` | a project's life cycle, costs, tasks, budget, finished items | - |
| `GeneralLedger` | periods, journals, ledger entries, the trial balance | - |
| `Contracts` | contracts, amendments, quotes, orders and the work they are mapped to | - |
| `EngineRules` | what the two engines answer, and what the mesh makes of it | - |
| `Identity` | accounts, sign-ins and refresh tokens | - |
| `Navigator` | the other calls of navigator-ai, with their log | - |
| `Purchasing` | requisitions, purchase orders, receipts, and the invoices they lead to | `INSTANCE ProcessTables` |
| `MCServices` | instances for TLC of the twelve modules that share no state | `Contractors`, and all service modules below it |
| `SetLemmas` | facts on finite sets, on sums over them, on least and greatest numbers | - |
| `Accounts_proofs` | `Inventory`, `GeneralLedger`, `Contractors`: accounts and the documents behind them | these three, `SetLemmas` |
| `Commitments_proofs` | `Projects`, `Purchasing`, `Contracts`: what was agreed, ordered and worked | these three, `SetLemmas` |
| `Governance_proofs` | `ApprovalQueue`, `CaiplSessions`, `Identity`, `EngineRules`, `Projections`, `Navigator`: who may do what, and what is told of it; the twelve services side by side | `MCServices`, `Accounts_proofs`, `Commitments_proofs` |

`PROJECT.json` maps every definition to the lines it is translated from.
Definitions commented as *Mutant* are plausible bugs of the code; each property
is violated when the definition that follows the mutant is replaced by it.

## 3. MeshApproval

**State.** `calls[c]` is the handler of one HTTP call: `pc` is the `await` it is
suspended on (`fetch` the resource, `pipeline` for the engines, `approvers` for
the eligible approvers, `exec` for the adapter), followed by `log` and `done`.
`tasks` is `mesh_approval_task` with its assignments; a task is named after the
call that created it. `log` is `mesh_decision_log`. `tier` and `version` are what
the engines and the backend would answer at the moment; they may change between
two awaits (`ChangeTier`, `AmendResource`). `backend[c]` is what became of the
call's request to the adapter: the request leaves (`Send`), and the backend
carries it out or refuses it (`BackendRuns`) even when the gateway has died or
given up.

| action | code |
|---|---|
| `Submit`, `Fetched` | `api/mesh.routes.ts` handlers up to their first await; `buildDomainContext` |
| `DenyRequest`, `AskApprovers`, `ForwardRequest` | what the handler does with the verdict of `evaluatePipeline` |
| `JoinTask`, `CreateTask` | `findPendingTaskByFingerprint`, then `createApprovalTask` without an await between |
| `FinishRequest` | the adapter's answer |
| `Approve`, `ApproveResource`, `Refuse`, `DenyApproval`, `GrantApproval`, `CompleteApproval`, `FailApproval` | `POST /mesh/approvals/:id/approve` |
| `Reject` | `POST /mesh/approvals/:id/reject`, which awaits nothing |
| `WriteLog`, `Throw`, `Crash` | `logMeshEvent`; the handlers' catch; a restart that reads nothing back |

The engines are abstracted to `Verdict`: a tier the action needs, separation of
duties, and a tier below which approval is asked for, which may depend on the
version of the resource. These are the three shapes of rule in the migrations'
seed data. In shadow mode a request is forwarded whatever the verdict; the
properties about enforcement say `Mode = "enforce"`, and the runs use that mode.

`Serial = TRUE` restricts the environment: nobody resolves a task that another
call is resolving. The code does not enforce it (`mesh_rejected_executed` is what
happens without it); with it the tasks are as documented.

**Properties.** `PendingUnique`, `ForwardedOnlyIfAllowed` and `LogSound` for any
interleaving; `ForwardedAtMostOnce`, `StatusTellsEffect` and
`ImplementsApprovalTask` under `Serial`; `ApprovedIsResolved` under fairness.
`CallsAnswered` (every call is answered) and `ApprovalsServed` (a pending task can
be approved) are stated without a run: the first follows from the fairness of
single steps, the second does not hold (section 21).

**Fairness.** Weak fairness of `Step(c)`: a settled await is handled, since
Node's event loop runs every ready callback; and of `BackendRuns(c)`: the services
behind the gateway answer (its `fetch` calls have no timeout, so without this
assumption a call may hang for ever, and the property is about the gateway).
Nothing is assumed of callers. With a throw or a crash an APPROVED task stays so
for ever: nothing in the code resumes it, and `ApprovedIsResolved` is claimed
only without them.

## 4. EventLedger

**State.** `stamp[e]` is what a cursor compares of the row of event e: its
timestamp, or for the *keyed* sources (the mesh log) an id that grows with every
row. `polls[p]` is one run over all sources: which source it is at, whether the
fetch is sent, served or being applied, its own cursor, and what is left of the
batch. `ledger`, `slas`, `dead` and `cursors` are the tables (`slas` are the rows
of derived posting events, named by the event they derive from). `posting` is
the one event whose derived row the current handler has still to write. `atBoot`
is history: what the sources held when the process was started.

| action | code |
|---|---|
| `Record`, `Serve` | foundation-erp `appendEvent`, `listEvents` (`ORDER BY timestamp LIMIT`) |
| `Boot` | event-processor `server.ts`: replay, then Ready |
| `StartPoll` | `startPollingConsumer`, a `setInterval` that waits for nothing |
| `EmptyBatch`, `TakeBatch`, `ApplyRow`, `EndBatch` | `replaySourceToHead`: one transaction a row for the event or dead letter, the derived event and the cursor; another batch if this one was full |
| `Throw` | a failed fetch ends the poll; at start, the process |
| `Ingest`, `Derive` | `POST /events/ingest`: two statements without a transaction |
| `Crash` | polls, replay status and `posting` are lost |

`Batches` leaves open which rows of one instant come first, as SQL does. A row
is applied only while the event loop is free or by the poll that has it, so
batches do not interleave row by row, but a crash may fall between any two.

**Switches.** `DistinctTimes = TRUE`: no source records two events with one
stamp. The code does not guarantee it for sources with a millisecond timestamp;
`ledger_same_instant` is what happens otherwise. `Serial = TRUE`: a poll ends before
the next one starts, the normal case (an interval of seconds, a fetch of
milliseconds).

**Properties.** `NoEventSkipped` and `WipEventsPosted` with overlapping polls;
`ReadyMeansCaughtUp`, `BuriedOnce`, `CursorsAdvance` and `AllIngested` with one
poll at a time and a crash. `WipEventsPosted` is checked and proved without a
crash: one between the two statements of `Ingest` loses the derived event for
good, since the event is a duplicate ever after. With overlapping polls cursors
do go back and events are buried twice; `NoEventSkipped` shows that this costs
repeated work only.

**Fairness.** Weak fairness of a poll's steps, of the restart and of `Derive`;
strong fairness of starting a poll: the timer keeps firing, but at the moment it
fires the loop may be busy and, with `Serial`, a poll under way, so the action is
enabled again and again rather than continuously. Sources answer (`Serve` is a
step of the poll). Upstream clocks and clients owe nothing.

## 5. OrderToCash

The first of the ERP's life cycles: the one in which five documents and two
control accounts have to agree.

**State.** `order`, `milestone`, `invoice` and `payment` are the rows of
`o2c_sales_order` (state and billing state), `proj_project_milestone` (status,
link to its invoice, `revenue_journal_id`, `wip_released_amount`), `o2c_invoice`
with its pending tax lines, and `o2c_payment`. `gateReady` is the stage gate of
the milestones' phase. Journals are not kept; what they add up to on the two
control accounts is: `ar[i]` in trade receivables for invoice i, `unbilled[m]`
in unbilled receivables for milestone m. Every posting of the modelled handlers
names its document, so this split by document is exact, and the balance of an
account is the sum. `labor` and `wip` are what was posted to the project's labour
and what is still in progress.

| action | code (`domain/o2c`, `domain/proj`) |
|---|---|
| `MoveOrder` | `confirm`, `allocate`, `ship`, `close`, `cancel` of `salesOrderService.ts` |
| `CreateMilestone`, `UpsertStageGate`, `PostLaborCost` | `projectService.ts`, with the caps of contract and order |
| `ApproveUnbilled`, `ApproveAndBill`, `ApproveAgain` | `approveProjectMilestone` and all it calls: `generateProjectMilestoneInvoice`, `accountProjectMilestoneCompletion`, tax lines |
| `GenerateInvoice`, `PostInvoice`, `CancelInvoice` | `invoiceService.ts`, with the journals of `taxPostingService.ts` |
| `RegisterPayment`, `MovePayment` | `paymentService.ts` |

A handler of the ERP awaits nothing but may run several transactions. `done` is
how many of them were committed: all, or fewer when the process dies or a later
transaction throws in between. `cuts` counts the handlers cut short and is bounded
by `MaxCuts`; properties that need whole handlers say `cuts = 0`, the others hold
in spite of cuts.

**Properties.** `MilestoneBilledOnce`, `ReceivableOfInvoice` and
`UnbilledOfMilestone` hold wherever handlers end. `AccruedBeforeReclassified` and
`BillingAgrees` say what whole handlers keep. `ReceivablesReconcile` and
`UnbilledReconciles`, the ERP's own reconciliation reports, are stated without a
run: document by document they are the two properties above. `PaidOrderIsSettled` relates the
order to its invoices. `BillingAgrees` relates the order's billing state to what is
billed (`BillingStateAgrees`), and the rounding of releases to the labour posted in
between (`WipReleasedInProportion`). No fairness and no liveness: nothing here has to happen
unless a user asks for it.

## 6. ProcessGraph

One business object, as four services and the ERP see it.

**Tables.** `ProcessTables` has, for each of 19 types of object, what the ERP
allows (`ErpMoves`), the events its creation and its operations announce
(`Births`), what process-graph's reducers make of an event (`Reducer`), and what
the graph offers in a state (`Offers`). These are three independent tables in
the code, in two services, and what they agree about is a property. `FrontEnds`
has the ways to an operation: the ERP's routes, the links of its answers, the
guards of its MCP tools, the hub's catalogue and the segments that the mesh's
adapter makes of an action. All of it is translated row by row.

**State.** `history` is the states the object has had in the ERP and their events,
`polled` how much of it the event-processor has fetched, `ledger` what it
returns. `calls`, `tasks` and `log` are process-graph's handlers, approval tasks
and command log; `parked` and `effects` are the requests to the mesh that wait
for an approval, or are lost on the way, and those the ERP has carried out.

| action | code |
|---|---|
| `ErpMove`, `Poll` | an operation of the ERP by somebody else; the event-processor's poll (`EventLedger` in one step) |
| `Submit`, `Rebuild`, `JudgeDenied`, `JudgeParks`, `JudgeAllowed`, `Record` | process-graph `graph.routes.ts`: rebuild from the ledger, compare with the table, ask the engines, append the command |
| `Resolve` | `approvals.routes.ts`: check and write without an await, then the same handler again |
| `Delegate` | `delegateToMesh`, when the payload names an adapter |
| `HubExecute` | integration-hub `processFacade.ts`, after the graph's answer |
| `ReleaseParked` | the mesh sends a parked request on, or a lost one arrives |
| `GraphCrash`, `HubCrash` | either process dies; the other goes on |

**Properties.** `RebuiltLagsOnly`: the graph never shows a state that the object
did not have, beyond the delay. `OffersHonoured`: what the graph offers in a
state it has right, what the ERP's links offer and what its tools let through,
the ERP carries out; the pairs for which this fails are listed by name
(`DeadLinks`, `DeadTools`). `CommandLegalSince`: a command in the log was legal in
a state the object had since the request came in or, if it needed one, since the
approval. `ApprovalSpentOnce`, `EffectsRecorded`, and `GraphCatchesUp` under
fairness.

**Fairness.** Weak fairness of `Poll`: the timer keeps firing; and of each call's
`Handle`: the services asked answer. Users, approvers and the ERP's other
callers owe nothing.

`CallsAnswered` and `LoggedIsExecuted` are stated without a run: the first is the
fairness of single steps, the second does not hold (section 21).

## 7. Contractors

Timesheets whose project lines become labour, and contractors' lines accruals that
supplier invoices take over and payments settle: three services
(`h2r/timesheetService.ts`, `proj/projectService.ts`, `p2p/invoice` and `p2p/payment`)
over one status column.

**State.** `sheet`, `invoice`, `apPayment`: the documents; `labour[l]` how often
a line has been posted as labour; `accrual[l]` the status of its accrual;
`projectActive`; `liability` and `payable`: the balances of the accrued
liability and of accounts payable.

| action | code |
|---|---|
| `AddTimesheetLine`, `SubmitTimesheet`, `RejectTimesheet`, `ReopenTimesheet` | `timesheetService.ts`; an import is a creation with its lines at once |
| `ApproveTimesheet` | one transaction a line, then the status: a line that throws or a crash leaves the earlier ones posted and the sheet Submitted |
| `CreateSupplierInvoice`, `MatchInvoice`, `ValidateInvoice`, `PostInvoice`, `CancelInvoiceOf` | `supplierInvoiceService.ts` with `refreshContractorAccrualStatus` |
| `CreateApPayment`, `MoveApPayment`, `ApplyApPayment` | `apPaymentService.ts` |
| `HoldOrResume` | the project's state, which posting looks at |

**Properties.** `LabourCosted`: no line is costed twice, none of an approved sheet
is left out, wherever approvals were cut short. `PayablesAgree` has two parts. The
status of an accrual tells what became of the invoices that hold it
(`AccrualStatusAgrees`). The liability is the labour that no posted invoice has
taken over, and accounts payable what payments leave open of posted invoices, for
histories in which payments were applied to posted invoices only
(`PayablesReconcile`).
`PaidAccrualCleared` is stated without a run: it does not hold (section 21).

A line whose supplier has no rate can never be removed, so its sheet is never
approved.

## 8. Projections

What the authority- and governance-engine keep of an employee, a position, the
assignments and the credentials. A timer polls the ERP, page by page, and applies
each page and the cursor in one transaction; it does not wait for the poll before.

**State.** `feed` the ERP's events, `seeded` the rows that migrations put in the
projection, `poll[p]` a poll under way, `cursor` the stored one, `view` the status
projected of each entity, `history` governance's action history (the places in the
feed of the events recorded), `announced` the last authority granted or revoked;
`overtaken` is history: a page was applied at another cursor than it was fetched
for.

| action | code |
|---|---|
| `Emit` | the ERP records an event: any type, of any entity, in any order |
| `StartPoll`, `Answer`, `LosePoll` | `projection/consumer.ts`, `replay.ts`; a failed fetch, or a crash |
| `ApplyPage` | the transaction; a full page is followed by another fetch |
| `EndPoll` | an empty page, or one with a row that throws, which is rolled back |

**What an engine understands** (`Upserts`, `Records`). A type comes in three
spellings: `AssignmentCreated`, `h2r_assignment_created` and `assignment.created`.
The authority mapper knows the first and returns null for the others
(`foundationErpEventMapper.ts:149`). Governance upserts credentials under the first
two, if the payload names the employee, and inserts into its history the eleven
types of `SOD_RELEVANT_V1_EVENTS`, which have the second spelling, if the payload
tells a requester, initiator or employee (`handlers.ts:62-73`); the model has three
of the eleven. The cursor moves past what is not understood. **The ERP at this commit
emits the third spelling only** (`assignmentService.ts:91`, `credentialService.ts:59`,
`positionService.ts:50`, ...), so that in the deployment neither engine projects
anything: the authority-engine works on what its migrations seeded.
`ErpIsProjected` states the contrary and does not hold (section 21); the properties
are of what is projected when a source uses a name that an engine knows.

**What is thrown on** (`Throws`). The authority-engine's schemas ask of a hire, a
position, an assignment and a credential for more than an id (`MustName`), and its
handlers look up rows that must be there (`Requires`: `requireSubject`). Nothing in
the feed keeps such events out: the ERP assigns employees and issues credentials
without looking at what an engine has been told, and an employee may be one that
migrations seeded.

**Property.** `ProjectionAgrees`, in three parts. `FollowsFeed`: as long as no poll
has overtaken another, the view is the fold of the understood events up to the
cursor over the seeded rows, and the history holds exactly those recorded, once
each. `AnnouncedAgrees`: what the authority-engine has announced is what it holds,
even when polls have overtaken each other. `StopsAtPoison`: the cursor never passes
an event that the engine cannot apply, whatever polls do; everything behind it waits.

*What is left out on purpose.* Events have instants of their own (the same cursor
as in `EventLedger`, with the same loss otherwise). One employee and one position,
with what was last announced of that employee: no handler looks at the rows of
another.

## 9. Inventory

One article in one organization: stock and its value, and what is promised of it.

**State.** `onHand` (quantity, value, moving average), `moved` the sum of the
movements, `usedKeys` their correlation keys, `reserved`, `binned`, `tracked` what
reservations, a bin and a lot claim of it, `count` a cycle count. History:
`revalued` the quantity at which the average was last computed, `loose` that an
issue took what was promised or a stale count was posted.

| action | code (`inv/inventoryService.ts`) |
|---|---|
| `Receive`, `Issue`, `UpdateCost` | `postInventoryMovement` by moving average or standard cost, with the unique correlation key last |
| `Reserve`, `ReleaseReservation`, `Putaway`, `Pick`, `CreateLot`, `ConsumeLot` | the promises, each checked against the quantity on hand or its own balance |
| `CreateCycleCount`, `RecordCycleCountLine`, `PostCycleCount` | a count of the bin or of the stock, posted against the variance found when counting |

**Property.** `StockAgrees`: on hand is the sum of the movements, however often a
call is repeated, and covers each kind of promise unless `loose` (`OnHandAgrees`);
the value is quantity times average up to the rounding of the last average
(`ValueFollowsAverage`).

## 10. ApprovalQueue

navigator-ai's approval requests: actions an operator was refused, and ERP rows
that the authority rules flag. A request is PENDING, ESCALATED, APPROVED, REJECTED
or EXPIRED. A request for a row is kept `under` the name of its type as it was given,
and a type has several (`Names`): the page of one row takes the caller's
(`requisition` is as good as `p2p_requisition`, `navigatorService.ts:907-937`), the
page of the whole queue its own (`:791-833`). What is tracked is looked up by that
string (`:843-854`).

| action | code (`navigatorService.ts`, `executor.ts`, `navigatorStore.ts`) |
|---|---|
| `RequestApproval` | `executeDecision` with a decision to ask |
| `ReadFlag`, `ApplyAuthorityDecision` | the approvals page: read the ERP row by one of the names, await, then create, keep or expire what is pending under that name |
| `RejectOrEscalate`, `ApproveRequest` | `transitionApproval`: check and update in one step |
| `SendApproved`, `EndApproval` | `executeApprovedAction`, after the publication of the event; a mesh that asks for an approval of its own makes another request |
| `FlagChanges`, `QueueRestart` | the ERP row changes; the process dies |

**Property.** `RequestsSettledOnce`: an action is sent at most once, and only from
an APPROVED request that carries one; two synchronisations with different
readings of a row never leave two requests *pending* for it *under one name*.

More does not hold. `OneOpen`, that at most one request is open for a row, is stated
without a run: two names make two pending requests, and one that was escalated is
not looked for, though it can still be approved.

## 11. CaiplSessions

The conversations of navigator-ai. A call reads its session, compares the versions
its tab sent, awaits the language model and the ERP, and writes one more than it
had read.

| action | code (`caiplService.ts`) |
|---|---|
| `SubmitTurn`, `RecordTurn` | `submitTurn` before and after the language model |
| `Resolve`, `ConfirmExecution` | `resolveDecision` up to its awaits: reject, amend, retry, escalate, confirm |
| `ErpAnswers` | the purchase order or collected operation; a failure may have had its effect |
| `Settle` | the transaction at the end, which looks at nothing again |
| `CaiplRestart` | calls under way are lost, what the ERP did is not |

**Properties.** `DecisionsSettledOnce`: a receipt stands for a write of the ERP;
and while calls do not overlap, a decision has one receipt exactly if it is
executed, at most one waits, and the ERP has made it at most once unless the
process died on the way. `StaleNeverApplied`, the same for overlapping calls, is
what the design document says and `caipl_two_tabs` refutes.

## 12. Projects

What a project costs is written by three services, each to two rows.

**State.** `project` (status, budget, actual cost, balance), `wip` (status and the
same balance), `task`, `allotted`, `change`, `goods`; `charged`, `worked` are the
sums of movements, labour and releases behind them; `cut` is what a crash has
separated.

| action | code (`proj/projectService.ts` but for the last column's exceptions) |
|---|---|
| `CreateProject`, `ActivateProject`, `HoldProject`, `ResumeProject`, `CompleteProject`, `CancelProject` | the life cycle |
| `IssueMaterial`, `PostLabourCost`, `PostTaskLabour`, `LogTaskHours` | `postInventoryMovement` of a project (`inventoryService.ts`), `postLaborCost`, `logTaskHours` (two writes) |
| `ReleaseLabour` | `accountProjectMilestoneCompletion` (`invoiceService.ts`), the amount left open: the milestone's share is `OrderToCash`'s |
| `FinishItem` | a receipt into stock and the item's row, two transactions |
| `CreateChangeRequest`, `ApproveChangeRequest` | two writes |
| `CreateTask`, `AllocateTask` | the estimate, the hours given, an employee's day |

**Property.** `ProjectFiguresAgree`: the two balances agree with each other and
with what is behind them, hours with the labour they were entered for unless a
crash came between, allocations with day and estimate, items in stock with their
rows. `BudgetAddsUp` is stated without a run: it does not hold (section 21).

The tier that the front ends ask of a user for these operations is left out.

## 13. GeneralLedger

Fiscal periods, journals entered by hand, and the journals that documents post
and a cancellation mirrors.

| action | code |
|---|---|
| `CreateFiscalPeriod`, `UpdateFiscalPeriodState` | `fiscalService.ts` |
| `CreateJournal`, `AddJournalLine`, `PostJournal`, `ReverseJournal`, `CancelJournal` | `journalService.ts` |
| `PostDocument` | `createAndPostP2PJournal` with the search for an open period, which opens the current month when there is none |
| `CancelDocument` | `reversePostedJournal` in the document's transaction |

**Properties.** `LedgerFollowsJournals`: the ledger has the lines of each journal
that was posted and of no other; a reversal is a journal of its own that mirrors
one; no two documents share a journal; no cancelled document lacks its mirror.
`BooksBalance`: the trial balance of each period adds up to nothing at every
moment, and a cancelled document leaves nothing on any account. `LockedIsFinal`
and `ReversedIsUndone` are stated without a run: they do not hold (section 21).

## 14. Contracts

What a customer is promised: contracts whose versions are amended while quotes,
orders and projects of earlier versions are under way
(`o2c/contract`, `o2c/quote`, `o2c/order`, `proj/wbsService.ts`).

| action | code |
|---|---|
| `CreateContract`, `CreateContractAmendment`, `ApproveContractVersion` | `contractService.ts`; a draft version cannot be discarded |
| `CreateSku` | an article that becomes a service after it was ordered |
| `CreateQuote`, `AddQuoteLine`, `MoveQuote`, `CreateOrderFromQuote` | `quoteService.ts`, `salesOrderService.ts` |
| `CreateEngagement`, `EndEngagement`, `CreateElement` | a project of the current version, with the elements of its statement of work |
| `AssignOrderLineWbs`, `ConfirmOrder`, `MoveOrder` | mapping of service lines to work |
| `PlanMilestone` | `createProjectMilestone` with the caps of its line and its version |

**Property.** `CommitmentsHold`: versions are approved in order and at most one is a
draft (`VersionsInOrder`); quotes, orders and projects name approved versions only
(`PinsAreApproved`); an order has the lines of its quote (`OrdersAreQuotes`); a
confirmed order's service lines are mapped, each to work of a project of the same
version, and no two to one element (`MappingsAgree`); and milestones stay within
line and version, and are for what the line is mapped to (`PlansHold`). The last
makes the check at `invoiceService.ts:424-429` unreachable.

## 15. EngineRules

What the engines compute, as functions of their tables, and the mesh's
`evaluatePipeline` over both answers. The tables change one row at a time: staff
come and go, take and leave positions, gain and lose a credential; a rule for
amounts is added; an administrator sets one of two thresholds.

**Property.** `ApprovalTierExact`: whenever a request needs an approval at some tier,
those who can do the same thing without another approval are exactly the eligible
approvers of that tier whom the authority engine itself allows and who did not ask
for it. It holds also when the lower threshold has been set above the higher one.
Rules that only flag a risk, and the audit events of the engines, are left out.

## 16. Identity

The accounts of user-identity. A sign-in waits for the provider and for the ERP's
list of employees (`Callback`, `Lookup`, `SignIn`); accounts are found by the
provider's subject, else by address. `LinkH2R` links one by hand, `BreakGlass`
makes an administrator. Refresh tokens are consumed and replaced
(`RefreshSession`, `Logout`, `TokenExpires`).

**Property.** `IdentitiesAgree`: an account that was linked stays linked whatever a
later lookup finds, and is active exactly when it is linked; an administrator stays
one; of the tokens that go back to one sign-in at most one is good, and none after
a logout with the last of them. Signatures and claims are left out. The lookup reads
the first 500 employees only, which the model has as a lookup that finds nobody.

## 17. Navigator

The calls of navigator-ai but for those of sections 10 and 11. Each is a programme:
the sequence of its waits, its rows in `navigator_event_log`, what it publishes and
what it makes in the ERP (`Rank`, `Explain`, `Simulate`, `Decide`, `Execute`,
`NextSteps`, `Creations`, `PromptCreates`, `PositionAndAssign`, `PositionUnnamed`).
Any wait may end the call, and a request that failed may have had its effect.

Of a creation, `made` has how many lines the payload was `given`, how many
`extractPromptRequisitionLines` `kept` (it drops malformed ones without a word,
`:338-361`), how many `lines` the ERP has, and whether the ERP created the entity
with an id in its answer (`entity`) or without (`unnamed`). Without an id all lines
are skipped (`:1187`); for a project the hub looks for `projectId`, which the ERP's
answer does not have.

**Property.** `LogTruthful`: where a call ends, what the log says was executed was
carried out, what it says was denied was not sent, a call has one outcome and sends
once; a prompt is logged as executed only when the ERP has created something, which
has all lines that were *kept* if it got an id, and none if it did not; nobody is
assigned before the position is there and logged; and what is published is in the
log, or in the ERP with an id and all its kept lines. What is logged may not be
published: a failed publication ends the call with an error although the action was
carried out.

That the payload as logged is what was created does not hold: `promptCreate` logs
the whole of it (`:1429-1458`), with the lines that were dropped or skipped.
`PayloadCreated` states it, without a run.

With the engines as they are, `decide` never ends in EXECUTE: it reads `mode` and
`reasons` of an answer of the governance engine that has neither, and throws.
Actions are executed when an operator chooses them (`ExecuteChosen`).

## 18. Purchasing

Requisitions and purchase orders with their lines, conversion, goods receipts and
the invoice made of a receipt; and the lines that a project's shortages become,
which the code adds in a transaction each (`GenerateLines`). The life cycles are the
tables of `ProcessTables`.

**Property.** `PurchasesAgree`: a requisition's total is that of its lines and its
lines are those that were submitted, unless it is a draft again or cancelled; a
converted requisition has exactly one order, and others none; an order that nobody
edited has the lines and total that were approved; an order's total is that of its
lines; and each receipt is billed for its order's total.

Of a line only quantity times price is kept. Taxes are left out (changing an order's
line leaves the tax columns that were copied from the requisition as they were).
Met on the way: an order can be created by hand for a requisition in any state; two
previews of one shortage are ordered twice, since open requisitions do not count;
receipts carry no quantities and book no stock, so two receipts of an order are
billed twice; a cancelled order comes back when a receipt of it is accepted.

## 19. Runs and bounds

| run | shows | bounds |
|---|---|---|
| `mesh_serial` | one forwarding, truthful status, refinement of `ApprovalTask` | 3 calls, 3 actors, a resource route and a nested operation with one fingerprint, throws, 1 crash, `Serial` |
| `mesh_concurrent` | deduplication, enforcement, honest log | 3 calls, 3 actors, 4 operations, any interleaving, 1 change of tier or resource |
| `mesh_liveness` | approved tasks end | 3 calls, 2 operations, fair |
| `mesh_rejected_executed` | violation of `RejectedIsFinal` | 3 calls, 1 nested operation |
| `ledger_overlap` | no event skipped, all derived events | 2 sources (one keyed), 4 events, batches of 2, 2 polls, 3 instants, failing fetches |
| `ledger_serial` | readiness, one burial, cursors advance, everything arrives | the same with 1 poll and 1 crash, fair |
| `ledger_same_instant` | violation of `AllIngested` | the same without `DistinctTimes` |
| `o2c_milestones` | the properties of section 5 | an order of goods (2) and one of services (5) with milestones of 3 and 2, a contract of 7, tax 33 %, 3 invoices, 2 payments of 2, labour of 3 twice, 1 handler cut short |
| `o2c_paid_early` | violation of `ApprovedMilestoneBilled` | the order of services alone, no tax, no cut |
| `process_graph` | the properties of section 6 | 19 types of object, up to 7 changes of state, 7 events a stream; two requests about goods receipts, one about requisitions, suppliers, journals, fiscal periods and credentials, and calls that only resolve; mesh answers forwarded, refused, parked or lost; delegation on; crashes of graph and hub; fair |
| `services` | the properties of sections 7 to 18 | one component a behaviour, see below |
| `caipl_two_tabs` | violation of `StaleNeverApplied` | 2 tabs, 1 decision |

*`services`.* Twelve components that do not interact share a run: the initial state
chooses the one a behaviour exercises (`part`), so their state spaces add up
instead of multiplying (1.9 million states). The `VIEW` of the configuration, `Seen`,
leaves out the variables of the other components, which never change, and does not
tell invoices or payments of suppliers apart that have the same row.
Timesheets: 1 sheet of up to 2 lines (one split between two
invoices, one without a rate), 2 invoices, 2 payments, amounts of 1 and 2.
Projections: both engines, for the authority-engine a seeded employee (so that what is
unknown are the position, assignments and credentials), 2 polls (which of them is
which, `Seen` leaves out), pages of 2, 3 events out of 10 (`TheEvents`: each engine's
spellings, the ERP's, some that name too little), 2 assignments, 1 credential. Inventory: both methods of valuation, costs of 1 and 2, at most 2 on
hand and a value of at most 4, 1 correlation key. Queue: 2 requests, 2 operators, 2 names.
CAIPL: 2 tabs, 2 decisions, 3 versions, 2 writes. Projects: 2 tasks (estimated, or
not though hours remain), 2 employees with a day of 1 hour, 1 change request, cost
up to 2, 1 finished item. Ledger: 2 periods, 1 journal by hand of up to 3 lines, 2
journals of documents, 1 document, 2 accounts. Contracts: 2 versions, 1 quote of up
to 2 lines, 2 projects, 2 elements, 2 milestones. Rules: 2 people, positions of tiers
2 to 4, thresholds of 10 and 100, amounts around them, 1 rule for amounts. Identity:
2 accounts, 2 profiles, 2 addresses, 1 employee, 1 sign-in under way, 2 tokens.
Navigator: 1 call, any programme, up to 2 lines given and kept. Purchasing: 1 requisition, 2
orders, 1 receipt, totals up to 2.

*Why these are enough.* Three calls are the least that lets two handlers race
on the task a third one created; a fourth adds a third competitor for the same
two awaits. Three actors are a requester below the threshold and two approvers,
one of whom owns the resource (for separation of duties). One environment change
falls before, between or after any two awaits. Four events over two sources with
batches of two give empty, partial, exactly full and repeated batches, a
malformed row first, in the middle and last, and events recorded while a batch is
fetched; the ERP records one more row than a batch holds. Calls and polls are
symmetric where no liveness is checked. Runs say `CHECK_DEADLOCK FALSE` because
calls, events and time are finite in a bounded instance: when all are used up
the system rests.

In `o2c_milestones` three invoices are two for the milestones and one to draft
anew after a cancellation, or one for the goods; with tax the invoices come to 3,
4 and 3, so that two payments of 2 pay an invoice in part, exactly, and in
excess. The milestones use up the order exactly, so a draft too many would
exceed it. Labour of 3 or 6 over a contract of 7 has no whole share for either
milestone, some is left when both are approved, and it may be posted before,
between or after the approvals. One
cut falls into any handler, and every other handler may follow it.

In `process_graph` the longest life cycles have fewer than 7 changes but for
orders that receipts reopen, so every state and every pair of moves is reached,
and for those a stream longer than the limit is reached too. In `services`, two
invoices of 1 and 2 take an accrual of 2 in part, exactly, and together more than
it has; pages of 2 over 3 events are full, partial and empty, two polls
overtake each other, an event that throws comes first, in the middle or last, and
before or after the one that would have told what it wants. Two requests and two names
are what it takes to have two open for a row, and to have them race under one. One correlation key is used, used again, and left out. Two
units at costs of 1 and 2 have an average that is rounded. One document uses both
its journals when it is posted and cancelled; three lines give a journal that
balances over two accounts, and one that does not. Two versions are a contract and
an amendment under way; two people are who asks and who approves, and the thresholds
may cross. A second account or token is what a link, a role or a session could be
lost to. The navigator's calls share nothing but append-only rows, so one is enough.

The proofs do not have these bounds.

## 20. Proofs

Every safety invariant, action property and refinement that a passing run checks is
also a theorem, for arbitrary constants that satisfy the modules' `ASSUME`s, with no
bound on calls, actors, events, polls, documents or time. A run's bounds (`Max...`)
stand in guards of the model; the theorems hold for each value of them.

### What is assumed of the constants

* *Sets of documents are finite* (`Lines`, `Invoices`, `SupplierInvoices`,
  `Milestones`, `Journals`, `Accounts`, `Tasks`, `Resources`): a table has finitely
  many rows, and the code adds up over them. `Tabs` is finite for the same reason.
* *The name for "none" is not the name of a row* (`NoActor`, `NoEvent`, `NoInvoice`,
  `NoMilestone`, `NoSupplierInvoice`, `NoJournal`, `NoKey`, `NoRequisition`, `None`,
  `Nobody`): it stands for NULL.
* *Amounts, hours and counts are naturals*, positive where the service refuses zero.
  Costs of lines may be zero; the journal of a zero cost is left out (`Postable` in
  `Contractors`).
* *Grades are in 1..5*: the CHECK on the column.
* *Assignments and credentials have different ids* and neither is `"employee"` or
  `"position"`: the names of rows in separate tables, put in one feed.
* The tables of the model (kinds, owners, sources, tiers, the cost of each line) are
  functions of the types that the code gives them.

Beside these, a few theorems have a hypothesis: `Serial` (one call at a time resolves
a task; one poll at a time reads a source), `DistinctTimes` (no two events of a source
have one stamp), no crash (`WipEventsPostedCorrect`). Each is shown to be needed by a
run that finds a violation without it, or discussed with its property in sections 3
and 4.

### MeshApproval_proofs

`TypeOK` is not inductive: an approval copies fields from a task that must exist, and
what is logged must be a log entry. `TypeInv == TypeOK /\ CallsConsistent` is
(`TypeInvariant`, from which `TypeCorrect`). `PendingUnique` is inductive on top of
it, because looking for a pending task and creating one are one step
(`PendingUniqueCorrect`). `ForwardedOnlyIfAllowed` needs that whatever is past the
pipeline got there on an "allow" for what it had read itself (`ProgressCorrect`), and
that tasks never change but for their status. `LogSound` relates an entry of the
decision log to the effects. It needs `LogKept`: what a call is about to write is true
already, and a call that has written is at its end, so that it stays true
(`LogSoundCorrect`).

The rest assumes `Serial`. The inductive invariant `SerialInv` has: at most one call
resolves a task at a time; a call that decides finds its task PENDING, one that
executes finds it APPROVED; a PENDING task has not been forwarded; a closed task's
outcome is known. From it `ForwardedAtMostOnceCorrect`, `StatusTellsEffectCorrect`,
and by step simulation `ImplementsApprovalTaskCorrect`: each step of the gateway is a
step or a stutter of `ApprovalTask` under the mapping that keeps the status column and
the set of forwarders.

### EventLedger_proofs

`LedgerInv` (assuming `DistinctTimes`) says that the poll's own cursor and the stored
one never exceed the last stamp, that everything up to a poll's cursor is ingested
(`Covered`), and that a batch is a contiguous piece right behind the poll's cursor
(`Contiguous`); so writing the cursor to the oldest row left passes nothing. This
gives `NoEventSkippedCorrect` for any number of overlapping polls. `BootInv` adds what
the replay of a start has left to do and gives `ReadyMeansCaughtUpCorrect`.
`WipEventsPostedCorrect` assumes that no crash happens. `SerialInv` (assuming
`Serial`, and neither distinct times nor freedom from crashes) says that while one
poll is under way no other is, and that the dead letters lie behind the stored cursor;
it gives `BuriedOnceCorrect` and `CursorsAdvanceCorrect`.

### OrderToCash_proofs

`DocumentsInv` is inductive for any orders, milestones, amounts, tax rates and numbers
of invoices and payments, and any number of handlers cut short. Beside the properties
themselves it has `InvoicesSound` (an invoice is posted as its state says, a draft has
no payment, and the invoice of a milestone is for the milestone's amount) and
`AccruedWithInvoice` (unless a handler was cut short, a milestone with an invoice is
accrued). `MilestoneBilledOnce` makes the invoice behind a milestone unique, so that
reclassifying and reversing move `unbilled[m]` by one billing amount at a time. From
it: `DocumentsTyped`, `BilledOnce`, `ReceivablesHold`, `UnbilledHolds`,
`PaidIsSettled` and `AccruedFirst`.

Two more invariants stand on it. `BillingInv` is about the sum of an order's invoices
in force: it needs that what is billed of an order of services is billed by its
milestones, one invoice each. `WipInv` (`WipTypes`, `WipReleasedInProportion`) says
that what was released of work in progress is no more than the share of the approved
milestones in the labour, in spite of rounding, and that the balance is the labour
less what was released. From both `BillingFollows`, and `TypeCorrect` for the whole of
`TypeOK`, including the amounts that come from sums.

### ProcessGraph_proofs

The properties are about the log and the effects, but what keeps them is where calls
stand: `GraphInv` says that a call past its approval holds a task that is Approved and
that no other call or command holds (`ApprovalsHeld`), that a call of the hub that
executes has its command in the log (`CallSound`), and that the hub's request is the
last thing its call does (`HubEnds`). It holds for any tables, calls and answers of
the mesh (`GraphSafe`, `ApprovalIsSpentOnce`, `HubEffectsAreRecorded`).

`Chronicle` says that the history tells the states an object has been in, one event
after the other, and that the ledger is a prefix of it as long as what was polled; and
`Judged` that what a request was judged on is a state the object has had since the
poll before the request (or before the approval it waits for). By them `RebuiltLags`
and `CommandsAreLegal`, however polls and crashes fall, for the kinds whose states the
events tell completely and as long as a stream is within its limit, which may be any.

`OffersAreHonoured` is about the tables of `ProcessTables` and `FrontEnds` themselves.
The history only ever holds states of the kind's table; for these, what is offered is
compared with what is carried out, type by type (`LinksFit`, `ToolsFit`, `OffersFit`).
The entries of a table are facts that the prover evaluates, one step each.

### SetLemmas

Balances are sums over rows, and `SumFunctionOnSet` is a fold, defined by recursion
over subsets. What such a sum does when a row changes or is added would call for an
induction theorem, which takes an operator as a parameter and cannot be used here.
Instead the lemmas look at a smallest subset for which a claim fails; strict inclusion
being well-founded on the finite subsets, there is one, and taking a member out of it
contradicts its being the smallest. The same is done for numbers (least row of a page,
greatest row of a sequence).

### Accounts_proofs

* *Inventory.* `StockInv` is the type invariant with both parts of `StockAgrees`. Its
  core is two lemmas about rounding: what a value is off by is at most half the
  quantity it was averaged over, and issues at the average leave that as it is or make
  it smaller where the value would turn negative (`StockIsSound`).
* *GeneralLedger.* `GLInv` adds to types and property that a journal that reverses
  another is posted itself, so that a new posting never overwrites one
  (`GeneralLedgerTypeCorrect`, `LedgerIsFollowed`). `EntriesBalance`: the entries of
  each journal add up to nothing, by which the trial balance of a period, a sum over
  journals and accounts, does too (`BooksAlwaysBalance`).
* *Contractors.* `CostingInv` ties the labour of a line to its accrual and the accrual
  to what invoices have matched, because refreshing a status may only touch what was
  accrued; an approval cut short is a prefix of the sheet's lines
  (`LabourIsCostedOnce`). `PayablesInv` stands on it: invoices match no more of a line
  than it cost (`InvoicesSound`, `NotBeyond`), the status of an accrual is computed of
  the present state of invoices (`StatusCurrent`), and the two balances are sums over
  lines and invoices (`LiabilityIs`, `PayableIs`). It gives `PayablesAlwaysAgree` and,
  with the former, `ContractorsTypeCorrect`.

### Commitments_proofs

* *Projects* (`ProjectsSafety`). `ProjectsInv` is types and property, with
  `UnbornTasks`: a task that does not exist has no hours or allocations yet, so that
  creating it changes no sum.
* *Purchasing.* `PurchasesInv` has `RowsSound` and `OrdersSound` (totals are those of
  the lines), `ConversionsSound` (an order that converts a requisition is its only one
  and, unless edited, has the lines that were approved) and `ReceiptsSound` (an order
  that was received is past its draft, so its total is final) (`OrderedAsApproved`);
  `PurchasingTypeCorrect` adds the types.
* *Contracts* (`CommitmentsAlwaysHold`). `CommitmentsInv` is a conjunction about one
  kind of document each: `TermsInv` (versions), `WorkInv` (projects and elements of
  them), `CatalogueOK`, `QuoteInv`, `OrderInv` (mappings of lines included), one order
  to a converted quote, `PlanInv` (sums of milestones). A version once approved stays
  so, which carries the pins.

### Governance_proofs

* *ApprovalQueue* (`QueueSafety`). `QueueInv`: what was sent was approved, by one call
  (`SentOnce`, `ApprovedByOne`); a request not made yet is empty; of an ERP row one
  request is pending under each name (`OneTracked`).
* *CaiplSessions* (`CaiplSafety`). Receipts are of writes always. While calls do not
  overlap, at most one call is under way and what it was begun for is still pending
  (`OneCall`, `CallIsCurrent`), a decision has the receipt its status tells, and at
  most one is pending; unless a call died between the ERP's write and its own, the ERP
  has written at most once, and only for what is settled or about to be
  (`WrittenOnce`).
* *Identity* (`IdentitySafety`). `RowsAgree`: a row has the status that its employee
  implies, and what was linked or granted still is; a token's chain goes back to a
  sign-in, and at most one token of it is open, none after a logout
  (`OneOpenOfChain`).
* *EngineRules* (`ApprovalsAskedExactly`). `TiersInv` holds the tiers of positions in
  1..5. The tier asked at is the greatest of those that apply, so that whoever reaches
  it is asked by no rule any more.
* *Projections* (`ProjectionsAgree`). `ProjectionsInv`: the rows of a page are a
  contiguous piece of the feed; unless a poll was overtaken, what is projected is what
  is understood of the feed up to the cursor (`Follows`); the events up to the cursor
  could all be applied (`Clean`), which overtaking does not undo, because an entity
  that is projected stays so and is one that the feed before, or a migration, tells of
  (`Grounded`). That a whole page applied in one step gives the same is shown at its
  least failing row. Nothing is assumed of the feed.
* *Navigator* (`NavigatorTellsTheTruth`). `NavigatorInv` says of each call under way
  which phase of its programme it is in (going, sending, reporting, reported); what is
  in the log was logged in the phase that follows what it tells. Of a creation it says
  which steps of its programme have been done, so that while a line is still to come
  nothing claims that all are there (`LineToCome`), and that what gets no id has none.
* *Side by side* (`ServicesTypesCorrect`). Each step of `MCServices` is a step of one
  service and a stutter of the others, so that `ServicesSpec` implies the
  specification of each (`ServicesAreAlone`), and every theorem above holds of the
  composition.

### Only model-checked

Liveness (`ApprovedIsResolved`, `AllIngested`, `GraphCatchesUp`): it needs fairness
and ENABLED, which the provers at hand do not have. That the services' steps can
happen at all, and that the violations of section 21 are reached, is what runs show
and theorems do not.

## 21. Where code and documents disagree

With a run:

* **A rejected task can be executed** (`mesh_rejected_executed`). The approve
  handler checks PENDING, awaits engines and adapter, and then writes its status
  whatever the row says by then. The design document has REJECTED as an end.
* **Events of one millisecond can be lost** (`ledger_same_instant`). The cursor
  is a timestamp and the query says `timestamp > ?`: of rows with one timestamp,
  those beyond the end of a batch, or recorded after it was fetched, are never
  fetched.
* **An order is Paid with its first milestone** (`o2c_paid_early`). The first
  invoice that is paid in full sets its order to Paid. A milestone approved after
  that is marked Approved, its invoice is refused, and no transition leads back.
  The roadmap has an invoice generated the moment a milestone is approved.
* **A stale decision is carried out** (`caipl_two_tabs`). Versions are compared
  before the ERP is awaited and never again, so a decision confirmed in two tabs
  is carried out twice. The design document describes this case and has a 409.

Stated as a definition, without a run:

* **A task for a resource action cannot be approved** (`ApprovalsServed`). The path
  of the stored request is rebuilt from `split("/").slice(0, 5)`, whose first
  piece is empty, so the id is cut off and parsing it throws. The integration
  test passes because its stub adapter accepts any path.
* **The engines do not understand the ERP** (`ErpIsProjected`). The README of the
  authority-engine says (`:4`) that it "consumes Foundation ERP events, builds an
  authority projection". Its mapper knows `AssignmentCreated`, the ERP emits
  `assignment.created`, and so for every type: all of it is dropped, and the cursor
  moves past it. Governance is no better off (section 8).
* **Two requests for one row** (`OneOpen`). One row is tracked under each name of its
  type, and an escalated request is joined by a pending one.
* **What was not created is logged** (`PayloadCreated`). Lines that were dropped, or
  skipped for want of an id, are in the payload of `PromptCreateExecuted`.
* **Lines without a tax code are not posted** (`PostedGross`). With one taxed
  line, the journal of an invoice debits receivables with the sum of its tax
  lines, though the customer owes the untaxed lines too.
* **Recorded commands need not have been executed** (`LoggedIsExecuted`).
  `001_init.sql` of process-graph calls the log executed transitions; the hub asks
  the mesh only after the record, and the mesh may refuse.
* **A paid accrual may still be a liability** (`PaidAccrualCleared`). Applying a
  payment makes its invoice Paid or Posted whatever it was, so that a draft or a
  cancelled one is settled without a journal.
* **Change requests undo each other** (`BudgetAddsUp`). Each keeps a whole budget
  from when it was made; the one approved last takes its place.
* **Locked periods change** (`LockedIsFinal`) **and a reversal may undo nothing**
  (`ReversedIsUndone`). A draft is posted whatever its period has become, automatic
  posting opens the current month again, and the API's reversal writes a state and
  no entries; the document behind such a journal can never be cancelled.

Met while reading the code for the tables and modules, and described there:

* *process-graph and hub.* No tier is asked of an approver, who may be the one who
  asked. Events of supplier invoices and supplier payments, a quote's expiry and a
  journal's cancellation are unknown to the reducers; an employee created Active
  shows as Candidate. Some actions that the graph offers have no route in the ERP:
  through a delegation, for instance, the invoice of an order, an employee's leave
  or the close of a period, by the graph's own names; through the hub the two steps
  of closing a period and the deactivation of a supplier. After a 202 of the graph
  the hub does not go on, so a command approved later is executed only by
  delegation. A 202 of the mesh is reported as the new state.
* *front ends.* The MCP tools for credentials look for `Active`, which a
  credential never is. Links that are refused: closing a shipped order, cancelling
  a partly received purchase order or a partly paid invoice. Tools that are:
  invoicing an order that is confirmed or allocated, cancelling a partly paid
  invoice. Tools are stricter than the ERP in closing a purchase order,
  cancelling an assignment, closing a period and activating a supplier.
* *engines.* Requester and actor of a command of the graph are the same, and the rule
  SOD-GLOBAL-001 denies "approve" to a requester, so the graph never grants an
  approval of that name. The rules for purchase orders are keyed on actions such as
  `p2p_purchase_order_issued`, which no service sends. The list of eligible approvers
  ignores the rules for amounts. A row that cannot be applied holds up the
  authority-engine for good; after overlapping polls governance inserts a row again,
  throws, and does so at every poll; it skips revocations that name no employee.
* *inventory.* Issues look at no reservation, bin or lot. A stale count replaces
  what moved since. A change of cost is the article's, but revalues one
  organization.
* *contracts.* The amendment's error speaks of discarding a draft, which nothing does.
  A cancelled order keeps its elements. An order of version 1 and a project of version
  2 can never be mapped to each other. The conversion tool of MCP passes no version, so
  quotes of services cannot be converted there. Each version has a billing cap of its
  own. The gateway's approval of a contract approves whatever version is the draft when
  it is forwarded. `convertQuoteToOrder` has no caller.
* *navigator-ai.* The event that an approval was executed is published whatever the
  mesh answered. Approving a request of an ERP row does nothing in the ERP, and it
  comes back. If the
  event of an approval cannot be published the caller gets 500, the action is never
  sent and a second approval is refused. A confirmed form with fields missing ends
  resolved, though the code sets it to pending first. A failed decision cannot be
  tried again. The session's version can go back when calls overlap.
* *projects.* Cancelling leaves work in progress open and accepts a completed
  project; completing closes it and posts nothing. A finished item takes nothing
  out of it. Contractors, and employees without availability, are not held to a
  day.

## 22. Not modelled

* Components with status `not_modelled` in `PROJECT.json`, with the reason there: the
  mapping tables, the user interfaces (a third of the repository's lines:
  presentation over the services' routes), infrastructure and documents.
* In mesh-gateway: JWT parsing and actor headers (the actor is an input), the
  read-only routes, dependency checks (of a read-only route), the wording of
  decisions, errors of SQLite.
* In event-processor: the columns of the cursor table that only report
  (`last_status`, `last_event_at`), queries and upcasting, the fields of events,
  errors of SQLite, an upstream clock that is set back.
* In order to cash: customers beyond their life cycle, shipments (the stock they move
  belongs to inventory), effective dates of contracts, foreign currency, tax included in the price, reverse
  charge, a tax code for the whole order. Bounds of the translation: one project
  with one contract version, one phase and one ledger; orders have lines of one
  kind; a milestone bills more than nothing. Manual journals to the control
  accounts are not steps of this module. `updateInvoiceState` and
  `addInvoicePayment` have no caller.
* In procure to pay: taxes, quantities and dimensions of lines.
* In inventory: serial numbers, transfers, bills of material, the posting of
  movements to the ledger. In projects: internal trades, risks, the
  explosion of bills of material, the tiers asked of users. In record to report: exchange
  rates, revaluation, posting profiles, the closing of a year. Tax settlement.
* In integration-hub and navigator-ai: the hub's sessions and read routes; ranking,
  simulation, prompts and what the language model answers.

Of the implementation the map covers about a fifth. Most of the rest are user
interfaces, parsing and presentation of requests, queries, schemas and
catalogues.

## 23. Plan

What is left, in order of importance:

1. **Composition** of `Inventory` with `Projects` and `GeneralLedger`, so that a
   movement, the work in progress and the journal it makes are one state; and of
   `Contracts` with `OrderToCash`.
2. **Internal trades, tax settlement, revaluation.**
3. **Serial numbers, transfers and bills of material.**

Proofs to add: that `OrderToCash` refines a specification with only accounts and
documents, and `CaiplSessions`, while calls do not overlap, one with a decision and its
outcome; and, with each composition of the list above, that the sums of one
service are those of the other.
