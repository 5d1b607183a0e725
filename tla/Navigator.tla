----------------------------- MODULE Navigator -----------------------------
(* What navigator-ai does for an operator besides approvals and conversations:  *)
(* services/navigatorService.ts, executor.ts, decisionEngine.ts.  A call is a    *)
(* programme of steps: it waits for the ERP, the engines, the language model or *)
(* the event processor, writes its log (domain/stores/navigatorStore.ts), and    *)
(* publishes what it logged.  Any wait may end in an error, which ends the call *)
(* where it is: nothing is undone.  The calls share no state.                   *)
EXTENDS Naturals, Sequences, FiniteSets

CONSTANTS
  Callers,   \* the calls
  MaxWanted   \* bound on the lines in the payload of a creation

VARIABLES
  steps,      \* what a call has left to do
  logged,     \* the types of the navigator_event rows a call has written
  published,  \* the types of the events it has published
  sent,       \* how often it has sent an action to the ERP
  carried,    \* the ERP has carried an action of it out
  made        \* what it was given to create, and what it has made of it in the ERP

ASSUME NavigatorAssumption == MaxWanted \in Nat

navigatorVars == <<steps, logged, published, sent, carried, made>>

Outcomes == {"ActionExecuted", "ActionFailed", "ActionDenied", "ApprovalRequested"}
EventTypes == Outcomes \cup {"ActionRecommended", "ExplanationGenerated", "SimulationRun",
                             "NextStepsRecommended", "PromptCreateExecuted", "EntityCreated"}

Step(do, what) == [do |-> do, what |-> what]
Wait(for) == Step("wait", for)
Logs(type) == <<Step("log", type), Step("publish", type)>>

Nothing == [given |-> 0, kept |-> 0, lines |-> 0, entity |-> FALSE, unnamed |-> FALSE,
            position |-> FALSE, assignment |-> FALSE]

-----------------------------------------------------------------------------
(* The programmes                                                               *)

\* buildContext: the resource with its actions, then the aggregate's history
BuildContext == <<Wait("resource"), Wait("history")>>

Rank == BuildContext \o <<Wait("model")>> \o Logs("ActionRecommended")

\* decide, for the best action; the authority engine may end it.
DecideSteps == <<Wait("authority"), Wait("governance")>>

Explain == Rank \o DecideSteps \o <<Wait("model")>> \o Logs("ExplanationGenerated")

Simulate == BuildContext \o <<Wait("model")>> \o Logs("SimulationRun")

Decide == Rank \o DecideSteps

\* execute: of the best action, once it is decided about, or of the operator's choice
Execute == Rank \o DecideSteps \o <<Step("settle", "decision")>>
ExecuteChosen == Rank \o <<Step("settle", "choice")>>

NextSteps == Rank \o Logs("NextStepsRecommended")

\* createEntity, as the ERP answers it: a requisition with n lines, or something else
\* that has an event
Create(n) ==
  <<Step("create", "entity")>> \o [k \in 1 .. n |-> Step("line", "entity")]
    \o <<Step("publish", "EntityCreated")>>

\* Positions, assignments and unknown types have no event.
CreateSilent == <<Step("create", "entity")>>

\* An answer without an id, as of every project: no line is added, and nothing published.
CreateUnnamed == <<Step("create", "unnamed")>>

Creations == {Create(n) : n \in 0 .. MaxWanted} \cup {CreateSilent, CreateUnnamed}

\* promptCreate; the employee and the position of an assignment may be given by name.
Prompted(creation) == <<Wait("model")>> \o creation \o Logs("PromptCreateExecuted")
ByName(creation) == <<Wait("names")>> \o creation
PromptCreates ==
  {Prompted(creation) : creation \in Creations \cup {ByName(CreateSilent), ByName(CreateUnnamed)}}

\* promptCreatePositionAndAssign: without the position's id there is no assignment.
PositionAndAssign ==
  <<Wait("employee"), Wait("model"), Step("create", "position")>>
    \o Logs("PromptCreateExecuted") \o <<Step("create", "assignment")>>
PositionUnnamed == <<Wait("employee")>> \o Prompted(CreateUnnamed)

Programmes ==
  {Rank, Explain, Simulate, Decide, Execute, ExecuteChosen, NextSteps}
    \cup Creations \cup PromptCreates \cup {PositionAndAssign, PositionUnnamed}

\* Of the lines given, extractPromptRequisitionLines keeps the well-formed ones and
\* drops the others without a word.
Payload(g, k) == [Nothing EXCEPT !.given = g, !.kept = k]
Payloads == {Payload(g, k) : g \in 0 .. MaxWanted, k \in 0 .. MaxWanted}

\* Those kept are added one by one to what has got an id.
Fits(payload, programme) ==
  /\ payload.kept <= payload.given
  /\ payload.given > 0 => programme \in Creations \cup PromptCreates
  /\ \/ payload.kept = Cardinality({i \in DOMAIN programme : programme[i].do = "line"})
     \/ programme \in {CreateUnnamed, Prompted(CreateUnnamed)}

-----------------------------------------------------------------------------
(* executeDecision                                                              *)

\* Mutant: an answer of 202 counts as done.
TypeOfAnyAnswer(status) ==
  IF status \in {"2xx", "202"} THEN "ActionExecuted" ELSE "ActionFailed"

\* What the answer to an action is taken for
TypeOf(status) ==
  CASE status = "202" -> "ApprovalRequested"
    [] status = "2xx" -> "ActionExecuted"
    [] status = "error" -> "ActionFailed"

\* What each decision leads to.  An action to execute may need fields that the model
\* takes from the operator's note.
Send == <<Step("send", "action")>>
Carries(mode) ==
  CASE mode = "NO_ACTION" -> {<<>>}
    [] mode = "REJECT" -> {Logs("ActionDenied")}
    [] mode = "REQUEST_APPROVAL" -> {Logs("ApprovalRequested")}
    [] mode = "EXECUTE" -> {Send, <<Wait("model")>> \o Send}

Modes(what) ==
  IF what = "choice" THEN {"EXECUTE"} ELSE {"NO_ACTION", "REJECT", "REQUEST_APPROVAL", "EXECUTE"}

-----------------------------------------------------------------------------
NavigatorInit ==
  /\ steps \in [Callers -> Programmes]
  /\ logged = [c \in Callers |-> {}]
  /\ published = [c \in Callers |-> {}]
  /\ sent = [c \in Callers |-> 0]
  /\ carried = [c \in Callers |-> FALSE]
  /\ made \in [Callers -> Payloads]
  /\ \A c \in Callers : Fits(made[c], steps[c])

Does(c, do) == steps[c] # <<>> /\ Head(steps[c]).do = do
Proceeds(c) == steps' = [steps EXCEPT ![c] = Tail(@)]

\* An answer comes; after it the call may be over: no action, or one denied, a
\* field missing, a name unknown.
Answered(c) ==
  /\ Does(c, "wait")
  /\ \/ Proceeds(c)
     \/ steps' = [steps EXCEPT ![c] = <<>>]
  /\ UNCHANGED <<logged, published, sent, carried, made>>

\* recordNavigatorEvent
Log(c) ==
  /\ Does(c, "log")
  /\ logged' = [logged EXCEPT ![c] = @ \cup {Head(steps[c]).what}]
  /\ Proceeds(c)
  /\ UNCHANGED <<published, sent, carried, made>>

\* cepClient.publish: the event may arrive although the call fails.
Publish(c) ==
  /\ Does(c, "publish")
  /\ \/ published' = [published EXCEPT ![c] = @ \cup {Head(steps[c]).what}]
     \/ UNCHANGED published
  /\ \/ Proceeds(c) /\ Head(steps[c]).what \in published'[c]
     \/ steps' = [steps EXCEPT ![c] = <<>>]
  /\ UNCHANGED <<logged, sent, carried, made>>

\* executeDecision takes the decision
SettleDecision(c) ==
  /\ Does(c, "settle")
  /\ \E mode \in Modes(Head(steps[c]).what) : \E rest \in Carries(mode) :
       steps' = [steps EXCEPT ![c] = rest]
  /\ UNCHANGED <<logged, published, sent, carried, made>>

\* It sends the action.  The ERP may have carried it out although the answer is an
\* error or never comes; an approval that it asks for is recorded like one of the
\* engines' (ApprovalQueue).
SendAction(c) ==
  /\ Does(c, "send")
  /\ sent' = [sent EXCEPT ![c] = @ + 1]
  /\ \/ \E status \in {"2xx", "202", "error"} :
          /\ steps' = [steps EXCEPT ![c] = Logs(TypeOf(status))]
          /\ \/ carried' = [carried EXCEPT ![c] = status = "2xx"]
             \/ status = "error" /\ carried' = [carried EXCEPT ![c] = TRUE]
     \/ /\ steps' = [steps EXCEPT ![c] = <<>>]
        /\ carried' \in {carried, [carried EXCEPT ![c] = TRUE]}
  /\ UNCHANGED <<logged, published, made>>

\* integrationHubClient.createEntity and addRequisitionLine
Make(c) ==
  LET what == Head(steps[c]).what
      next == IF Does(c, "line") THEN [made[c] EXCEPT !.lines = @ + 1]
              ELSE [made[c] EXCEPT ![what] = TRUE] IN
  /\ Does(c, "create") \/ Does(c, "line")
  /\ \/ made' = [made EXCEPT ![c] = next] /\ Proceeds(c)
     \/ made' \in {made, [made EXCEPT ![c] = next]} /\ steps' = [steps EXCEPT ![c] = <<>>]
  /\ UNCHANGED <<logged, published, sent, carried>>

NavigatorNext ==
  \E c \in Callers :
    Answered(c) \/ Log(c) \/ Publish(c) \/ SettleDecision(c) \/ SendAction(c) \/ Make(c)

NavigatorSpec == NavigatorInit /\ [][NavigatorNext]_navigatorVars

NavigatorTypeOK ==
  /\ logged \in [Callers -> SUBSET EventTypes]
  /\ published \in [Callers -> SUBSET EventTypes]
  /\ sent \in [Callers -> Nat]
  /\ carried \in [Callers -> BOOLEAN]
  /\ made \in [Callers -> [given : Nat, kept : Nat, lines : Nat, entity : BOOLEAN,
                           unnamed : BOOLEAN, position : BOOLEAN, assignment : BOOLEAN]]

(* The log tells the truth wherever a call ends: what it says was executed was  *)
(* carried out by the ERP, what it says was denied was never sent, and one call *)
(* has one outcome and sends at most once.  It says that a prompt created       *)
(* something only when the ERP has created it: a requisition that got an id has *)
(* all the lines that were kept of the payload, and what got no id has none.    *)
(* Nobody is assigned to a position before it exists and is logged.  The event  *)
(* processor is told only what is in the log, or is in the ERP with its kept    *)
(* lines and its id.  (executeDecision, createEntity, promptCreate)             *)
LogTruthful ==
  \A c \in Callers :
    LET complete == made[c].entity /\ made[c].lines = made[c].kept IN
    /\ "ActionExecuted" \in logged[c] => carried[c]
    /\ "ActionDenied" \in logged[c] => sent[c] = 0
    /\ sent[c] <= 1
    /\ \A o1, o2 \in logged[c] \cap Outcomes : o1 = o2
    /\ "PromptCreateExecuted" \in logged[c] =>
         complete \/ made[c].position \/ (made[c].unnamed /\ made[c].lines = 0)
    /\ made[c].assignment => made[c].position /\ "PromptCreateExecuted" \in logged[c]
    /\ published[c] \subseteq logged[c] \cup (IF complete THEN {"EntityCreated"} ELSE {})

(* That the log's payload is in the ERP.  It does not hold: promptCreate logs   *)
(* the payload as given, whatever lines were dropped of it and although nothing *)
(* was added to a requisition whose answer had no id.                           *)
PayloadCreated ==
  \A c \in Callers : "PromptCreateExecuted" \in logged[c] => made[c].lines = made[c].given
=============================================================================
