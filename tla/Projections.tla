----------------------------- MODULE Projections -----------------------------
(***************************************************************************)
(* The projections of services/authority-engine and services/governance-   *)
(* engine: a timer polls Foundation ERP for events after a cursor, page by *)
(* page (projection/consumer.ts, replay.ts), and applies each page, with   *)
(* the cursor, in one transaction (projection/handlers.ts).  The timer     *)
(* does not wait for the poll before, so polls may overlap.                *)
(*                                                                         *)
(* The feed holds events about one employee, one position, and assignments *)
(* and credentials, in any order and under any of three spellings of their *)
(* types, of which the mappers and handlers understand two; the ERP as it  *)
(* is emits the third alone.  Every event has an instant of its own, which *)
(* is here its place in the feed.                                          *)
(***************************************************************************)
EXTENDS Integers, Sequences, FiniteSets

CONSTANTS
  Engines,        \* out of "authority", "governance"
  Polls,          \* the polls that may be under way at a time
  Assignments, Credentials,
  Events,         \* the events the feed may hold
  BatchSize,      \* BATCH_SIZE
  MaxEvents       \* bound on the feed

VARIABLES
  engine,     \* the engine this is about
  seeded,     \* what its migrations have put in its tables
  feed,       \* the ERP's events
  poll,       \* the polls' local state
  cursor,     \* last_event_timestamp
  view,       \* what the engine has projected, by entity
  history,    \* governance_action_history: the events recorded in it
  announced,  \* authority_event: the last AuthorityGranted or AuthorityRevoked
  overtaken   \* a page was applied at another cursor than it was fetched for

projectionVars == <<engine, seeded, feed, poll, cursor, view, history, announced, overtaken>>

-----------------------------------------------------------------------------
Employee == "employee"
Position == "position"
Entities == {Employee, Position} \cup Assignments \cup Credentials

\* What each type of event makes of the entity it is about
Makes == [EmployeeHired |-> "Active", EmployeeOnLeave |-> "OnLeave",
          EmployeeReturned |-> "Active", EmployeeTerminated |-> "Terminated",
          PositionCreated |-> "Active",
          AssignmentCreated |-> "Active", AssignmentEnded |-> "Ended",
          CredentialIssued |-> "Active", CredentialExpired |-> "Expired",
          CredentialRevoked |-> "Revoked"]
Concerns(type) ==
  CASE type = "PositionCreated" -> {Position}
    [] type \in {"AssignmentCreated", "AssignmentEnded"} -> Assignments
    [] type \in {"CredentialIssued", "CredentialExpired", "CredentialRevoked"} -> Credentials
    [] OTHER -> {Employee}

\* A type is spelled as the mapper has it (AssignmentCreated), after its domain
\* (h2r_assignment_created), or as the ERP does (assignment.created); named: the
\* payload names the employee and the rest that the engine wants of it.
Event == {ev \in [type : DOMAIN Makes, about : Entities,
                  spelling : {"canonical", "prefixed", "dotted"}, named : BOOLEAN] :
            ev.about \in Concerns(ev.type)}
Idle == [pc |-> "idle", after |-> 0, rows |-> <<>>]

ASSUME ProjectionsAssumption ==
  /\ Assignments \cap Credentials = {}
  /\ Assignments \cap {Employee, Position} = {} /\ Credentials \cap {Employee, Position} = {}
  /\ Events \subseteq Event /\ BatchSize \in Nat

\* The authority-engine maps the canonical spelling and drops all others; the
\* governance-engine upserts credentials under two spellings, if the person is named ...
Upserts(ev) ==
  IF engine = "authority" THEN ev.spelling = "canonical"
                          ELSE ev.about \in Credentials /\ ev.spelling # "dotted" /\ ev.named

\* ... and records the actions of its list, which are prefixed, if it is told who asked.
Records(ev) ==
  /\ engine # "authority" /\ ev.spelling = "prefixed" /\ ev.named
  /\ ev.type \in {"AssignmentCreated", "AssignmentEnded", "EmployeeTerminated"}

\* The status an entity has after the first n events, as the engine understands them.
StatusAt(x, n) ==
  LET about == {k \in 1..n : feed[k].about = x /\ Upserts(feed[k])} IN
  IF about = {} THEN IF x \in seeded THEN "Active" ELSE "none"
                ELSE Makes[feed[CHOOSE k \in about : \A m \in about : m <= k].type]

\* The ERP records any event: it judges neither whether an assignment's employee has
\* been hired nor what an engine has been told.
Emit ==
  /\ Len(feed) < MaxEvents
  /\ \E ev \in Events : feed' = Append(feed, ev)
  /\ UNCHANGED <<engine, seeded, poll, cursor, view, history, announced, overtaken>>

-----------------------------------------------------------------------------
\* replayToHead reads the cursor and asks for a page after it ...
StartPoll(p) ==
  /\ poll[p].pc = "idle"
  /\ poll' = [poll EXCEPT ![p] = [pc |-> "asked", after |-> cursor, rows |-> <<>>]]
  /\ UNCHANGED <<engine, seeded, feed, cursor, view, history, announced, overtaken>>

\* ... the ERP answers ...
Answer(p) ==
  /\ poll[p].pc = "asked"
  /\ LET after == poll[p].after
         last == IF Len(feed) - after > BatchSize THEN after + BatchSize ELSE Len(feed)
     IN  poll' = [poll EXCEPT ![p].pc = "answered", ![p].rows = SubSeq(feed, after + 1, last)]
  /\ UNCHANGED <<engine, seeded, feed, cursor, view, history, announced, overtaken>>

\* ... or does not, or the engine dies.
LosePoll(p) ==
  /\ poll[p].pc # "idle"
  /\ poll' = [poll EXCEPT ![p] = Idle]
  /\ UNCHANGED <<engine, seeded, feed, cursor, view, history, announced, overtaken>>

-----------------------------------------------------------------------------
\* The state the handlers work on, as one record.
Projected == [view |-> view, history |-> history, announced |-> announced]
ActiveAssignments(s) == {a \in Assignments : s.view[a] = "Active"}

\* applyCanonicalEvent of the authority-engine: the status, and what the last active
\* assignment that goes, or the first that comes, announces.
AuthorityHandler(s, ev) ==
  LET after == [s EXCEPT !.view[ev.about] = Makes[ev.type]] IN
  CASE ev.type = "AssignmentCreated" /\ ActiveAssignments(s) = {} ->
         [after EXCEPT !.announced = "Granted"]
    [] ev.type = "AssignmentEnded" /\ ActiveAssignments(after) = {} ->
         [after EXCEPT !.announced = "Revoked"]
    [] OTHER -> after

\* Of the governance-engine: the credential's status, or a row of the action history
\* under the event's id, here its place n.
GovernanceHandler(s, ev, n) ==
  CASE Upserts(ev) -> [s EXCEPT !.view[ev.about] = Makes[ev.type]]
    [] Records(ev) -> [s EXCEPT !.history = @ \cup {n}]
    [] OTHER -> s

Handler(s, ev, n) ==
  CASE engine # "authority" -> GovernanceHandler(s, ev, n)
    [] engine = "authority" /\ Upserts(ev) -> AuthorityHandler(s, ev)
    [] OTHER -> s

\* The rows that the authority-engine's handler of an event looks up
Requires(ev) ==
  CASE ev.type \in {"EmployeeHired", "PositionCreated"} -> {}
    [] ev.type = "AssignmentCreated" -> {Employee, Position}
    [] ev.type = "CredentialIssued" -> {Employee}
    [] OTHER -> {ev.about}
\* Events whose schemas want more than an id
MustName == {"EmployeeHired", "PositionCreated", "AssignmentCreated", "CredentialIssued"}

\* An event that is thrown on: it is malformed, what it refers to is unknown, or, in
\* the action history, its id is taken.
Throws(s, ev, n) ==
  IF engine = "authority"
  THEN /\ Upserts(ev)
       /\ \/ ev.type \in MustName /\ ~ev.named
          \/ \E x \in Requires(ev) : s.view[x] = "none"
  ELSE Records(ev) /\ n \in s.history

\* The states after 0, 1, ... rows of a page that starts after event m.
Applied(rows, m) ==
  LET s[k \in 0..Len(rows)] ==
        IF k = 0 THEN Projected ELSE Handler(s[k - 1], rows[k], m + k)
  IN  s
Poisoned(rows, m) ==
  \E k \in DOMAIN rows : Throws(Applied(rows, m)[k - 1], rows[k], m + k)

\* Mutant: the cursor is moved to the head of the feed.
ApplyPageToHead(p) ==
  LET rows == poll[p].rows
      s == Applied(rows, poll[p].after)[Len(rows)]
  IN  /\ poll[p].pc = "answered" /\ rows # <<>> /\ ~Poisoned(rows, poll[p].after)
      /\ cursor' = Len(feed)
      /\ view' = s.view /\ history' = s.history /\ announced' = s.announced
      /\ overtaken' = (overtaken \/ poll[p].after # cursor)
      /\ poll' = [poll EXCEPT ![p] = Idle]
      /\ UNCHANGED <<engine, seeded, feed>>
\* A page is applied; a full one is followed by the next.
ApplyPage(p) ==
  LET rows == poll[p].rows
      s == Applied(rows, poll[p].after)[Len(rows)]
      reached == poll[p].after + Len(rows)
  IN  /\ poll[p].pc = "answered" /\ rows # <<>> /\ ~Poisoned(rows, poll[p].after)
      /\ cursor' = reached
      /\ view' = s.view /\ history' = s.history /\ announced' = s.announced
      /\ overtaken' = (overtaken \/ poll[p].after # cursor)
      /\ poll' = [poll EXCEPT ![p] =
           IF Len(rows) < BatchSize THEN Idle
                                    ELSE [pc |-> "asked", after |-> reached, rows |-> <<>>]]
      /\ UNCHANGED <<engine, seeded, feed>>

\* Mutant: the cursor is stored outside the transaction that is rolled back.
EndPollStoring(p) ==
  /\ poll[p].pc = "answered"
  /\ poll[p].rows = <<>> \/ Poisoned(poll[p].rows, poll[p].after)
  /\ cursor' = poll[p].after + Len(poll[p].rows)
  /\ poll' = [poll EXCEPT ![p] = Idle]
  /\ UNCHANGED <<engine, seeded, feed, view, history, announced, overtaken>>
\* A page with a row that throws is rolled back, and the poll ends in an error; an
\* empty page ends it too.
EndPoll(p) ==
  /\ poll[p].pc = "answered"
  /\ poll[p].rows = <<>> \/ Poisoned(poll[p].rows, poll[p].after)
  /\ poll' = [poll EXCEPT ![p] = Idle]
  /\ UNCHANGED <<engine, seeded, feed, cursor, view, history, announced, overtaken>>

-----------------------------------------------------------------------------
\* The migrations of the authority-engine put employees and positions there that the
\* feed never told of; an employee or a position may be one of them or not.
ProjectionsInit ==
  /\ engine \in Engines
  /\ seeded \in SUBSET {Employee, Position} /\ (engine # "authority" => seeded = {})
  /\ feed = <<>> /\ poll = [p \in Polls |-> Idle] /\ cursor = 0
  /\ view = [x \in Entities |-> IF x \in seeded THEN "Active" ELSE "none"]
  /\ history = {} /\ announced = "none"
  /\ overtaken = FALSE

ProjectionsNext ==
  \/ Emit
  \/ \E p \in Polls :
       \/ StartPoll(p)
       \/ Answer(p)
       \/ LosePoll(p)
       \/ ApplyPage(p)
       \/ EndPoll(p)

ProjectionsSpec == ProjectionsInit /\ [][ProjectionsNext]_projectionVars

-----------------------------------------------------------------------------
ProjectionsTypeOK ==
  /\ engine \in Engines /\ seeded \subseteq {Employee, Position}
  /\ feed \in Seq(Event) /\ cursor \in 0..Len(feed)
  /\ view \in [Entities -> {"none", "Active", "OnLeave", "Terminated", "Ended", "Expired", "Revoked"}]
  /\ history \subseteq 1..Len(feed) /\ announced \in {"none", "Granted", "Revoked"}
  /\ overtaken \in BOOLEAN

\* As long as no page was applied out of its turn, an engine has projected exactly
\* what the events up to its cursor say that it understands, each applied and recorded
\* once: no row that it would be sent again is in the history already.
FollowsFeed ==
  ~overtaken =>
    /\ \A x \in Entities : view[x] = StatusAt(x, cursor)
    /\ history = {k \in 1..cursor : Records(feed[k])}

\* The authority last announced is the authority held, even after polls have
\* overtaken each other and applied events again (authority handlers.ts:70-160).
AnnouncedAgrees ==
  (announced = "Granted") = (\E a \in Assignments : view[a] = "Active")

\* An event whose handler needs nothing that the feed before it does not tell
WellFounded(k) ==
  Upserts(feed[k]) =>
    /\ feed[k].type \in MustName => feed[k].named
    /\ \A x \in Requires(feed[k]) : StatusAt(x, k - 1) # "none"

\* The authority-engine never gets past an event that it cannot apply: whatever order
\* polls apply their pages in, and whatever a page tells of later, its cursor stays
\* before the first event that is malformed or refers to what is not known there.
StopsAtPoison == engine = "authority" => \A k \in 1..cursor : WellFounded(k)

\* What an engine has projected agrees with the feed as far as its cursor, which stops
\* at the first event it cannot apply, and what it has announced with what it has
\* projected (projection/replay.ts, handlers.ts of both engines).
ProjectionAgrees == FollowsFeed /\ AnnouncedAgrees /\ StopsAtPoison

\* That, once all are read, what the ERP has told of is in the projection, as the README
\* of the service says (authority-engine/README.md:4).  It does not hold: the ERP's own
\* spelling is dropped, and the cursor moves past it.
ErpIsProjected ==
  ~overtaken /\ cursor = Len(feed) => \A k \in 1..Len(feed) : view[feed[k].about] # "none"
=============================================================================
