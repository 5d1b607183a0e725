---------------------------- MODULE EventLedger ----------------------------
(***************************************************************************)
(* services/event-processor: the ledger of canonical events.  A poll       *)
(* (projection/replay.ts) walks the upstream services one after another,   *)
(* fetches what lies behind the stored cursor of each in batches, and      *)
(* appends it row by row; a row that cannot be normalised goes to the dead *)
(* letters instead.  Clients may also post events (api/events.routes.ts).  *)
(* An appended project-costing event makes the processor append a          *)
(* synthetic SLA posting event.                                            *)
(*                                                                         *)
(* The service is one Node process: it waits only for a fetch to answer,   *)
(* and whatever it does between two fetches is one turn of the event loop, *)
(* here a series of steps (one SQLite transaction each) that only a crash  *)
(* can cut short.  setInterval starts a poll every few seconds whether or  *)
(* not the one before it has ended.  Ledger, dead letters and cursors are  *)
(* SQLite tables; polls and the replay status are lost in a crash.         *)
(***************************************************************************)
EXTENDS Integers, FiniteSets

CONSTANTS
  NumSources,     \* sources are 1 .. NumSources, in the order they are polled
  Keyed,          \* sources whose cursor tells rows of one instant apart by
                  \* their id (the mesh gateway); the others go by timestamp
  Events,
  NoEvent,
  Source,         \* Source[e]: the upstream service that records e
  Malformed,      \* events that fail normalisation
  Costing,        \* proj.wip_* events from which an SLA posting is derived
  Posted,         \* events a client may post to /events/ingest
  Polls,          \* polls that may be under way at once
  BatchSize,
  MaxTime,        \* bound on the upstream clock
  MaxCrashes,     \* bound on crashes
  DistinctTimes,  \* TRUE: no source records two events in one instant
  Serial,         \* TRUE: no poll starts while another is under way
  CanThrow        \* TRUE: a fetch may fail

VARIABLES
  now,       \* upstream time
  stamp,     \* stamp[e]: what the cursor compares of e's row, 0 if there is none
  last,      \* last[s]: the greatest stamp of source s
  status,    \* replay status of the process, "Down" while it does not run
  polls,     \* the polls' local state
  posting,   \* the posted event whose synthetic event is yet to be appended
  ledger,    \* ledger_events, by id
  slas,      \* the costing events whose synthetic event is in ledger_events
  dead,      \* dead[e]: how often e is in ledger_dead_letter
  cursors,   \* cep_source_cursor
  atBoot,    \* history: what the sources held when the process was started
  crashes    \* crashes so far

vars == <<now, stamp, last, status, polls, posting, ledger, slas, dead, cursors,
          atBoot, crashes>>

-----------------------------------------------------------------------------
Sources == 1 .. NumSources
Statuses == {"Down", "Replaying", "Ready"}
Pcs == {"idle", "asked", "served", "applying"}

ASSUME SourcesAssumption == NumSources \in Nat \ {0} /\ Keyed \subseteq Sources
ASSUME EventsAssumption ==
  /\ Source \in [Events -> Sources]
  /\ NoEvent \notin Events
  /\ Malformed \subseteq Events
  /\ Costing \subseteq Events
  /\ Posted \subseteq Events \ Malformed
ASSUME BoundsAssumption ==
  BatchSize \in Nat \ {0} /\ MaxTime \in Nat /\ MaxCrashes \in Nat
ASSUME SwitchAssumption ==
  DistinctTimes \in BOOLEAN /\ Serial \in BOOLEAN /\ CanThrow \in BOOLEAN

\* cursor: what has been applied of the source, in the poll's own memory; rows:
\* what is left of the batch; full: the batch had BatchSize rows.
Poll == [pc : Pcs, src : Sources, cursor : Nat, rows : SUBSET Events,
         full : BOOLEAN]

\* A dead letter is recorded once or "more than once".
DeadCounts == 0 .. 2

TypeOK ==
  /\ now \in 1 .. MaxTime + 1
  /\ stamp \in [Events -> Nat]
  /\ last \in [Sources -> Nat]
  /\ status \in Statuses
  /\ polls \in [Polls -> Poll]
  /\ posting \in Costing \cup {NoEvent}
  /\ ledger \subseteq Events
  /\ slas \subseteq Costing
  /\ dead \in [Events -> DeadCounts]
  /\ cursors \in [Sources -> Nat]
  /\ atBoot \subseteq Events
  /\ crashes \in 0 .. MaxCrashes

-----------------------------------------------------------------------------
Recorded(e) == stamp[e] > 0

\* The rows of source s behind cursor c: GET /api/v1/events?after=c.
Behind(s, c) == {e \in Events : Recorded(e) /\ Source[e] = s /\ stamp[e] > c}

\* Mutant: the rows are limited without having been ordered.
BatchesUnordered(s, c) ==
  {rows \in SUBSET Behind(s, c) :
     /\ Cardinality(rows) <= BatchSize
     /\ rows # Behind(s, c) => Cardinality(rows) = BatchSize}

\* The answers to it, ORDER BY timestamp LIMIT n: any n rows of which no row
\* left out is older.
Batches(s, c) ==
  {rows \in SUBSET Behind(s, c) :
     /\ Cardinality(rows) <= BatchSize
     /\ rows # Behind(s, c) => Cardinality(rows) = BatchSize
     /\ \A r \in rows, e \in Behind(s, c) \ rows : stamp[r] <= stamp[e]}

Oldest(rows) == {e \in rows : \A r \in rows : stamp[e] <= stamp[r]}

UnderWay(p) == polls[p].pc # "idle"

\* No turn of the event loop has steps left to take.
LoopFree == posting = NoEvent /\ \A p \in Polls : polls[p].pc # "applying"

\* The source holds e's row no longer back: it has been recorded or dropped.
Ingested(e) == e \in ledger \/ dead[e] > 0

-----------------------------------------------------------------------------
IdlePoll == [pc |-> "idle", src |-> 1, cursor |-> 0, rows |-> {}, full |-> FALSE]

Init ==
  /\ now = 1
  /\ stamp = [e \in Events |-> 0]
  /\ last = [s \in Sources |-> 0]
  /\ status = "Down"
  /\ polls = [p \in Polls |-> IdlePoll]
  /\ posting = NoEvent
  /\ ledger = {}
  /\ slas = {}
  /\ dead = [e \in Events |-> 0]
  /\ cursors = [s \in Sources |-> 0]
  /\ atBoot = {}
  /\ crashes = 0

Upstream == <<now, stamp, last>>
Tables == <<ledger, slas, dead, cursors>>
History == <<atBoot, crashes>>

-----------------------------------------------------------------------------
\* The upstream services.

Tick ==
  /\ now <= MaxTime
  /\ now' = now + 1
  /\ UNCHANGED <<stamp, last, status, polls, posting, Tables, History>>

\* Source[e] records e: with the time, or with the next id of its table.
Record(e) ==
  LET s == Source[e]
      at == IF s \in Keyed THEN last[s] + 1 ELSE now
  IN /\ ~Recorded(e)
     /\ DistinctTimes => at > last[s]
     /\ stamp' = [stamp EXCEPT ![e] = at]
     /\ last' = [last EXCEPT ![s] = at]
     /\ UNCHANGED <<now, status, polls, posting, Tables, History>>

-----------------------------------------------------------------------------
\* Polls: replaySourceToHead for one source after another.

\* The request for the rows of source s behind cursor c is sent.
Ask(p, s, c) ==
  polls' = [polls EXCEPT ![p] =
              [pc |-> "asked", src |-> s, cursor |-> c, rows |-> {},
               full |-> FALSE]]

\* main: the process starts and replays before it is ready.
Boot(p) ==
  /\ status = "Down"
  /\ status' = "Replaying"
  /\ Ask(p, 1, cursors[1])
  /\ atBoot' = {e \in Events : Recorded(e)}
  /\ UNCHANGED <<Upstream, posting, Tables, crashes>>

\* startPollingConsumer: the interval has passed.
StartPoll(p) ==
  /\ status = "Ready"
  /\ LoopFree
  /\ ~UnderWay(p)
  /\ Serial => \A q \in Polls : ~UnderWay(q)
  /\ Ask(p, 1, cursors[1])
  /\ UNCHANGED <<Upstream, status, posting, Tables, History>>

\* The source reads its table and answers.
Serve(p) ==
  /\ polls[p].pc = "asked"
  /\ \E rows \in Batches(polls[p].src, polls[p].cursor) :
       polls' = [polls EXCEPT ![p].pc = "served", ![p].rows = rows,
                              ![p].full = Cardinality(rows) = BatchSize]
  /\ UNCHANGED <<Upstream, status, posting, Tables, History>>

\* Source s is at its head: the next one is asked from its stored cursor, or the
\* poll has ended, and the first one after a start makes the process ready.
NextSource(p) ==
  IF polls[p].src < NumSources
  THEN /\ Ask(p, polls[p].src + 1, cursors[polls[p].src + 1])
       /\ UNCHANGED status
  ELSE /\ polls' = [polls EXCEPT ![p] = IdlePoll]
       /\ status' = "Ready"

\* Mutant: the row of the source is written back without its cursor.
EmptyBatchResetting(p) ==
  /\ LoopFree
  /\ polls[p].pc = "served"
  /\ polls[p].rows = {}
  /\ NextSource(p)
  /\ cursors' = [cursors EXCEPT ![polls[p].src] = 0]
  /\ UNCHANGED <<Upstream, posting, ledger, slas, dead, History>>

\* Mutant: a source that has nothing new ends the poll.
EmptyBatchReturns(p) ==
  /\ LoopFree
  /\ polls[p].pc = "served"
  /\ polls[p].rows = {}
  /\ polls' = [polls EXCEPT ![p] = IdlePoll]
  /\ status' = "Ready"
  /\ UNCHANGED <<Upstream, posting, Tables, History>>

\* Nothing came: the stored cursor is written back as it is.
EmptyBatch(p) ==
  /\ LoopFree
  /\ polls[p].pc = "served"
  /\ polls[p].rows = {}
  /\ NextSource(p)
  /\ UNCHANGED <<Upstream, posting, Tables, History>>

TakeBatch(p) ==
  /\ LoopFree
  /\ polls[p].pc = "served"
  /\ polls[p].rows # {}
  /\ polls' = [polls EXCEPT ![p].pc = "applying"]
  /\ UNCHANGED <<Upstream, status, posting, Tables, History>>

\* INSERT OR IGNORE of a row, and of its synthetic event if the row was new.
Append(e) ==
  /\ ledger' = ledger \cup {e}
  /\ slas' = IF e \in Costing \ ledger THEN slas \cup {e} ELSE slas
  /\ UNCHANGED dead

Bury(e) ==
  /\ dead' = [dead EXCEPT ![e] = IF @ < 2 THEN @ + 1 ELSE 2]
  /\ UNCHANGED <<ledger, slas>>

\* Mutant: the cursor stays before a row that cannot be normalised.
ApplyRowSticky(p) ==
  /\ polls[p].pc = "applying"
  /\ \E e \in Oldest(polls[p].rows) :
       /\ IF e \in Malformed
          THEN Bury(e) /\ UNCHANGED cursors
          ELSE Append(e)
               /\ cursors' = [cursors EXCEPT ![polls[p].src] = stamp[e]]
       /\ polls' = [polls EXCEPT ![p].cursor = stamp[e], ![p].rows = @ \ {e}]
  /\ UNCHANGED <<Upstream, status, posting, History>>

\* One row, one transaction: the row and the cursor.
ApplyRow(p) ==
  /\ polls[p].pc = "applying"
  /\ \E e \in Oldest(polls[p].rows) :
       /\ IF e \in Malformed THEN Bury(e) ELSE Append(e)
       /\ cursors' = [cursors EXCEPT ![polls[p].src] = stamp[e]]
       /\ polls' = [polls EXCEPT ![p].cursor = stamp[e], ![p].rows = @ \ {e}]
  /\ UNCHANGED <<Upstream, status, posting, History>>

\* Mutant: one batch a poll.
EndBatchOnce(p) ==
  /\ polls[p].pc = "applying"
  /\ polls[p].rows = {}
  /\ NextSource(p)
  /\ UNCHANGED <<Upstream, posting, Tables, History>>

\* A full batch is followed by another one behind the poll's own cursor.
EndBatch(p) ==
  /\ polls[p].pc = "applying"
  /\ polls[p].rows = {}
  /\ IF polls[p].full
     THEN Ask(p, polls[p].src, polls[p].cursor) /\ UNCHANGED status
     ELSE NextSource(p)
  /\ UNCHANGED <<Upstream, posting, Tables, History>>

\* The fetch fails, and with it the poll, whatever sources it had left; the
\* process gives up if it was the replay of its start.
Throw(p) ==
  /\ CanThrow
  /\ LoopFree
  /\ polls[p].pc = "asked"
  /\ polls' = [polls EXCEPT ![p] = IdlePoll]
  /\ status' = IF status = "Replaying" THEN "Down" ELSE status
  /\ UNCHANGED <<Upstream, posting, Tables, History>>

-----------------------------------------------------------------------------
\* Mutant: nothing is derived from a posted event.
IngestUnderived(e) ==
  /\ status = "Ready"
  /\ LoopFree
  /\ e \in Posted
  /\ ledger' = ledger \cup {e}
  /\ UNCHANGED <<Upstream, status, polls, posting, slas, dead, cursors, History>>

\* POST /events/ingest appends a posted event and then, as a statement of its
\* own, its synthetic event.
Ingest(e) ==
  /\ status = "Ready"
  /\ LoopFree
  /\ e \in Posted
  /\ ledger' = ledger \cup {e}
  /\ posting' = IF e \in Costing \ ledger THEN e ELSE NoEvent
  /\ UNCHANGED <<Upstream, status, polls, slas, dead, cursors, History>>

Derive ==
  /\ posting # NoEvent
  /\ slas' = slas \cup {posting}
  /\ posting' = NoEvent
  /\ UNCHANGED <<Upstream, status, polls, ledger, dead, cursors, History>>

Crash ==
  /\ status # "Down"
  /\ crashes < MaxCrashes
  /\ crashes' = crashes + 1
  /\ status' = "Down"
  /\ polls' = [p \in Polls |-> IdlePoll]
  /\ posting' = NoEvent
  /\ UNCHANGED <<Upstream, Tables, atBoot>>

-----------------------------------------------------------------------------
\* What a poll does once it is under way.
Step(p) ==
  \/ Serve(p)
  \/ EmptyBatch(p)
  \/ TakeBatch(p)
  \/ ApplyRow(p)
  \/ EndBatch(p)

Next ==
  \/ Tick
  \/ \E e \in Events : Record(e) \/ Ingest(e)
  \/ \E p \in Polls : Boot(p) \/ StartPoll(p) \/ Step(p) \/ Throw(p)
  \/ Derive
  \/ Crash

Spec == Init /\ [][Next]_vars

\* The sources answer, the event loop turns, the process is restarted, and the
\* interval timer keeps firing.
Fairness ==
  /\ \A p \in Polls : WF_vars(Step(p)) /\ WF_vars(Boot(p))
  /\ SF_vars(\E p \in Polls : StartPoll(p))
  /\ WF_vars(Derive)

FairSpec == Spec /\ Fairness

-----------------------------------------------------------------------------
\* Properties.

\* No poll ever leaves an event behind: whatever a source has recorded up to its
\* stored cursor is in the ledger or among the dead letters, however polls
\* overlap and whenever the process dies.
NoEventSkipped ==
  \A e \in Events :
    Recorded(e) /\ stamp[e] <= cursors[Source[e]] => Ingested(e)

\* Once the service calls itself ready, its ledger holds everything that the
\* sources held when it was started.
ReadyMeansCaughtUp ==
  status = "Ready" => \A e \in atBoot : Ingested(e)

\* Every costing event in the ledger has its SLA posting event.
WipEventsPosted ==
  \A e \in ledger \cap Costing : e \in slas \/ e = posting

\* While polls do not overlap a malformed event is buried once, even if the
\* process dies while it works on it.
BuriedOnce == \A e \in Events : dead[e] <= 1

\* While polls do not overlap no stored cursor ever goes back.
CursorsAdvance == [][\A s \in Sources : cursors'[s] >= cursors[s]]_vars

\* Every event that a source records gets into the ledger or the dead letters.
AllIngested == \A e \in Events : Recorded(e) ~> Ingested(e)
=============================================================================
