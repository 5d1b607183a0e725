------------------------- MODULE EventLedger_proofs -------------------------
(***************************************************************************)
(* Theorems about EventLedger, for any number of sources, events and polls *)
(* and for batches of any size.                                            *)
(***************************************************************************)
EXTENDS EventLedger, FiniteSetTheorems, TLAPS

-----------------------------------------------------------------------------
(* The inductive invariant.                                                *)

\* Stamps only grow within a source.
StampsOrdered ==
  /\ \A e \in Events : stamp[e] <= last[Source[e]]
  /\ \A e, f \in Events :
       Recorded(e) /\ Source[e] = Source[f] /\ stamp[e] = stamp[f] => e = f

\* Every event of source s up to c has been ingested.
Covered(s, c) ==
  \A e \in Events :
    Recorded(e) /\ Source[e] = s /\ stamp[e] <= c => Ingested(e)

\* Stored cursors lie behind what is recorded, and what they pass is ingested.
CursorsSound ==
  \A s \in Sources : cursors[s] <= last[s] /\ Covered(s, cursors[s])

\* Between the cursor of a poll and any row of its batch nothing is missing.
Contiguous(poll) ==
  \A r \in poll.rows :
    /\ Recorded(r)
    /\ Source[r] = poll.src
    /\ stamp[r] > poll.cursor
    /\ \A e \in Events :
         /\ Source[e] = poll.src
         /\ stamp[e] > poll.cursor
         /\ stamp[e] <= stamp[r]
         => e \in poll.rows

\* A poll, too, has passed only what is ingested.
PollSound(poll) ==
  /\ poll.cursor <= last[poll.src]
  /\ Covered(poll.src, poll.cursor)
  /\ Contiguous(poll)

LedgerInv ==
  /\ TypeOK
  /\ StampsOrdered
  /\ CursorsSound
  /\ \A p \in Polls : PollSound(polls[p])

-----------------------------------------------------------------------------
(* Types.                                                                  *)

LEMMA IdlePollType == IdlePoll \in Poll
BY SourcesAssumption DEF IdlePoll, Poll, Pcs, Sources

LEMMA AskType ==
  ASSUME polls \in [Polls -> Poll], NEW p \in Polls, NEW s \in Sources,
         NEW c \in Nat, Ask(p, s, c)
  PROVE  polls' \in [Polls -> Poll]
BY DEF Ask, Poll, Pcs

LEMMA NextSourceType ==
  ASSUME TypeOK, NEW p \in Polls, NextSource(p)
  PROVE  polls' \in [Polls -> Poll] /\ status' \in Statuses
<1>1. polls[p].src \in Sources
  BY DEF TypeOK, Poll
<1>2. CASE polls[p].src < NumSources
  <2>1. polls[p].src + 1 \in Sources /\ cursors[polls[p].src + 1] \in Nat
    BY <1>1, <1>2, SourcesAssumption DEF TypeOK, Sources
  <2>2. Ask(p, polls[p].src + 1, cursors[polls[p].src + 1]) /\ UNCHANGED status
    BY <1>2 DEF NextSource
  <2> QED BY <2>1, <2>2, AskType DEF TypeOK
<1>3. CASE ~(polls[p].src < NumSources)
  BY <1>3, IdlePollType DEF NextSource, TypeOK, Statuses
<1> QED BY <1>2, <1>3

LEMMA InitType == Init => TypeOK
<1> SUFFICES ASSUME Init PROVE TypeOK
  OBVIOUS
<1>1. polls \in [Polls -> Poll]
  BY IdlePollType DEF Init
<1>2. now \in 1 .. MaxTime + 1 /\ crashes \in 0 .. MaxCrashes
  BY BoundsAssumption DEF Init
<1>3. dead \in [Events -> DeadCounts] /\ status \in Statuses
  BY DEF Init, DeadCounts, Statuses
<1> QED BY <1>1, <1>2, <1>3 DEF Init, TypeOK

LEMMA TypeStep == TypeOK /\ [Next]_vars => TypeOK'
<1> SUFFICES ASSUME TypeOK, [Next]_vars PROVE TypeOK'
  OBVIOUS
<1> USE DEF Upstream, Tables, History
<1>1. CASE Tick
  BY <1>1, BoundsAssumption DEF TypeOK, Tick
<1>2. ASSUME NEW e \in Events, Record(e) PROVE TypeOK'
  <2>1. Source[e] \in Sources
    BY EventsAssumption
  <2>2. PICK at \in Nat : /\ stamp' = [stamp EXCEPT ![e] = at]
                         /\ last' = [last EXCEPT ![Source[e]] = at]
    <3>1. IF Source[e] \in Keyed THEN last[Source[e]] + 1 \in Nat ELSE now \in Nat
      BY <2>1, BoundsAssumption DEF TypeOK
    <3> QED BY <1>2, <3>1 DEF Record
  <2>3. stamp' \in [Events -> Nat] /\ last' \in [Sources -> Nat]
    BY <2>1, <2>2 DEF TypeOK
  <2> QED BY <1>2, <2>3 DEF TypeOK, Record
<1>3. ASSUME NEW p \in Polls, Boot(p) PROVE TypeOK'
  <2>1. 1 \in Sources /\ cursors[1] \in Nat
    BY SourcesAssumption DEF TypeOK, Sources
  <2>2. polls' \in [Polls -> Poll]
    BY <1>3, <2>1, AskType DEF TypeOK, Boot
  <2> QED BY <1>3, <2>2 DEF TypeOK, Boot, Statuses
<1>4. ASSUME NEW p \in Polls, StartPoll(p) PROVE TypeOK'
  <2>1. 1 \in Sources /\ cursors[1] \in Nat
    BY SourcesAssumption DEF TypeOK, Sources
  <2>2. polls' \in [Polls -> Poll]
    BY <1>4, <2>1, AskType DEF TypeOK, StartPoll
  <2> QED BY <1>4, <2>2 DEF TypeOK, StartPoll
<1>5. ASSUME NEW p \in Polls, Serve(p) PROVE TypeOK'
  <2>1. PICK rows \in SUBSET Events :
          polls' = [polls EXCEPT ![p].pc = "served", ![p].rows = rows,
                                 ![p].full = Cardinality(rows) = BatchSize]
    BY <1>5 DEF Serve, Batches, Behind
  <2> DEFINE full == Cardinality(rows) = BatchSize
  <2>2. polls' = [polls EXCEPT ![p].pc = "served", ![p].rows = rows,
                               ![p].full = full]
    BY <2>1
  <2>3. full \in BOOLEAN
    OBVIOUS
  <2> HIDE DEF full
  <2>4. /\ polls[p] \in Poll
        /\ [polls[p] EXCEPT !.pc = "served", !.rows = rows, !.full = full] \in Poll
    BY <2>3 DEF TypeOK, Poll, Pcs
  <2>5. polls' \in [Polls -> Poll]
    BY <2>2, <2>4 DEF TypeOK
  <2> QED BY <1>5, <2>5 DEF TypeOK, Serve
<1>6. ASSUME NEW p \in Polls, EmptyBatch(p) PROVE TypeOK'
  BY <1>6, NextSourceType DEF TypeOK, EmptyBatch
<1>7. ASSUME NEW p \in Polls, TakeBatch(p) PROVE TypeOK'
  <2>1. polls' \in [Polls -> Poll]
    BY <1>7 DEF TypeOK, TakeBatch, Poll, Pcs
  <2> QED BY <1>7, <2>1 DEF TypeOK, TakeBatch
<1>8. ASSUME NEW p \in Polls, ApplyRow(p) PROVE TypeOK'
  <2>1. PICK e \in Oldest(polls[p].rows) :
          /\ IF e \in Malformed THEN Bury(e) ELSE Append(e)
          /\ cursors' = [cursors EXCEPT ![polls[p].src] = stamp[e]]
          /\ polls' = [polls EXCEPT ![p].cursor = stamp[e], ![p].rows = @ \ {e}]
    BY <1>8 DEF ApplyRow
  <2>2. e \in Events /\ stamp[e] \in Nat
    BY DEF TypeOK, Poll, Oldest
  <2>3. polls' \in [Polls -> Poll]
    BY <2>1, <2>2 DEF TypeOK, Poll
  <2>4. cursors' \in [Sources -> Nat]
    BY <2>1, <2>2 DEF TypeOK
  <2>5. ledger' \subseteq Events /\ slas' \subseteq Costing /\ dead' \in [Events -> DeadCounts]
    <3>1. CASE e \in Malformed
      BY <2>1, <2>2, <3>1 DEF TypeOK, Bury, DeadCounts
    <3>2. CASE e \notin Malformed
      BY <2>1, <2>2, <3>2 DEF TypeOK, Append
    <3> QED BY <3>1, <3>2
  <2> QED BY <1>8, <2>3, <2>4, <2>5 DEF TypeOK, ApplyRow
<1>9. ASSUME NEW p \in Polls, EndBatch(p) PROVE TypeOK'
  <2>1. polls' \in [Polls -> Poll] /\ status' \in Statuses
    <3>1. CASE polls[p].full
      <4>1. Ask(p, polls[p].src, polls[p].cursor) /\ UNCHANGED status
        BY <1>9, <3>1 DEF EndBatch
      <4>2. polls[p].src \in Sources /\ polls[p].cursor \in Nat
        BY DEF TypeOK, Poll
      <4> QED BY <4>1, <4>2, AskType DEF TypeOK
    <3>2. CASE ~polls[p].full
      BY <1>9, <3>2, NextSourceType DEF EndBatch
    <3> QED BY <3>1, <3>2
  <2> QED BY <1>9, <2>1 DEF TypeOK, EndBatch
<1>10. ASSUME NEW p \in Polls, Throw(p) PROVE TypeOK'
  BY <1>10, IdlePollType DEF TypeOK, Throw, Statuses
<1>11. ASSUME NEW e \in Events, Ingest(e) PROVE TypeOK'
  BY <1>11 DEF TypeOK, Ingest
<1>12. CASE Derive
  BY <1>12 DEF TypeOK, Derive
<1>13. CASE Crash
  <2>1. crashes' \in 0 .. MaxCrashes
    BY <1>13, BoundsAssumption DEF TypeOK, Crash
  <2> QED BY <1>13, <2>1, IdlePollType DEF TypeOK, Crash, Statuses
<1>14. CASE UNCHANGED vars
  BY <1>14 DEF TypeOK, vars
<1> QED
  BY <1>1, <1>2, <1>3, <1>4, <1>5, <1>6, <1>7, <1>8, <1>9, <1>10, <1>11, <1>12,
     <1>13, <1>14 DEF Next, Step

\* Every reachable state is well typed.
THEOREM TypeCorrect == Spec => []TypeOK
<1>1. Init => TypeOK
  BY InitType
<1>2. TypeOK /\ [Next]_vars => TypeOK'
  BY TypeStep
<1> QED BY <1>1, <1>2, PTL DEF Spec

-----------------------------------------------------------------------------
(* While no source records two events in one instant, nothing is skipped.  *)

\* What has been recorded keeps its stamp, and what is new comes after it.
LEMMA StampStep ==
  ASSUME DistinctTimes, TypeOK, StampsOrdered, [Next]_vars
  PROVE  /\ StampsOrdered'
         /\ \A s \in Sources : last'[s] >= last[s]
         /\ \A e \in Events :
              \/ stamp'[e] = stamp[e]
              \/ ~Recorded(e) /\ stamp'[e] > last[Source[e]]
<1>1. Source \in [Events -> Sources]
  BY EventsAssumption
<1>2. ASSUME NEW e \in Events, Record(e)
      PROVE  /\ StampsOrdered'
             /\ \A s \in Sources : last'[s] >= last[s]
             /\ \A f \in Events :
                  \/ stamp'[f] = stamp[f]
                  \/ ~Recorded(f) /\ stamp'[f] > last[Source[f]]
  <2> DEFINE at == IF Source[e] \in Keyed THEN last[Source[e]] + 1 ELSE now
  <2>1. /\ ~Recorded(e)
        /\ at > last[Source[e]]
        /\ stamp' = [stamp EXCEPT ![e] = at]
        /\ last' = [last EXCEPT ![Source[e]] = at]
    BY <1>2 DEF Record
  <2>2. at \in Nat
    BY <1>1, BoundsAssumption DEF TypeOK
  <2> HIDE DEF at
  <2>3. \A f \in Events : f # e => stamp'[f] = stamp[f]
    BY <2>1 DEF TypeOK
  <2>4. stamp'[e] = at /\ last'[Source[e]] = at
    BY <1>1, <2>1 DEF TypeOK
  <2>5. \A s \in Sources : last'[s] \in Nat /\ last[s] \in Nat /\ last'[s] >= last[s]
    BY <1>1, <2>1, <2>2 DEF TypeOK
  <2>6. \A f \in Events : stamp[f] \in Nat /\ Source[f] \in Sources
    BY <1>1 DEF TypeOK
  <2>7. StampsOrdered'
    BY <2>1, <2>2, <2>3, <2>4, <2>5, <2>6 DEF StampsOrdered, Recorded
  <2> QED BY <2>1, <2>3, <2>4, <2>5, <2>7
<1>3. ASSUME UNCHANGED <<stamp, last>>
      PROVE  /\ StampsOrdered'
             /\ \A s \in Sources : last'[s] >= last[s]
             /\ \A f \in Events : stamp'[f] = stamp[f]
  BY <1>3 DEF StampsOrdered, Recorded, TypeOK
<1>4. (\E e \in Events : Record(e)) \/ UNCHANGED <<stamp, last>>
  BY DEF Next, vars, Step, Upstream, Tick, Ingest, Boot, StartPoll, Serve, EmptyBatch,
         TakeBatch, ApplyRow, EndBatch, Throw, Derive, Crash
<1> QED BY <1>2, <1>3, <1>4

\* What has been ingested stays so.
LEMMA IngestedStays ==
  ASSUME TypeOK, [Next]_vars, NEW e \in Events, Ingested(e)
  PROVE  Ingested(e)'
<1>1. ASSUME NEW p \in Polls, ApplyRow(p) PROVE Ingested(e)'
  <2>1. PICK r \in Oldest(polls[p].rows) : IF r \in Malformed THEN Bury(r) ELSE Append(r)
    BY <1>1 DEF ApplyRow
  <2> QED BY <2>1 DEF TypeOK, Ingested, Bury, Append, DeadCounts
<1>2. (\E p \in Polls : ApplyRow(p)) \/ (ledger \subseteq ledger' /\ UNCHANGED dead)
  BY DEF Next, vars, Step, Tables, Tick, Record, Ingest, Boot, StartPoll, Serve,
         EmptyBatch, TakeBatch, EndBatch, Throw, Derive, Crash
<1> QED BY <1>1, <1>2 DEF Ingested

\* What lies behind a cursor stays covered: new events come after it.
LEMMA CoveredStays ==
  ASSUME DistinctTimes, TypeOK, StampsOrdered, [Next]_vars,
         NEW s \in Sources, NEW c \in Nat, c <= last[s], Covered(s, c)
  PROVE  Covered(s, c)'
<1> SUFFICES ASSUME NEW e \in Events, Recorded(e)', Source[e] = s, stamp'[e] <= c
             PROVE  Ingested(e)'
  BY DEF Covered
<1>1. stamp'[e] = stamp[e]
  <2>1. last[s] \in Nat /\ stamp'[e] \in Nat
    BY TypeStep DEF TypeOK
  <2> QED BY <2>1, StampStep
<1>2. Ingested(e)
  BY <1>1 DEF Covered, Recorded
<1> QED BY <1>2, IngestedStays

\* A poll that has done nothing remains sound while the sources go on.
LEMMA PollStays ==
  ASSUME DistinctTimes, TypeOK, StampsOrdered, [Next]_vars,
         NEW poll \in Poll, PollSound(poll)
  PROVE  PollSound(poll)'
<1>1. poll.src \in Sources /\ poll.cursor \in Nat /\ poll.rows \subseteq Events
  BY DEF Poll
<1>2. \A e \in Events : /\ stamp[e] \in Nat /\ stamp'[e] \in Nat
                        /\ Source[e] \in Sources
  BY TypeStep, EventsAssumption DEF TypeOK
<1>3. \A s \in Sources : last[s] \in Nat /\ last'[s] \in Nat
  BY TypeStep DEF TypeOK
<1>4. poll.cursor <= last'[poll.src]
  BY <1>1, <1>3, StampStep DEF PollSound
<1>5. Covered(poll.src, poll.cursor)'
  BY <1>1, CoveredStays DEF PollSound
<1>6. Contiguous(poll)'
  <2> SUFFICES ASSUME NEW r \in poll.rows
               PROVE  /\ Recorded(r)'
                      /\ Source[r] = poll.src
                      /\ stamp'[r] > poll.cursor
                      /\ \A e \in Events :
                           /\ Source[e] = poll.src
                           /\ stamp'[e] > poll.cursor
                           /\ stamp'[e] <= stamp'[r]
                           => e \in poll.rows
    BY DEF Contiguous
  <2>1. Recorded(r) /\ stamp'[r] = stamp[r]
    BY <1>1, StampStep DEF PollSound, Contiguous
  <2>2. stamp[r] <= last[poll.src]
    BY <1>1 DEF PollSound, Contiguous, StampsOrdered
  <2>3. ASSUME NEW e \in Events, Source[e] = poll.src,
               stamp'[e] > poll.cursor, stamp'[e] <= stamp'[r]
        PROVE  e \in poll.rows
    <3>1. stamp'[e] = stamp[e]
      BY <1>1, <1>2, <1>3, <2>1, <2>2, <2>3, StampStep
    <3> QED BY <2>1, <2>3, <3>1 DEF PollSound, Contiguous
  <2> QED BY <2>1, <2>3 DEF PollSound, Contiguous, Recorded
<1> QED BY <1>4, <1>5, <1>6 DEF PollSound

\* A poll that asks from a sound cursor is sound.
LEMMA AskSound ==
  ASSUME NEW s \in Sources, NEW c \in Nat, c <= last[s], Covered(s, c),
         NEW p \in Polls, polls \in [Polls -> Poll], Ask(p, s, c),
         \A q \in Polls : PollSound(polls[q])
  PROVE  \A q \in Polls : PollSound(polls'[q])
BY DEF Ask, PollSound, Contiguous

LEMMA IdleSound == TypeOK => PollSound(IdlePoll)
<1>1. 1 \in Sources
  BY SourcesAssumption DEF Sources
<1> QED BY <1>1 DEF TypeOK, PollSound, Contiguous, Covered, IdlePoll, Recorded

LEMMA NextSourceSound ==
  ASSUME LedgerInv, NEW p \in Polls, NextSource(p)
  PROVE  \A q \in Polls : PollSound(polls'[q])
<1>1. polls[p].src \in Sources
  BY DEF LedgerInv, TypeOK, Poll
<1>2. CASE polls[p].src < NumSources
  <2>1. polls[p].src + 1 \in Sources
    BY <1>1, <1>2, SourcesAssumption DEF Sources
  <2>2. cursors[polls[p].src + 1] \in Nat
    BY <2>1 DEF LedgerInv, TypeOK
  <2>3. Ask(p, polls[p].src + 1, cursors[polls[p].src + 1])
    BY <1>2 DEF NextSource
  <2> QED BY <2>1, <2>2, <2>3, AskSound DEF LedgerInv, CursorsSound, TypeOK
<1>3. CASE ~(polls[p].src < NumSources)
  BY <1>3, IdleSound DEF NextSource, LedgerInv, TypeOK
<1> QED BY <1>2, <1>3

\* An answer to a sound cursor leaves nothing out before its last row.
LEMMA ServeSound ==
  ASSUME LedgerInv, NEW p \in Polls, Serve(p)
  PROVE  \A q \in Polls : PollSound(polls'[q])
<1>1. PICK rows \in Batches(polls[p].src, polls[p].cursor) :
        polls' = [polls EXCEPT ![p].pc = "served", ![p].rows = rows,
                               ![p].full = Cardinality(rows) = BatchSize]
  BY DEF Serve
<1>2. /\ polls'[p].src = polls[p].src
      /\ polls'[p].cursor = polls[p].cursor
      /\ polls'[p].rows = rows
      /\ \A q \in Polls : q # p => polls'[q] = polls[q]
  BY <1>1 DEF LedgerInv, TypeOK, Poll
<1>3. /\ \A r \in rows : /\ r \in Events /\ Recorded(r) /\ Source[r] = polls[p].src
                         /\ stamp[r] > polls[p].cursor
      /\ \A r \in rows, e \in Behind(polls[p].src, polls[p].cursor) \ rows :
           stamp[r] <= stamp[e]
  BY DEF Batches, Behind
<1>4. ASSUME NEW r \in rows, NEW e \in Events, Source[e] = polls[p].src,
             stamp[e] > polls[p].cursor, stamp[e] <= stamp[r], e \notin rows
      PROVE  FALSE
  <2>1. polls[p].cursor \in Nat /\ stamp[e] \in Nat /\ stamp[r] \in Nat
    BY <1>3 DEF LedgerInv, TypeOK, Poll
  <2>2. e \in Behind(polls[p].src, polls[p].cursor)
    BY <1>4, <2>1 DEF Behind, Recorded
  <2>3. stamp[r] <= stamp[e]
    BY <1>3, <1>4, <2>2
  <2>4. stamp[e] = stamp[r]
    BY <1>4, <2>1, <2>3
  <2> QED BY <1>3, <1>4, <2>4 DEF LedgerInv, StampsOrdered
<1>5. Contiguous(polls'[p])
  BY <1>2, <1>3, <1>4 DEF Contiguous
<1> QED BY <1>2, <1>5 DEF LedgerInv, PollSound

\* A row is applied in order: with the oldest one ingested nothing is missing up
\* to it, and the poll and the stored cursor may both move there.
LEMMA ApplyRowSound ==
  ASSUME DistinctTimes, LedgerInv, [Next]_vars, NEW p \in Polls, ApplyRow(p)
  PROVE  CursorsSound' /\ \A q \in Polls : PollSound(polls[q])'
<1>1. PICK r \in Oldest(polls[p].rows) :
        /\ IF r \in Malformed THEN Bury(r) ELSE Append(r)
        /\ cursors' = [cursors EXCEPT ![polls[p].src] = stamp[r]]
        /\ polls' = [polls EXCEPT ![p].cursor = stamp[r], ![p].rows = @ \ {r}]
  BY DEF ApplyRow
<1>0. /\ polls[p].src \in Sources /\ polls[p].cursor \in Nat
      /\ r \in Events /\ stamp[r] \in Nat
  BY DEF LedgerInv, TypeOK, Poll, Oldest
<1> PICK s \in Sources, c \in Nat : s = polls[p].src /\ c = stamp[r]
  BY <1>0
<1>2. /\ s = polls[p].src /\ c = stamp[r] /\ polls[p].cursor \in Nat
      /\ r \in Events /\ Recorded(r) /\ Source[r] = s
      /\ stamp[r] \in Nat /\ stamp[r] > polls[p].cursor /\ r \in polls[p].rows
  BY DEF LedgerInv, TypeOK, Poll, Oldest, PollSound, Contiguous
<1>3. UNCHANGED <<stamp, last>>
  BY DEF ApplyRow, Upstream
<1>4. Ingested(r)'
  BY <1>1, <1>2 DEF LedgerInv, TypeOK, Ingested, Bury, Append, DeadCounts
<1>5. Covered(s, c)'
  <2> SUFFICES ASSUME NEW e \in Events, Recorded(e), Source[e] = s,
                      stamp[e] <= stamp[r]
               PROVE  Ingested(e)'
    BY <1>2, <1>3 DEF Covered, Recorded
  <2>1. CASE stamp[e] <= polls[p].cursor
    BY <1>2, <2>1, IngestedStays DEF LedgerInv, PollSound, Covered
  <2>2. CASE stamp[e] > polls[p].cursor
    <3>1. e \in polls[p].rows
      BY <1>2, <2>2 DEF LedgerInv, PollSound, Contiguous
    <3>2. stamp[r] <= stamp[e] /\ stamp[e] \in Nat
      BY <3>1 DEF Oldest, LedgerInv, TypeOK
    <3>3. e = r
      BY <1>2, <3>2 DEF LedgerInv, StampsOrdered
    <3> QED BY <1>4, <3>3
  <2>3. stamp[e] \in Nat
    BY DEF LedgerInv, TypeOK
  <2> QED BY <1>2, <2>1, <2>2, <2>3
<1>6. stamp[r] <= last[s]
  BY <1>2 DEF LedgerInv, StampsOrdered
<1>7. CursorsSound'
  <2> SUFFICES ASSUME NEW t \in Sources
               PROVE  cursors'[t] <= last[t] /\ Covered(t, cursors[t])'
    BY <1>3 DEF CursorsSound
  <2>1. CASE t = s
    <3>1. cursors'[t] = c
      BY <1>1, <1>2, <2>1 DEF LedgerInv, TypeOK
    <3> QED BY <1>2, <1>5, <1>6, <2>1, <3>1 DEF Covered
  <2>2. CASE t # s
    <3>1. cursors'[t] = cursors[t] /\ cursors[t] \in Nat
      BY <1>1, <1>2, <2>2 DEF LedgerInv, TypeOK
    <3>2. cursors[t] <= last[t] /\ Covered(t, cursors[t])
      BY DEF LedgerInv, CursorsSound
    <3>3. Covered(t, cursors[t])'
      BY <1>3, <3>1, <3>2, IngestedStays DEF LedgerInv, Covered, Recorded
    <3> QED BY <3>1, <3>2, <3>3
  <2> QED BY <2>1, <2>2
<1>8. ASSUME NEW q \in Polls PROVE PollSound(polls[q])'
  <2>1. CASE q = p
    <3>1. /\ polls'[q].src = s
          /\ polls'[q].cursor = stamp[r]
          /\ polls'[q].rows = polls[p].rows \ {r}
      BY <1>1, <1>2, <2>1 DEF LedgerInv, TypeOK, Poll
    <3>2. \A e \in polls[p].rows : /\ e \in Events /\ Recorded(e) /\ Source[e] = s
                                   /\ stamp[e] \in Nat /\ stamp[r] <= stamp[e]
      BY <1>1, <1>2 DEF LedgerInv, TypeOK, Poll, PollSound, Contiguous, Oldest
    <3>3. \A e \in polls[p].rows \ {r} : stamp[e] > stamp[r]
      BY <1>2, <3>2 DEF LedgerInv, StampsOrdered
    <3>4. ASSUME NEW e \in polls[p].rows \ {r}, NEW f \in Events, Source[f] = s,
                 stamp[f] > stamp[r], stamp[f] <= stamp[e]
          PROVE  f \in polls[p].rows \ {r}
      <4>1. stamp[f] \in Nat /\ stamp[f] > polls[p].cursor
        BY <1>2, <3>4 DEF LedgerInv, TypeOK
      <4>2. f \in polls[p].rows
        BY <3>4, <4>1 DEF LedgerInv, PollSound, Contiguous
      <4> QED BY <1>2, <3>4, <4>2
    <3>5. Contiguous(polls[q])'
      BY <1>3, <3>1, <3>2, <3>3, <3>4 DEF Contiguous, Recorded
    <3>6. Covered(polls[q].src, polls[q].cursor)'
      BY <1>2, <1>5, <3>1 DEF Covered
    <3> QED BY <1>2, <1>3, <1>6, <3>1, <3>5, <3>6 DEF PollSound
  <2>2. CASE q # p
    <3>1. polls'[q] = polls[q] /\ polls[q] \in Poll
      BY <1>1, <2>2 DEF LedgerInv, TypeOK
    <3>2. PollSound(polls[q])
      BY DEF LedgerInv
    <3>3. Covered(polls[q].src, polls[q].cursor)'
      BY <1>3, <3>1, <3>2, IngestedStays DEF LedgerInv, PollSound, Covered, Recorded
    <3>4. Contiguous(polls[q])'
      BY <1>3, <3>1, <3>2 DEF PollSound, Contiguous, Recorded
    <3> QED BY <1>3, <3>1, <3>2, <3>3, <3>4 DEF PollSound
  <2> QED BY <2>1, <2>2
<1> QED BY <1>7, <1>8

LEMMA LedgerInvInit == Init => LedgerInv
<1> SUFFICES ASSUME Init PROVE LedgerInv
  OBVIOUS
<1>1. TypeOK
  BY InitType
<1>2. StampsOrdered /\ CursorsSound
  BY EventsAssumption DEF Init, StampsOrdered, CursorsSound, Covered, Recorded
<1>3. \A p \in Polls : PollSound(polls[p])
  BY <1>1, IdleSound DEF Init
<1> QED BY <1>1, <1>2, <1>3 DEF LedgerInv

LEMMA LedgerInvStep ==
  ASSUME DistinctTimes, LedgerInv, [Next]_vars
  PROVE  LedgerInv'
<1>1. TypeOK'
  BY TypeStep DEF LedgerInv
<1>2. StampsOrdered'
  BY StampStep DEF LedgerInv
<1>3. CASE \E p \in Polls : ApplyRow(p)
  BY <1>1, <1>2, <1>3, ApplyRowSound DEF LedgerInv
<1>4. CASE ~ \E p \in Polls : ApplyRow(p)
  <2>1. UNCHANGED cursors
    BY <1>4 DEF Next, vars, Step, Tables, Tick, Record, Ingest, Boot, StartPoll, Serve,
         EmptyBatch, TakeBatch, EndBatch, Throw, Derive, Crash
  <2>2. CursorsSound'
    <3> SUFFICES ASSUME NEW s \in Sources
                 PROVE  cursors'[s] <= last'[s] /\ Covered(s, cursors[s])'
      BY DEF CursorsSound
    <3>1. cursors[s] \in Nat /\ last[s] \in Nat /\ last'[s] \in Nat
      BY <1>1 DEF LedgerInv, TypeOK
    <3>2. cursors[s] <= last[s] /\ Covered(s, cursors[s])
      BY DEF LedgerInv, CursorsSound
    <3>3. PICK c \in Nat : c = cursors[s]
      BY <3>1
    <3>4. Covered(s, c)'
      BY <3>2, <3>3, CoveredStays DEF LedgerInv
    <3> QED BY <2>1, <3>1, <3>2, <3>3, <3>4, StampStep DEF LedgerInv, Covered
  <2>3. \A q \in Polls : PollSound(polls'[q])
    <3>1. ASSUME NEW p \in Polls, Boot(p) \/ StartPoll(p)
          PROVE  \A q \in Polls : PollSound(polls'[q])
      <4>1. 1 \in Sources
        BY SourcesAssumption DEF Sources
      <4>2. cursors[1] \in Nat /\ cursors[1] <= last[1] /\ Covered(1, cursors[1])
        BY <4>1 DEF LedgerInv, TypeOK, CursorsSound
      <4>3. Ask(p, 1, cursors[1])
        BY <3>1 DEF Boot, StartPoll
      <4> QED BY <4>1, <4>2, <4>3, AskSound DEF LedgerInv, TypeOK
    <3>2. ASSUME NEW p \in Polls, EmptyBatch(p)
          PROVE  \A q \in Polls : PollSound(polls'[q])
      BY <3>2, NextSourceSound DEF EmptyBatch
    <3>3. ASSUME NEW p \in Polls, TakeBatch(p)
          PROVE  \A q \in Polls : PollSound(polls'[q])
      BY <3>3 DEF LedgerInv, TypeOK, Poll, TakeBatch, PollSound, Contiguous
    <3>4. ASSUME NEW p \in Polls, EndBatch(p)
          PROVE  \A q \in Polls : PollSound(polls'[q])
      <4>1. CASE polls[p].full
        <5>1. Ask(p, polls[p].src, polls[p].cursor)
          BY <3>4, <4>1 DEF EndBatch
        <5>2. polls[p].src \in Sources /\ polls[p].cursor \in Nat
          BY DEF LedgerInv, TypeOK, Poll
        <5>3. PollSound(polls[p])
          BY DEF LedgerInv
        <5> QED BY <5>1, <5>2, <5>3, AskSound DEF LedgerInv, TypeOK, PollSound
      <4>2. CASE ~polls[p].full
        BY <3>4, <4>2, NextSourceSound DEF EndBatch
      <4> QED BY <4>1, <4>2
    <3>5. ASSUME NEW p \in Polls, Throw(p)
          PROVE  \A q \in Polls : PollSound(polls'[q])
      BY <3>5, IdleSound DEF LedgerInv, TypeOK, Throw
    <3>6. CASE Crash
      BY <3>6, IdleSound DEF LedgerInv, Crash
    <3>7. CASE UNCHANGED polls
      BY <3>7 DEF LedgerInv
    <3>8. ASSUME NEW p \in Polls, Serve(p)
          PROVE  \A q \in Polls : PollSound(polls'[q])
      BY <3>8, ServeSound
    <3> QED BY <1>4, <3>1, <3>2, <3>3, <3>4, <3>5, <3>6, <3>7, <3>8
            DEF Next, vars, Step, Tick, Record, Ingest, Derive
  <2>4. ASSUME NEW q \in Polls PROVE PollSound(polls[q])'
    <3>1. PICK poll \in Poll : poll = polls'[q]
      BY <1>1 DEF TypeOK
    <3>2. PollSound(poll)'
      BY <2>3, <3>1, PollStays DEF LedgerInv
    <3> QED BY <3>1, <3>2 DEF PollSound, Covered, Contiguous
  <2> QED BY <1>1, <1>2, <2>2, <2>4 DEF LedgerInv
<1> QED BY <1>3, <1>4

\* Stored cursors and polls lie behind what is ingested, batches have no gaps:
\* the invariant that makes the replay safe, whatever polls overlap or die.
THEOREM LedgerInvCorrect == ASSUME DistinctTimes PROVE Spec => []LedgerInv
<1>1. Init => LedgerInv
  BY LedgerInvInit
<1>2. LedgerInv /\ [Next]_vars => LedgerInv'
  BY LedgerInvStep
<1> QED BY <1>1, <1>2, PTL DEF Spec

\* While no source records two events in one instant, whatever a source has
\* recorded up to its stored cursor is in the ledger or among the dead letters.
THEOREM NoEventSkippedCorrect ==
  ASSUME DistinctTimes PROVE Spec => []NoEventSkipped
<1>1. LedgerInv => NoEventSkipped
  BY EventsAssumption DEF LedgerInv, CursorsSound, Covered, NoEventSkipped
<1> QED BY <1>1, LedgerInvCorrect, PTL

-----------------------------------------------------------------------------
(* Once ready, the process has caught up with what it found at its start.  *)

\* What the poll has not ingested of the sources it is done with, or of the one it
\* is at and whose last batch it has, is in that batch.
Remaining(poll) ==
  \A e \in atBoot :
    \/ Ingested(e)
    \/ Source[e] > poll.src
    \/ Source[e] = poll.src /\ (poll.pc = "asked" \/ poll.full \/ e \in poll.rows)

\* The replay of a start is the only poll; a process that is down has none.
BootInv ==
  /\ \A e \in atBoot : e \in Events /\ Recorded(e)
  /\ status = "Down" => \A p \in Polls : ~UnderWay(p)
  /\ status = "Replaying" =>
       \A p \in Polls :
         UnderWay(p) =>
           /\ Remaining(polls[p])
           /\ \A q \in Polls : UnderWay(q) => q = p
  /\ \A p \in Polls : polls[p].full => polls[p].rows # {} \/ polls[p].pc = "applying"
  /\ ReadyMeansCaughtUp

\* A poll that has worked off the last batch of a source may leave it.
LEMMA NextSourceRemaining ==
  ASSUME TypeOK, BootInv, status = "Replaying", NEW p \in Polls, UnderWay(p),
         polls[p].pc # "asked", ~polls[p].full, polls[p].rows = {}, NextSource(p),
         UNCHANGED <<stamp, ledger, dead, atBoot>>
  PROVE  BootInv'
<1>1. polls[p].src \in Sources /\ polls[p] \in Poll
  BY DEF TypeOK, Poll
<1>2. \A e \in atBoot : Ingested(e) \/ Source[e] > polls[p].src
  BY DEF BootInv, Remaining
<1>3. \A e \in atBoot : Source[e] \in Sources /\ e \in Events
  BY EventsAssumption DEF BootInv
<1>4. \A e \in atBoot : Ingested(e) <=> Ingested(e)'
  BY DEF Ingested
<1>5. CASE polls[p].src < NumSources
  <2>1. /\ polls' = [polls EXCEPT ![p] =
                       [pc |-> "asked", src |-> polls[p].src + 1,
                        cursor |-> cursors[polls[p].src + 1], rows |-> {},
                        full |-> FALSE]]
        /\ status' = status
    BY <1>5 DEF NextSource, Ask
  <2>2. /\ polls'[p].src = polls[p].src + 1 /\ polls'[p].pc = "asked"
        /\ ~polls'[p].full
        /\ \A q \in Polls : q # p => polls'[q] = polls[q]
    BY <2>1 DEF TypeOK
  <2>3. Remaining(polls[p])'
    <3> SUFFICES ASSUME NEW e \in atBoot, ~Ingested(e)'
                 PROVE  Source[e] > polls'[p].src \/ Source[e] = polls'[p].src
      BY <2>2 DEF Remaining
    <3> QED BY <1>1, <1>2, <1>3, <1>4, <2>2 DEF Sources
  <2> QED BY <2>1, <2>2, <2>3 DEF BootInv, UnderWay, ReadyMeansCaughtUp, Recorded
<1>6. CASE ~(polls[p].src < NumSources)
  <2>1. polls' = [polls EXCEPT ![p] = IdlePoll] /\ status' = "Ready"
    BY <1>6 DEF NextSource
  <2>2. \A e \in atBoot : Ingested(e)
    BY <1>1, <1>2, <1>3, <1>6, SourcesAssumption DEF Sources
  <2>3. \A q \in Polls : polls'[q] = polls[q] \/ polls'[q] = IdlePoll
    BY <2>1 DEF TypeOK
  <2> QED BY <1>4, <2>1, <2>2, <2>3
          DEF BootInv, ReadyMeansCaughtUp, Recorded, IdlePoll
<1> QED BY <1>5, <1>6

\* While it is ready, what was to be caught up with stays ingested.
LEMMA ReadyStays ==
  ASSUME TypeOK, BootInv, [Next]_vars, status = "Ready", status' = "Ready",
         UNCHANGED atBoot, \A e \in atBoot : Recorded(e)',
         \A p \in Polls : polls'[p].full => polls'[p].rows # {} \/ polls'[p].pc = "applying"
  PROVE  BootInv'
<1>1. \A e \in atBoot : e \in Events /\ Ingested(e)
  BY DEF BootInv, ReadyMeansCaughtUp
<1>2. \A e \in atBoot : Ingested(e)'
  BY <1>1, IngestedStays
<1> QED BY <1>1, <1>2 DEF BootInv, ReadyMeansCaughtUp, Recorded

\* The rows of an answer that is not full are all there is.
LEMMA ServeRemaining ==
  ASSUME LedgerInv, BootInv, NEW p \in Polls, Serve(p)
  PROVE  BootInv'
<1>1. PICK rows \in Batches(polls[p].src, polls[p].cursor) :
        polls' = [polls EXCEPT ![p].pc = "served", ![p].rows = rows,
                               ![p].full = Cardinality(rows) = BatchSize]
  BY DEF Serve
<1>2. /\ UnderWay(p) /\ polls'[p].pc = "served"
      /\ polls'[p].src = polls[p].src
      /\ polls'[p].rows = rows
      /\ \A q \in Polls : q # p => polls'[q] = polls[q]
  BY <1>1 DEF Serve, UnderWay, LedgerInv, TypeOK, Poll
<1>3. ~polls'[p].full => Cardinality(rows) # BatchSize
  BY <1>1 DEF LedgerInv, TypeOK, Poll
<1>4. polls'[p].full => Cardinality(rows) = BatchSize
  BY <1>1 DEF LedgerInv, TypeOK, Poll
<1>5. polls'[p].full => rows # {}
  BY <1>4, BoundsAssumption, FS_EmptySet
<1>6. UNCHANGED <<stamp, status, ledger, dead, atBoot>>
  BY DEF Serve, Upstream, Tables, History
<1>7. \A q \in Polls : polls'[q].pc # "idle" => UnderWay(q)
  BY <1>2 DEF UnderWay
<1>8. ASSUME status = "Replaying" PROVE Remaining(polls[p])'
  <2>1. ASSUME NEW e \in atBoot, ~Ingested(e), ~(Source[e] > polls[p].src),
               ~polls'[p].full
        PROVE  Source[e] = polls[p].src /\ e \in rows
    <3>1. e \in Events /\ Recorded(e)
      BY DEF BootInv
    <3>2. Source[e] = polls[p].src
      BY <1>2, <1>8, <2>1 DEF BootInv, Remaining
    <3>3. stamp[e] > polls[p].cursor
      <4>1. stamp[e] \in Nat /\ polls[p].cursor \in Nat
        BY <3>1 DEF LedgerInv, TypeOK, Poll
      <4> QED BY <2>1, <3>1, <3>2, <4>1 DEF LedgerInv, PollSound, Covered
    <3>4. rows = Behind(polls[p].src, polls[p].cursor)
      BY <1>3, <2>1 DEF Batches
    <3> QED BY <3>1, <3>2, <3>3, <3>4 DEF Behind
  <2>2. \A e \in atBoot' :
          \/ Ingested(e)'
          \/ Source[e] > polls'[p].src
          \/ Source[e] = polls'[p].src /\ (polls'[p].full \/ e \in polls'[p].rows)
    <3> SUFFICES ASSUME NEW e \in atBoot
                 PROVE  \/ Ingested(e)
                        \/ Source[e] > polls[p].src
                        \/ Source[e] = polls[p].src /\ (polls'[p].full \/ e \in rows)
      BY <1>2, <1>6 DEF Ingested
    <3>1. CASE polls'[p].full
      BY <1>2, <1>8, <3>1 DEF BootInv, Remaining
    <3>2. CASE ~polls'[p].full
      BY <2>1, <3>2
    <3> QED BY <3>1, <3>2
  <2> QED BY <2>2 DEF Remaining
<1>9. status = "Replaying" =>
        \A q \in Polls : polls'[q].pc # "idle" => q = p
  BY <1>2, <1>7 DEF BootInv
<1>10. \A q \in Polls : polls'[q].full => polls'[q].rows # {} \/ polls'[q].pc = "applying"
  BY <1>2, <1>5 DEF BootInv
<1>11. status # "Down"
  BY <1>2 DEF BootInv
<1> QED BY <1>6, <1>8, <1>9, <1>10, <1>11
        DEF BootInv, UnderWay, ReadyMeansCaughtUp, Recorded, Ingested

\* A row leaves the batch when it is ingested.
LEMMA ApplyRowRemaining ==
  ASSUME LedgerInv, BootInv, [Next]_vars, NEW p \in Polls, ApplyRow(p)
  PROVE  BootInv'
<1>1. PICK r \in Oldest(polls[p].rows) :
        /\ IF r \in Malformed THEN Bury(r) ELSE Append(r)
        /\ polls' = [polls EXCEPT ![p].cursor = stamp[r], ![p].rows = @ \ {r}]
  BY DEF ApplyRow
<1>2. /\ UnderWay(p) /\ polls'[p].pc = "applying"
      /\ polls'[p].src = polls[p].src
      /\ polls'[p].full = polls[p].full
      /\ polls'[p].rows = polls[p].rows \ {r}
      /\ \A q \in Polls : q # p => polls'[q] = polls[q]
      /\ r \in Events
  BY <1>1 DEF ApplyRow, UnderWay, LedgerInv, TypeOK, Poll, Oldest
<1>3. Ingested(r)'
  BY <1>1, <1>2 DEF LedgerInv, TypeOK, Ingested, Bury, Append, DeadCounts
<1>4. UNCHANGED <<stamp, status, atBoot>>
  BY DEF ApplyRow, Upstream, History
<1>5. \A e \in atBoot : Ingested(e) => Ingested(e)'
  BY IngestedStays DEF LedgerInv, BootInv
<1>6. \A q \in Polls : polls'[q].pc # "idle" => UnderWay(q)
  BY <1>2 DEF UnderWay
<1>7. ASSUME status = "Replaying" PROVE Remaining(polls[p])'
  <2>1. Remaining(polls[p]) /\ polls[p].pc = "applying"
    BY <1>2, <1>7 DEF BootInv, ApplyRow
  <2> QED BY <1>2, <1>3, <1>4, <1>5, <2>1 DEF Remaining
<1>8. status = "Replaying" =>
        \A q \in Polls : polls'[q].pc # "idle" => q = p
  BY <1>2, <1>6 DEF BootInv
<1>9. \A q \in Polls : polls'[q].full => polls'[q].rows # {} \/ polls'[q].pc = "applying"
  BY <1>2 DEF BootInv
<1>10. status # "Down"
  BY <1>2 DEF BootInv
<1> QED BY <1>4, <1>5, <1>7, <1>8, <1>9, <1>10
        DEF BootInv, UnderWay, ReadyMeansCaughtUp, Recorded

LEMMA BootInvInit == Init => BootInv
BY DEF Init, BootInv, UnderWay, IdlePoll, ReadyMeansCaughtUp

LEMMA BootInvStep ==
  ASSUME DistinctTimes, LedgerInv, BootInv, [Next]_vars
  PROVE  BootInv'
<1> USE DEF Upstream, Tables, History
<1>0. TypeOK
  BY DEF LedgerInv
<1>1. ASSUME Tick \/ Derive \/ UNCHANGED vars PROVE BootInv'
  BY <1>1 DEF Tick, Derive, vars, BootInv, Remaining, UnderWay, ReadyMeansCaughtUp,
              Recorded, Ingested
<1>2. ASSUME NEW e \in Events, Record(e) \/ Ingest(e) PROVE BootInv'
  <2>1. UNCHANGED <<status, polls, atBoot>>
    BY <1>2 DEF Record, Ingest
  <2>2. \A f \in atBoot : Ingested(f) => Ingested(f)'
    BY IngestedStays DEF LedgerInv, BootInv
  <2>3. \A f \in atBoot : f \in Events /\ Recorded(f)'
    BY StampStep DEF LedgerInv, BootInv, Recorded
  <2> QED BY <2>1, <2>2, <2>3 DEF BootInv, Remaining, UnderWay, ReadyMeansCaughtUp
<1>3. ASSUME NEW p \in Polls, Boot(p) PROVE BootInv'
  <2>1. polls' = [polls EXCEPT ![p] =
                    [pc |-> "asked", src |-> 1, cursor |-> cursors[1], rows |-> {},
                     full |-> FALSE]]
    BY <1>3 DEF Boot, Ask
  <2>2. /\ polls'[p].pc = "asked" /\ polls'[p].src = 1 /\ ~polls'[p].full
        /\ \A q \in Polls : q # p => polls'[q] = polls[q] /\ ~UnderWay(q)
    BY <1>0, <1>3, <2>1 DEF TypeOK, Boot, BootInv
  <2>3. \A e \in Events : Source[e] > 1 \/ Source[e] = 1
    BY EventsAssumption, SourcesAssumption DEF Sources
  <2>4. /\ atBoot' = {e \in Events : Recorded(e)} /\ status' = "Replaying"
        /\ UNCHANGED stamp
    BY <1>3 DEF Boot
  <2>5. Remaining(polls[p])'
    BY <2>2, <2>3, <2>4 DEF Remaining
  <2> QED BY <2>2, <2>4, <2>5 DEF BootInv, UnderWay, ReadyMeansCaughtUp, Recorded
<1>4. ASSUME NEW p \in Polls, StartPoll(p) PROVE BootInv'
  <2>1. \A q \in Polls : polls'[q] = polls[q] \/ ~polls'[q].full
    BY <1>0, <1>4 DEF StartPoll, Ask, TypeOK
  <2>2. /\ status = "Ready" /\ status' = "Ready"
        /\ UNCHANGED <<stamp, atBoot>>
    BY <1>4 DEF StartPoll
  <2> QED BY <1>0, <2>1, <2>2, ReadyStays DEF BootInv, Recorded
<1>5. ASSUME NEW p \in Polls, Serve(p) PROVE BootInv'
  BY <1>5, ServeRemaining
<1>6. ASSUME NEW p \in Polls, ApplyRow(p) PROVE BootInv'
  BY <1>6, ApplyRowRemaining
<1>7. ASSUME NEW p \in Polls, TakeBatch(p) PROVE BootInv'
  <2>1. /\ polls'[p] = [polls[p] EXCEPT !.pc = "applying"]
        /\ \A q \in Polls : q # p => polls'[q] = polls[q]
        /\ UNCHANGED <<stamp, status, ledger, dead, atBoot>>
        /\ polls[p].pc = "served"
    BY <1>0, <1>7 DEF TypeOK, TakeBatch
  <2>2. polls[p] \in Poll
    BY <1>0 DEF TypeOK
  <2>3. /\ polls'[p].src = polls[p].src /\ polls'[p].full = polls[p].full
        /\ polls'[p].rows = polls[p].rows /\ polls'[p].pc = "applying"
    BY <2>1, <2>2 DEF Poll
  <2>4. \A q \in Polls : UnderWay(q)' <=> UnderWay(q)
    BY <2>1, <2>3 DEF UnderWay
  <2>5. ASSUME NEW q \in Polls, Remaining(polls[q]) PROVE Remaining(polls[q])'
    <3>1. CASE q = p
      BY <2>1, <2>3, <2>5, <3>1 DEF Remaining, Ingested
    <3>2. CASE q # p
      BY <2>1, <2>5, <3>2 DEF Remaining, Ingested
    <3> QED BY <3>1, <3>2
  <2>6. ASSUME NEW q \in Polls, polls'[q].full
        PROVE  polls'[q].rows # {} \/ polls'[q].pc = "applying"
    <3>1. CASE q = p
      BY <2>3, <3>1
    <3>2. CASE q # p
      <4>1. polls'[q] = polls[q]
        BY <2>1, <3>2
      <4>2. polls[q].full
        BY <2>6, <4>1
      <4> QED BY <4>1, <4>2 DEF BootInv
    <3> QED BY <3>1, <3>2
  <2> QED BY <2>1, <2>4, <2>5, <2>6 DEF BootInv, ReadyMeansCaughtUp, Recorded, Ingested
<1>8. ASSUME NEW p \in Polls, UnderWay(p), polls[p].pc # "asked", ~polls[p].full,
             polls[p].rows = {}, NextSource(p),
             UNCHANGED <<stamp, last, ledger, dead, atBoot>>
      PROVE  BootInv'
  <2>1. CASE status = "Replaying"
    BY <1>0, <1>8, <2>1, NextSourceRemaining
  <2>2. CASE status # "Replaying"
    <3>1. status = "Ready"
      BY <1>0, <1>8, <2>2 DEF TypeOK, Statuses, BootInv
    <3>2. status' = "Ready"
      BY <1>8, <3>1 DEF NextSource
    <3>3. \A q \in Polls : polls'[q] = polls[q] \/ ~polls'[q].full
      BY <1>0, <1>8 DEF NextSource, Ask, TypeOK, IdlePoll
    <3>4. /\ \A e \in atBoot : Recorded(e)'
          /\ \A q \in Polls :
               polls'[q].full => polls'[q].rows # {} \/ polls'[q].pc = "applying"
      <4>1. ASSUME NEW q \in Polls, polls'[q].full
            PROVE  polls'[q].rows # {} \/ polls'[q].pc = "applying"
        <5>1. polls'[q] = polls[q]
          BY <3>3, <4>1
        <5>2. polls[q].full
          BY <4>1, <5>1
        <5> QED BY <5>1, <5>2 DEF BootInv
      <4> QED BY <1>8, <4>1 DEF BootInv, Recorded
    <3> QED BY <1>0, <1>8, <3>1, <3>2, <3>4, ReadyStays
  <2> QED BY <2>1, <2>2
<1>9. ASSUME NEW p \in Polls, EndBatch(p), polls[p].full PROVE BootInv'
  <2>1. /\ polls'[p].pc = "asked" /\ polls'[p].src = polls[p].src /\ ~polls'[p].full
        /\ \A q \in Polls : q # p => polls'[q] = polls[q]
        /\ UNCHANGED <<stamp, status, ledger, dead, atBoot>>
        /\ UnderWay(p)
    BY <1>0, <1>9 DEF EndBatch, Ask, TypeOK, UnderWay
  <2>2. status = "Replaying" => Remaining(polls[p])'
    BY <2>1 DEF BootInv, Remaining, Ingested
  <2> QED BY <2>1, <2>2 DEF BootInv, UnderWay, ReadyMeansCaughtUp, Recorded, Ingested
<1>10. ASSUME NEW p \in Polls, Throw(p) PROVE BootInv'
  <2>1. /\ polls' = [polls EXCEPT ![p] = IdlePoll]
        /\ status' = IF status = "Replaying" THEN "Down" ELSE status
        /\ UNCHANGED <<stamp, ledger, dead, atBoot>>
        /\ UnderWay(p)
    BY <1>10 DEF Throw, UnderWay
  <2>2. /\ polls'[p] = IdlePoll
        /\ \A q \in Polls : q # p => polls'[q] = polls[q]
    BY <1>0, <2>1 DEF TypeOK
  <2> QED BY <2>1, <2>2
          DEF BootInv, UnderWay, ReadyMeansCaughtUp, Recorded, Ingested, IdlePoll
<1>11. CASE Crash
  BY <1>11 DEF Crash, BootInv, UnderWay, ReadyMeansCaughtUp, Recorded, IdlePoll
<1>12. ASSUME NEW p \in Polls, Step(p) PROVE BootInv'
  <2>1. CASE EndBatch(p)
    <3>1. CASE polls[p].full
      BY <1>9, <2>1, <3>1
    <3>2. CASE ~polls[p].full
      BY <1>8, <2>1, <3>2 DEF EndBatch, UnderWay
    <3> QED BY <3>1, <3>2
  <2>2. CASE EmptyBatch(p)
    <3>1. ~polls[p].full
      BY <2>2 DEF EmptyBatch, BootInv
    <3> QED BY <1>8, <2>2, <3>1 DEF EmptyBatch, UnderWay
  <2>3. CASE Serve(p) \/ TakeBatch(p) \/ ApplyRow(p)
    BY <1>5, <1>6, <1>7, <2>3
  <2> QED BY <1>12, <2>1, <2>2, <2>3 DEF Step
<1> QED
  <2>1. CASE Next
    BY <1>1, <1>2, <1>3, <1>4, <1>10, <1>11, <1>12, <2>1 DEF Next
  <2>2. CASE UNCHANGED vars
    BY <1>1, <2>2
  <2> QED BY <2>1, <2>2

\* While no source records two events in one instant, the process calls itself
\* ready only when all that the sources held at its start is ingested.
THEOREM ReadyMeansCaughtUpCorrect ==
  ASSUME DistinctTimes PROVE Spec => []ReadyMeansCaughtUp
<1>1. Init => LedgerInv /\ BootInv
  BY LedgerInvInit, BootInvInit
<1>2. LedgerInv /\ BootInv /\ [Next]_vars => (LedgerInv /\ BootInv)'
  BY LedgerInvStep, BootInvStep
<1>3. BootInv => ReadyMeansCaughtUp
  BY DEF BootInv
<1> QED BY <1>1, <1>2, <1>3, PTL DEF Spec

-----------------------------------------------------------------------------
(* Derived events.                                                         *)

\* While the process does not die, every costing event in the ledger has its SLA
\* posting event, or the turn that appended it is about to append it.
THEOREM WipEventsPostedCorrect ==
  ASSUME MaxCrashes = 0 PROVE Spec => []WipEventsPosted
<1>1. Init => TypeOK /\ WipEventsPosted
  BY InitType DEF Init, WipEventsPosted
<1>2. TypeOK /\ WipEventsPosted /\ [Next]_vars => (TypeOK /\ WipEventsPosted)'
  <2> SUFFICES ASSUME TypeOK, WipEventsPosted, [Next]_vars PROVE WipEventsPosted'
    BY TypeStep
  <2>1. ASSUME NEW p \in Polls, ApplyRow(p) PROVE WipEventsPosted'
    <3>1. PICK e \in polls[p].rows : IF e \in Malformed THEN Bury(e) ELSE Append(e)
      BY <2>1 DEF ApplyRow, Oldest
    <3>2. UNCHANGED posting
      BY <2>1 DEF ApplyRow
    <3> QED BY <3>1, <3>2 DEF WipEventsPosted, Bury, Append
  <2>2. ASSUME NEW e \in Events, Ingest(e) PROVE WipEventsPosted'
    <3>1. posting = NoEvent /\ ledger' = ledger \cup {e} /\ UNCHANGED slas
      BY <2>2 DEF Ingest, LoopFree
    <3>2. posting' = IF e \in Costing \ ledger THEN e ELSE NoEvent
      BY <2>2 DEF Ingest
    <3> QED BY <3>1, <3>2, EventsAssumption DEF WipEventsPosted
  <2>3. CASE Derive
    BY <2>3 DEF WipEventsPosted, Derive
  <2>4. ~Crash
    BY DEF Crash, TypeOK
  <2>5. \/ \E p \in Polls : ApplyRow(p)
        \/ \E e \in Events : Ingest(e)
        \/ Derive
        \/ UNCHANGED <<ledger, slas, posting>>
    BY <2>4 DEF Next, vars, Step, Tables, Tick, Record, Boot, StartPoll, Serve, EmptyBatch,
         TakeBatch, EndBatch, Throw
  <2>6. CASE UNCHANGED <<ledger, slas, posting>>
    BY <2>6 DEF WipEventsPosted
  <2> QED BY <2>1, <2>2, <2>3, <2>5, <2>6
<1> QED BY <1>1, <1>2, PTL DEF Spec

-----------------------------------------------------------------------------
(* While polls do not overlap.                                             *)

\* A poll that is alone stands where the stored cursor does, with only later rows
\* in hand, none of them buried.
Alone(p) ==
  /\ UnderWay(p) => polls[p].cursor = cursors[polls[p].src]
  /\ ~UnderWay(p) => polls[p].rows = {}
  /\ \A r \in polls[p].rows :
       /\ Recorded(r) /\ Source[r] = polls[p].src
       /\ stamp[r] >= polls[p].cursor
       /\ dead[r] = 0

\* What has been buried lies behind the stored cursor.
DeadBehind ==
  \A e \in Events :
    /\ dead[e] <= 1
    /\ dead[e] = 1 => Recorded(e) /\ stamp[e] <= cursors[Source[e]]

SerialInv ==
  /\ \A p, q \in Polls : UnderWay(p) /\ UnderWay(q) => p = q
  /\ status = "Down" => \A p \in Polls : ~UnderWay(p)
  /\ \A p \in Polls : Alone(p)
  /\ DeadBehind

\* A poll that asks from the stored cursor is where it is.
LEMMA AskAlone ==
  ASSUME TypeOK, SerialInv, NEW p \in Polls, \A q \in Polls : UnderWay(q) => q = p,
         NEW s \in Sources, Ask(p, s, cursors[s]), UNCHANGED <<stamp, dead, cursors>>,
         status' # "Down"
  PROVE  SerialInv'
<1>1. /\ polls'[p].pc = "asked" /\ polls'[p].src = s /\ polls'[p].cursor = cursors[s]
      /\ polls'[p].rows = {}
      /\ \A q \in Polls : q # p => polls'[q] = polls[q] /\ polls[q].pc = "idle"
  BY DEF Ask, TypeOK, UnderWay
<1>2. \A q \in Polls : q # p => polls[q].rows = {}
  BY DEF SerialInv, Alone
<1> QED BY <1>1, <1>2 DEF SerialInv, Alone, DeadBehind, UnderWay, Recorded

\* The idle poll is where it should be.
LEMMA StopAlone ==
  ASSUME TypeOK, SerialInv, NEW p \in Polls, \A q \in Polls : UnderWay(q) => q = p,
         polls' = [polls EXCEPT ![p] = IdlePoll], UNCHANGED <<stamp, dead, cursors>>
  PROVE  SerialInv'
<1>1. /\ polls'[p].pc = "idle" /\ polls'[p].rows = {}
      /\ \A q \in Polls : q # p => polls'[q] = polls[q] /\ polls[q].pc = "idle"
  BY DEF IdlePoll, TypeOK, UnderWay
<1>2. \A q \in Polls : q # p => polls[q].rows = {}
  BY DEF SerialInv, Alone
<1> QED BY <1>1, <1>2 DEF SerialInv, Alone, DeadBehind, UnderWay, Recorded

LEMMA NextSourceAlone ==
  ASSUME TypeOK, SerialInv, NEW p \in Polls, UnderWay(p), NextSource(p),
         UNCHANGED <<stamp, dead, cursors>>
  PROVE  SerialInv'
<1>1. polls[p].src \in Sources /\ \A q \in Polls : UnderWay(q) => q = p
  BY DEF TypeOK, Poll, SerialInv
<1>2. CASE polls[p].src < NumSources
  <2>1. polls[p].src + 1 \in Sources
    BY <1>1, <1>2, SourcesAssumption DEF Sources
  <2> QED BY <1>1, <1>2, <2>1, AskAlone DEF NextSource, SerialInv
<1>3. CASE ~(polls[p].src < NumSources)
  BY <1>1, <1>3, StopAlone DEF NextSource
<1> QED BY <1>2, <1>3

\* A row is buried and passed in one transaction; no stored cursor goes back.
LEMMA ApplyRowAlone ==
  ASSUME TypeOK, SerialInv, NEW p \in Polls, ApplyRow(p)
  PROVE  /\ SerialInv'
         /\ \A s \in Sources : cursors'[s] >= cursors[s]
<1>1. PICK r \in Oldest(polls[p].rows) :
        /\ IF r \in Malformed THEN Bury(r) ELSE Append(r)
        /\ cursors' = [cursors EXCEPT ![polls[p].src] = stamp[r]]
        /\ polls' = [polls EXCEPT ![p].cursor = stamp[r], ![p].rows = @ \ {r}]
  BY DEF ApplyRow
<1>2. /\ polls[p] \in Poll /\ polls[p].src \in Sources
      /\ polls[p].rows \subseteq Events /\ r \in polls[p].rows /\ r \in Events
      /\ UnderWay(p)
      /\ \A q \in Polls : q # p => ~UnderWay(q) /\ polls[q].rows = {}
  BY DEF TypeOK, Poll, Oldest, ApplyRow, UnderWay, SerialInv, Alone
<1>3. /\ polls'[p].pc = polls[p].pc /\ polls'[p].src = polls[p].src
      /\ polls'[p].cursor = stamp[r] /\ polls'[p].rows = polls[p].rows \ {r}
      /\ \A q \in Polls : q # p => polls'[q] = polls[q]
  BY <1>1, <1>2 DEF TypeOK, Poll
<1>4. \A e \in polls[p].rows : /\ Recorded(e) /\ Source[e] = polls[p].src
                               /\ stamp[e] >= polls[p].cursor /\ dead[e] = 0
                               /\ stamp[r] <= stamp[e]
  BY DEF SerialInv, Alone, Oldest
<1>5. polls[p].cursor = cursors[polls[p].src]
  BY <1>2 DEF SerialInv, Alone
<1>6. /\ cursors'[polls[p].src] = stamp[r]
      /\ \A s \in Sources : s # polls[p].src => cursors'[s] = cursors[s]
      /\ \A s \in Sources : cursors[s] \in Nat
  BY <1>1, <1>2 DEF TypeOK
<1>7. \A s \in Sources : cursors'[s] >= cursors[s]
  BY <1>2, <1>4, <1>5, <1>6
<1>8. /\ UNCHANGED <<stamp, status>>
      /\ \A e \in Events : stamp[e] \in Nat /\ dead[e] \in DeadCounts
  BY DEF ApplyRow, Upstream, TypeOK
<1>9. /\ \A e \in Events : e # r => dead'[e] = dead[e]
      /\ dead'[r] <= 1
  BY <1>1, <1>2, <1>4 DEF Bury, Append, TypeOK
<1>10. Alone(p)'
  BY <1>2, <1>3, <1>4, <1>6, <1>8, <1>9 DEF Alone, UnderWay, Recorded
<1>11. DeadBehind'
  <2> SUFFICES ASSUME NEW e \in Events
               PROVE  /\ dead'[e] <= 1
                      /\ dead'[e] = 1 => Recorded(e) /\ stamp[e] <= cursors'[Source[e]]
    BY <1>8 DEF DeadBehind, Recorded
  <2>1. CASE e = r
    BY <1>2, <1>4, <1>6, <1>8, <1>9, <2>1
  <2>2. CASE e # r
    <3>1. Source[e] \in Sources
      BY EventsAssumption
    <3>2. cursors[Source[e]] \in Nat /\ cursors'[Source[e]] >= cursors[Source[e]]
      BY <1>6, <1>7, <3>1
    <3>3. cursors'[Source[e]] \in Nat
      BY <1>2, <1>6, <1>8, <3>1
    <3> QED BY <1>8, <1>9, <2>2, <3>2, <3>3 DEF SerialInv, DeadBehind
  <2> QED BY <2>1, <2>2
<1>12. ASSUME NEW q \in Polls, q # p PROVE Alone(q)' /\ ~UnderWay(q)'
  BY <1>2, <1>3, <1>12 DEF Alone, UnderWay
<1>13. status # "Down"
  BY <1>2 DEF SerialInv
<1> QED BY <1>7, <1>8, <1>10, <1>11, <1>12, <1>13 DEF SerialInv

LEMMA SerialInvInit == Init => SerialInv
<1> SUFFICES ASSUME Init PROVE SerialInv
  OBVIOUS
<1>1. \A p \in Polls : polls[p].pc = "idle" /\ polls[p].rows = {}
  BY DEF Init, IdlePoll
<1> QED BY <1>1 DEF Init, SerialInv, Alone, DeadBehind, UnderWay

LEMMA SerialInvStep ==
  ASSUME Serial, TypeOK, SerialInv, [Next]_vars
  PROVE  SerialInv'
<1> USE DEF Upstream, Tables, History
<1>1. CASE UNCHANGED <<stamp, status, polls, dead, cursors>>
  BY <1>1 DEF SerialInv, Alone, DeadBehind, UnderWay, Recorded
<1>2. ASSUME NEW e \in Events, Record(e) PROVE SerialInv'
  <2>1. /\ ~Recorded(e) /\ UNCHANGED <<status, polls, dead, cursors>>
        /\ \A f \in Events : f # e => stamp'[f] = stamp[f]
    BY <1>2 DEF Record, TypeOK
  <2>2. \A f \in Events : Recorded(f) => Recorded(f)' /\ stamp'[f] = stamp[f]
    BY <2>1 DEF Recorded
  <2>3. DeadBehind'
    BY <2>1, <2>2 DEF SerialInv, DeadBehind
  <2>4. ASSUME NEW p \in Polls PROVE Alone(p)'
    <3>1. polls[p].rows \subseteq Events
      BY DEF TypeOK, Poll
    <3> QED BY <2>1, <2>2, <3>1 DEF SerialInv, Alone, UnderWay
  <2> QED BY <2>1, <2>3, <2>4 DEF SerialInv, UnderWay
<1>3. ASSUME NEW p \in Polls, Boot(p) PROVE SerialInv'
  <2>1. 1 \in Sources
    BY SourcesAssumption DEF Sources
  <2>2. /\ \A q \in Polls : UnderWay(q) => q = p
        /\ Ask(p, 1, cursors[1]) /\ status' # "Down"
        /\ UNCHANGED <<stamp, dead, cursors>>
    BY <1>3 DEF Boot, SerialInv
  <2> QED BY <2>1, <2>2, AskAlone
<1>4. ASSUME NEW p \in Polls, StartPoll(p) PROVE SerialInv'
  <2>1. 1 \in Sources
    BY SourcesAssumption DEF Sources
  <2>2. /\ \A q \in Polls : UnderWay(q) => q = p
        /\ Ask(p, 1, cursors[1]) /\ status' # "Down"
        /\ UNCHANGED <<stamp, dead, cursors>>
    BY <1>4 DEF StartPoll
  <2> QED BY <2>1, <2>2, AskAlone
<1>5. ASSUME NEW p \in Polls, Serve(p) PROVE SerialInv'
  <2>1. PICK rows \in Batches(polls[p].src, polls[p].cursor) :
          polls' = [polls EXCEPT ![p].pc = "served", ![p].rows = rows,
                                 ![p].full = Cardinality(rows) = BatchSize]
    BY <1>5 DEF Serve
  <2>2. /\ polls'[p].pc = "served" /\ polls'[p].src = polls[p].src
        /\ polls'[p].cursor = polls[p].cursor /\ polls'[p].rows = rows
        /\ \A q \in Polls : q # p => polls'[q] = polls[q]
        /\ polls[p].pc = "asked" /\ polls[p].src \in Sources
        /\ polls[p].cursor \in Nat
        /\ UNCHANGED <<stamp, status, dead, cursors>>
    BY <1>5, <2>1 DEF Serve, TypeOK, Poll
  <2>3. \A r \in rows : /\ r \in Events /\ Recorded(r) /\ Source[r] = polls[p].src
                        /\ stamp[r] > polls[p].cursor /\ stamp[r] \in Nat
    BY DEF Batches, Behind, TypeOK
  <2>4. polls[p].cursor = cursors[polls[p].src]
    BY <2>2 DEF SerialInv, Alone, UnderWay
  <2>5. \A r \in rows : dead[r] = 0 /\ stamp[r] >= polls[p].cursor
    <3>1. \A r \in rows : dead[r] # 1
      BY <2>2, <2>3, <2>4 DEF SerialInv, DeadBehind, TypeOK
    <3>2. \A r \in rows : dead[r] \in DeadCounts /\ dead[r] <= 1
      BY <2>3 DEF SerialInv, DeadBehind, TypeOK
    <3> QED BY <2>2, <2>3, <3>1, <3>2 DEF DeadCounts
  <2>6. Alone(p)'
    BY <2>2, <2>3, <2>4, <2>5 DEF Alone, UnderWay, Recorded
  <2>7. ASSUME NEW q \in Polls, q # p PROVE Alone(q)'
    BY <2>2, <2>7 DEF SerialInv, Alone, UnderWay, Recorded
  <2>8. \A q \in Polls : UnderWay(q)' <=> UnderWay(q)
    BY <2>2 DEF UnderWay
  <2>9. DeadBehind'
    BY <2>2 DEF SerialInv, DeadBehind, Recorded
  <2> QED BY <2>2, <2>6, <2>7, <2>8, <2>9 DEF SerialInv
<1>6. ASSUME NEW p \in Polls, EmptyBatch(p) PROVE SerialInv'
  BY <1>6, NextSourceAlone DEF EmptyBatch, UnderWay
<1>7. ASSUME NEW p \in Polls, TakeBatch(p) PROVE SerialInv'
  <2>1. /\ polls'[p].pc = "applying" /\ polls'[p].src = polls[p].src
        /\ polls'[p].cursor = polls[p].cursor /\ polls'[p].rows = polls[p].rows
        /\ \A q \in Polls : q # p => polls'[q] = polls[q]
        /\ polls[p].pc = "served"
        /\ UNCHANGED <<stamp, status, dead, cursors>>
    BY <1>7 DEF TakeBatch, TypeOK, Poll
  <2>2. \A q \in Polls : UnderWay(q)' <=> UnderWay(q)
    BY <2>1 DEF UnderWay
  <2>3. ASSUME NEW q \in Polls PROVE Alone(q)'
    <3>1. Alone(q)
      BY DEF SerialInv
    <3>2. CASE q = p
      BY <2>1, <3>1, <3>2 DEF Alone, UnderWay, Recorded
    <3>3. CASE q # p
      BY <2>1, <3>1, <3>3 DEF Alone, UnderWay, Recorded
    <3> QED BY <3>2, <3>3
  <2>4. DeadBehind'
    BY <2>1 DEF SerialInv, DeadBehind, Recorded
  <2> QED BY <2>1, <2>2, <2>3, <2>4 DEF SerialInv
<1>8. ASSUME NEW p \in Polls, ApplyRow(p) PROVE SerialInv'
  BY <1>8, ApplyRowAlone
<1>9. ASSUME NEW p \in Polls, EndBatch(p) PROVE SerialInv'
  <2>1. UnderWay(p) /\ UNCHANGED <<stamp, dead, cursors>>
    BY <1>9 DEF EndBatch, UnderWay
  <2>2. CASE polls[p].full
    <3>1. Ask(p, polls[p].src, polls[p].cursor) /\ status' = status
      BY <1>9, <2>2 DEF EndBatch
    <3>2. polls[p].src \in Sources /\ polls[p].cursor = cursors[polls[p].src]
      BY <2>1 DEF TypeOK, Poll, SerialInv, Alone
    <3>3. (\A q \in Polls : UnderWay(q) => q = p) /\ status # "Down"
      BY <2>1 DEF SerialInv
    <3> QED BY <2>1, <3>1, <3>2, <3>3, AskAlone
  <2>3. CASE ~polls[p].full
    BY <1>9, <2>1, <2>3, NextSourceAlone DEF EndBatch
  <2> QED BY <2>2, <2>3
<1>10. ASSUME NEW p \in Polls, Throw(p) PROVE SerialInv'
  <2>1. \A q \in Polls : UnderWay(q) => q = p
    BY <1>10 DEF Throw, UnderWay, SerialInv
  <2> QED BY <1>10, <2>1, StopAlone DEF Throw
<1>11. CASE Crash
  <2>1. \A q \in Polls : polls'[q].pc = "idle" /\ polls'[q].rows = {}
    BY <1>11 DEF Crash, IdlePoll
  <2> QED BY <1>11, <2>1 DEF Crash, SerialInv, Alone, DeadBehind, UnderWay, Recorded
<1>12. ASSUME NEW p \in Polls, Step(p) PROVE SerialInv'
  BY <1>5, <1>6, <1>7, <1>8, <1>9, <1>12 DEF Step
<1> QED
  <2>1. CASE Tick \/ Derive \/ (\E e \in Events : Ingest(e)) \/ UNCHANGED vars
    BY <1>1, <2>1 DEF Tick, Derive, Ingest, vars
  <2> QED BY <1>2, <1>3, <1>4, <1>10, <1>11, <1>12, <2>1 DEF Next

\* While polls do not overlap, the poll under way stands where the stored cursor
\* does, and what is buried lies behind it.
THEOREM SerialInvCorrect == ASSUME Serial PROVE Spec => [](TypeOK /\ SerialInv)
<1>1. Init => TypeOK /\ SerialInv
  BY InitType, SerialInvInit
<1>2. TypeOK /\ SerialInv /\ [Next]_vars => (TypeOK /\ SerialInv)'
  BY TypeStep, SerialInvStep
<1> QED BY <1>1, <1>2, PTL DEF Spec

\* While polls do not overlap, an event is buried at most once, crashes or not.
THEOREM BuriedOnceCorrect == ASSUME Serial PROVE Spec => []BuriedOnce
<1>1. TypeOK /\ SerialInv => BuriedOnce
  BY DEF SerialInv, DeadBehind, BuriedOnce
<1> QED BY <1>1, SerialInvCorrect, PTL

\* While polls do not overlap, no stored cursor ever goes back.
THEOREM CursorsAdvanceCorrect == ASSUME Serial PROVE Spec => CursorsAdvance
<1>1. TypeOK /\ SerialInv /\ [Next]_vars
        => [\A s \in Sources : cursors'[s] >= cursors[s]]_vars
  <2> SUFFICES ASSUME TypeOK, SerialInv, [Next]_vars
               PROVE  \A s \in Sources : cursors'[s] >= cursors[s]
    OBVIOUS
  <2>1. CASE \E p \in Polls : ApplyRow(p)
    BY <2>1, ApplyRowAlone
  <2>2. CASE UNCHANGED cursors
    BY <2>2 DEF TypeOK
  <2>3. (\E p \in Polls : ApplyRow(p)) \/ UNCHANGED cursors
    BY DEF Next, vars, Step, Tables, Tick, Record, Ingest, Boot, StartPoll, Serve,
         EmptyBatch, TakeBatch, EndBatch, Throw, Derive, Crash
  <2> QED BY <2>1, <2>2, <2>3
<1> QED BY <1>1, SerialInvCorrect, PTL DEF Spec, CursorsAdvance

=============================================================================
