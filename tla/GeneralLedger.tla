--------------------------- MODULE GeneralLedger ---------------------------
(***************************************************************************)
(* The general ledger of services/foundation-erp: fiscal periods           *)
(* (domain/r2r/fiscal/fiscalService.ts), journals entered by hand          *)
(* (domain/r2r/journal/journalService.ts), and the journals that invoices, *)
(* payments and labour post of themselves and that a cancellation reverses *)
(* (domain/p2p/accounting/p2pPostingService.ts).                           *)
(*                                                                         *)
(* A line debits or credits one account: net is its debit, or its credit   *)
(* with a minus sign.  There is one ledger and one fiscal year, and every  *)
(* handler is one transaction.                                             *)
(***************************************************************************)
EXTENDS Integers, Sequences, FiniteSets, Functions

CONSTANTS
  Periods,        \* numbers of the year's periods
  CurrentPeriod,  \* the month it is
  ManualJournals, \* created through the API
  SystemJournals, \* posted by a document or its cancellation
  Documents,
  Accounts,
  Nets,           \* what a line may debit or, negated, credit
  DebitAccount, CreditAccount, \* of a document's posting
  MaxLines,       \* bound on the lines of a manual journal
  NoJournal

Journals == ManualJournals \cup SystemJournals

ASSUME GeneralLedgerAssumption ==
  /\ IsFiniteSet(Journals) /\ IsFiniteSet(Accounts)
  /\ Periods \subseteq Nat /\ CurrentPeriod \in Periods
  /\ ManualJournals \cap SystemJournals = {}
  /\ NoJournal \notin Journals
  /\ Nets \subseteq Nat \ {0}
  /\ DebitAccount \in Accounts /\ CreditAccount \in Accounts
  /\ MaxLines \in Nat

VARIABLES
  period,    \* r2r_fiscal_period.state, by number
  journal,   \* r2r_journal and r2r_journal_line
  entries,   \* r2r_ledger_entry, by journal
  reversal,  \* r2r_journal_reversal
  document   \* an invoice's or a payment's state and accounting_journal_id

glVars == <<period, journal, entries, reversal, document>>

-----------------------------------------------------------------------------
NewJournal == [state |-> "None", period |-> 0, lines |-> <<>>]

GeneralLedgerInit ==
  /\ period = [p \in Periods |-> "None"]
  /\ journal = [j \in Journals |-> NewJournal]
  /\ entries = [j \in Journals |-> <<>>]
  /\ reversal = [j \in Journals |-> NoJournal]
  /\ document = [d \in Documents |-> [state |-> "Draft", journal |-> NoJournal]]

-----------------------------------------------------------------------------
\* Fiscal periods.

PeriodMoves == {<<"Open", "Closing">>, <<"Open", "Closed">>, <<"Closing", "Closed">>,
                <<"Closed", "Locked">>}

CreateFiscalPeriod(p) ==
  /\ period[p] = "None"
  /\ period' = [period EXCEPT ![p] = "Open"]
  /\ UNCHANGED <<journal, entries, reversal, document>>

UpdateFiscalPeriodState(p, to) ==
  /\ <<period[p], to>> \in PeriodMoves
  /\ period' = [period EXCEPT ![p] = to]
  /\ UNCHANGED <<journal, entries, reversal, document>>

-----------------------------------------------------------------------------
\* Journals entered by hand.

Line(a, n) == [account |-> a, net |-> n]
NetOf(lines) == SumFunction([i \in DOMAIN lines |-> lines[i].net])
AccountsOf(lines) == {lines[i].account : i \in DOMAIN lines}

CreateJournal(j, p) ==
  /\ journal[j].state = "None" /\ period[p] = "Open"
  /\ journal' = [journal EXCEPT ![j] = [state |-> "Draft", period |-> p, lines |-> <<>>]]
  /\ UNCHANGED <<period, entries, reversal, document>>

\* Mutant: a line is added to a journal in any state.
AddJournalLineLate(j, a, n) ==
  /\ journal[j].state # "None" /\ Len(journal[j].lines) < MaxLines
  /\ journal' = [journal EXCEPT ![j].lines = Append(@, Line(a, n))]
  /\ UNCHANGED <<period, entries, reversal, document>>
AddJournalLine(j, a, n) ==
  /\ journal[j].state = "Draft" /\ Len(journal[j].lines) < MaxLines
  /\ journal' = [journal EXCEPT ![j].lines = Append(@, Line(a, n))]
  /\ UNCHANGED <<period, entries, reversal, document>>

Balanced(lines) ==
  /\ Len(lines) >= 2
  /\ Cardinality(AccountsOf(lines)) >= 2
  /\ NetOf(lines) = 0
\* Whatever the period's state is by now.
PostJournal(j) ==
  /\ journal[j].state = "Draft" /\ Balanced(journal[j].lines)
  /\ journal' = [journal EXCEPT ![j].state = "Posted"]
  /\ entries' = [entries EXCEPT ![j] = journal[j].lines]
  /\ UNCHANGED <<period, reversal, document>>

\* Through the API a reversal is a state and nothing more.
ReverseJournal(j) ==
  /\ journal[j].state = "Posted"
  /\ journal' = [journal EXCEPT ![j].state = "Reversed"]
  /\ UNCHANGED <<period, entries, reversal, document>>

CancelJournal(j) ==
  /\ journal[j].state = "Draft"
  /\ journal' = [journal EXCEPT ![j].state = "Cancelled"]
  /\ UNCHANGED <<period, entries, reversal, document>>

-----------------------------------------------------------------------------
\* Journals of documents.

\* getOrCreateOpenFiscalPeriodId: the latest open period; when there is none the
\* current month is opened, whatever its state was.
OpenPeriods == {p \in Periods : period[p] = "Open"}
IsPostingPeriod(p) ==
  IF OpenPeriods = {} THEN p = CurrentPeriod
  ELSE p \in OpenPeriods /\ \A q \in OpenPeriods : q <= p

\* A posted journal with its entries, in the period for posting.
Post(j, p, lines, others) ==
  /\ IsPostingPeriod(p)
  /\ period' = [period EXCEPT ![p] = "Open"]
  /\ journal' = [others EXCEPT ![j] = [state |-> "Posted", period |-> p, lines |-> lines]]
  /\ entries' = [entries EXCEPT ![j] = lines]

\* createAndPostP2PJournal, in the transaction of an invoice, a payment or labour.
PostDocument(d, j, p, n) ==
  /\ document[d].state = "Draft" /\ journal[j].state = "None"
  /\ Post(j, p, <<Line(DebitAccount, n), Line(CreditAccount, 0 - n)>>, journal)
  /\ document' = [document EXCEPT ![d] = [state |-> "Posted", journal |-> j]]
  /\ UNCHANGED reversal

\* Mutant: the lines are copied with their signs.
MirroredNot(lines) == lines
Mirrored(lines) == [i \in DOMAIN lines |-> Line(lines[i].account, 0 - lines[i].net)]

\* reversePostedJournal, in the transaction of an invoice's cancellation: a journal
\* that the API has reversed refuses, and the cancellation with it.
CancelDocument(d, k, p) ==
  LET j == document[d].journal
  IN  /\ document[d].state = "Posted" /\ journal[k].state = "None"
      /\ journal[j].state = "Posted" /\ reversal[j] = NoJournal
      /\ Post(k, p, Mirrored(journal[j].lines), [journal EXCEPT ![j].state = "Reversed"])
      /\ reversal' = [reversal EXCEPT ![j] = k]
      /\ document' = [document EXCEPT ![d].state = "Cancelled"]

-----------------------------------------------------------------------------
GeneralLedgerNext ==
  \/ \E p \in Periods : CreateFiscalPeriod(p)
  \/ \E p \in Periods, to \in {"Closing", "Closed", "Locked"} : UpdateFiscalPeriodState(p, to)
  \/ \E j \in ManualJournals, p \in Periods : CreateJournal(j, p)
  \/ \E j \in Journals, a \in Accounts, n \in Nets : AddJournalLine(j, a, n) \/ AddJournalLine(j, a, 0 - n)
  \/ \E j \in Journals : PostJournal(j) \/ ReverseJournal(j) \/ CancelJournal(j)
  \/ \E d \in Documents, j \in SystemJournals, p \in Periods, n \in Nets : PostDocument(d, j, p, n)
  \/ \E d \in Documents, k \in SystemJournals, p \in Periods : CancelDocument(d, k, p)

GeneralLedgerSpec == GeneralLedgerInit /\ [][GeneralLedgerNext]_glVars

-----------------------------------------------------------------------------
\* getTrialBalance: by account, over the period and those before it.
UpTo(p) == {j \in Journals : journal[j].state # "None" /\ journal[j].period <= p}
OnAccount(lines, a) ==
  SumFunctionOnSet([i \in DOMAIN lines |-> lines[i].net], {i \in DOMAIN lines : lines[i].account = a})
TrialBalance(p) ==
  [a \in Accounts |-> SumFunctionOnSet([j \in Journals |-> OnAccount(entries[j], a)], UpTo(p))]

-----------------------------------------------------------------------------
LineType == [account : Accounts, net : Int]

\* Every table holds what its columns allow.
GeneralLedgerTypeOK ==
  /\ period \in [Periods -> {"None", "Open", "Closing", "Closed", "Locked"}]
  /\ journal \in [Journals -> [state : {"None", "Draft", "Posted", "Reversed", "Cancelled"},
                              period : Periods \cup {0}, lines : Seq(LineType)]]
  /\ entries \in [Journals -> Seq(LineType)]
  /\ reversal \in [Journals -> Journals \cup {NoJournal}]
  /\ document \in [Documents -> [state : {"Draft", "Posted", "Cancelled"},
                                journal : Journals \cup {NoJournal}]]

\* The ledger holds a journal's lines from its posting on, and of no other journal.
EntriesFollow ==
  \A j \in Journals :
    entries[j] = IF journal[j].state \in {"Posted", "Reversed"} THEN journal[j].lines ELSE <<>>

\* A reversal is a journal of its own that mirrors the one it reverses.
ReversalsMirror ==
  \A j \in Journals : reversal[j] # NoJournal =>
    /\ reversal[j] # j
    /\ journal[j].state = "Reversed"
    /\ entries[reversal[j]] = Mirrored(entries[j])

\* No two documents share a journal, and no two journals a reversal.
JournalsAreOwn ==
  /\ \A d, e \in Documents : d # e /\ document[d].journal = document[e].journal
                               => document[d].journal = NoJournal
  /\ \A i, j \in Journals : i # j /\ reversal[i] = reversal[j] => reversal[i] = NoJournal

\* A document's journal reached the ledger, and a cancelled document's was mirrored.
DocumentsArePosted ==
  \A d \in Documents :
    /\ document[d].state = "Draft" <=> document[d].journal = NoJournal
    /\ document[d].state # "Draft" => journal[document[d].journal].state \in {"Posted", "Reversed"}
    /\ document[d].state = "Cancelled" => reversal[document[d].journal] # NoJournal

\* The ledger follows the journals, the documents and their cancellations: posting
\* writes a journal's lines once, cancelling writes them mirrored, once.
LedgerFollowsJournals ==
  EntriesFollow /\ ReversalsMirror /\ JournalsAreOwn /\ DocumentsArePosted

\* At every moment the trial balance of every period adds up to nothing, and on
\* each account a cancelled document leaves nothing.
BooksBalance ==
  /\ \A p \in Periods : period[p] # "None" => SumFunction(TrialBalance(p)) = 0
  /\ \A d \in Documents : document[d].state = "Cancelled" =>
       \A a \in Accounts : OnAccount(entries[document[d].journal], a)
                             + OnAccount(entries[reversal[document[d].journal]], a) = 0

\* A locked period's figures are final.  They are not: a journal drafted while the
\* period was open can be posted after it, and automatic posting opens the current
\* month again.
LockedIsFinal ==
  [][\A p \in Periods : period[p] = "Locked" =>
       /\ period'[p] = "Locked"
       /\ \A j \in Journals : journal[j].period = p => entries'[j] = entries[j]]_glVars

\* A reversed journal has been undone in the ledger.  Not when the API reversed it.
ReversedIsUndone ==
  \A j \in Journals : journal[j].state = "Reversed" => reversal[j] # NoJournal
=============================================================================
