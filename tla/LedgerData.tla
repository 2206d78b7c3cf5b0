----------------------------- MODULE LedgerData -----------------------------
(***************************************************************************)
(* The data of the ledger and the pure functions of server/ledger: journal *)
(* lines, the double-entry check of PostJournalEntry, the schema's CHECK   *)
(* and FOREIGN KEY clauses, the swapped copy a reversal inserts, and the   *)
(* balances derived from the journal.                                      *)
(***************************************************************************)
EXTENDS Integers, SequencesExt

CONSTANTS
    Users,        \* ids of user rows; the actors of every ledger operation
    Dates,        \* entry dates and lock dates, as their rank in text order
    AccountIds,   \* account ids a request may name
    AccountType,  \* the accounts table: existing account id -> type
    FundIds,      \* fund ids a request may name
    Funds,        \* the funds table: the fund ids that exist
    Postings,     \* the line sequences a client may submit
    IntWidth      \* width in bits of the amounts' machine integers

Accounts == DOMAIN AccountType
AccountTypes == {"asset", "liability", "equity", "revenue", "expense"}

\* The column is NULL when the line carries no functional category.
NoCategory == "null"
Categories == {"program", "management_general", "fundraising"}

\* The rank below every date: accounting_periods has no row yet.
NoLock == 0
LockDates == Dates \cup {NoLock}

\* A reversal names the entry it reverses; NULL for every other entry.
NoOriginal == 0

\* One line, as posted and as stored.
Line == [account  : AccountIds,
         fund     : FundIds,
         category : Categories \cup {NoCategory, "other"},
         debit    : Int,
         credit   : Int]

ASSUME DatesAssumption == Dates \subseteq Nat \ {NoLock}
ASSUME AccountsAssumption ==
    /\ Accounts \subseteq AccountIds
    /\ \A a \in Accounts : AccountType[a] \in AccountTypes
ASSUME FundsAssumption == Funds \subseteq FundIds
ASSUME PostingsAssumption == \A lines \in Postings : lines \in Seq(Line)
ASSUME IntWidthAssumption == IntWidth \in Nat \ {0}
\* Arithmetic that is true of every width, of which the provers know nothing.
ASSUME PowersAssumption ==
    /\ 2^(IntWidth - 1) \in Nat \ {0}
    /\ 2^IntWidth = 2 * 2^(IntWidth - 1)

-----------------------------------------------------------------------------
(* Amounts. *)

\* The running total of a column of integers, as the loops of the code add it.
Total(column) ==
    LET sum[n \in 0 .. Len(column)] ==
            IF n = 0 THEN 0 ELSE sum[n - 1] + column[n]
    IN  sum[Len(column)]

DebitColumn(lines)  == [i \in DOMAIN lines |-> lines[i].debit]
CreditColumn(lines) == [i \in DOMAIN lines |-> lines[i].credit]

\* What a signed integer of IntWidth bits keeps of the exact value x.
Wrap(x) == LET half == 2^(IntWidth - 1) IN ((x + half) % 2^IntWidth) - half

\* Seeded fault: an entry only has to carry a total, not to balance.
BalancesOneSided(lines) == Wrap(Total(DebitColumn(lines))) # 0

\* balances(): the sums are machine integers, so they wrap. Wrapping every
\* partial sum gives what wrapping the exact total once gives.
Balances(lines) ==
    LET debits  == Wrap(Total(DebitColumn(lines)))
        credits == Wrap(Total(CreditColumn(lines)))
    IN  debits = credits /\ debits # 0

\* The entry balances as exact integers.
BalancesExactly(lines) ==
    Total(DebitColumn(lines)) = Total(CreditColumn(lines))

\* The entry's totals are such that the machine integers hold them exactly.
TotalsFit(lines) ==
    /\ Wrap(Total(DebitColumn(lines))) = Total(DebitColumn(lines))
    /\ Wrap(Total(CreditColumn(lines))) = Total(CreditColumn(lines))

-----------------------------------------------------------------------------
(* What PostJournalEntry and the schema demand of lines and dates. *)

\* The test of an entry date against the locked-through date.
InLockedPeriod(date, locked) == date <= locked

\* Checks 1 and 2 of PostJournalEntry, made before any transaction.
WellFormed(lines) == lines # << >> /\ Balances(lines)

\* Seeded fault: the functional category is never asked for.
AcceptableAccountsOnly(lines) ==
    \A i \in DOMAIN lines : lines[i].account \in Accounts

\* Check 4: every account exists, and an expense line has its category.
AcceptableAccounts(lines) ==
    \A i \in DOMAIN lines :
        /\ lines[i].account \in Accounts
        /\ AccountType[lines[i].account] = "expense"
              => lines[i].category # NoCategory

\* The CHECK clauses of journal_lines. A NULL category passes.
SatisfiesChecks(line) ==
    /\ line.category \in Categories \cup {NoCategory}
    /\ line.debit >= 0 /\ line.credit >= 0
    /\ ~ (line.debit > 0 /\ line.credit > 0)

\* The FOREIGN KEY clauses of journal_lines.
ReferencesRows(line) == line.account \in Accounts /\ line.fund \in Funds

-----------------------------------------------------------------------------
(* Journal entries and reversals. *)

\* An entry with its lines. A reversal is an entry that names an original
\* (the code also marks it with source "reversal").
Entry == [date : Dates, lines : Seq(Line), reverses : Nat, by : Users]

IsReversal(entry) == entry.reverses # NoOriginal

\* Seeded fault: the reversal copies the lines as they are.
SwappedNot(lines) == lines

\* The lines a reversal inserts: debit and credit change places.
Swapped(lines) ==
    [i \in DOMAIN lines |->
        [lines[i] EXCEPT !.debit = lines[i].credit, !.credit = lines[i].debit]]

-----------------------------------------------------------------------------
(* Audit rows. *)

AuditRow == [actor  : Users,
             action : {"create", "reversal", "lock_period"},
             id     : Nat,
             detail : LockDates]

\* Seeded fault: the row of a reversal has an action word of its own.
EntryAuditRowUnheardOf(entry, id) ==
    [actor  |-> entry.by,
     action |-> IF IsReversal(entry) THEN "reverse" ELSE "create",
     id     |-> id,
     detail |-> NoLock]

\* The row audit.Write makes for entry number id (its free text left out).
EntryAuditRow(entry, id) ==
    [actor  |-> entry.by,
     action |-> IF IsReversal(entry) THEN "reversal" ELSE "create",
     id     |-> id,
     detail |-> NoLock]

\* The row of a period lock; its detail is the through date.
LockAuditRow(user, date) ==
    [actor |-> user, action |-> "lock_period", id |-> 1, detail |-> date]

IsLockRow(row) == row.action = "lock_period"

-----------------------------------------------------------------------------
(* Derived balances. *)

\* What a sequence of lines adds to a fund, in debits less credits.
LinesBalance(lines, fund) ==
    Total([i \in DOMAIN lines |->
              IF lines[i].fund = fund THEN lines[i].debit - lines[i].credit
                                      ELSE 0])

\* FundBalance: recomputed from the whole journal on every call.
FundBalance(journal, fund) ==
    Total([n \in DOMAIN journal |-> LinesBalance(journal[n].lines, fund)])

\* The funds with at least one posted line.
PostedFunds(journal) ==
    {f \in FundIds : \E n \in DOMAIN journal :
                        \E i \in DOMAIN journal[n].lines :
                            journal[n].lines[i].fund = f}

\* TrialBalance: one balance for each fund with a posting.
TrialBalance(journal) ==
    [f \in PostedFunds(journal) |-> FundBalance(journal, f)]

-----------------------------------------------------------------------------
(* Properties of a journal and of its audit log, used by every module that *)
(* keeps them.                                                             *)

\* Every entry balances as the code computes it: reversals included.
JournalBalanced(journal) ==
    \A n \in DOMAIN journal : WellFormed(journal[n].lines)

\* No entry of the journal has totals that wrapped.
JournalFits(journal) == \A n \in DOMAIN journal : TotalsFit(journal[n].lines)

\* Every expense line ever posted carries a functional category.
JournalCategorised(journal) ==
    \A n \in DOMAIN journal : \A i \in DOMAIN journal[n].lines :
        LET line == journal[n].lines[i]
        IN  /\ line.account \in Accounts
            /\ AccountType[line.account] = "expense" => line.category # NoCategory

\* A reversal names an earlier entry, carries its date, and its lines are
\* the original's with debit and credit exchanged.
JournalReversalsNegate(journal) ==
    \A n \in DOMAIN journal :
        IsReversal(journal[n]) =>
            LET original == journal[n].reverses
            IN  /\ original \in 1 .. n - 1
                /\ journal[n].date = journal[original].date
                /\ journal[n].lines = Swapped(journal[original].lines)

\* The balances of all funds, recomputed from the journal, sum to zero.
JournalReconciles(journal) ==
    FoldFunction(LAMBDA a, b : a + b, 0, TrialBalance(journal)) = 0

\* A reversal and its original cancel out in every fund.
JournalReversalsCancel(journal) ==
    \A n \in DOMAIN journal :
        IsReversal(journal[n]) =>
            \A f \in FundIds :
                LinesBalance(journal[n].lines, f)
                  + LinesBalance(journal[journal[n].reverses].lines, f) = 0

JournalSound(journal) ==
    /\ JournalBalanced(journal)
    /\ JournalCategorised(journal)
    /\ JournalReversalsNegate(journal)

\* Every entry has one audit row, with its actor and its kind, and every
\* other row is that of a period lock.
AuditMatchesJournal(audit, journal) ==
    /\ \A n \in DOMAIN journal :
         \E i \in DOMAIN audit :
            /\ audit[i] = EntryAuditRow(journal[n], n)
            /\ \A j \in DOMAIN audit :
                 audit[j].id = n /\ ~ IsLockRow(audit[j]) => j = i
    /\ \A i \in DOMAIN audit :
         IsLockRow(audit[i]) \/ audit[i].id \in DOMAIN journal

\* The locked-through date is that of the last lock_period row, and there
\* is none before the first.
AuditMatchesLock(audit, locked) ==
    /\ (\A i \in DOMAIN audit : ~ IsLockRow(audit[i])) => locked = NoLock
    /\ \A i \in DOMAIN audit :
         IsLockRow(audit[i]) /\ (\A j \in DOMAIN audit : IsLockRow(audit[j]) => j <= i)
            => locked = audit[i].detail

AuditSound(audit, journal, locked) ==
    /\ AuditMatchesJournal(audit, journal)
    /\ AuditMatchesLock(audit, locked)
=============================================================================
