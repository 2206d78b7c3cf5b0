--------------------------- MODULE AbstractLedger ---------------------------
(***************************************************************************)
(* What the ledger promises its users: posting an entry, reversing one and *)
(* locking a period each happen at once or not at all, and each leaves one *)
(* audit row. Ledger.tla, where the operations are transactions of several *)
(* statements that interleave and fail, implements this module.            *)
(***************************************************************************)
EXTENDS LedgerData

VARIABLES
    journal,   \* the committed entries, in id order
    locked,    \* the locked-through date, or NoLock
    audit      \* the committed audit rows, in id order

vars == <<journal, locked, audit>>

TypeOK ==
    /\ journal \in Seq(Entry)
    /\ locked \in LockDates
    /\ audit \in Seq(AuditRow)

Init ==
    /\ journal = << >>
    /\ locked = NoLock
    /\ audit = << >>

\* Seeded fault: the audit row names the entry before.
AppendEntryMisnumbered(entry) ==
    /\ journal' = Append(journal, entry)
    /\ audit' = Append(audit, EntryAuditRow(entry, Len(journal)))
    /\ UNCHANGED locked

\* Both kinds of entry end the same way: one entry, one audit row.
AppendEntry(entry) ==
    /\ journal' = Append(journal, entry)
    /\ audit' = Append(audit, EntryAuditRow(entry, Len(journal) + 1))
    /\ UNCHANGED locked

\* posting.go PostJournalEntry, all its checks made on the state it commits to.
PostJournalEntry(user, date, lines) ==
    /\ WellFormed(lines)
    /\ ~ InLockedPeriod(date, locked)
    /\ AcceptableAccounts(lines)
    /\ \A i \in DOMAIN lines : SatisfiesChecks(lines[i])
    /\ AppendEntry([date |-> date, lines |-> lines,
                    reverses |-> NoOriginal, by |-> user])

\* reversal.go ReverseJournalEntry: any entry, of any period, any number of times.
ReverseJournalEntry(user, id) ==
    /\ id \in DOMAIN journal
    /\ AppendEntry([date |-> journal[id].date,
                    lines |-> Swapped(journal[id].lines),
                    reverses |-> id, by |-> user])

\* period.go LockPeriod: to any date, an earlier one included.
LockPeriod(user, date) ==
    /\ locked' = date
    /\ audit' = Append(audit, LockAuditRow(user, date))
    /\ UNCHANGED journal

Next ==
    \E user \in Users :
        \/ \E date \in Dates, lines \in Postings : PostJournalEntry(user, date, lines)
        \/ \E id \in DOMAIN journal : ReverseJournalEntry(user, id)
        \/ \E date \in Dates : LockPeriod(user, date)

Spec == Init /\ [][Next]_vars

-----------------------------------------------------------------------------

\* Every committed entry balances and is not empty, no expense line lacks a
\* functional category, and a reversal is the exact negation of an earlier
\* entry. Reversals are checked for none of this: they inherit it
\* (posting.go:38-42, reversal.go:25-26).
JournalIsSound == JournalSound(journal)

\* Attribution: one audit row for each entry, of the user who made it, and
\* the lock in force is the one the log says was set last (audit.go:1-5).
AuditIsSound == AuditSound(audit, journal, locked)

\* The inductive invariant: types, and both of the above.
Inv == TypeOK /\ JournalIsSound /\ AuditIsSound

\* The balances of all funds, recomputed from the journal, sum to zero
\* (balances.go:37-39), whatever was posted and reversed and how often.
FundBalancesReconcile == JournalReconciles(journal)

\* An entry and one reversal of it leave every fund where it was
\* (balances_test.go: the balance after a reversal is the one before).
ReversalRestoresBalances == JournalReversalsCancel(journal)

\* The step that commits a reversal takes from the balance of every fund what
\* the reversed entry had added to it, whatever was posted in between.
ReversalTakesBalanceBack ==
    \A n \in DOMAIN journal' \ DOMAIN journal :
        IsReversal(journal'[n]) =>
            \A f \in FundIds :
                FundBalance(journal', f)
                  = FundBalance(journal, f)
                      - LinesBalance(journal[journal'[n].reverses].lines, f)

\* Balances are recomputed from the journal at every call and nothing is
\* stored beside it, so a reversal undoes its original in all of them
\* (balances.go:32-53, reversal.go:67-72).
ReversalsMoveBalancesBack == [][ReversalTakesBalanceBack]_vars
=============================================================================
