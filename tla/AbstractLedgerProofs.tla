------------------------ MODULE AbstractLedgerProofs ------------------------
(***************************************************************************)
(* The ledger as users see it keeps its journal and its audit log sound,   *)
(* for every chart of accounts, set of postings and amount width. Inv is   *)
(* inductive as it stands: a reversal is sound because its original is,    *)
(* and the audit log counts on the ids the journal has given out.          *)
(***************************************************************************)
EXTENDS AbstractLedger, BalanceProofs

\* The empty ledger is sound.
LEMMA InitInv == Init => Inv
<1> SUFFICES ASSUME Init PROVE Inv
  OBVIOUS
<1>1. TypeOK
  BY DEF Init, TypeOK, LockDates
<1>2. JournalIsSound
  BY DEF Init, JournalIsSound, JournalSound, JournalBalanced,
         JournalCategorised, JournalReversalsNegate
<1>3. AuditIsSound
  BY DEF Init, AuditIsSound, AuditSound, AuditMatchesJournal, AuditMatchesLock
<1> QED
  BY <1>1, <1>2, <1>3 DEF Inv

\* What PostJournalEntry and ReverseJournalEntry have in common.
LEMMA AppendEntryKeepsInv ==
    ASSUME Inv, NEW entry \in Entry, AppendEntry(entry),
           JournalSound(Append(journal, entry))
    PROVE  Inv'
<1>1. /\ EntryAuditRow(entry, Len(journal) + 1) \in AuditRow
      /\ AuditSound(Append(audit, EntryAuditRow(entry, Len(journal) + 1)),
                    Append(journal, entry), locked)
  BY EntryKeepsAuditSound DEF Inv, TypeOK, AuditIsSound
<1>2. TypeOK'
  BY <1>1 DEF Inv, TypeOK, AppendEntry
<1>3. JournalIsSound' /\ AuditIsSound'
  BY <1>1 DEF AppendEntry, JournalIsSound, AuditIsSound
<1> QED
  BY <1>2, <1>3 DEF Inv

\* Posting keeps the invariant: its checks are those the journal needs.
LEMMA PostKeepsInv ==
    ASSUME Inv, NEW user \in Users, NEW date \in Dates, NEW lines \in Postings,
           PostJournalEntry(user, date, lines)
    PROVE  Inv'
<1> DEFINE entry == [date |-> date, lines |-> lines,
                     reverses |-> NoOriginal, by |-> user]
<1>1. entry \in Entry /\ ~ IsReversal(entry)
  BY PostingsAssumption DEF Entry, IsReversal, NoOriginal
<1>2. JournalSound(Append(journal, entry))
  BY <1>1, PostingKeepsJournalSound
     DEF Inv, TypeOK, JournalIsSound, PostJournalEntry
<1>3. AppendEntry(entry)
  BY DEF PostJournalEntry
<1> QED
  BY <1>1, <1>2, <1>3, AppendEntryKeepsInv

\* Reversing keeps the invariant though nothing is checked.
LEMMA ReverseKeepsInv ==
    ASSUME Inv, NEW user \in Users, NEW id \in DOMAIN journal,
           ReverseJournalEntry(user, id)
    PROVE  Inv'
<1> DEFINE entry == [date |-> journal[id].date,
                     lines |-> Swapped(journal[id].lines),
                     reverses |-> id, by |-> user]
<1>1. journal \in Seq(Entry)
  BY DEF Inv, TypeOK
<1>2. journal[id] \in Entry /\ id \in Nat
  BY <1>1
<1>3. journal[id].date \in Dates /\ journal[id].lines \in Seq(Line)
  BY <1>2 DEF Entry
<1>4. entry \in Entry
  BY <1>2, <1>3, SwappedType DEF Entry
<1>5. JournalSound(Append(journal, entry))
  BY <1>1, <1>4, ReversalKeepsJournalSound DEF Inv, JournalIsSound
<1>6. AppendEntry(entry)
  BY DEF ReverseJournalEntry
<1> QED
  BY <1>4, <1>5, <1>6, AppendEntryKeepsInv

\* Locking keeps the invariant.
LEMMA LockKeepsInv ==
    ASSUME Inv, NEW user \in Users, NEW date \in Dates, LockPeriod(user, date)
    PROVE  Inv'
<1>1. date \in LockDates
  BY DEF LockDates
<1>2. /\ LockAuditRow(user, date) \in AuditRow
      /\ AuditSound(Append(audit, LockAuditRow(user, date)), journal, date)
  BY <1>1, LockKeepsAuditSound DEF Inv, TypeOK, AuditIsSound
<1>3. TypeOK'
  BY <1>1, <1>2 DEF Inv, TypeOK, LockPeriod
<1>4. JournalIsSound' /\ AuditIsSound'
  BY <1>2 DEF Inv, LockPeriod, JournalIsSound, AuditIsSound
<1> QED
  BY <1>3, <1>4 DEF Inv

\* Every step keeps the inductive invariant.
LEMMA NextKeepsInv == Inv /\ [Next]_vars => Inv'
<1> SUFFICES ASSUME Inv, [Next]_vars PROVE Inv'
  OBVIOUS
<1>1. ASSUME NEW user \in Users, NEW date \in Dates, NEW lines \in Postings,
             PostJournalEntry(user, date, lines)
      PROVE  Inv'
  BY <1>1, PostKeepsInv
<1>2. ASSUME NEW user \in Users, NEW id \in DOMAIN journal,
             ReverseJournalEntry(user, id)
      PROVE  Inv'
  BY <1>2, ReverseKeepsInv
<1>3. ASSUME NEW user \in Users, NEW date \in Dates, LockPeriod(user, date)
      PROVE  Inv'
  BY <1>3, LockKeepsInv
<1>4. CASE UNCHANGED vars
  BY <1>4 DEF vars, Inv, TypeOK, JournalIsSound, AuditIsSound
<1> QED
  BY <1>1, <1>2, <1>3, <1>4 DEF Next

\* The journal and the audit log are sound for ever: every entry balances as
\* the code computes it, expense lines have categories, reversals negate, and
\* every entry and the lock in force are attributed in the log.
THEOREM LedgerIsSound == Spec => [](TypeOK /\ JournalIsSound /\ AuditIsSound)
<1>1. Inv => TypeOK /\ JournalIsSound /\ AuditIsSound
  BY DEF Inv
<1> QED
  BY <1>1, InitInv, NextKeepsInv, PTL DEF Spec

\* The variables of the abstract ledger keep their types.
COROLLARY AbstractLedgerIsTyped == Spec => []TypeOK
BY LedgerIsSound, PTL

\* Each entry and the lock in force are attributed in the log.
COROLLARY AttributionIsSound == Spec => []AuditIsSound
BY LedgerIsSound, PTL

-----------------------------------------------------------------------------
(* Balances. *)

\* An entry and a reversal of it leave every fund where it was, however the
\* original came about and however often it was reversed (reversal.go:67-72).
THEOREM ReversalsRestoreBalances == Spec => []ReversalRestoresBalances
<1>1. Inv => ReversalRestoresBalances
  BY ReversalsCancel
     DEF Inv, TypeOK, JournalIsSound, JournalSound, ReversalRestoresBalances
<1> QED
  BY <1>1, InitInv, NextKeepsInv, PTL DEF Spec

\* Whatever was posted and reversed, the balances of all funds sum to zero as
\* long as no committed entry has a total beyond the machine integers; past
\* them balances() accepts entries that do not balance (posting.go:118-128).
THEOREM BalancesReconcileWhileTotalsFit ==
    Spec => [](JournalFits(journal) => FundBalancesReconcile)
<1>1. Inv => (JournalFits(journal) => FundBalancesReconcile)
  BY SoundJournalReconciles
     DEF Inv, TypeOK, JournalIsSound, JournalSound, FundBalancesReconcile
<1> QED
  BY <1>1, InitInv, NextKeepsInv, PTL DEF Spec

\* A step keeps the totals within the machine integers when those a client
\* may submit are: a reversal exchanges the two totals of its original.
LEMMA NextKeepsFit ==
    ASSUME \A lines \in Postings : TotalsFit(lines)
    PROVE  Inv /\ JournalFits(journal) /\ [Next]_vars => JournalFits(journal)'
<1> SUFFICES ASSUME Inv, JournalFits(journal), [Next]_vars PROVE JournalFits(journal')
  OBVIOUS
<1>1. journal \in Seq(Entry)
  BY DEF Inv, TypeOK
<1>2. ASSUME NEW entry \in Entry, TotalsFit(entry.lines), AppendEntry(entry)
      PROVE  JournalFits(journal')
  BY <1>1, <1>2, AppendedElements DEF JournalFits, AppendEntry
<1>3. ASSUME NEW user \in Users, NEW date \in Dates, NEW lines \in Postings,
             PostJournalEntry(user, date, lines)
      PROVE  JournalFits(journal')
  <2> DEFINE entry == [date |-> date, lines |-> lines,
                       reverses |-> NoOriginal, by |-> user]
  <2>1. entry \in Entry /\ entry.lines = lines
    BY PostingsAssumption DEF Entry, NoOriginal
  <2>2. AppendEntry(entry)
    BY <1>3 DEF PostJournalEntry
  <2> HIDE DEF entry
  <2> QED
    BY <1>2, <2>1, <2>2
<1>4. ASSUME NEW user \in Users, NEW id \in DOMAIN journal,
             ReverseJournalEntry(user, id)
      PROVE  JournalFits(journal')
  <2> DEFINE entry == [date |-> journal[id].date, lines |-> Swapped(journal[id].lines),
                       reverses |-> id, by |-> user]
  <2>1. journal[id] \in Entry /\ id \in Nat
    BY <1>1
  <2>2. journal[id].date \in Dates /\ journal[id].lines \in Seq(Line)
    BY <2>1 DEF Entry
  <2>3. entry \in Entry /\ entry.lines = Swapped(journal[id].lines)
    BY <2>1, <2>2, SwappedType DEF Entry
  <2>4. TotalsFit(entry.lines)
    BY <2>2, <2>3, SwappedFits DEF JournalFits
  <2>5. AppendEntry(entry)
    BY <1>4 DEF ReverseJournalEntry
  <2> HIDE DEF entry
  <2> QED
    BY <1>2, <2>3, <2>4, <2>5
<1>5. ASSUME NEW user \in Users, NEW date \in Dates, LockPeriod(user, date)
      PROVE  JournalFits(journal')
  BY <1>5 DEF LockPeriod
<1>6. CASE UNCHANGED vars
  BY <1>6 DEF vars
<1> QED
  BY <1>3, <1>4, <1>5, <1>6 DEF Next

\* When no submission has a total beyond the machine integers, the balances
\* of all funds sum to zero for ever (balances.go:37-39).
THEOREM BalancesReconcile ==
    ASSUME \A lines \in Postings : TotalsFit(lines)
    PROVE  Spec => []FundBalancesReconcile
<1>1. Init => JournalFits(journal)
  BY DEF Init, JournalFits
<1>2. Inv /\ JournalFits(journal) /\ [Next]_vars => JournalFits(journal)'
  BY NextKeepsFit
<1>3. Spec => [](JournalFits(journal) => FundBalancesReconcile)
  BY BalancesReconcileWhileTotalsFit
<1> QED
  BY <1>1, <1>2, <1>3, InitInv, NextKeepsInv, PTL DEF Spec

\* A reversal moves the balance of every fund back by what its original had
\* added to it, whatever was posted in between (reversal.go:40-80).
THEOREM ReversalsTakeBalancesBack == Spec => ReversalsMoveBalancesBack
<1>1. ASSUME Inv, [Next]_vars,
             NEW n \in DOMAIN journal' \ DOMAIN journal, IsReversal(journal'[n]),
             NEW f \in FundIds
      PROVE  FundBalance(journal', f)
               = FundBalance(journal, f)
                   - LinesBalance(journal[journal'[n].reverses].lines, f)
  <2> DEFINE entry == journal'[n]
             original == journal[entry.reverses]
  <2>1. journal \in Seq(Entry) /\ journal' \in Seq(Entry) /\ JournalReversalsNegate(journal')
    BY <1>1, NextKeepsInv DEF Inv, TypeOK, JournalIsSound, JournalSound
  <2>2. entry \in Entry
    BY <1>1, <2>1
  <2>3. journal' = Append(journal, entry) /\ n = Len(journal) + 1
    <3>1. PICK e : journal' = Append(journal, e)
      BY <1>1 DEF Next, PostJournalEntry, ReverseJournalEntry, LockPeriod, AppendEntry, vars
    <3>2. /\ DOMAIN journal' = 1 .. Len(journal) + 1 /\ DOMAIN journal = 1 .. Len(journal)
          /\ Len(journal) \in Nat /\ journal'[Len(journal) + 1] = e
      BY <2>1, <3>1
    <3> QED
      BY <1>1, <3>1, <3>2
  <2>4. entry.reverses \in 1 .. n - 1 /\ entry.lines = Swapped(journal'[entry.reverses].lines)
    BY <1>1, <2>1 DEF JournalReversalsNegate
  <2>5. entry.reverses \in DOMAIN journal /\ journal'[entry.reverses] = original
    BY <2>1, <2>2, <2>3, <2>4, AppendedElements
  <2>6. original.lines \in Seq(Line) /\ entry.lines \in Seq(Line)
    BY <2>1, <2>2, <2>5, JournalColumnsAreInts DEF Entry
  <2> HIDE DEF entry
  <2>7. FundBalance(journal', f) = FundBalance(journal, f) + LinesBalance(entry.lines, f)
    BY <2>1, <2>2, <2>3, BalanceAfterAppend
  <2>8. LinesBalance(entry.lines, f) + LinesBalance(original.lines, f) = 0
    BY <2>4, <2>5, <2>6, SwappedCancels
  <2>9. /\ LinesBalance(entry.lines, f) \in Int /\ LinesBalance(original.lines, f) \in Int
        /\ FundBalance(journal, f) \in Int
    <3>1. FundBalance(journal, f) = Total(JournalOfFunds(journal, {f}))
      BY <2>1, FundBalanceIsTotal
    <3>2. FundBalance(journal, f) \in Int
      BY <2>1, <3>1, JournalColumnsAreInts, TotalIsInt
    <3> QED
      BY <2>6, <3>2, LinesBalanceIsInt
  <2> QED
    BY <2>7, <2>8, <2>9 DEF entry
<1>2. Inv /\ [Next]_vars => [ReversalTakesBalanceBack]_vars
  BY <1>1 DEF ReversalTakesBalanceBack
<1> QED
  BY <1>2, InitInv, NextKeepsInv, PTL DEF Spec, ReversalsMoveBalancesBack
=============================================================================
