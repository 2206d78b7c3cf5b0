-------------------------- MODULE LedgerDataProofs --------------------------
(***************************************************************************)
(* Lemmas about the ledger's data: what swapping debit and credit keeps of *)
(* a sequence of lines, and what appending an entry or an audit row keeps  *)
(* of a journal and of its audit log.                                      *)
(***************************************************************************)
EXTENDS LedgerData, TLAPS

-----------------------------------------------------------------------------
(* Swapped lines. *)

\* The swapped copy of typed lines is typed, and as long (reversal.go:67-72).
LEMMA SwappedType ==
    ASSUME NEW lines \in Seq(Line)
    PROVE  /\ Swapped(lines) \in Seq(Line)
           /\ Len(Swapped(lines)) = Len(lines)
           /\ DOMAIN Swapped(lines) = DOMAIN lines
<1> DEFINE swap(i) == [lines[i] EXCEPT !.debit = lines[i].credit,
                                       !.credit = lines[i].debit]
<1>1. ASSUME NEW i \in 1 .. Len(lines)
      PROVE  swap(i) \in Line
  <2>1. lines[i] \in Line
    OBVIOUS
  <2> QED
    BY <2>1 DEF Line
<1>2. Swapped(lines) = [i \in 1 .. Len(lines) |-> swap(i)]
  BY DEF Swapped
<1>3. Len(lines) \in Nat
  OBVIOUS
<1> HIDE DEF swap
<1> QED
  BY <1>1, <1>2, <1>3

\* Swapping exchanges the two columns of amounts.
LEMMA SwappedColumns ==
    ASSUME NEW lines \in Seq(Line)
    PROVE  /\ DebitColumn(Swapped(lines)) = CreditColumn(lines)
           /\ CreditColumn(Swapped(lines)) = DebitColumn(lines)
<1>1. DOMAIN Swapped(lines) = DOMAIN lines
  BY SwappedType
<1>2. \A i \in DOMAIN lines : /\ Swapped(lines)[i].debit = lines[i].credit
                              /\ Swapped(lines)[i].credit = lines[i].debit
  <2> TAKE i \in DOMAIN lines
  <2>1. lines[i] \in Line
    OBVIOUS
  <2> QED
    BY <2>1 DEF Swapped, Line
<1> QED
  BY <1>1, <1>2 DEF DebitColumn, CreditColumn

\* The copy of an entry that balances balances: nothing checks a reversal.
LEMMA SwappedWellFormed ==
    ASSUME NEW lines \in Seq(Line), WellFormed(lines)
    PROVE  WellFormed(Swapped(lines))
<1>1. Swapped(lines) # << >>
  BY SwappedType DEF WellFormed
<1>2. Balances(Swapped(lines))
  BY SwappedColumns DEF WellFormed, Balances
<1> QED
  BY <1>1, <1>2 DEF WellFormed

\* Accounts and categories are the original's.
LEMMA SwappedAccounts ==
    ASSUME NEW lines \in Seq(Line), NEW i \in DOMAIN lines
    PROVE  /\ Swapped(lines)[i].account = lines[i].account
           /\ Swapped(lines)[i].category = lines[i].category
<1>1. lines[i] \in Line
  OBVIOUS
<1> QED
  BY <1>1 DEF Swapped, Line

-----------------------------------------------------------------------------
(* Appending to the journal. *)

\* Elements of an appended sequence, in the form the proofs use.
LEMMA AppendedElements ==
    ASSUME NEW S, NEW s \in Seq(S), NEW e \in S
    PROVE  /\ Append(s, e) \in Seq(S)
           /\ DOMAIN Append(s, e) = DOMAIN s \cup {Len(s) + 1}
           /\ \A i \in DOMAIN s : Append(s, e)[i] = s[i]
           /\ Append(s, e)[Len(s) + 1] = e
           /\ Len(s) + 1 \notin DOMAIN s
           /\ Len(Append(s, e)) = Len(s) + 1
OBVIOUS

\* A posting whose checks passed keeps the journal sound.
LEMMA PostingKeepsJournalSound ==
    ASSUME NEW journal \in Seq(Entry), JournalSound(journal),
           NEW entry \in Entry, ~ IsReversal(entry),
           WellFormed(entry.lines), AcceptableAccounts(entry.lines)
    PROVE  JournalSound(Append(journal, entry))
<1> DEFINE longer == Append(journal, entry)
<1>1. /\ DOMAIN longer = DOMAIN journal \cup {Len(journal) + 1}
      /\ \A n \in DOMAIN journal : longer[n] = journal[n]
      /\ longer[Len(journal) + 1] = entry
      /\ Len(journal) + 1 \notin DOMAIN journal
  BY AppendedElements
<1>2. DOMAIN journal = 1 .. Len(journal) /\ Len(journal) \in Nat
  OBVIOUS
<1> HIDE DEF longer
<1>3. JournalBalanced(longer)
  BY <1>1 DEF JournalSound, JournalBalanced
<1>4. JournalCategorised(longer)
  BY <1>1 DEF JournalSound, JournalCategorised, AcceptableAccounts
<1>5. JournalReversalsNegate(longer)
  <2> SUFFICES ASSUME NEW n \in DOMAIN longer, IsReversal(longer[n])
               PROVE  /\ longer[n].reverses \in 1 .. n - 1
                      /\ longer[n].date = longer[longer[n].reverses].date
                      /\ longer[n].lines = Swapped(longer[longer[n].reverses].lines)
    BY DEF JournalReversalsNegate
  <2>1. n \in DOMAIN journal /\ longer[n] = journal[n]
    BY <1>1
  <2>2. /\ journal[n].reverses \in 1 .. n - 1
        /\ journal[n].date = journal[journal[n].reverses].date
        /\ journal[n].lines = Swapped(journal[journal[n].reverses].lines)
    BY <2>1 DEF JournalSound, JournalReversalsNegate
  <2>3. journal[n].reverses \in DOMAIN journal
    BY <1>2, <2>1, <2>2
  <2> QED
    BY <1>1, <2>1, <2>2, <2>3
<1> QED
  BY <1>3, <1>4, <1>5 DEF JournalSound, longer

\* A reversal of any of its entries keeps the journal sound.
LEMMA ReversalKeepsJournalSound ==
    ASSUME NEW journal \in Seq(Entry), JournalSound(journal),
           NEW entry \in Entry, entry.reverses \in DOMAIN journal,
           entry.date = journal[entry.reverses].date,
           entry.lines = Swapped(journal[entry.reverses].lines)
    PROVE  JournalSound(Append(journal, entry))
<1> DEFINE longer == Append(journal, entry)
           original == journal[entry.reverses]
<1>1. /\ DOMAIN longer = DOMAIN journal \cup {Len(journal) + 1}
      /\ \A n \in DOMAIN journal : longer[n] = journal[n]
      /\ longer[Len(journal) + 1] = entry
      /\ Len(journal) + 1 \notin DOMAIN journal
  BY AppendedElements
<1>2. DOMAIN journal = 1 .. Len(journal) /\ Len(journal) \in Nat
  OBVIOUS
<1>3. original \in Entry /\ original.lines \in Seq(Line)
  <2>1. original \in Entry
    OBVIOUS
  <2> QED
    BY <2>1 DEF Entry
<1> HIDE DEF longer
<1>4. JournalBalanced(longer)
  <2>1. WellFormed(entry.lines)
    BY <1>3, SwappedWellFormed DEF JournalSound, JournalBalanced
  <2> QED
    BY <1>1, <2>1 DEF JournalSound, JournalBalanced
<1>5. JournalCategorised(longer)
  <2>1. \A i \in DOMAIN entry.lines :
           /\ i \in DOMAIN original.lines
           /\ entry.lines[i].account = original.lines[i].account
           /\ entry.lines[i].category = original.lines[i].category
    BY <1>3, SwappedType, SwappedAccounts
  <2> QED
    BY <1>1, <2>1 DEF JournalSound, JournalCategorised
<1>6. JournalReversalsNegate(longer)
  <2> SUFFICES ASSUME NEW n \in DOMAIN longer, IsReversal(longer[n])
               PROVE  /\ longer[n].reverses \in 1 .. n - 1
                      /\ longer[n].date = longer[longer[n].reverses].date
                      /\ longer[n].lines = Swapped(longer[longer[n].reverses].lines)
    BY DEF JournalReversalsNegate
  <2>1. CASE n = Len(journal) + 1
    BY <1>1, <1>2, <2>1
  <2>2. CASE n \in DOMAIN journal
    <3>1. /\ journal[n].reverses \in 1 .. n - 1
          /\ journal[n].date = journal[journal[n].reverses].date
          /\ journal[n].lines = Swapped(journal[journal[n].reverses].lines)
      BY <1>1, <2>2 DEF JournalSound, JournalReversalsNegate
    <3>2. journal[n].reverses \in DOMAIN journal
      BY <1>2, <2>2, <3>1
    <3> QED
      BY <1>1, <2>2, <3>1, <3>2
  <2> QED
    BY <1>1, <2>1, <2>2
<1> QED
  BY <1>4, <1>5, <1>6 DEF JournalSound, longer

-----------------------------------------------------------------------------
(* Appending to the audit log. *)

\* An entry and its audit row together keep the log in step.
LEMMA EntryKeepsAuditSound ==
    ASSUME NEW journal \in Seq(Entry), NEW audit \in Seq(AuditRow), NEW locked,
           AuditSound(audit, journal, locked), NEW entry \in Entry
    PROVE  LET row == EntryAuditRow(entry, Len(journal) + 1)
           IN  /\ row \in AuditRow
               /\ AuditSound(Append(audit, row), Append(journal, entry), locked)
<1> DEFINE row == EntryAuditRow(entry, Len(journal) + 1)
           rows == Append(audit, row)
           longer == Append(journal, entry)
<1>1. row \in AuditRow /\ ~ IsLockRow(row) /\ row.id = Len(journal) + 1
  BY DEF EntryAuditRow, AuditRow, IsLockRow, LockDates, Entry
<1>2. /\ DOMAIN longer = DOMAIN journal \cup {Len(journal) + 1}
      /\ \A n \in DOMAIN journal : longer[n] = journal[n]
      /\ longer[Len(journal) + 1] = entry
      /\ Len(journal) + 1 \notin DOMAIN journal
  BY AppendedElements
<1>3. /\ DOMAIN rows = DOMAIN audit \cup {Len(audit) + 1}
      /\ \A i \in DOMAIN audit : rows[i] = audit[i]
      /\ rows[Len(audit) + 1] = row
      /\ Len(audit) + 1 \notin DOMAIN audit
  BY <1>1, AppendedElements
<1>4. DOMAIN audit = 1 .. Len(audit) /\ Len(audit) \in Nat
  OBVIOUS
<1>5. row = EntryAuditRow(longer[Len(journal) + 1], Len(journal) + 1)
  BY <1>2
<1> HIDE DEF row, rows, longer
<1>6. AuditMatchesJournal(rows, longer)
  <2>1. \A n \in DOMAIN longer :
           \E i \in DOMAIN rows :
              /\ rows[i] = EntryAuditRow(longer[n], n)
              /\ \A j \in DOMAIN rows :
                   rows[j].id = n /\ ~ IsLockRow(rows[j]) => j = i
    <3> TAKE n \in DOMAIN longer
    <3>1. CASE n \in DOMAIN journal
      <4>1. PICK i \in DOMAIN audit :
               /\ audit[i] = EntryAuditRow(journal[n], n)
               /\ \A j \in DOMAIN audit :
                    audit[j].id = n /\ ~ IsLockRow(audit[j]) => j = i
        BY <3>1 DEF AuditSound, AuditMatchesJournal
      <4>2. row.id # n
        BY <1>1, <1>2, <3>1
      <4>3. /\ i \in DOMAIN rows
            /\ rows[i] = EntryAuditRow(longer[n], n)
            /\ \A j \in DOMAIN rows : rows[j].id = n /\ ~ IsLockRow(rows[j]) => j = i
        BY <1>2, <1>3, <3>1, <4>1, <4>2
      <4> QED
        BY <4>3
    <3>2. CASE n = Len(journal) + 1
      <4>1. \A j \in DOMAIN audit : audit[j].id = n => IsLockRow(audit[j])
        BY <1>2, <3>2 DEF AuditSound, AuditMatchesJournal
      <4>2. /\ Len(audit) + 1 \in DOMAIN rows
            /\ rows[Len(audit) + 1] = EntryAuditRow(longer[n], n)
            /\ \A j \in DOMAIN rows :
                 rows[j].id = n /\ ~ IsLockRow(rows[j]) => j = Len(audit) + 1
        BY <1>2, <1>3, <1>5, <3>2, <4>1
      <4> QED
        BY <4>2
    <3> QED
      BY <1>2, <3>1, <3>2
  <2>2. \A i \in DOMAIN rows : IsLockRow(rows[i]) \/ rows[i].id \in DOMAIN longer
    BY <1>1, <1>2, <1>3 DEF AuditSound, AuditMatchesJournal
  <2> QED
    BY <2>1, <2>2 DEF AuditMatchesJournal
<1>7. AuditMatchesLock(rows, locked)
  BY <1>1, <1>3, <1>4 DEF AuditSound, AuditMatchesLock
<1> QED
  BY <1>1, <1>6, <1>7 DEF AuditSound, row, rows, longer

\* A period lock and its audit row together keep the log in step.
LEMMA LockKeepsAuditSound ==
    ASSUME NEW journal \in Seq(Entry), NEW audit \in Seq(AuditRow), NEW locked,
           AuditSound(audit, journal, locked),
           NEW user \in Users, NEW date \in LockDates
    PROVE  LET row == LockAuditRow(user, date)
           IN  /\ row \in AuditRow
               /\ AuditSound(Append(audit, row), journal, date)
<1> DEFINE row == LockAuditRow(user, date)
           rows == Append(audit, row)
<1>1. row \in AuditRow /\ IsLockRow(row) /\ row.detail = date
  BY DEF LockAuditRow, AuditRow, IsLockRow
<1>2. /\ DOMAIN rows = DOMAIN audit \cup {Len(audit) + 1}
      /\ \A i \in DOMAIN audit : rows[i] = audit[i]
      /\ rows[Len(audit) + 1] = row
      /\ Len(audit) + 1 \notin DOMAIN audit
  BY <1>1, AppendedElements
<1>3. DOMAIN audit = 1 .. Len(audit) /\ Len(audit) \in Nat
  OBVIOUS
<1> HIDE DEF row, rows
<1>4. AuditMatchesJournal(rows, journal)
  <2>1. \A n \in DOMAIN journal :
           \E i \in DOMAIN rows :
              /\ rows[i] = EntryAuditRow(journal[n], n)
              /\ \A j \in DOMAIN rows :
                   rows[j].id = n /\ ~ IsLockRow(rows[j]) => j = i
    <3> TAKE n \in DOMAIN journal
    <3>1. PICK i \in DOMAIN audit :
             /\ audit[i] = EntryAuditRow(journal[n], n)
             /\ \A j \in DOMAIN audit :
                  audit[j].id = n /\ ~ IsLockRow(audit[j]) => j = i
      BY DEF AuditSound, AuditMatchesJournal
    <3>2. /\ i \in DOMAIN rows
          /\ rows[i] = EntryAuditRow(journal[n], n)
          /\ \A j \in DOMAIN rows : rows[j].id = n /\ ~ IsLockRow(rows[j]) => j = i
      BY <1>1, <1>2, <3>1
    <3> QED
      BY <3>2
  <2>2. \A i \in DOMAIN rows : IsLockRow(rows[i]) \/ rows[i].id \in DOMAIN journal
    BY <1>1, <1>2 DEF AuditSound, AuditMatchesJournal
  <2> QED
    BY <2>1, <2>2 DEF AuditMatchesJournal
<1>5. AuditMatchesLock(rows, date)
  <2>1. ASSUME NEW i \in DOMAIN rows, IsLockRow(rows[i]),
               \A j \in DOMAIN rows : IsLockRow(rows[j]) => j <= i
        PROVE  date = rows[i].detail
    <3>1. Len(audit) + 1 <= i
      BY <1>1, <1>2, <2>1
    <3>2. i = Len(audit) + 1
      BY <1>2, <1>3, <3>1
    <3> QED
      BY <1>1, <1>2, <3>2
  <2>2. ~ \A i \in DOMAIN rows : ~ IsLockRow(rows[i])
    BY <1>1, <1>2
  <2> QED
    BY <2>1, <2>2 DEF AuditMatchesLock
<1> QED
  BY <1>1, <1>4, <1>5 DEF AuditSound, row, rows
=============================================================================
