---------------------------- MODULE BalanceProofs ----------------------------
(***************************************************************************)
(* Lemmas about the balances derived from the journal (balances.go): a     *)
(* running total adds up as a sum should, the lines of a set of funds      *)
(* split into those of one fund and the rest, and the balances of all the  *)
(* funds of a journal of balanced entries therefore sum to zero. The       *)
(* library's induction theorems cannot be instantiated, so the inductions  *)
(* here take the least number that fails.                                  *)
(***************************************************************************)
EXTENDS LedgerDataProofs, FiniteSetTheorems

-----------------------------------------------------------------------------
(* Induction, for sets of numbers. *)

\* A set of numbers with 0 that is closed under the next number has them all.
LEMMA ClosedUnderNextIsNat ==
    ASSUME NEW S \in SUBSET Nat, 0 \in S, \A n \in S : n + 1 \in S
    PROVE  S = Nat
<1> DEFINE missing == Nat \ S
<1> SUFFICES ASSUME missing # {} PROVE FALSE
  OBVIOUS
<1>1. PICK least \in missing : \A n \in missing : ~ (<<n, least>> \in OpToRel(<, Nat))
  <2> HIDE DEF missing
  <2>1. missing \subseteq Nat
    BY DEF missing
  <2> QED
    BY <2>1, WFMin, NatLessThanWellFounded
<1>2. least \in Nat /\ least # 0 /\ least - 1 \in Nat
  OBVIOUS
<1>3. <<least - 1, least>> \in OpToRel(<, Nat)
  BY <1>2 DEF OpToRel
<1>4. least - 1 \in S
  BY <1>1, <1>2, <1>3
<1> QED
  BY <1>2, <1>4
-----------------------------------------------------------------------------
(* The running total of a column. *)

\* The partial sums of the first n amounts, as Total defines them.
IsSums(sum, column, n) ==
    sum = [k \in 0 .. n |-> IF k = 0 THEN 0 ELSE sum[k - 1] + column[k]]

\* The first partial sum is zero and each adds one amount to the one before.
LEMMA SumsStep ==
    ASSUME NEW sum, NEW column, NEW n \in Nat, IsSums(sum, column, n)
    PROVE  /\ sum[0] = 0
           /\ \A k \in Nat : k + 1 <= n => sum[k + 1] = sum[k] + column[k + 1]
<1>1. \A k \in 0 .. n : sum[k] = IF k = 0 THEN 0 ELSE sum[k - 1] + column[k]
  BY DEF IsSums
<1>2. sum[0] = 0
  BY <1>1
<1>3. ASSUME NEW k \in Nat, k + 1 <= n PROVE sum[k + 1] = sum[k] + column[k + 1]
  <2>1. k + 1 \in 0 .. n /\ k + 1 # 0 /\ (k + 1) - 1 = k
    BY <1>3
  <2> QED
    BY <1>1, <2>1
<1> QED
  BY <1>2, <1>3

\* Every column has its partial sums.
LEMMA SumsExist ==
    ASSUME NEW column \in Seq(Int)
    PROVE  \A n \in Nat : \E sum : IsSums(sum, column, n)
<1> DEFINE S == {n \in Nat : \E sum : IsSums(sum, column, n)}
<1>1. 0 \in S
  <2>1. IsSums([k \in 0 .. 0 |-> 0], column, 0)
    BY DEF IsSums
  <2> QED
    BY <2>1
<1>2. ASSUME NEW n \in S PROVE n + 1 \in S
  <2>1. PICK sum : IsSums(sum, column, n)
    OBVIOUS
  <2> DEFINE longer == [k \in 0 .. n + 1 |->
                          IF k = n + 1 THEN sum[n] + column[n + 1] ELSE sum[k]]
  <2>2. \A k \in 0 .. n + 1 :
           longer[k] = IF k = 0 THEN 0 ELSE longer[k - 1] + column[k]
    BY <2>1 DEF IsSums
  <2>3. IsSums(longer, column, n + 1)
    BY <2>2 DEF IsSums
  <2> QED
    BY <2>3
<1>3. S = Nat
  <2> HIDE DEF S
  <2> QED
    BY <1>1, <1>2, ClosedUnderNextIsNat DEF S
<1> QED
  BY <1>3

\* Total is the last of the partial sums.
LEMMA TotalIsLastSum ==
    ASSUME NEW column \in Seq(Int)
    PROVE  \E sum : IsSums(sum, column, Len(column)) /\ Total(column) = sum[Len(column)]
<1> DEFINE s == CHOOSE sum : IsSums(sum, column, Len(column))
<1>1. IsSums(s, column, Len(column))
  BY SumsExist
<1>2. Total(column) = s[Len(column)]
  BY DEF Total, IsSums
<1> QED
  BY <1>1, <1>2

\* Partial sums of integers are integers.
LEMMA SumsAreInts ==
    ASSUME NEW column \in Seq(Int), NEW sum, IsSums(sum, column, Len(column))
    PROVE  \A n \in 0 .. Len(column) : sum[n] \in Int
<1> DEFINE len == Len(column)
           S == {n \in Nat : n <= len => sum[n] \in Int}
<1>1. IsSums(sum, column, len)
  OBVIOUS
<1>2. len \in Nat /\ \A i \in 1 .. len : column[i] \in Int
  OBVIOUS
<1> HIDE DEF len
<1>3. 0 \in S
  BY <1>1, <1>2, SumsStep
<1>4. ASSUME NEW n \in S PROVE n + 1 \in S
  <2> SUFFICES ASSUME n + 1 <= len PROVE sum[n + 1] \in Int
    OBVIOUS
  <2>1. sum[n] \in Int /\ column[n + 1] \in Int
    BY <1>2
  <2>2. sum[n + 1] = sum[n] + column[n + 1]
    BY <1>1, <1>2, SumsStep
  <2> QED
    BY <2>1, <2>2
<1>5. S = Nat
  <2> HIDE DEF S
  <2> QED
    BY <1>3, <1>4, ClosedUnderNextIsNat DEF S
<1> QED
  BY <1>2, <1>5 DEF len

\* The total of integers is an integer.
LEMMA TotalIsInt ==
    ASSUME NEW column \in Seq(Int)
    PROVE  Total(column) \in Int
<1>1. PICK sum : IsSums(sum, column, Len(column)) /\ Total(column) = sum[Len(column)]
  BY TotalIsLastSum
<1> QED
  BY <1>1, SumsAreInts

\* The total of a column of sums is the sum of the totals.
LEMMA TotalOfSums ==
    ASSUME NEW a \in Seq(Int), NEW b \in Seq(Int), NEW c \in Seq(Int),
           Len(a) = Len(c), Len(b) = Len(c),
           \A i \in 1 .. Len(c) : c[i] = a[i] + b[i]
    PROVE  Total(c) = Total(a) + Total(b)
<1> DEFINE len == Len(c)
<1>1. PICK sa : IsSums(sa, a, len) /\ Total(a) = sa[len]
  BY TotalIsLastSum
<1>2. PICK sb : IsSums(sb, b, len) /\ Total(b) = sb[len]
  BY TotalIsLastSum
<1>3. PICK sc : IsSums(sc, c, len) /\ Total(c) = sc[len]
  BY TotalIsLastSum
<1> DEFINE S == {n \in Nat : n <= len => /\ sa[n] \in Int /\ sb[n] \in Int
                                        /\ sc[n] = sa[n] + sb[n]}
<1>4. /\ len \in Nat
      /\ \A i \in 1 .. len : a[i] \in Int /\ b[i] \in Int /\ c[i] = a[i] + b[i]
  OBVIOUS
<1> HIDE DEF len
<1>5. 0 \in S
  BY <1>1, <1>2, <1>3, <1>4, SumsStep
<1>6. ASSUME NEW n \in S PROVE n + 1 \in S
  <2> SUFFICES ASSUME n + 1 <= len
               PROVE  /\ sa[n + 1] \in Int /\ sb[n + 1] \in Int
                      /\ sc[n + 1] = sa[n + 1] + sb[n + 1]
    OBVIOUS
  <2>1. /\ n \in Nat /\ sa[n] \in Int /\ sb[n] \in Int /\ sc[n] = sa[n] + sb[n]
        /\ a[n + 1] \in Int /\ b[n + 1] \in Int /\ c[n + 1] = a[n + 1] + b[n + 1]
    BY <1>4
  <2> HIDE DEF S
  <2>2. sa[n + 1] = sa[n] + a[n + 1]
    BY <1>1, <1>4, <2>1, SumsStep
  <2>3. sb[n + 1] = sb[n] + b[n + 1]
    BY <1>2, <1>4, <2>1, SumsStep
  <2>4. sc[n + 1] = sc[n] + c[n + 1]
    BY <1>3, <1>4, <2>1, SumsStep
  <2>5. sa[n + 1] \in Int /\ sb[n + 1] \in Int
    BY <2>1, <2>2, <2>3
  <2>6. sa[n + 1] + sb[n + 1] = (sa[n] + sb[n]) + (a[n + 1] + b[n + 1])
    BY <2>1, <2>2, <2>3
  <2>7. sc[n + 1] = (sa[n] + sb[n]) + (a[n + 1] + b[n + 1])
    BY <2>1, <2>4
  <2> QED
    BY <2>5, <2>6, <2>7
<1>7. S = Nat
  <2> HIDE DEF S
  <2> QED
    BY <1>5, <1>6, ClosedUnderNextIsNat DEF S
<1> QED
  BY <1>1, <1>2, <1>3, <1>4, <1>7

\* One more amount adds itself to the total.
LEMMA TotalOfAppended ==
    ASSUME NEW column \in Seq(Int), NEW x \in Int
    PROVE  Total(Append(column, x)) = Total(column) + x
<1> DEFINE longer == Append(column, x)
           len == Len(column)
<1>1. /\ longer \in Seq(Int) /\ Len(longer) = len + 1 /\ longer[len + 1] = x
      /\ len \in Nat /\ \A i \in 1 .. len : longer[i] = column[i]
  OBVIOUS
<1>2. PICK s : IsSums(s, column, len) /\ Total(column) = s[len]
  BY TotalIsLastSum
<1>3. PICK t : IsSums(t, longer, len + 1) /\ Total(longer) = t[len + 1]
  BY <1>1, TotalIsLastSum
<1> HIDE DEF longer, len
<1> DEFINE S == {n \in Nat : n <= len => t[n] = s[n]}
<1>4. 0 \in S
  BY <1>1, <1>2, <1>3, SumsStep
<1>5. ASSUME NEW n \in S PROVE n + 1 \in S
  <2> SUFFICES ASSUME n + 1 <= len PROVE t[n + 1] = s[n + 1]
    OBVIOUS
  <2>1. n \in Nat /\ t[n] = s[n] /\ longer[n + 1] = column[n + 1]
    BY <1>1
  <2> HIDE DEF S
  <2>2. s[n + 1] = s[n] + column[n + 1]
    BY <1>1, <1>2, <2>1, SumsStep
  <2>3. t[n + 1] = t[n] + longer[n + 1]
    <3>1. len + 1 \in Nat /\ n + 1 <= len + 1
      BY <1>1, <2>1
    <3> QED
      BY <1>3, <2>1, <3>1, SumsStep
  <2> QED
    BY <2>1, <2>2, <2>3
<1>6. S = Nat
  <2> HIDE DEF S
  <2> QED
    BY <1>4, <1>5, ClosedUnderNextIsNat DEF S
<1>7. t[len] = s[len]
  BY <1>1, <1>6
<1>8. t[len + 1] = t[len] + longer[len + 1]
  BY <1>1, <1>3, SumsStep
<1> QED
  BY <1>1, <1>2, <1>3, <1>7, <1>8 DEF longer

\* A column of zeros, the empty one included, totals zero.
LEMMA TotalOfZeros ==
    ASSUME NEW column \in Seq(Int), \A i \in 1 .. Len(column) : column[i] = 0
    PROVE  Total(column) = 0
<1>1. Total(column) = Total(column) + Total(column)
  BY TotalOfSums
<1>2. Total(column) \in Int
  BY TotalIsInt
<1> QED
  BY <1>1, <1>2

-----------------------------------------------------------------------------
(* What the lines of an entry add to one fund, and to a set of funds. *)

\* What a sequence of lines adds to the funds of a set together.
LinesOfFunds(lines, funds) ==
    [i \in DOMAIN lines |->
        IF lines[i].fund \in funds THEN lines[i].debit - lines[i].credit ELSE 0]

\* Columns made from typed lines are columns of integers.
LEMMA ColumnsAreInts ==
    ASSUME NEW lines \in Seq(Line), NEW funds
    PROVE  /\ DebitColumn(lines) \in Seq(Int) /\ Len(DebitColumn(lines)) = Len(lines)
           /\ CreditColumn(lines) \in Seq(Int) /\ Len(CreditColumn(lines)) = Len(lines)
           /\ LinesOfFunds(lines, funds) \in Seq(Int)
           /\ Len(LinesOfFunds(lines, funds)) = Len(lines)
<1>1. \A i \in 1 .. Len(lines) : lines[i].debit \in Int /\ lines[i].credit \in Int
  <2> TAKE i \in 1 .. Len(lines)
  <2>1. lines[i] \in Line
    OBVIOUS
  <2> QED
    BY <2>1 DEF Line
<1>2. DOMAIN lines = 1 .. Len(lines) /\ Len(lines) \in Nat
  OBVIOUS
<1>3. DebitColumn(lines) \in Seq(Int) /\ Len(DebitColumn(lines)) = Len(lines)
  BY <1>1, <1>2 DEF DebitColumn
<1>4. CreditColumn(lines) \in Seq(Int) /\ Len(CreditColumn(lines)) = Len(lines)
  BY <1>1, <1>2 DEF CreditColumn
<1>5. /\ LinesOfFunds(lines, funds) \in Seq(Int)
      /\ Len(LinesOfFunds(lines, funds)) = Len(lines)
  BY <1>1, <1>2 DEF LinesOfFunds
<1> QED
  BY <1>3, <1>4, <1>5

\* The balance of a fund is the total of the lines of that fund alone.
LEMMA LinesBalanceIsTotal ==
    ASSUME NEW lines \in Seq(Line), NEW f
    PROVE  LinesBalance(lines, f) = Total(LinesOfFunds(lines, {f}))
<1>1. LinesOfFunds(lines, {f})
        = [i \in DOMAIN lines |->
              IF lines[i].fund = f THEN lines[i].debit - lines[i].credit ELSE 0]
  BY DEF LinesOfFunds
<1> QED
  BY <1>1 DEF LinesBalance

\* A balance is an integer.
LEMMA LinesBalanceIsInt ==
    ASSUME NEW lines \in Seq(Line), NEW f
    PROVE  LinesBalance(lines, f) \in Int
BY LinesBalanceIsTotal, ColumnsAreInts, TotalIsInt

\* A set of funds splits into one of them and the others: no line is counted
\* twice and none is left out.
LEMMA LinesSplit ==
    ASSUME NEW lines \in Seq(Line), NEW funds, NEW f \in funds
    PROVE  Total(LinesOfFunds(lines, funds))
             = LinesBalance(lines, f) + Total(LinesOfFunds(lines, funds \ {f}))
<1> DEFINE a == LinesOfFunds(lines, {f})
           b == LinesOfFunds(lines, funds \ {f})
           c == LinesOfFunds(lines, funds)
<1>1. /\ a \in Seq(Int) /\ b \in Seq(Int) /\ c \in Seq(Int)
      /\ Len(a) = Len(lines) /\ Len(b) = Len(lines) /\ Len(c) = Len(lines)
  BY ColumnsAreInts
<1>2. ASSUME NEW i \in 1 .. Len(c) PROVE c[i] = a[i] + b[i]
  <2>1. i \in DOMAIN lines /\ lines[i] \in Line
    BY <1>1
  <2>2. lines[i].debit - lines[i].credit \in Int
    BY <2>1 DEF Line
  <2> QED
    BY <2>1, <2>2 DEF LinesOfFunds
<1>3. Total(c) = Total(a) + Total(b)
  <2> HIDE DEF a, b, c
  <2> QED
    BY <1>1, <1>2, TotalOfSums
<1> QED
  BY <1>3, LinesBalanceIsTotal

\* What lines add to no fund is zero.
LEMMA LinesOfNoFund ==
    ASSUME NEW lines \in Seq(Line)
    PROVE  Total(LinesOfFunds(lines, {})) = 0
<1>1. LinesOfFunds(lines, {}) \in Seq(Int)
  BY ColumnsAreInts
<1>2. \A i \in DOMAIN LinesOfFunds(lines, {}) : LinesOfFunds(lines, {})[i] = 0
  BY DEF LinesOfFunds
<1> QED
  BY <1>1, <1>2, TotalOfZeros

\* What balanced lines add to all the funds they name is zero.
LEMMA BalancedLinesAddNothing ==
    ASSUME NEW lines \in Seq(Line), BalancesExactly(lines),
           NEW funds, \A i \in DOMAIN lines : lines[i].fund \in funds
    PROVE  Total(LinesOfFunds(lines, funds)) = 0
<1> DEFINE net == LinesOfFunds(lines, funds)
           debits == DebitColumn(lines)
           credits == CreditColumn(lines)
<1>1. /\ net \in Seq(Int) /\ debits \in Seq(Int) /\ credits \in Seq(Int)
      /\ Len(net) = Len(lines) /\ Len(debits) = Len(lines) /\ Len(credits) = Len(lines)
  BY ColumnsAreInts
<1>2. ASSUME NEW i \in 1 .. Len(debits) PROVE debits[i] = net[i] + credits[i]
  <2>1. i \in DOMAIN lines /\ lines[i] \in Line
    BY <1>1
  <2>2. lines[i].debit \in Int /\ lines[i].credit \in Int
    BY <2>1 DEF Line
  <2> QED
    BY <2>1, <2>2 DEF LinesOfFunds, DebitColumn, CreditColumn
<1> HIDE DEF net, debits, credits
<1>3. Total(debits) = Total(net) + Total(credits)
  BY <1>1, <1>2, TotalOfSums
<1>4. Total(net) \in Int /\ Total(credits) \in Int
  BY <1>1, TotalIsInt
<1>5. Total(debits) = Total(credits)
  BY DEF BalancesExactly, debits, credits
<1> QED
  BY <1>3, <1>4, <1>5 DEF net

\* Lines and their swapped copy cancel out in every fund.
LEMMA SwappedCancels ==
    ASSUME NEW lines \in Seq(Line), NEW f
    PROVE  LinesBalance(Swapped(lines), f) + LinesBalance(lines, f) = 0
<1> DEFINE a == LinesOfFunds(Swapped(lines), {f})
           b == LinesOfFunds(lines, {f})
           c == [i \in DOMAIN lines |-> 0]
<1>1. /\ a \in Seq(Int) /\ b \in Seq(Int) /\ c \in Seq(Int)
      /\ Len(a) = Len(lines) /\ Len(b) = Len(lines) /\ Len(c) = Len(lines)
  <2>1. a \in Seq(Int) /\ b \in Seq(Int) /\ Len(a) = Len(lines) /\ Len(b) = Len(lines)
    BY ColumnsAreInts, SwappedType
  <2> QED
    BY <2>1
<1>2. ASSUME NEW i \in 1 .. Len(c) PROVE c[i] = a[i] + b[i]
  <2>1. i \in DOMAIN lines /\ lines[i] \in Line /\ i \in DOMAIN Swapped(lines)
    BY <1>1, SwappedType
  <2>2. lines[i].debit \in Int /\ lines[i].credit \in Int
    BY <2>1 DEF Line
  <2>3. /\ Swapped(lines)[i].fund = lines[i].fund
        /\ Swapped(lines)[i].debit = lines[i].credit
        /\ Swapped(lines)[i].credit = lines[i].debit
    BY <2>1 DEF Swapped, Line
  <2> QED
    BY <2>1, <2>2, <2>3 DEF LinesOfFunds
<1>3. \A i \in 1 .. Len(c) : c[i] = 0
  BY <1>1
<1>4. Total(c) = Total(a) + Total(b) /\ Total(c) = 0
  <2> HIDE DEF a, b, c
  <2> QED
    BY <1>1, <1>2, <1>3, TotalOfSums, TotalOfZeros
<1>5. Total(a) \in Int /\ Total(b) \in Int
  BY <1>1, TotalIsInt
<1> QED
  BY <1>4, <1>5, LinesBalanceIsTotal, SwappedType

-----------------------------------------------------------------------------
(* The same for a journal. *)

\* What each entry of a journal adds to the funds of a set together.
JournalOfFunds(journal, funds) ==
    [n \in DOMAIN journal |-> Total(LinesOfFunds(journal[n].lines, funds))]

\* The entries' sums are integers.
LEMMA JournalColumnsAreInts ==
    ASSUME NEW journal \in Seq(Entry), NEW funds
    PROVE  /\ JournalOfFunds(journal, funds) \in Seq(Int)
           /\ Len(JournalOfFunds(journal, funds)) = Len(journal)
           /\ \A n \in DOMAIN journal : journal[n].lines \in Seq(Line)
<1>1. ASSUME NEW n \in 1 .. Len(journal)
      PROVE  /\ journal[n].lines \in Seq(Line)
             /\ Total(LinesOfFunds(journal[n].lines, funds)) \in Int
  <2>1. journal[n] \in Entry
    OBVIOUS
  <2>2. journal[n].lines \in Seq(Line)
    BY <2>1 DEF Entry
  <2> QED
    BY <2>2, ColumnsAreInts, TotalIsInt
<1>2. DOMAIN journal = 1 .. Len(journal) /\ Len(journal) \in Nat
  OBVIOUS
<1> QED
  BY <1>1, <1>2 DEF JournalOfFunds

\* The balance of a fund is the total of what the entries add to it alone.
LEMMA FundBalanceIsTotal ==
    ASSUME NEW journal \in Seq(Entry), NEW f
    PROVE  FundBalance(journal, f) = Total(JournalOfFunds(journal, {f}))
<1>1. \A n \in DOMAIN journal :
         LinesBalance(journal[n].lines, f) = Total(LinesOfFunds(journal[n].lines, {f}))
  BY JournalColumnsAreInts, LinesBalanceIsTotal
<1>2. [n \in DOMAIN journal |-> LinesBalance(journal[n].lines, f)]
        = JournalOfFunds(journal, {f})
  BY <1>1 DEF JournalOfFunds
<1> QED
  BY <1>2 DEF FundBalance

\* A set of funds splits into one of them and the others.
LEMMA JournalSplit ==
    ASSUME NEW journal \in Seq(Entry), NEW funds, NEW f \in funds
    PROVE  Total(JournalOfFunds(journal, funds))
             = FundBalance(journal, f) + Total(JournalOfFunds(journal, funds \ {f}))
<1> DEFINE a == JournalOfFunds(journal, {f})
           b == JournalOfFunds(journal, funds \ {f})
           c == JournalOfFunds(journal, funds)
<1>1. a \in Seq(Int) /\ b \in Seq(Int) /\ c \in Seq(Int)
  BY JournalColumnsAreInts
<1>2. Len(a) = Len(journal) /\ Len(b) = Len(journal) /\ Len(c) = Len(journal)
  BY JournalColumnsAreInts
<1>3. ASSUME NEW n \in 1 .. Len(c) PROVE c[n] = a[n] + b[n]
  <2>1. n \in DOMAIN journal /\ journal[n].lines \in Seq(Line)
    BY <1>2, JournalColumnsAreInts
  <2>2. Total(LinesOfFunds(journal[n].lines, funds))
          = LinesBalance(journal[n].lines, f)
              + Total(LinesOfFunds(journal[n].lines, funds \ {f}))
    BY <2>1, LinesSplit
  <2>3. LinesBalance(journal[n].lines, f) = Total(LinesOfFunds(journal[n].lines, {f}))
    BY <2>1, LinesBalanceIsTotal
  <2> QED
    BY <2>1, <2>2, <2>3 DEF JournalOfFunds
<1>4. Total(c) = Total(a) + Total(b)
  <2> HIDE DEF a, b, c
  <2> QED
    BY <1>1, <1>2, <1>3, TotalOfSums
<1> QED
  BY <1>4, FundBalanceIsTotal

\* What a journal adds to no fund is zero.
LEMMA JournalOfNoFund ==
    ASSUME NEW journal \in Seq(Entry)
    PROVE  Total(JournalOfFunds(journal, {})) = 0
<1> DEFINE none == JournalOfFunds(journal, {})
<1>1. none \in Seq(Int) /\ Len(none) = Len(journal)
  BY JournalColumnsAreInts
<1>2. ASSUME NEW n \in 1 .. Len(none) PROVE none[n] = 0
  <2>1. n \in DOMAIN journal /\ journal[n].lines \in Seq(Line)
    BY <1>1, JournalColumnsAreInts
  <2>2. Total(LinesOfFunds(journal[n].lines, {})) = 0
    BY <2>1, LinesOfNoFund
  <2> QED
    BY <2>1, <2>2 DEF JournalOfFunds
<1> HIDE DEF none
<1>3. Total(none) = 0
  BY <1>1, <1>2, TotalOfZeros
<1> QED
  BY <1>3 DEF none

\* What a journal of balanced entries adds to all the funds it names is zero.
LEMMA BalancedJournalAddsNothing ==
    ASSUME NEW journal \in Seq(Entry),
           \A n \in DOMAIN journal : BalancesExactly(journal[n].lines)
    PROVE  Total(JournalOfFunds(journal, PostedFunds(journal))) = 0
<1> DEFINE all == JournalOfFunds(journal, PostedFunds(journal))
<1>1. all \in Seq(Int) /\ Len(all) = Len(journal)
  BY JournalColumnsAreInts
<1>2. ASSUME NEW n \in 1 .. Len(all) PROVE all[n] = 0
  <2>1. n \in DOMAIN journal /\ journal[n].lines \in Seq(Line)
    BY <1>1, JournalColumnsAreInts
  <2>2. ASSUME NEW i \in DOMAIN journal[n].lines
        PROVE  journal[n].lines[i].fund \in PostedFunds(journal)
    <3>1. journal[n].lines[i] \in Line
      BY <2>1
    <3>2. journal[n].lines[i].fund \in FundIds
      BY <3>1 DEF Line
    <3> QED
      BY <2>1, <3>2 DEF PostedFunds
  <2>3. Total(LinesOfFunds(journal[n].lines, PostedFunds(journal))) = 0
    BY <2>1, <2>2, BalancedLinesAddNothing
  <2> QED
    BY <2>1, <2>3 DEF JournalOfFunds
<1> HIDE DEF all
<1>3. Total(all) = 0
  BY <1>1, <1>2, TotalOfZeros
<1> QED
  BY <1>3 DEF all

-----------------------------------------------------------------------------
(* The sum over all funds. *)

\* Finitely many funds have a posted line.
LEMMA PostedFundsAreFinite ==
    ASSUME NEW journal \in Seq(Entry)
    PROVE  IsFiniteSet(PostedFunds(journal))
<1> DEFINE fundsOf(n) == {journal[n].lines[i].fund : i \in DOMAIN journal[n].lines}
           families == {fundsOf(n) : n \in DOMAIN journal}
<1>1. ASSUME NEW n \in DOMAIN journal PROVE IsFiniteSet(fundsOf(n))
  <2> DEFINE lines == journal[n].lines
             fundOf == [i \in DOMAIN lines |-> lines[i].fund]
  <2>1. lines \in Seq(Line)
    BY JournalColumnsAreInts
  <2>2. IsFiniteSet(DOMAIN lines)
    <3> HIDE DEF lines
    <3>1. DOMAIN lines = 1 .. Len(lines) /\ Len(lines) \in Int
      BY <2>1
    <3> QED
      BY <3>1, FS_Interval
  <2>3. fundOf \in Surjection(DOMAIN lines, fundsOf(n))
    BY DEF Surjection
  <2> QED
    BY <2>2, <2>3, FS_Surjection
<1>2. IsFiniteSet(families)
  <2> DEFINE family == [n \in DOMAIN journal |-> fundsOf(n)]
  <2>1. DOMAIN journal = 1 .. Len(journal) /\ Len(journal) \in Int
    OBVIOUS
  <2>2. IsFiniteSet(DOMAIN journal)
    BY <2>1, FS_Interval
  <2>3. family \in Surjection(DOMAIN journal, families)
    BY DEF Surjection
  <2> QED
    BY <2>2, <2>3, FS_Surjection
<1>3. IsFiniteSet(UNION families)
  BY <1>1, <1>2, FS_UNION
<1>4. PostedFunds(journal) \subseteq UNION families
  BY DEF PostedFunds
<1> QED
  BY <1>3, <1>4, FS_Subset

\* A sum over a finite set is what any function of its subsets says that is
\* zero on the empty set and splits off one element at a time.
LEMMA SumIsUnique ==
    ASSUME NEW f, IsFiniteSet(DOMAIN f),
           NEW part, part \in [SUBSET DOMAIN f -> Int],
           part[{}] = 0,
           \A s \in SUBSET DOMAIN f : \A x \in s : part[s] = f[x] + part[s \ {x}]
    PROVE  FoldFunction(LAMBDA a, b : a + b, 0, f) = part[DOMAIN f]
<1> DEFINE S == DOMAIN f
           Splits(iter) == iter = [s \in SUBSET S |->
                              IF s = {} THEN 0
                              ELSE f[CHOOSE x \in s : TRUE]
                                     + iter[s \ {CHOOSE x \in s : TRUE}]]
           iter == CHOOSE it : Splits(it)
<1>1. Splits(part)
  OBVIOUS
<1> HIDE DEF Splits
<1>2. Splits(iter)
  BY <1>1
<1>3. FoldFunction(LAMBDA a, b : a + b, 0, f) = iter[S]
  BY DEF FoldFunction, FoldFunctionOnSet, MapThenFoldSet, Splits
<1> HIDE DEF iter
<1> DEFINE Sized == {n \in Nat : \A s \in SUBSET S : Cardinality(s) = n => iter[s] = part[s]}
<1>4. \A s \in SUBSET S : IsFiniteSet(s) /\ Cardinality(s) \in Nat
  BY FS_Subset, FS_CardinalityType
<1>5. 0 \in Sized
  <2>1. \A s \in SUBSET S : Cardinality(s) = 0 => s = {}
    BY <1>4, FS_EmptySet
  <2>2. iter[{}] = 0
    BY <1>2 DEF Splits
  <2> QED
    BY <2>1, <2>2
<1>6. ASSUME NEW n \in Sized PROVE n + 1 \in Sized
  <2>1. ASSUME NEW s \in SUBSET S, Cardinality(s) = n + 1
        PROVE  iter[s] = part[s]
    <3> DEFINE x == CHOOSE y \in s : TRUE
    <3>1. IsFiniteSet(s) /\ s # {} /\ n \in Nat
      BY <1>4, <2>1, FS_EmptySet
    <3>2. x \in s
      BY <3>1
    <3>3. iter[s] = f[x] + iter[s \ {x}]
      BY <1>2, <3>1 DEF Splits
    <3> HIDE DEF x
    <3>4. Cardinality(s \ {x}) = n
      <4>1. Cardinality(s \ {x}) = Cardinality(s) - 1
        BY <3>1, <3>2, FS_RemoveElement
      <4> QED
        BY <2>1, <3>1, <4>1
    <3>5. iter[s \ {x}] = part[s \ {x}]
      BY <3>4
    <3> QED
      BY <3>2, <3>3, <3>5
  <2> QED
    BY <2>1
<1>7. Sized = Nat
  <2> HIDE DEF Sized
  <2> QED
    BY <1>5, <1>6, ClosedUnderNextIsNat DEF Sized
<1>8. iter[S] = part[S]
  BY <1>4, <1>7
<1> QED
  BY <1>3, <1>8

\* Entries that balance as the code computes it and whose totals fit balance.
LEMMA FittingEntriesBalance ==
    ASSUME NEW journal, JournalBalanced(journal), JournalFits(journal),
           NEW n \in DOMAIN journal
    PROVE  BalancesExactly(journal[n].lines)
BY DEF JournalBalanced, WellFormed, Balances, JournalFits, TotalsFit, BalancesExactly

\* The balances of the funds of a journal of such entries sum to zero.
LEMMA BalancedJournalReconciles ==
    ASSUME NEW journal \in Seq(Entry),
           \A n \in DOMAIN journal : BalancesExactly(journal[n].lines)
    PROVE  JournalReconciles(journal)
<1> DEFINE f == TrialBalance(journal)
           posted == PostedFunds(journal)
           part == [s \in SUBSET posted |-> Total(JournalOfFunds(journal, s))]
<1>1. DOMAIN f = posted /\ IsFiniteSet(DOMAIN f)
  BY PostedFundsAreFinite DEF TrialBalance
<1>2. part \in [SUBSET DOMAIN f -> Int]
  <2>1. ASSUME NEW s \in SUBSET posted PROVE Total(JournalOfFunds(journal, s)) \in Int
    BY JournalColumnsAreInts, TotalIsInt
  <2> QED
    BY <1>1, <2>1
<1>3. part[{}] = 0
  BY JournalOfNoFund
<1>4. ASSUME NEW s \in SUBSET DOMAIN f, NEW x \in s
      PROVE  part[s] = f[x] + part[s \ {x}]
  <2>1. x \in posted /\ s \in SUBSET posted /\ s \ {x} \in SUBSET posted
    BY <1>1
  <2>2. f[x] = FundBalance(journal, x)
    BY <2>1 DEF TrialBalance
  <2>3. Total(JournalOfFunds(journal, s))
          = FundBalance(journal, x) + Total(JournalOfFunds(journal, s \ {x}))
    BY JournalSplit
  <2> QED
    BY <2>1, <2>2, <2>3
<1>5. part[posted] = 0
  BY BalancedJournalAddsNothing
<1> HIDE DEF f, posted, part
<1>6. FoldFunction(LAMBDA a, b : a + b, 0, f) = part[DOMAIN f]
  BY <1>1, <1>2, <1>3, <1>4, SumIsUnique
<1> QED
  BY <1>1, <1>5, <1>6 DEF f, JournalReconciles

-----------------------------------------------------------------------------
(* Reversals and appended entries. *)

\* A reversal and its original cancel out in every fund.
LEMMA ReversalsCancel ==
    ASSUME NEW journal \in Seq(Entry), JournalReversalsNegate(journal)
    PROVE  JournalReversalsCancel(journal)
<1> SUFFICES ASSUME NEW n \in DOMAIN journal, IsReversal(journal[n]), NEW f \in FundIds
             PROVE  LinesBalance(journal[n].lines, f)
                      + LinesBalance(journal[journal[n].reverses].lines, f) = 0
  BY DEF JournalReversalsCancel
<1> DEFINE original == journal[n].reverses
<1>1. original \in 1 .. n - 1 /\ journal[n].lines = Swapped(journal[original].lines)
  BY DEF JournalReversalsNegate
<1>2. original \in DOMAIN journal
  BY <1>1
<1>3. journal[original].lines \in Seq(Line)
  BY <1>2, JournalColumnsAreInts
<1> QED
  BY <1>1, <1>3, SwappedCancels

\* A new entry changes the balance of a fund by what its lines add to it,
\* and by nothing else: the balance is recomputed, never stored.
LEMMA BalanceAfterAppend ==
    ASSUME NEW journal \in Seq(Entry), NEW entry \in Entry, NEW f
    PROVE  FundBalance(Append(journal, entry), f)
             = FundBalance(journal, f) + LinesBalance(entry.lines, f)
<1> DEFINE a == [n \in DOMAIN journal |-> LinesBalance(journal[n].lines, f)]
           x == LinesBalance(entry.lines, f)
           longer == Append(journal, entry)
<1>1. /\ DOMAIN longer = DOMAIN journal \cup {Len(journal) + 1}
      /\ \A n \in DOMAIN journal : longer[n] = journal[n]
      /\ longer[Len(journal) + 1] = entry
  BY AppendedElements
<1>2. \A n \in DOMAIN journal : LinesBalance(journal[n].lines, f) \in Int
  BY JournalColumnsAreInts, LinesBalanceIsInt
<1>3. x \in Int
  <2>1. entry.lines \in Seq(Line)
    BY DEF Entry
  <2> QED
    BY <2>1, LinesBalanceIsInt
<1>4. a \in Seq(Int) /\ Len(a) = Len(journal)
  BY <1>2
<1> HIDE DEF longer
<1>5. [n \in DOMAIN longer |-> LinesBalance(longer[n].lines, f)] = Append(a, x)
  BY <1>1, <1>4
<1> HIDE DEF a, x
<1>6. Total(Append(a, x)) = Total(a) + x
  BY <1>3, <1>4, TotalOfAppended
<1> QED
  BY <1>5, <1>6 DEF FundBalance, a, x, longer

\* A sound journal whose totals fit the machine integers reconciles.
LEMMA SoundJournalReconciles ==
    ASSUME NEW journal \in Seq(Entry), JournalBalanced(journal), JournalFits(journal)
    PROVE  JournalReconciles(journal)
<1>1. \A n \in DOMAIN journal : BalancesExactly(journal[n].lines)
  BY FittingEntriesBalance
<1> QED
  BY <1>1, BalancedJournalReconciles

\* A reversal's totals are its original's, exchanged.
LEMMA SwappedFits ==
    ASSUME NEW lines \in Seq(Line), TotalsFit(lines)
    PROVE  TotalsFit(Swapped(lines))
BY SwappedColumns DEF TotalsFit

-----------------------------------------------------------------------------
(* Machine integers: the loop of balances() keeps its sums in them, and     *)
(* LedgerData wraps the exact total once instead.                           *)

\* Quotient and remainder.
LEMMA Division ==
    \A m \in Nat \ {0}, x \in Int :
        x % m \in 0 .. m - 1 /\ x \div m \in Int /\ x = m * (x \div m) + (x % m)
OBVIOUS

\* There is one remainder.
LEMMA RemainderIsUnique ==
    ASSUME NEW m \in Nat \ {0}, NEW q \in Int, NEW s \in Int,
           NEW r \in 0 .. m - 1, NEW t \in 0 .. m - 1, m * q + r = m * s + t
    PROVE  r = t
<1>1. m * (q - s) = t - r
  OBVIOUS
<1>2. q - s >= 1 => m * (q - s) >= m
  OBVIOUS
<1>3. q - s <= -1 => m * (q - s) <= -m
  OBVIOUS
<1> QED
  BY <1>1, <1>2, <1>3

\* A multiple of the modulus changes no remainder.
LEMMA RemainderOfShifted ==
    ASSUME NEW m \in Nat \ {0}, NEW x \in Int, NEW k \in Int
    PROVE  (x + m * k) % m = x % m
<1> DEFINE y == x + m * k
           q == x \div m
           r == x % m
           s == y \div m
           t == y % m
<1>1. y \in Int
  OBVIOUS
<1>2. r \in 0 .. m - 1 /\ q \in Int /\ x = m * q + r
  BY Division
<1>3. t \in 0 .. m - 1 /\ s \in Int /\ y = m * s + t
  BY <1>1, Division
<1> HIDE DEF q, r, s, t
<1>4. m * (q + k) + r = m * s + t
  <2>1. m * (q + k) = m * q + m * k
    BY <1>2
  <2> QED
    BY <1>2, <1>3, <2>1
<1>5. r = t
  BY <1>2, <1>3, <1>4, RemainderIsUnique
<1> QED
  BY <1>5 DEF r, t

\* Wrapping is into the integers, leaves zero alone, and wrapping what was
\* added to a wrapped sum gives what wrapping the exact sum gives.
LEMMA WrapOfSum ==
    /\ Wrap(0) = 0
    /\ \A x \in Int : Wrap(x) \in Int
    /\ \A x, y \in Int : Wrap(Wrap(x) + y) = Wrap(x + y)
<1> DEFINE h == 2^(IntWidth - 1)
           m == 2^IntWidth
<1>1. h \in Nat \ {0} /\ m \in Nat \ {0} /\ h < m
  BY PowersAssumption
<1>2. \A x : Wrap(x) = ((x + h) % m) - h
  BY DEF Wrap
<1> HIDE DEF h, m
<1>3. ASSUME NEW x \in Int PROVE Wrap(x) \in Int
  <2>1. x + h \in Int
    BY <1>1
  <2>2. (x + h) % m \in 0 .. m - 1
    BY <1>1, <2>1, Division
  <2> QED
    BY <1>1, <1>2, <2>2
<1>4. Wrap(0) = 0
  <2> DEFINE q == h \div m
             r == h % m
  <2>1. r \in 0 .. m - 1 /\ q \in Int /\ h = m * q + r
    BY <1>1, Division
  <2> HIDE DEF q, r
  <2>2. m * q + r = m * 0 + h /\ h \in 0 .. m - 1
    BY <1>1, <2>1
  <2>3. r = h
    BY <1>1, <2>1, <2>2, RemainderIsUnique
  <2> QED
    BY <1>1, <1>2, <2>3 DEF r
<1>5. ASSUME NEW x \in Int, NEW y \in Int PROVE Wrap(Wrap(x) + y) = Wrap(x + y)
  <2> DEFINE q == (x + h) \div m
             r == (x + h) % m
  <2>1. r \in 0 .. m - 1 /\ q \in Int /\ x + h = m * q + r
    <3>1. x + h \in Int
      BY <1>1
    <3> QED
      BY <1>1, <3>1, Division
  <2>2. Wrap(x) = r - h
    BY <1>2 DEF r
  <2> HIDE DEF q, r
  <2>3. /\ (Wrap(x) + y) + h = (x + y + h) + m * (-q)
        /\ x + y + h \in Int /\ -q \in Int
    <3>1. m * (-q) = -(m * q)
      BY <1>1, <2>1
    <3>2. m * q = x + h - r
      BY <1>1, <2>1
    <3> QED
      BY <1>1, <2>1, <2>2, <3>1, <3>2
  <2>4. ((x + y + h) + m * (-q)) % m = (x + y + h) % m
    BY <1>1, <2>3, RemainderOfShifted
  <2> QED
    BY <1>2, <2>3, <2>4
<1> QED
  BY <1>3, <1>4, <1>5

\* The sums of the loop as the code has them: machine integers throughout.
IsWrappedSums(sum, column) ==
    sum = [k \in 0 .. Len(column) |->
              IF k = 0 THEN 0 ELSE Wrap(sum[k - 1] + column[k])]

\* Whatever column the loop runs over, it ends with the exact total, wrapped:
\* Balances, which wraps once, is the loop of balances() (posting.go:124-128).
THEOREM WrappingOnceIsEnough ==
    ASSUME NEW column \in Seq(Int)
    PROVE  /\ \E sum : IsWrappedSums(sum, column)
           /\ \A sum : IsWrappedSums(sum, column)
                          => sum[Len(column)] = Wrap(Total(column))
<1> DEFINE len == Len(column)
<1>1. len \in Nat /\ \A i \in 1 .. len : column[i] \in Int
  OBVIOUS
<1>2. PICK s : IsSums(s, column, len) /\ Total(column) = s[len]
  BY TotalIsLastSum
<1> HIDE DEF len
<1>3. \A n \in 0 .. len : s[n] \in Int
  BY <1>2, SumsAreInts DEF len
<1>4. \E sum : IsWrappedSums(sum, column)
  <2> DEFINE w == [k \in 0 .. len |-> Wrap(s[k])]
  <2>1. ASSUME NEW k \in 0 .. len
        PROVE  Wrap(s[k]) = IF k = 0 THEN 0 ELSE Wrap(w[k - 1] + column[k])
    <3>1. CASE k = 0
      BY <1>1, <1>2, <3>1, SumsStep, WrapOfSum
    <3>2. CASE k # 0
      <4>1. /\ k - 1 \in 0 .. len /\ k - 1 \in Nat /\ (k - 1) + 1 = k
            /\ column[k] \in Int
        BY <1>1, <3>2
      <4>2. s[k] = s[k - 1] + column[k]
        BY <1>1, <1>2, <4>1, SumsStep
      <4>3. w[k - 1] = Wrap(s[k - 1]) /\ s[k - 1] \in Int
        BY <1>3, <4>1
      <4> QED
        BY <3>2, <4>1, <4>2, <4>3, WrapOfSum
    <3> QED
      BY <3>1, <3>2
  <2>2. w = [k \in 0 .. len |-> IF k = 0 THEN 0 ELSE Wrap(w[k - 1] + column[k])]
    BY <2>1
  <2> QED
    BY <2>2 DEF IsWrappedSums, len
<1>5. ASSUME NEW sum, IsWrappedSums(sum, column)
      PROVE  sum[len] = Wrap(Total(column))
  <2>1. \A k \in 0 .. len :
           sum[k] = IF k = 0 THEN 0 ELSE Wrap(sum[k - 1] + column[k])
    BY <1>5 DEF IsWrappedSums, len
  <2> DEFINE S == {n \in Nat : n <= len => sum[n] = Wrap(s[n])}
  <2>2. 0 \in S
    <3>1. 0 \in 0 .. len
      BY <1>1
    <3>2. sum[0] = 0
      BY <2>1, <3>1
    <3>3. s[0] = 0
      BY <1>1, <1>2, SumsStep
    <3> QED
      BY <3>2, <3>3, WrapOfSum
  <2>3. ASSUME NEW n \in S PROVE n + 1 \in S
    <3> SUFFICES ASSUME n + 1 <= len PROVE sum[n + 1] = Wrap(s[n + 1])
      OBVIOUS
    <3>1. /\ n \in Nat /\ n + 1 \in 0 .. len /\ n + 1 # 0 /\ (n + 1) - 1 = n
          /\ sum[n] = Wrap(s[n]) /\ s[n] \in Int /\ column[n + 1] \in Int
      BY <1>1, <1>3
    <3>2. s[n + 1] = s[n] + column[n + 1]
      BY <1>1, <1>2, <3>1, SumsStep
    <3>3. sum[n + 1] = Wrap(sum[n] + column[n + 1])
      BY <2>1, <3>1
    <3> QED
      BY <3>1, <3>2, <3>3, WrapOfSum
  <2>4. S = Nat
    <3> HIDE DEF S
    <3> QED
      BY <2>2, <2>3, ClosedUnderNextIsNat DEF S
  <2> QED
    BY <1>1, <1>2, <2>4
<1> QED
  BY <1>4, <1>5 DEF len
=============================================================================
