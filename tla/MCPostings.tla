----------------------------- MODULE MCPostings -----------------------------
(***************************************************************************)
(* A chart of accounts, funds and postings small enough for TLC: at least  *)
(* one posting for every check of the code and of the schema.              *)
(***************************************************************************)
EXTENDS LedgerData

\* Three accounts; a request may also name one that does not exist.
MCAccountType == [cash |-> "asset", gifts |-> "revenue", rent |-> "expense"]
MCAccountIds == DOMAIN MCAccountType \cup {"no_account"}

MCFunds == {"general", "grant"}
MCFundIds == MCFunds \cup {"no_fund"}

DebitOf(account, fund, category, amount) ==
    [account |-> account, fund |-> fund, category |-> category,
     debit |-> amount, credit |-> 0]
CreditOf(account, fund, category, amount) ==
    [account |-> account, fund |-> fund, category |-> category,
     debit |-> 0, credit |-> amount]

\* A gift: two lines in one fund.
Gift == <<DebitOf("cash", "general", NoCategory, 2),
          CreditOf("gifts", "general", NoCategory, 2)>>

\* Rent paid by two funds: three lines, one fund overdrawn by the other.
SharedRent == <<DebitOf("rent", "grant", "program", 2),
                CreditOf("cash", "grant", NoCategory, 1),
                CreditOf("cash", "general", NoCategory, 1)>>

\* Refused by balances(): nothing to post, a zero total, unequal totals.
NoLines == << >>
ZeroTotal == <<DebitOf("cash", "general", NoCategory, 0)>>
Unbalanced == <<DebitOf("cash", "general", NoCategory, 2),
                CreditOf("gifts", "general", NoCategory, 1)>>

\* Refused by the look-up of its second account, after the first was fine.
UnknownAccount == <<DebitOf("cash", "general", NoCategory, 1),
                    CreditOf("no_account", "general", NoCategory, 1)>>
Uncategorised == <<CreditOf("cash", "general", NoCategory, 1),
                   DebitOf("rent", "general", NoCategory, 1)>>

\* Past every check of the code, stopped by a CHECK clause of the schema:
\* a negative amount, a line both debit and credit, a category unheard of.
Negative == <<CreditOf("gifts", "general", NoCategory, 1),
              CreditOf("cash", "general", NoCategory, -2),
              DebitOf("cash", "general", NoCategory, -1)>>
BothSides == <<[account |-> "cash", fund |-> "general", category |-> NoCategory,
                debit |-> 1, credit |-> 1]>>
UnknownCategory == <<DebitOf("rent", "general", "other", 1),
                     CreditOf("cash", "general", NoCategory, 1)>>

\* Stopped by a foreign key, where foreign keys are enforced.
UnknownFund == <<DebitOf("cash", "general", NoCategory, 1),
                 CreditOf("gifts", "no_fund", NoCategory, 1)>>

\* With four-bit amounts 7 + 7 + 3 wraps to 1.
Wrapping == <<DebitOf("cash", "general", NoCategory, 7),
              DebitOf("cash", "general", NoCategory, 7),
              DebitOf("cash", "general", NoCategory, 3),
              CreditOf("gifts", "general", NoCategory, 1)>>
=============================================================================
