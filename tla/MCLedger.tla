------------------------------ MODULE MCLedger ------------------------------
(***************************************************************************)
(* Small instances of Ledger for TLC.                                      *)
(***************************************************************************)
EXTENDS Ledger, MCPostings

Symmetry == Permutations(Procs)

\* One posting that is fine, one that only a pragma stops.
RacePostings == {Gift, UnknownFund}

\* One posting for every outcome of every check.
AllPostings == {Gift, SharedRent, NoLines, ZeroTotal, Unbalanced, UnknownAccount,
                Uncategorised, Negative, BothSides, UnknownCategory, UnknownFund}

WrapPostings == {Wrapping}
=============================================================================
