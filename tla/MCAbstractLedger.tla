-------------------------- MODULE MCAbstractLedger --------------------------
(***************************************************************************)
(* A bounded instance of AbstractLedger for TLC: without interleavings, it *)
(* reaches longer journals than MCLedger, with reversals of reversals.     *)
(***************************************************************************)
EXTENDS AbstractLedger, MCPostings

CONSTANT MaxCommits   \* bound on the operations of a behaviour

AbstractPostings == {Gift, SharedRent, Unbalanced, Uncategorised, Negative, NoLines}

\* The premise of the theorem that the balances reconcile holds of these.
ASSUME AmountsFit == \A lines \in Postings : TotalsFit(lines)

\* At the bound nothing more is asked for.
BoundedNext == \/ Len(audit) < MaxCommits /\ Next
               \/ Len(audit) = MaxCommits /\ UNCHANGED vars
BoundedSpec == Init /\ [][BoundedNext]_vars
=============================================================================
