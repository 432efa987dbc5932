---------------------------- MODULE MCWithdrawals ----------------------------
(***************************************************************************)
(* One user with room for two withdrawals at once, amounts on either side  *)
(* of the KYC, dual-approval and automatic-payout limits, three admins.    *)
(***************************************************************************)
EXTENDS Withdrawals, TLC

CONSTANTS u1, a1, a2, a3, c1, c2

\* A credit, and a debit that may overdraw.
MCAdjustments == {3, -2}

Symmetry == Permutations(Admins) \cup Permutations(Callers)
=============================================================================
