--------------------------- MODULE MCLedgerPosting ---------------------------
(***************************************************************************)
(* A small platform: the PKR accounts an award moves money through and one *)
(* USD account, so that an entry list may balance overall and not per      *)
(* currency.                                                               *)
(***************************************************************************)
EXTENDS LedgerPosting, TLC

CONSTANTS system, pending, cash, usd, s1, s2, t1, t2, t3, k1, k2

MCAccounts   == {system, pending, cash, usd}
MCCurrencyOf == [a \in MCAccounts |-> IF a = usd THEN "USD" ELSE "PKR"]

Move(from, to, n) ==
  [a \in MCAccounts |-> CASE a = from -> -n [] a = to -> n [] OTHER -> 0]

\* The two movements of an award, and two lists post_transaction refuses:
\* an empty one and one that leaks between currencies.
MCRequests ==
  {Move(system, pending, 2), Move(pending, cash, 2), Move(usd, cash, 1),
   [a \in MCAccounts |-> 0]}

Symmetry == Permutations({s1, s2}) \cup Permutations(TxnIds)
=============================================================================
