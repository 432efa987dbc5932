------------------------------- MODULE Ledger -------------------------------
(***************************************************************************)
(* What apps/ledger promises its callers, as one atomic step: a database   *)
(* transaction that posts a batch of ledger transactions appends them all, *)
(* moves every cached balance by exactly their amounts, marks what they    *)
(* reverse, and never uses a key twice.  LedgerPosting implements it.      *)
(***************************************************************************)
EXTENDS LedgerRows

VARIABLES
  journal,    \* LedgerTransaction rows with their LedgerEntry rows
  reversed,   \* ids of the rows with status REVERSED
  balance     \* WalletAccount.balance, the cached balances

vars == <<journal, reversed, balance>>

Init ==
  /\ journal = {}
  /\ reversed = {}
  /\ balance = [a \in Accounts |-> 0]

\* A reversal compensates a posted row: same accounts, opposite amounts.
Compensates(r, R) ==
  IsReversal(r) =>
    \E q \in R : q.id = r.key.reverses /\ r.entries = Negated(q.entries)

\* r is the only row of R with its id and, if it has one, with its key.
UniqueIn(r, R) ==
  \A q \in R \ {r} : q.id # r.id /\ (r.key # NoKey => q.key # r.key)

PostBatch ==
  LET new == journal' \ journal
  IN  /\ journal \subseteq journal'
      /\ new # {}
      /\ \A r \in new :
           /\ Acceptable(r.entries)
           /\ UniqueIn(r, journal')
           /\ Compensates(r, journal')
      /\ balance' = [a \in Accounts |-> balance[a] + EntrySum(new, a)]
      /\ reversed' = reversed \cup ReversedBy(new)

Spec == Init /\ [][PostBatch]_vars
=============================================================================
