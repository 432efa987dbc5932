----------------------------- MODULE LedgerRows -----------------------------
(***************************************************************************)
(* The rows of apps/ledger/models.py and the checks post_transaction makes *)
(* on them before it touches the database, shared by the abstract ledger   *)
(* (Ledger) and the concurrent one (LedgerPosting).                        *)
(*                                                                         *)
(* A posted transaction is a record: its UUID, its idempotency key and its *)
(* entries.  The list of (account, amount) pairs is kept as one signed     *)
(* amount per account; an account without an entry has amount 0.           *)
(***************************************************************************)
EXTENDS Integers, FiniteSets, FiniteSetsExt

CONSTANTS
  Accounts,     \* WalletAccount rows
  Currencies,   \* currency codes
  CurrencyOf,   \* [Accounts -> Currencies], WalletAccount.currency
  TxnIds,       \* UUIDs a LedgerTransaction may get: bounds the journal
  Keys,         \* idempotency keys chosen by the callers
  NoKey,        \* idempotency_key = NULL
  NoTxn         \* a NULL reference to a LedgerTransaction

ASSUME AccountsFinite == IsFiniteSet(Accounts)
ASSUME CurrencyOfType == CurrencyOf \in [Accounts -> Currencies]

\* Unique keys: those of the callers, and f"reversal:{txn.id}".
ReversalKeys == [reverses : TxnIds]
UniqueKeys   == Keys \cup ReversalKeys

ASSUME KeysDistinct == NoKey \notin UniqueKeys /\ Keys \cap ReversalKeys = {}

Entries == [Accounts -> Int]

\* reverses is the one-to-one column of that name.
Row == [id : TxnIds, key : UniqueKeys \cup {NoKey}, entries : Entries,
        reverses : TxnIds \cup {NoTxn}]

Touched(e) == {a \in Accounts : e[a] # 0}

Negated(e) == [a \in Accounts |-> -e[a]]

\* The per-currency totals are all zero (which makes the grand total zero).
Balanced(e) ==
  \A c \in Currencies :
    SumFunctionOnSet(e, {a \in Accounts : CurrencyOf[a] = c}) = 0

\* Faulty variant: only the grand total is checked.
AcceptableInTotal(e) ==
  Touched(e) # {} /\ SumFunctionOnSet(e, Accounts) = 0

\* What post_transaction accepts: at least one entry, balanced.
Acceptable(e) == Touched(e) # {} /\ Balanced(e)

IsReversal(r) == r.key \in ReversalKeys

\* Ids of the transactions that the rows in R reverse.
ReversedBy(R) == {r.key.reverses : r \in {q \in R : IsReversal(q)}}

HasKey(R, k) == \E r \in R : r.key = k

\* SUM(amount) of the entries of account a in the rows R.
EntrySum(R, a) == SumFunctionOnSet([r \in R |-> r.entries[a]], R)
=============================================================================
