---------------------------- MODULE LedgerPosting ----------------------------
(***************************************************************************)
(* apps/ledger/services.py at the grain of its SQL statements: concurrent  *)
(* database transactions (READ COMMITTED) that call post_transaction and   *)
(* reverse_transaction, lock account rows, insert into a table with a      *)
(* unique key, and commit or roll back.                                    *)
(*                                                                         *)
(* A session is one request or task; its database transaction may post     *)
(* several times before it commits (an award posts the pending and then    *)
(* the approving movement), and what an automation rule posts inside it is *)
(* undone to a savepoint when the rule fails.  Row locks, savepoints and   *)
(* the unique index are the database's; the rest is the service's.         *)
(***************************************************************************)
EXTENDS LedgerRows

CONSTANTS
  Sessions,   \* concurrent database transactions
  Requests,   \* entry lists the callers may pass, valid or not
  NoSession,  \* the owner of an unlocked row
  NoSavepoint \* no savepoint to return to

ASSUME RequestsType  == Requests \subseteq Entries
ASSUME NoSessionType == NoSession \notin Sessions

VARIABLES
  journal,    \* committed LedgerTransaction rows with their entries
  reversed,   \* ids of the committed rows whose status is REVERSED
  balance,    \* committed WalletAccount.balance
  entrySum,   \* committed SUM(LedgerEntry.amount), what account_balance reads
  owner,      \* session that holds the row lock of each account
  pc,         \* where each session is
  call,       \* arguments of the post_transaction call in progress
  rows,       \* rows inserted by the session and not yet committed
  cache,      \* balance of a locked account as the session sees it
  added,      \* entry amounts inserted by the session, per account
  saved       \* the session as it was at its last savepoint

stored == <<journal, reversed, balance, entrySum>>
work   == <<call, rows, cache, added, saved>>
vars   == <<journal, reversed, balance, entrySum, owner, pc, work>>

Call == [key : UniqueKeys \cup {NoKey}, entries : Entries]

PCs == {"idle",        \* no database transaction
        "open",        \* in the caller, between two calls
        "locking",     \* collecting the row locks (select_for_update)
        "inserting",   \* about to insert the LedgerTransaction row
        "entries",     \* about to write the entries and the balances
        "broken"}      \* IntegrityError: only a rollback is possible

ZeroAmounts == [a \in Accounts |-> 0]

IdleCall == [key |-> NoKey, entries |-> ZeroAmounts]

Held(s) == {a \in Accounts : owner[a] = s}

Savepoint == [rows : SUBSET Row, cache : [Accounts -> Int],
              added : [Accounts -> Int], held : SUBSET Accounts]

ASSUME NoSavepointType == NoSavepoint \notin Savepoint

TypeOK ==
  /\ journal \subseteq Row
  /\ reversed \subseteq TxnIds
  /\ balance \in [Accounts -> Int]
  /\ entrySum \in [Accounts -> Int]
  /\ owner \in [Accounts -> Sessions \cup {NoSession}]
  /\ pc \in [Sessions -> PCs]
  /\ call \in [Sessions -> Call]
  /\ rows \in [Sessions -> SUBSET Row]
  /\ cache \in [Sessions -> [Accounts -> Int]]
  /\ added \in [Sessions -> [Accounts -> Int]]
  /\ saved \in [Sessions -> Savepoint \cup {NoSavepoint}]

Init ==
  /\ journal = {}
  /\ reversed = {}
  /\ balance = ZeroAmounts
  /\ entrySum = ZeroAmounts
  /\ owner = [a \in Accounts |-> NoSession]
  /\ pc = [s \in Sessions |-> "idle"]
  /\ call = [s \in Sessions |-> IdleCall]
  /\ rows = [s \in Sessions |-> {}]
  /\ cache = [s \in Sessions |-> ZeroAmounts]
  /\ added = [s \in Sessions |-> ZeroAmounts]
  /\ saved = [s \in Sessions |-> NoSavepoint]

-----------------------------------------------------------------------------
(* The database.                                                           *)

\* Rows a statement of s can read: committed ones and its own.
Visible(s) == journal \cup rows[s]

\* Ids already given to a row, committed or not.
UsedIds == {r.id : r \in journal \cup UNION {rows[s] : s \in Sessions}}

Needed(s) == Touched(call[s].entries) \ Held(s)

\* Sessions that s has to wait for: all the locks it still needs are taken,
\* or another open transaction has inserted the same unique key.
WaitsFor(s) ==
  CASE pc[s] = "locking" /\ \A a \in Needed(s) : owner[a] # NoSession ->
         {owner[a] : a \in Needed(s)}
    [] pc[s] = "inserting" /\ call[s].key # NoKey ->
         {t \in Sessions \ {s} : HasKey(rows[t], call[s].key)}
    [] OTHER -> {}

\* A cycle of waiting sessions, which the database breaks.
Deadlocked(s) ==
  \E D \in SUBSET Sessions :
    /\ s \in D
    /\ \A d \in D : WaitsFor(d) # {} /\ WaitsFor(d) \subseteq D

\* Faulty variant: the row locks outlive the transaction.
ReleaseKeepingLocks(s) ==
  /\ owner' = owner
  /\ pc' = [pc EXCEPT ![s] = "idle"]
  /\ call' = [call EXCEPT ![s] = IdleCall]
  /\ rows' = [rows EXCEPT ![s] = {}]
  /\ cache' = [cache EXCEPT ![s] = ZeroAmounts]
  /\ added' = [added EXCEPT ![s] = ZeroAmounts]
  /\ saved' = [saved EXCEPT ![s] = NoSavepoint]

\* The transaction of s leaves no trace but the fact that it is over.
Release(s) ==
  /\ owner' = [a \in Accounts |-> IF owner[a] = s THEN NoSession ELSE owner[a]]
  /\ pc' = [pc EXCEPT ![s] = "idle"]
  /\ call' = [call EXCEPT ![s] = IdleCall]
  /\ rows' = [rows EXCEPT ![s] = {}]
  /\ cache' = [cache EXCEPT ![s] = ZeroAmounts]
  /\ added' = [added EXCEPT ![s] = ZeroAmounts]
  /\ saved' = [saved EXCEPT ![s] = NoSavepoint]

\* Back to the savepoint: what was inserted and locked since is undone.
RollbackToSavepoint(s) ==
  /\ saved[s] # NoSavepoint
  /\ owner' = [a \in Accounts |->
                 IF owner[a] = s /\ a \notin saved[s].held THEN NoSession ELSE owner[a]]
  /\ pc' = [pc EXCEPT ![s] = "open"]
  /\ call' = [call EXCEPT ![s] = IdleCall]
  /\ rows' = [rows EXCEPT ![s] = saved[s].rows]
  /\ cache' = [cache EXCEPT ![s] = saved[s].cache]
  /\ added' = [added EXCEPT ![s] = saved[s].added]
  /\ saved' = [saved EXCEPT ![s] = NoSavepoint]

\* An exception leaves the caller, or is caught by emit_event.
Undo(s) == Release(s) \/ RollbackToSavepoint(s)

-----------------------------------------------------------------------------
(* post_transaction                                                        *)

\* Entered by s with key k and entries e: validation and the first lookup.
InCaller(s) == pc[s] \in {"idle", "open"}

\* The key was already used: the existing row is returned, created = False.
PostExisting(s, k, e) ==
  /\ InCaller(s)
  /\ Touched(e) # {}
  /\ k # NoKey /\ HasKey(Visible(s), k)
  /\ pc' = [pc EXCEPT ![s] = "open"]
  /\ UNCHANGED <<stored, owner, work>>

\* LedgerError: no entries, or entries that do not balance.
PostRefused(s, k, e) ==
  /\ InCaller(s)
  /\ \/ Touched(e) = {}
     \/ ~(k # NoKey /\ HasKey(Visible(s), k)) /\ ~Balanced(e)
  /\ Undo(s)
  /\ UNCHANGED stored

\* Bound: no more posts are begun than there are ids left in TxnIds.
IdLeft ==
  Cardinality(UsedIds) + Cardinality({s \in Sessions : pc[s] \in {"locking", "inserting"}})
    < Cardinality(TxnIds)

PostAccepted(s, k, e) ==
  /\ InCaller(s)
  /\ IdLeft
  /\ ~(k # NoKey /\ HasKey(Visible(s), k))
  /\ Acceptable(e)
  /\ pc' = [pc EXCEPT ![s] = "locking"]
  /\ call' = [call EXCEPT ![s] = [key |-> k, entries |-> e]]
  /\ UNCHANGED <<stored, owner, rows, cache, added, saved>>

Post(s, k, e) ==
  PostExisting(s, k, e) \/ PostRefused(s, k, e) \/ PostAccepted(s, k, e)

\* Faulty variant: a plain SELECT, which does not wait for the lock.
SelectAccount(s, a) ==
  /\ pc[s] = "locking"
  /\ a \in Needed(s)
  /\ owner' = [owner EXCEPT ![a] = s]
  /\ cache' = [cache EXCEPT ![s][a] = balance[a]]
  /\ UNCHANGED <<stored, pc, call, rows, added, saved>>

\* SELECT ... FOR UPDATE takes the row locks one at a time, in the order of
\* the scan, and reads each row when it gets its lock.
LockAccount(s, a) ==
  /\ pc[s] = "locking"
  /\ a \in Needed(s)
  /\ owner[a] = NoSession
  /\ owner' = [owner EXCEPT ![a] = s]
  /\ cache' = [cache EXCEPT ![s][a] = balance[a]]
  /\ UNCHANGED <<stored, pc, call, rows, added, saved>>

AllLocked(s) ==
  /\ pc[s] = "locking"
  /\ Needed(s) = {}
  /\ pc' = [pc EXCEPT ![s] = "inserting"]
  /\ UNCHANGED <<stored, owner, work>>

\* Faulty variant: idempotency_key is not unique.
InsertRowUnchecked(s) ==
  /\ pc[s] = "inserting"
  /\ \E i \in TxnIds \ UsedIds :
       rows' = [rows EXCEPT ![s] = @ \cup
                 {[id |-> i, key |-> call[s].key, entries |-> call[s].entries,
                   reverses |-> NoTxn]}]
  /\ pc' = [pc EXCEPT ![s] = "entries"]
  /\ UNCHANGED <<stored, owner, call, cache, added, saved>>

\* The unique index: while another open transaction holds the key the insert
\* waits; if a visible row has it the insert fails.  The column reverses is
\* left NULL, also for a reversal.
InsertRow(s) ==
  /\ pc[s] = "inserting"
  /\ WaitsFor(s) = {}
  /\ ~(call[s].key # NoKey /\ HasKey(Visible(s), call[s].key))
  /\ \E i \in TxnIds \ UsedIds :
       rows' = [rows EXCEPT ![s] = @ \cup
                 {[id |-> i, key |-> call[s].key, entries |-> call[s].entries,
                   reverses |-> NoTxn]}]
  /\ pc' = [pc EXCEPT ![s] = "entries"]
  /\ UNCHANGED <<stored, owner, call, cache, added, saved>>

\* IntegrityError inside transaction.atomic: the lookup that follows it in
\* the except clause cannot run in the aborted transaction.
InsertDuplicate(s) ==
  /\ pc[s] = "inserting"
  /\ call[s].key # NoKey /\ HasKey(Visible(s), call[s].key)
  /\ pc' = [pc EXCEPT ![s] = "broken"]
  /\ UNCHANGED <<stored, owner, work>>

\* One entry per account, and balance = value read under the lock + amount.
WriteEntries(s) ==
  /\ pc[s] = "entries"
  /\ cache' = [cache EXCEPT ![s] =
                 [a \in Accounts |-> @[a] + call[s].entries[a]]]
  /\ added' = [added EXCEPT ![s] =
                 [a \in Accounts |-> @[a] + call[s].entries[a]]]
  /\ pc' = [pc EXCEPT ![s] = "open"]
  /\ call' = [call EXCEPT ![s] = IdleCall]
  /\ UNCHANGED <<stored, owner, rows, saved>>

\* Faulty variant: the reversal repeats the entries.
ReverseSameSign(s, q) == Post(s, [reverses |-> q.id], q.entries)

\* reverse_transaction(q): the early return for a REVERSED q needs the row
\* whose column reverses is q, and that column is always NULL, so every call
\* posts the negated entries under the key of q's reversal.  When that created
\* a row, q is marked REVERSED in the same transaction: see Commit.
Reverse(s, q) ==
  Post(s, [reverses |-> q.id], Negated(q.entries))

-----------------------------------------------------------------------------
(* The caller                                                              *)

\* emit_event starts the award of a rule in an atomic block of its own.  That
\* block's success needs no step: the savepoint is just not used any more.
SetSavepoint(s) ==
  /\ InCaller(s)
  /\ saved' = [saved EXCEPT ![s] =
                 [rows |-> rows[s], cache |-> cache[s], added |-> added[s],
                  held |-> Held(s)]]
  /\ pc' = [pc EXCEPT ![s] = "open"]
  /\ UNCHANGED <<stored, owner, call, rows, cache, added>>

Commit(s) ==
  /\ pc[s] = "open"
  /\ journal' = journal \cup rows[s]
  /\ reversed' = reversed \cup ReversedBy(rows[s])
  /\ balance' = [a \in Accounts |->
                   IF a \in Held(s) THEN cache[s][a] ELSE balance[a]]
  /\ entrySum' = [a \in Accounts |-> entrySum[a] + added[s][a]]
  /\ Release(s)

\* The caller or a rule raises, or the worker dies.
Rollback(s) ==
  /\ pc[s] # "idle"
  /\ Undo(s)
  /\ UNCHANGED stored

\* Postgres cancels one of the transactions of a cycle.
DeadlockVictim(s) ==
  /\ Deadlocked(s)
  /\ Undo(s)
  /\ UNCHANGED stored

CallerPosts(s) ==
  \/ \E k \in Keys \cup {NoKey}, e \in Requests : Post(s, k, e)
  \/ \E q \in Visible(s) : Reverse(s, q)

Next ==
  \E s \in Sessions :
    \/ CallerPosts(s)
    \/ SetSavepoint(s)
    \/ \E a \in Accounts : LockAccount(s, a)
    \/ AllLocked(s)
    \/ InsertRow(s)
    \/ InsertDuplicate(s)
    \/ WriteEntries(s)
    \/ Commit(s)
    \/ Rollback(s)
    \/ DeadlockVictim(s)

Spec == Init /\ [][Next]_vars

\* The database grants locks in turn (strong fairness) and runs its deadlock
\* detector; a request or task makes finitely many calls and then commits.
Fairness ==
  \A s \in Sessions :
    /\ SF_vars(\E a \in Accounts : LockAccount(s, a))
    /\ SF_vars(InsertRow(s))
    /\ WF_vars(AllLocked(s))
    /\ WF_vars(InsertDuplicate(s))
    /\ WF_vars(WriteEntries(s))
    /\ SF_vars(Commit(s))
    /\ WF_vars(pc[s] = "broken" /\ Rollback(s))
    /\ WF_vars(DeadlockVictim(s))

FairSpec == Spec /\ Fairness

-----------------------------------------------------------------------------
(* Properties                                                              *)

\* verify_account_balance: the cached balance of every account is the sum of
\* its committed ledger entries, whatever the interleaving of the posters.
BalanceMatchesEntries == balance = entrySum

\* The two ways to sum the entries agree: entrySum is the aggregate over the
\* committed rows (account_balance).
EntrySumIsAggregate ==
  \A a \in Accounts : entrySum[a] = EntrySum(journal, a)

\* Money is never created: every currency sums to zero over the cached
\* balances of all accounts, the platform's included.
MoneyConserved == Balanced(balance)

\* Both sums of the books, over accounts and over entries.
BooksAddUp == MoneyConserved /\ EntrySumIsAggregate

\* No two rows, committed or about to be, carry the same idempotency key, so
\* replays and races never move the money twice.
AllRows == journal \cup UNION {rows[s] : s \in Sessions}

KeyUsedOnce ==
  \A q, r \in AllRows : (q.key = r.key /\ q.key # NoKey) => q = r

\* Status REVERSED says exactly that the compensating row was posted.
ReversedMeansCompensated ==
  /\ reversed = ReversedBy(journal)
  /\ \A r \in journal : IsReversal(r) =>
       \E q \in journal : q.id = r.key.reverses /\ r.entries = Negated(q.entries)

\* Why BalanceMatchesEntries holds: a session's view of an account it has
\* locked is the committed balance plus what it added itself, it added nothing
\* to an account it has not locked, and it writes only under all its locks.
LockDiscipline ==
  \A s \in Sessions :
    /\ \A a \in Accounts :
         IF owner[a] = s THEN cache[s][a] = balance[a] + added[s][a]
                         ELSE added[s][a] = 0
    /\ pc[s] \in {"inserting", "entries"} => Needed(s) = {}

\* Why KeyUsedOnce and ReversedMeansCompensated hold: ids are fresh, and a
\* session reverses a row it can see, with that row's amounts negated.
CompensatesIn(R, key, entries) ==
  key \in ReversalKeys =>
    \E q \in R : q.id = key.reverses /\ entries = Negated(q.entries)

CompensatesSeen(key, entries, s) == CompensatesIn(Visible(s), key, entries)

SeenBeforeReversed ==
  \A s \in Sessions :
    /\ pc[s] \in {"locking", "inserting"} =>
         CompensatesSeen(call[s].key, call[s].entries, s)
    /\ \A r \in rows[s] : CompensatesSeen(r.key, r.entries, s)

\* Why a rollback to a savepoint keeps all this: the locks and rows of the
\* savepoint are still the session's, and they were consistent by themselves.
HasSavepoint(s) == saved[s] # NoSavepoint

SavedLocks ==
  \A s \in Sessions : HasSavepoint(s) =>
    \A a \in Accounts :
      IF a \in saved[s].held
      THEN owner[a] = s /\ saved[s].cache[a] = balance[a] + saved[s].added[a]
      ELSE saved[s].added[a] = 0

SavedRows ==
  \A s \in Sessions : HasSavepoint(s) => saved[s].rows \subseteq rows[s]

SavedReversals ==
  \A s \in Sessions : HasSavepoint(s) =>
    \A r \in saved[s].rows : CompensatesIn(journal \cup saved[s].rows, r.key, r.entries)

\* Why BooksAddUp holds and the service implements the atomic ledger: rows have
\* ids of their own and are in one place; all of them were accepted; and what a
\* session added is the sum of its rows, all but the one it is about to write.
RowsApart ==
  /\ \A q, r \in AllRows : q.id = r.id => q = r
  /\ \A s \in Sessions : rows[s] \cap journal = {}
  /\ \A s, t \in Sessions : s # t => rows[s] \cap rows[t] = {}

RowsAccepted ==
  /\ \A r \in AllRows : Acceptable(r.entries)
  /\ \A s \in Sessions :
       pc[s] \in {"locking", "inserting", "entries"} => Acceptable(call[s].entries)

AddsUp(R, sums) ==
  /\ IsFiniteSet(R) /\ Balanced(sums)
  /\ \A a \in Accounts : EntrySum(R, a) = sums[a]

Unwritten(s) == IF pc[s] = "entries" THEN call[s].entries ELSE ZeroAmounts

SessionsAddUp ==
  \A s \in Sessions :
    /\ AddsUp(rows[s], [a \in Accounts |-> added[s][a] + Unwritten(s)[a]])
    /\ Balanced(added[s])

SavedAddUp ==
  \A s \in Sessions : HasSavepoint(s) => AddsUp(saved[s].rows, saved[s].added)

IInv ==
  /\ TypeOK
  /\ RowsApart /\ RowsAccepted
  /\ AddsUp(journal, entrySum) /\ SessionsAddUp /\ SavedAddUp
  /\ BalanceMatchesEntries
  /\ LockDiscipline /\ SavedLocks
  /\ KeyUsedOnce /\ SavedRows
  /\ SeenBeforeReversed /\ SavedReversals
  /\ ReversedMeansCompensated

\* The concurrent service implements the atomic ledger.
Atomic == INSTANCE Ledger WITH
  journal <- journal, reversed <- reversed, balance <- balance
ImplementsLedger == Atomic!Spec

\* Every database transaction ends, whatever locks it has to wait for.
EveryTransactionEnds ==
  \A s \in Sessions : pc[s] # "idle" ~> pc[s] = "idle"

\* post_transaction's docstring: a used key gets the existing transaction,
\* never an error.
UsedKeyReturnsExisting == \A s \in Sessions : pc[s] # "broken"
=============================================================================
