------------------------- MODULE LedgerPostingProofs -------------------------
(***************************************************************************)
(* Theorems about LedgerPosting, for any accounts, sessions, keys and      *)
(* entry lists.                                                            *)
(***************************************************************************)
EXTENDS LedgerPosting, SumTheorems, TLAPS

-----------------------------------------------------------------------------
(* Facts about the data                                                    *)

\* The all-zero entry list is one.
LEMMA ZeroAmountsType == ZeroAmounts \in Entries
  BY DEF ZeroAmounts, Entries

\* Negating entries gives entries.
LEMMA NegatedType == ASSUME NEW e \in Entries PROVE Negated(e) \in Entries
  BY DEF Negated, Entries

\* A reversal of a visible row is a call post_transaction may get.
LEMMA ReversalCallType ==
  ASSUME TypeOK, NEW s \in Sessions, NEW q \in Visible(s)
  PROVE  [key |-> [reverses |-> q.id], entries |-> Negated(q.entries)] \in Call
<1>1. q \in Row
  BY DEF TypeOK, Visible
<1>2. q.id \in TxnIds /\ q.entries \in Entries
  BY <1>1 DEF Row
<1>3. [reverses |-> q.id] \in ReversalKeys
  BY <1>2 DEF ReversalKeys
<1> QED
  BY <1>2, <1>3, NegatedType DEF Call, UniqueKeys

\* A caller's own key and a listed request are a call as well.
LEMMA RequestCallType ==
  ASSUME NEW k \in Keys \cup {NoKey}, NEW e \in Requests
  PROVE  [key |-> k, entries |-> e] \in Call
  BY RequestsType DEF Call, UniqueKeys

-----------------------------------------------------------------------------
(* Type correctness                                                        *)

\* Ending a transaction, or going back to a savepoint, keeps the types of the
\* session's variables.
LEMMA UndoType ==
  ASSUME TypeOK, NEW s \in Sessions, Undo(s)
  PROVE  /\ owner' \in [Accounts -> Sessions \cup {NoSession}]
         /\ pc' \in [Sessions -> PCs]
         /\ call' \in [Sessions -> Call]
         /\ rows' \in [Sessions -> SUBSET Row]
         /\ cache' \in [Sessions -> [Accounts -> Int]]
         /\ added' \in [Sessions -> [Accounts -> Int]]
         /\ saved' \in [Sessions -> Savepoint \cup {NoSavepoint}]
<1>1. IdleCall \in Call
  BY ZeroAmountsType DEF IdleCall, Call
<1>2. {"idle", "open"} \subseteq PCs /\ ZeroAmounts \in [Accounts -> Int]
  BY ZeroAmountsType DEF PCs, Entries
<1>3. CASE Release(s)
  BY <1>1, <1>2, <1>3 DEF TypeOK, Release
<1>4. CASE RollbackToSavepoint(s)
  <2>1. saved[s] \in Savepoint
    BY <1>4 DEF TypeOK, RollbackToSavepoint
  <2>2. /\ saved[s].rows \subseteq Row
        /\ saved[s].cache \in [Accounts -> Int]
        /\ saved[s].added \in [Accounts -> Int]
    BY <2>1 DEF Savepoint
  <2> QED
    BY <1>1, <1>2, <1>4, <2>2 DEF TypeOK, RollbackToSavepoint
<1> QED
  BY <1>3, <1>4 DEF Undo

\* No branch of post_transaction spoils a type: a row that exists, a refusal,
\* or a call that goes on to lock its accounts.
LEMMA PostType ==
  ASSUME TypeOK, NEW s \in Sessions, NEW k, NEW e,
         [key |-> k, entries |-> e] \in Call, Post(s, k, e)
  PROVE  TypeOK'
<1>1. CASE PostExisting(s, k, e)
  BY <1>1 DEF TypeOK, PostExisting, PCs, stored, work
<1>2. CASE PostRefused(s, k, e)
  <2>1. Undo(s) /\ UNCHANGED stored
    BY <1>2 DEF PostRefused
  <2> QED
    BY <2>1, UndoType DEF TypeOK, stored
<1>3. CASE PostAccepted(s, k, e)
  BY <1>3 DEF TypeOK, PostAccepted, PCs, stored
<1> QED
  BY <1>1, <1>2, <1>3 DEF Post

\* The empty ledger is well typed.
LEMMA InitType == Init => TypeOK
  BY ZeroAmountsType, NoSessionType
  DEF Init, TypeOK, IdleCall, Call, PCs, Entries

\* Every step keeps every variable in its type.
LEMMA NextType == TypeOK /\ [Next]_vars => TypeOK'
<1> SUFFICES ASSUME TypeOK, [Next]_vars PROVE TypeOK'
  OBVIOUS
<1>1. CASE UNCHANGED vars
  BY <1>1 DEF TypeOK, vars, work
<1>2. ASSUME NEW s \in Sessions, CallerPosts(s) PROVE TypeOK'
  BY <1>2, PostType, RequestCallType, ReversalCallType DEF CallerPosts, Reverse
<1>3. ASSUME NEW s \in Sessions, NEW a \in Accounts, LockAccount(s, a)
      PROVE  TypeOK'
  BY <1>3 DEF TypeOK, LockAccount, stored
<1>4. ASSUME NEW s \in Sessions, AllLocked(s) PROVE TypeOK'
  BY <1>4 DEF TypeOK, AllLocked, PCs, stored, work
<1>5. ASSUME NEW s \in Sessions, InsertRow(s) PROVE TypeOK'
  <2>1. PICK i \in TxnIds \ UsedIds :
          rows' = [rows EXCEPT ![s] = @ \cup
                    {[id |-> i, key |-> call[s].key, entries |-> call[s].entries,
                      reverses |-> NoTxn]}]
    BY <1>5 DEF InsertRow
  <2>2. call[s] \in Call
    BY DEF TypeOK
  <2>3. [id |-> i, key |-> call[s].key, entries |-> call[s].entries,
         reverses |-> NoTxn] \in Row
    BY <2>2 DEF Row, Call
  <2>4. rows' \in [Sessions -> SUBSET Row]
    BY <2>1, <2>3 DEF TypeOK
  <2> QED
    BY <1>5, <2>4 DEF TypeOK, InsertRow, PCs, stored
<1>6. ASSUME NEW s \in Sessions, InsertDuplicate(s) PROVE TypeOK'
  BY <1>6 DEF TypeOK, InsertDuplicate, PCs, stored, work
<1>7. ASSUME NEW s \in Sessions, WriteEntries(s) PROVE TypeOK'
  <2>1. IdleCall \in Call /\ call[s].entries \in Entries
    BY ZeroAmountsType DEF IdleCall, Call, TypeOK
  <2>2. /\ [a \in Accounts |-> cache[s][a] + call[s].entries[a]] \in [Accounts -> Int]
        /\ [a \in Accounts |-> added[s][a] + call[s].entries[a]] \in [Accounts -> Int]
    BY <2>1 DEF TypeOK, Entries
  <2>3. cache' \in [Sessions -> [Accounts -> Int]] /\ added' \in [Sessions -> [Accounts -> Int]]
    BY <1>7, <2>2 DEF TypeOK, WriteEntries
  <2> QED
    BY <1>7, <2>1, <2>3 DEF TypeOK, WriteEntries, PCs, stored
<1>8. ASSUME NEW s \in Sessions, Commit(s) PROVE TypeOK'
  <2>1. journal' \subseteq Row
    BY <1>8 DEF TypeOK, Commit
  <2>2. reversed' \subseteq TxnIds
    BY <1>8 DEF TypeOK, Commit, ReversedBy, IsReversal, ReversalKeys
  <2>3. balance' \in [Accounts -> Int] /\ entrySum' \in [Accounts -> Int]
    BY <1>8 DEF TypeOK, Commit
  <2>4. Release(s)
    BY <1>8 DEF Commit
  <2> QED
    BY <2>1, <2>2, <2>3, <2>4, UndoType DEF TypeOK, Undo
<1>9. ASSUME NEW s \in Sessions, Rollback(s) \/ DeadlockVictim(s) PROVE TypeOK'
  BY <1>9, UndoType DEF TypeOK, Rollback, DeadlockVictim, stored
<1>10. ASSUME NEW s \in Sessions, SetSavepoint(s) PROVE TypeOK'
  <2>1. [rows |-> rows[s], cache |-> cache[s], added |-> added[s], held |-> Held(s)]
          \in Savepoint
    BY DEF TypeOK, Savepoint, Held
  <2> QED
    BY <1>10, <2>1 DEF TypeOK, SetSavepoint, PCs, stored
<1> QED
  BY <1>1, <1>2, <1>3, <1>4, <1>5, <1>6, <1>7, <1>8, <1>9, <1>10 DEF Next

\* Every reachable state is well typed: ids, keys, locks and amounts.
THEOREM TypeCorrect == Spec => []TypeOK
  BY InitType, NextType, PTL DEF Spec

-----------------------------------------------------------------------------
(* The cached balances are the sums of the entries                         *)

BalanceInv == BalanceMatchesEntries /\ LockDiscipline /\ SavedLocks

\* A rollback frees locks of s and touches no committed balance; what is left
\* of the session is consistent.
LEMMA UndoKeepsBalances ==
  ASSUME TypeOK, BalanceInv, NEW s \in Sessions, Undo(s), UNCHANGED stored
  PROVE  BalanceInv'
<1>1. \A t \in Sessions \ {s} :
        /\ cache'[t] = cache[t] /\ added'[t] = added[t] /\ saved'[t] = saved[t]
        /\ pc'[t] = pc[t] /\ call'[t] = call[t]
        /\ \A a \in Accounts : owner'[a] = t <=> owner[a] = t
  BY NoSessionType DEF TypeOK, Undo, Release, RollbackToSavepoint
<1>2. balance' = balance /\ entrySum' = entrySum
  BY DEF stored
<1>3. saved'[s] = NoSavepoint /\ pc'[s] \in {"idle", "open"}
  BY DEF TypeOK, Undo, Release, RollbackToSavepoint
<1>4. \A a \in Accounts :
        IF owner'[a] = s THEN cache'[s][a] = balance'[a] + added'[s][a]
                         ELSE added'[s][a] = 0
  <2>1. CASE Release(s)
    BY <2>1, NoSessionType DEF TypeOK, Release, ZeroAmounts
  <2>2. CASE RollbackToSavepoint(s)
    <3>1. cache'[s] = saved[s].cache /\ added'[s] = saved[s].added /\ HasSavepoint(s)
      BY <2>2 DEF TypeOK, RollbackToSavepoint, HasSavepoint
    <3>2. ASSUME NEW a \in Accounts
          PROVE  IF a \in saved[s].held
                 THEN owner[a] = s /\ saved[s].cache[a] = balance[a] + saved[s].added[a]
                 ELSE saved[s].added[a] = 0
      BY <3>1 DEF BalanceInv, SavedLocks
    <3>3. \A a \in Accounts : owner'[a] = s <=> (owner[a] = s /\ a \in saved[s].held)
      BY <2>2, NoSessionType DEF TypeOK, RollbackToSavepoint
    <3> QED
      BY <1>2, <3>1, <3>2, <3>3
  <2> QED
    BY <2>1, <2>2 DEF Undo
<1>5. LockDiscipline'
  <2> SUFFICES ASSUME NEW t \in Sessions
               PROVE  /\ \A a \in Accounts :
                           IF owner'[a] = t THEN cache'[t][a] = balance'[a] + added'[t][a]
                                            ELSE added'[t][a] = 0
                      /\ pc'[t] \in {"inserting", "entries"} => Needed(t)' = {}
    BY DEF LockDiscipline
  <2>1. CASE t = s
    BY <1>3, <1>4, <2>1
  <2>2. CASE t # s
    BY <1>1, <1>2, <2>2 DEF BalanceInv, LockDiscipline, Needed, Held
  <2> QED
    BY <2>1, <2>2
<1>6. SavedLocks'
  BY <1>1, <1>2, <1>3 DEF BalanceInv, SavedLocks, HasSavepoint
<1> QED
  BY <1>2, <1>5, <1>6 DEF BalanceInv, BalanceMatchesEntries

\* Savepoints stay good while no balance is published and no lock is lost.
LEMMA SameBalancesKeepSavepoints ==
  ASSUME SavedLocks, balance' = balance, saved' = saved,
         \A a \in Accounts : owner[a] \in Sessions => owner'[a] = owner[a]
  PROVE  SavedLocks'
  BY DEF SavedLocks, HasSavepoint

\* Entering post_transaction moves no balance and takes no lock.
LEMMA PostKeepsBalances ==
  ASSUME TypeOK, BalanceInv, NEW s \in Sessions, NEW k, NEW e, Post(s, k, e)
  PROVE  BalanceInv'
<1>1. CASE PostExisting(s, k, e)
  BY <1>1, SameBalancesKeepSavepoints
  DEF TypeOK, BalanceInv, BalanceMatchesEntries, LockDiscipline, PostExisting,
      InCaller, stored, work, Needed, Held, Touched
<1>2. CASE PostRefused(s, k, e)
  BY <1>2, UndoKeepsBalances DEF PostRefused
<1>3. CASE PostAccepted(s, k, e)
  BY <1>3, SameBalancesKeepSavepoints
  DEF TypeOK, BalanceInv, BalanceMatchesEntries, LockDiscipline, PostAccepted,
      stored, Needed, Held, Touched
<1> QED
  BY <1>1, <1>2, <1>3 DEF Post

\* A lock is granted on a free row, whose balance is the committed one.
LEMMA LockKeepsBalances ==
  ASSUME TypeOK, BalanceInv, NEW s \in Sessions, NEW a \in Accounts,
         LockAccount(s, a)
  PROVE  BalanceInv'
<1> SUFFICES ASSUME NEW t \in Sessions
             PROVE  /\ \A b \in Accounts :
                         IF owner'[b] = t THEN cache'[t][b] = balance'[b] + added'[t][b]
                                          ELSE added'[t][b] = 0
                    /\ pc'[t] \in {"inserting", "entries"} => Needed(t)' = {}
  <2>1. SavedLocks'
    BY NoSessionType, SameBalancesKeepSavepoints DEF TypeOK, BalanceInv, LockAccount, stored
  <2> QED
    BY <2>1 DEF BalanceInv, BalanceMatchesEntries, LockDiscipline, LockAccount, stored
<1>1. \A b \in Accounts :
        IF owner'[b] = t THEN cache'[t][b] = balance'[b] + added'[t][b]
                         ELSE added'[t][b] = 0
  BY NoSessionType
  DEF TypeOK, BalanceInv, LockDiscipline, LockAccount, stored
<1>2. pc'[t] \in {"inserting", "entries"} => Needed(t)' = {}
  <2>1. pc' = pc /\ call' = call
    BY DEF LockAccount
  <2>2. Held(t) \subseteq Held(t)'
    BY NoSessionType DEF TypeOK, LockAccount, Held
  <2>3. Needed(t)' \subseteq Needed(t)
    BY <2>1, <2>2 DEF Needed
  <2> QED
    BY <2>1, <2>3 DEF BalanceInv, LockDiscipline
<1> QED
  BY <1>1, <1>2

\* The entries are written, and the balances with them, under every lock.
LEMMA WriteKeepsBalances ==
  ASSUME TypeOK, BalanceInv, NEW s \in Sessions, WriteEntries(s)
  PROVE  BalanceInv'
<1>1. \A a \in Accounts : owner[a] # s => call[s].entries[a] = 0
  BY DEF BalanceInv, LockDiscipline, WriteEntries, Needed, Held, Touched
<1>2. call[s].entries \in [Accounts -> Int]
  BY DEF TypeOK, Call, Entries
<1>3. \A a \in Accounts : /\ cache'[s][a] = cache[s][a] + call[s].entries[a]
                           /\ added'[s][a] = added[s][a] + call[s].entries[a]
  BY DEF TypeOK, WriteEntries
<1>4. \A t \in Sessions \ {s} : cache'[t] = cache[t] /\ added'[t] = added[t]
  BY DEF TypeOK, WriteEntries
<1>5. owner' = owner /\ balance' = balance /\ entrySum' = entrySum
  BY DEF WriteEntries, stored
<1>6. ASSUME NEW t \in Sessions, NEW a \in Accounts
      PROVE  IF owner'[a] = t THEN cache'[t][a] = balance'[a] + added'[t][a]
                              ELSE added'[t][a] = 0
  <2>1. IF owner[a] = t THEN cache[t][a] = balance[a] + added[t][a]
                        ELSE added[t][a] = 0
    BY DEF BalanceInv, LockDiscipline
  <2>2. balance[a] \in Int /\ added[t][a] \in Int /\ call[s].entries[a] \in Int
    BY <1>2 DEF TypeOK
  <2>3. CASE t = s
    BY <1>1, <1>3, <1>5, <2>1, <2>2, <2>3
  <2>4. CASE t # s
    BY <1>4, <1>5, <2>1, <2>4
  <2> QED
    BY <2>3, <2>4
<1>7. ASSUME NEW t \in Sessions, pc'[t] \in {"inserting", "entries"}
      PROVE  Needed(t)' = {}
  BY <1>5, <1>7
  DEF TypeOK, BalanceInv, LockDiscipline, WriteEntries, Needed, Held, Touched
<1>8. SavedLocks'
  BY <1>5, SameBalancesKeepSavepoints DEF BalanceInv, WriteEntries
<1> QED
  BY <1>5, <1>6, <1>7, <1>8 DEF BalanceInv, BalanceMatchesEntries, LockDiscipline

\* The commit publishes balances the session alone could have changed.
LEMMA CommitKeepsBalances ==
  ASSUME TypeOK, BalanceInv, NEW s \in Sessions, Commit(s)
  PROVE  BalanceInv'
<1>1. \A a \in Accounts : /\ balance'[a] = balance[a] + added[s][a]
                           /\ entrySum'[a] = entrySum[a] + added[s][a]
  BY DEF TypeOK, BalanceInv, LockDiscipline, Commit, Held
<1>2. BalanceMatchesEntries'
  BY <1>1 DEF TypeOK, BalanceInv, BalanceMatchesEntries, Commit
<1>3. ASSUME NEW t \in Sessions, NEW a \in Accounts
      PROVE  IF owner'[a] = t THEN cache'[t][a] = balance'[a] + added'[t][a]
                              ELSE added'[t][a] = 0
  <2>1. CASE t = s
    BY <1>3, <2>1, NoSessionType DEF TypeOK, Commit, Release, ZeroAmounts
  <2>2. CASE t # s
    <3>1. cache'[t] = cache[t] /\ added'[t] = added[t]
      BY <2>2 DEF TypeOK, Commit, Release
    <3>2. owner'[a] = t <=> owner[a] = t
      BY <2>2, NoSessionType DEF TypeOK, Commit, Release
    <3>3. owner[a] = t => added[s][a] = 0
      BY <2>2 DEF BalanceInv, LockDiscipline
    <3> QED
      BY <1>1, <3>1, <3>2, <3>3 DEF TypeOK, BalanceInv, LockDiscipline
  <2> QED
    BY <2>1, <2>2
<1>4. ASSUME NEW t \in Sessions, pc'[t] \in {"inserting", "entries"}
      PROVE  Needed(t)' = {}
  BY <1>4, NoSessionType
  DEF TypeOK, BalanceInv, LockDiscipline, Commit, Release, Needed, Held, Touched
<1>5. SavedLocks'
  <2> SUFFICES ASSUME NEW t \in Sessions, HasSavepoint(t)', NEW a \in Accounts
               PROVE  IF a \in saved'[t].held
                      THEN /\ owner'[a] = t
                           /\ saved'[t].cache[a] = balance'[a] + saved'[t].added[a]
                      ELSE saved'[t].added[a] = 0
    BY DEF SavedLocks
  <2>1. t # s /\ saved'[t] = saved[t] /\ HasSavepoint(t)
    BY DEF TypeOK, Commit, Release, HasSavepoint
  <2>2. IF a \in saved[t].held
        THEN owner[a] = t /\ saved[t].cache[a] = balance[a] + saved[t].added[a]
        ELSE saved[t].added[a] = 0
    BY <2>1 DEF BalanceInv, SavedLocks
  <2>3. owner[a] = t => owner'[a] = t /\ balance'[a] = balance[a]
    BY <2>1, NoSessionType DEF TypeOK, Commit, Release, Held
  <2> QED
    BY <2>1, <2>2, <2>3
<1> QED
  BY <1>2, <1>3, <1>4, <1>5 DEF BalanceInv, LockDiscipline

\* A savepoint is taken of a session that is consistent.
LEMMA SavepointKeepsBalances ==
  ASSUME TypeOK, BalanceInv, NEW s \in Sessions, SetSavepoint(s)
  PROVE  BalanceInv'
<1>1. UNCHANGED <<stored, owner, call, rows, cache, added>>
  BY DEF SetSavepoint
<1>2. LockDiscipline' /\ BalanceMatchesEntries'
  BY <1>1
  DEF TypeOK, BalanceInv, BalanceMatchesEntries, LockDiscipline, SetSavepoint,
      stored, Needed, Held
<1>3. SavedLocks'
  <2> SUFFICES ASSUME NEW t \in Sessions, HasSavepoint(t)', NEW a \in Accounts
               PROVE  IF a \in saved'[t].held
                      THEN /\ owner'[a] = t
                           /\ saved'[t].cache[a] = balance'[a] + saved'[t].added[a]
                      ELSE saved'[t].added[a] = 0
    BY DEF SavedLocks
  <2>1. CASE t = s
    <3>1. /\ saved'[s].cache = cache[s] /\ saved'[s].added = added[s]
          /\ saved'[s].held = Held(s)
      BY DEF TypeOK, SetSavepoint
    <3>2. IF owner[a] = s THEN cache[s][a] = balance[a] + added[s][a]
                          ELSE added[s][a] = 0
      BY DEF BalanceInv, LockDiscipline
    <3> QED
      BY <1>1, <2>1, <3>1, <3>2 DEF Held, stored
  <2>2. CASE t # s
    <3>1. saved'[t] = saved[t] /\ HasSavepoint(t)
      BY <2>2 DEF TypeOK, SetSavepoint, HasSavepoint
    <3>2. IF a \in saved[t].held
          THEN owner[a] = t /\ saved[t].cache[a] = balance[a] + saved[t].added[a]
          ELSE saved[t].added[a] = 0
      BY <3>1 DEF BalanceInv, SavedLocks
    <3> QED
      BY <1>1, <3>1, <3>2 DEF stored
  <2> QED
    BY <2>1, <2>2
<1> QED
  BY <1>2, <1>3 DEF BalanceInv

\* Every step keeps balances and entries together.
LEMMA NextKeepsBalances == TypeOK /\ BalanceInv /\ [Next]_vars => BalanceInv'
<1> SUFFICES ASSUME TypeOK, BalanceInv, [Next]_vars PROVE BalanceInv'
  OBVIOUS
<1> USE DEF BalanceInv, BalanceMatchesEntries, LockDiscipline, Needed, Held, Touched
<1>1. CASE UNCHANGED vars
  BY <1>1, SameBalancesKeepSavepoints DEF vars, work
<1>2. ASSUME NEW s \in Sessions, CallerPosts(s) PROVE BalanceInv'
  BY <1>2, PostKeepsBalances DEF CallerPosts, Reverse
<1>3. ASSUME NEW s \in Sessions, NEW a \in Accounts, LockAccount(s, a)
      PROVE  BalanceInv'
  BY <1>3, LockKeepsBalances
<1>4. ASSUME NEW s \in Sessions, AllLocked(s) PROVE BalanceInv'
  BY <1>4, SameBalancesKeepSavepoints DEF TypeOK, AllLocked, stored, work
<1>5. ASSUME NEW s \in Sessions, InsertRow(s) PROVE BalanceInv'
  BY <1>5, SameBalancesKeepSavepoints DEF TypeOK, InsertRow, stored
<1>6. ASSUME NEW s \in Sessions, InsertDuplicate(s) PROVE BalanceInv'
  BY <1>6, SameBalancesKeepSavepoints DEF TypeOK, InsertDuplicate, stored, work
<1>7. ASSUME NEW s \in Sessions, WriteEntries(s) PROVE BalanceInv'
  BY <1>7, WriteKeepsBalances
<1>8. ASSUME NEW s \in Sessions, Commit(s) PROVE BalanceInv'
  BY <1>8, CommitKeepsBalances
<1>9. ASSUME NEW s \in Sessions, Rollback(s) \/ DeadlockVictim(s) PROVE BalanceInv'
  BY <1>9, UndoKeepsBalances DEF Rollback, DeadlockVictim
<1>10. ASSUME NEW s \in Sessions, SetSavepoint(s) PROVE BalanceInv'
  BY <1>10, SavepointKeepsBalances
<1> QED
  BY <1>1, <1>2, <1>3, <1>4, <1>5, <1>6, <1>7, <1>8, <1>9, <1>10 DEF Next

\* verify_account_balance never fails: in every interleaving of any number of
\* posting, reversing, aborting and deadlocking transactions the cached
\* balance of each account is the sum of its committed entries.
THEOREM BalancesAreEntrySums == Spec => []BalanceMatchesEntries
<1>1. Init => BalanceInv
  BY NoSessionType DEF Init, BalanceInv, BalanceMatchesEntries, LockDiscipline,
                       SavedLocks, HasSavepoint, ZeroAmounts
<1>2. BalanceInv => BalanceMatchesEntries
  BY DEF BalanceInv
<1> QED
  BY <1>1, <1>2, TypeCorrect, NextKeepsBalances, PTL DEF Spec

-----------------------------------------------------------------------------
(* An idempotency key is used once                                         *)

KeyInv == KeyUsedOnce /\ SavedRows

\* Ending a transaction, or going back to a savepoint, adds no row.
LEMMA UndoRows ==
  ASSUME TypeOK, SavedRows, NEW s \in Sessions, Undo(s),
         journal' \subseteq journal \cup rows[s]
  PROVE  AllRows' \subseteq AllRows
<1>1. rows'[s] \subseteq rows[s] /\ \A t \in Sessions \ {s} : rows'[t] = rows[t]
  BY DEF TypeOK, SavedRows, HasSavepoint, Undo, Release, RollbackToSavepoint
<1> QED
  BY <1>1 DEF TypeOK, AllRows

\* The other sessions' savepoints are not touched by it.
LEMMA UndoSavedRows ==
  ASSUME TypeOK, SavedRows, NEW s \in Sessions, Undo(s)
  PROVE  SavedRows'
<1>1. /\ saved'[s] = NoSavepoint
      /\ \A t \in Sessions \ {s} : rows'[t] = rows[t] /\ saved'[t] = saved[t]
  BY DEF TypeOK, Undo, Release, RollbackToSavepoint
<1> QED
  BY <1>1 DEF SavedRows, HasSavepoint

\* Entering post_transaction adds no row.
LEMMA PostKeepsKeys ==
  ASSUME TypeOK, KeyInv, NEW s \in Sessions, NEW k, NEW e, Post(s, k, e)
  PROVE  AllRows' \subseteq AllRows /\ SavedRows'
<1>1. CASE PostExisting(s, k, e)
  BY <1>1 DEF PostExisting, AllRows, KeyInv, SavedRows, HasSavepoint, stored, work
<1>2. CASE PostRefused(s, k, e)
  BY <1>2, UndoRows, UndoSavedRows DEF PostRefused, KeyInv, stored
<1>3. CASE PostAccepted(s, k, e)
  BY <1>3 DEF PostAccepted, AllRows, KeyInv, SavedRows, HasSavepoint, stored
<1> QED
  BY <1>1, <1>2, <1>3 DEF Post

\* The unique index: the inserted key is in no other row, of any session.
LEMMA InsertKeepsKeys ==
  ASSUME TypeOK, KeyInv, NEW s \in Sessions, InsertRow(s)
  PROVE  KeyInv'
<1>1. PICK i \in TxnIds \ UsedIds :
        rows' = [rows EXCEPT ![s] = @ \cup
                  {[id |-> i, key |-> call[s].key, entries |-> call[s].entries,
                    reverses |-> NoTxn]}]
  BY DEF InsertRow
<1> DEFINE new == [id |-> i, key |-> call[s].key, entries |-> call[s].entries,
                   reverses |-> NoTxn]
<1>2. AllRows' \subseteq AllRows \cup {new}
  BY <1>1 DEF TypeOK, InsertRow, AllRows, stored
<1>3. call[s].key # NoKey => \A q \in AllRows : q.key # call[s].key
  BY DEF InsertRow, WaitsFor, HasKey, Visible, AllRows
<1>4. new.key = call[s].key
  OBVIOUS
<1>5. SavedRows'
  BY <1>1 DEF TypeOK, InsertRow, KeyInv, SavedRows, HasSavepoint
<1> HIDE DEF new
<1> QED
  BY <1>2, <1>3, <1>4, <1>5 DEF KeyInv, KeyUsedOnce

\* Every step keeps the keys of the rows distinct.
LEMMA NextKeepsKeys == TypeOK /\ KeyInv /\ [Next]_vars => KeyInv'
<1> SUFFICES ASSUME TypeOK, KeyInv, [Next]_vars PROVE KeyInv'
  OBVIOUS
<1> USE DEF KeyInv
<1>0. AllRows' \subseteq AllRows => KeyUsedOnce'
  BY DEF KeyUsedOnce
<1>1. CASE UNCHANGED vars
  BY <1>0, <1>1 DEF vars, work, AllRows, SavedRows, HasSavepoint
<1>2. ASSUME NEW s \in Sessions, CallerPosts(s) PROVE KeyInv'
  BY <1>0, <1>2, PostKeepsKeys DEF CallerPosts, Reverse
<1>3. ASSUME NEW s \in Sessions, NEW a \in Accounts, LockAccount(s, a)
      PROVE  KeyInv'
  BY <1>0, <1>3 DEF LockAccount, AllRows, SavedRows, HasSavepoint, stored
<1>4. ASSUME NEW s \in Sessions, AllLocked(s) \/ InsertDuplicate(s)
      PROVE  KeyInv'
  BY <1>0, <1>4
  DEF AllLocked, InsertDuplicate, AllRows, SavedRows, HasSavepoint, stored, work
<1>5. ASSUME NEW s \in Sessions, InsertRow(s) PROVE KeyInv'
  BY <1>5, InsertKeepsKeys
<1>6. ASSUME NEW s \in Sessions, WriteEntries(s) PROVE KeyInv'
  BY <1>0, <1>6 DEF WriteEntries, AllRows, SavedRows, HasSavepoint, stored
<1>7. ASSUME NEW s \in Sessions, Commit(s) PROVE KeyInv'
  BY <1>0, <1>7, UndoRows, UndoSavedRows DEF Commit, Undo
<1>8. ASSUME NEW s \in Sessions, Rollback(s) \/ DeadlockVictim(s)
      PROVE  KeyInv'
  BY <1>0, <1>8, UndoRows, UndoSavedRows DEF Rollback, DeadlockVictim, stored
<1>9. ASSUME NEW s \in Sessions, SetSavepoint(s) PROVE KeyInv'
  <2>1. /\ saved'[s].rows = rows[s] /\ rows' = rows /\ journal' = journal
        /\ \A t \in Sessions \ {s} : saved'[t] = saved[t]
    BY <1>9 DEF TypeOK, SetSavepoint, stored
  <2> QED
    BY <1>0, <2>1 DEF AllRows, SavedRows, HasSavepoint
<1> QED
  BY <1>1, <1>2, <1>3, <1>4, <1>5, <1>6, <1>7, <1>8, <1>9 DEF Next

\* Replaying or racing a post never creates a second transaction with the
\* same idempotency key, committed or in flight.
THEOREM KeysAreUsedOnce == Spec => []KeyUsedOnce
<1>1. Init => KeyInv
  BY DEF Init, KeyInv, KeyUsedOnce, AllRows, SavedRows, HasSavepoint
<1>2. KeyInv => KeyUsedOnce
  BY DEF KeyInv
<1> QED
  BY <1>1, <1>2, TypeCorrect, NextKeepsKeys, PTL DEF Spec

-----------------------------------------------------------------------------
(* REVERSED rows are the compensated ones                                  *)

ReversalInv == SeenBeforeReversed /\ ReversedMeansCompensated /\ SavedReversals

\* What a savepoint holds stays compensated as the journal grows.
LEMMA SavedStayCompensated ==
  ASSUME SavedReversals, journal \subseteq journal',
         \A s \in Sessions : saved'[s] = saved[s] \/ saved'[s] = NoSavepoint
  PROVE  SavedReversals'
<1> SUFFICES ASSUME NEW s \in Sessions, HasSavepoint(s)', NEW r \in saved'[s].rows
             PROVE  CompensatesIn(journal' \cup saved'[s].rows, r.key, r.entries)
  BY DEF SavedReversals, CompensatesIn
<1>1. saved'[s] = saved[s] /\ HasSavepoint(s)
  BY DEF HasSavepoint
<1>2. CompensatesIn(journal \cup saved[s].rows, r.key, r.entries)
  BY <1>1 DEF SavedReversals
<1> QED
  BY <1>1, <1>2 DEF CompensatesIn

\* A step that changes no row and no status, and gives s a call only if what
\* the call reverses is visible, keeps the invariant.
LEMMA SameRowsKeepReversals ==
  ASSUME ReversalInv,
         UNCHANGED <<journal, reversed, rows, saved>>,
         \A s \in Sessions :
           pc'[s] \in {"locking", "inserting"} =>
             CompensatesSeen(call'[s].key, call'[s].entries, s)
  PROVE  ReversalInv'
  BY SavedStayCompensated
  DEF ReversalInv, SeenBeforeReversed, ReversedMeansCompensated, CompensatesSeen,
      CompensatesIn, Visible

\* A rollback drops reversals that no one else could see; those of the
\* savepoint it goes back to do not need the dropped ones.
LEMMA UndoKeepsReversals ==
  ASSUME TypeOK, ReversalInv, NEW s \in Sessions, Undo(s), UNCHANGED stored
  PROVE  ReversalInv'
<1>1. journal' = journal /\ reversed' = reversed
  BY DEF stored
<1>2. pc'[s] \in {"idle", "open"} /\ saved'[s] = NoSavepoint
  BY DEF TypeOK, Undo, Release, RollbackToSavepoint
<1>3. \A t \in Sessions \ {s} :
        /\ rows'[t] = rows[t] /\ pc'[t] = pc[t] /\ call'[t] = call[t]
        /\ saved'[t] = saved[t]
  BY DEF TypeOK, Undo, Release, RollbackToSavepoint
<1>4. ASSUME NEW r \in rows'[s]
      PROVE  CompensatesIn(journal' \cup rows'[s], r.key, r.entries)
  <2>1. CASE Release(s)
    BY <1>4, <2>1 DEF TypeOK, Release
  <2>2. CASE RollbackToSavepoint(s)
    <3>1. rows'[s] = saved[s].rows /\ HasSavepoint(s)
      BY <2>2 DEF TypeOK, RollbackToSavepoint, HasSavepoint
    <3> QED
      BY <1>1, <1>4, <3>1 DEF ReversalInv, SavedReversals
  <2> QED
    BY <2>1, <2>2 DEF Undo
<1>5. SeenBeforeReversed'
  <2> SUFFICES ASSUME NEW t \in Sessions
               PROVE  /\ pc'[t] \in {"locking", "inserting"} =>
                            CompensatesSeen(call[t].key, call[t].entries, t)'
                      /\ \A r \in rows'[t] : CompensatesSeen(r.key, r.entries, t)'
    BY DEF SeenBeforeReversed
  <2>1. CASE t = s
    BY <1>2, <1>4, <2>1 DEF CompensatesSeen, CompensatesIn, Visible
  <2>2. CASE t # s
    BY <1>1, <1>3, <2>2
    DEF ReversalInv, SeenBeforeReversed, CompensatesSeen, CompensatesIn, Visible
  <2> QED
    BY <2>1, <2>2
<1>6. SavedReversals'
  BY <1>1, <1>2, <1>3, SavedStayCompensated DEF ReversalInv
<1> QED
  BY <1>1, <1>5, <1>6 DEF ReversalInv, ReversedMeansCompensated

\* A call that compensates what its session sees keeps doing so.
LEMMA PostKeepsReversals ==
  ASSUME TypeOK, ReversalInv, NEW s \in Sessions, NEW k, NEW e, Post(s, k, e),
         CompensatesSeen(k, e, s)
  PROVE  ReversalInv'
<1>1. CASE PostExisting(s, k, e)
  BY <1>1, SameRowsKeepReversals
  DEF TypeOK, PostExisting, stored, work, ReversalInv, SeenBeforeReversed
<1>2. CASE PostRefused(s, k, e)
  BY <1>2, UndoKeepsReversals DEF PostRefused
<1>3. CASE PostAccepted(s, k, e)
  <2>1. ASSUME NEW t \in Sessions, pc'[t] \in {"locking", "inserting"}
        PROVE  CompensatesSeen(call'[t].key, call'[t].entries, t)
    BY <1>3, <2>1 DEF TypeOK, PostAccepted, ReversalInv, SeenBeforeReversed
  <2> QED
    BY <1>3, <2>1, SameRowsKeepReversals DEF PostAccepted, stored
<1> QED
  BY <1>1, <1>2, <1>3 DEF Post

\* The inserted row compensates the row its call was made for.
LEMMA InsertKeepsReversals ==
  ASSUME TypeOK, ReversalInv, NEW s \in Sessions, InsertRow(s)
  PROVE  ReversalInv'
<1>1. PICK i \in TxnIds \ UsedIds :
        rows' = [rows EXCEPT ![s] = @ \cup
                  {[id |-> i, key |-> call[s].key, entries |-> call[s].entries,
                    reverses |-> NoTxn]}]
  BY DEF InsertRow
<1> DEFINE new == [id |-> i, key |-> call[s].key, entries |-> call[s].entries,
                   reverses |-> NoTxn]
<1>2. rows'[s] = rows[s] \cup {new} /\ \A t \in Sessions \ {s} : rows'[t] = rows[t]
  BY <1>1 DEF TypeOK
<1>3. journal' = journal /\ reversed' = reversed /\ call' = call /\ saved' = saved
  BY DEF InsertRow, stored
<1>4. \A t \in Sessions : Visible(t) \subseteq Visible(t)'
  BY <1>2, <1>3 DEF Visible
<1>5. CompensatesSeen(new.key, new.entries, s)
  BY DEF ReversalInv, SeenBeforeReversed, InsertRow
<1> HIDE DEF new
<1>6. ASSUME NEW t \in Sessions, NEW r \in rows'[t]
      PROVE  CompensatesSeen(r.key, r.entries, t)'
  <2>1. CompensatesSeen(r.key, r.entries, t)
    BY <1>2, <1>5 DEF ReversalInv, SeenBeforeReversed
  <2> QED
    BY <1>4, <2>1 DEF CompensatesSeen, CompensatesIn
<1>7. ASSUME NEW t \in Sessions, pc'[t] \in {"locking", "inserting"}
      PROVE  CompensatesSeen(call[t].key, call[t].entries, t)'
  <2>1. pc[t] \in {"locking", "inserting"}
    BY <1>7 DEF TypeOK, InsertRow
  <2>2. CompensatesSeen(call[t].key, call[t].entries, t)
    BY <2>1 DEF ReversalInv, SeenBeforeReversed
  <2> QED
    BY <1>3, <1>4, <2>2 DEF CompensatesSeen, CompensatesIn
<1>8. SavedReversals'
  BY <1>3, SavedStayCompensated DEF ReversalInv
<1> QED
  BY <1>3, <1>6, <1>7, <1>8
  DEF ReversalInv, SeenBeforeReversed, ReversedMeansCompensated

\* The commit publishes the reversals, what they reverse and its status.
LEMMA CommitKeepsReversals ==
  ASSUME TypeOK, ReversalInv, NEW s \in Sessions, Commit(s)
  PROVE  ReversalInv'
<1>1. journal' = journal \cup rows[s] /\ reversed' = reversed \cup ReversedBy(rows[s])
  BY DEF Commit
<1>2. rows'[s] = {} /\ pc'[s] = "idle"
  BY DEF TypeOK, Commit, Release
<1>3. \A t \in Sessions \ {s} :
        rows'[t] = rows[t] /\ pc'[t] = pc[t] /\ call'[t] = call[t]
  BY DEF TypeOK, Commit, Release
<1>4. \A t \in Sessions \ {s} : Visible(t) \subseteq Visible(t)'
  BY <1>1, <1>3 DEF Visible
<1>5. SeenBeforeReversed'
  <2> SUFFICES ASSUME NEW t \in Sessions
               PROVE  /\ pc'[t] \in {"locking", "inserting"} =>
                            CompensatesSeen(call[t].key, call[t].entries, t)'
                      /\ \A r \in rows'[t] : CompensatesSeen(r.key, r.entries, t)'
    BY DEF SeenBeforeReversed
  <2>1. CASE t = s
    BY <1>2, <2>1
  <2>2. CASE t # s
    <3>1. /\ pc[t] \in {"locking", "inserting"} =>
               CompensatesSeen(call[t].key, call[t].entries, t)
          /\ \A r \in rows[t] : CompensatesSeen(r.key, r.entries, t)
      BY DEF ReversalInv, SeenBeforeReversed
    <3> QED
      BY <1>3, <1>4, <2>2, <3>1 DEF CompensatesSeen, CompensatesIn
  <2> QED
    BY <2>1, <2>2
<1>6. reversed' = ReversedBy(journal')
  BY <1>1 DEF ReversalInv, ReversedMeansCompensated, ReversedBy
<1>7. ASSUME NEW r \in journal', IsReversal(r)
      PROVE  \E q \in journal' : q.id = r.key.reverses /\ r.entries = Negated(q.entries)
  <2>1. CASE r \in journal
    BY <1>1, <1>7, <2>1 DEF ReversalInv, ReversedMeansCompensated
  <2>2. CASE r \in rows[s]
    BY <1>1, <1>7, <2>2
    DEF ReversalInv, SeenBeforeReversed, CompensatesSeen, CompensatesIn, Visible, IsReversal
  <2> QED
    BY <1>1, <2>1, <2>2
<1>8. SavedReversals'
  BY <1>1, SavedStayCompensated DEF TypeOK, Commit, Release, ReversalInv
<1> QED
  BY <1>5, <1>6, <1>7, <1>8 DEF ReversalInv, ReversedMeansCompensated

\* A savepoint is taken of rows that are compensated by what s sees.
LEMMA SavepointKeepsReversals ==
  ASSUME TypeOK, ReversalInv, NEW s \in Sessions, SetSavepoint(s)
  PROVE  ReversalInv'
<1>1. UNCHANGED <<journal, reversed, rows, call>>
  BY DEF SetSavepoint, stored
<1>2. \A t \in Sessions : pc'[t] \in {"locking", "inserting"} => pc'[t] = pc[t]
  BY DEF TypeOK, SetSavepoint
<1>3. SeenBeforeReversed' /\ ReversedMeansCompensated'
  BY <1>1, <1>2
  DEF ReversalInv, SeenBeforeReversed, ReversedMeansCompensated, CompensatesSeen,
      CompensatesIn, Visible
<1>4. ASSUME NEW t \in Sessions, HasSavepoint(t)', NEW r \in saved'[t].rows
      PROVE  CompensatesIn(journal' \cup saved'[t].rows, r.key, r.entries)
  <2>1. CASE t = s
    <3>1. saved'[t].rows = rows[s]
      BY <2>1 DEF TypeOK, SetSavepoint
    <3> QED
      BY <1>1, <1>4, <2>1, <3>1
      DEF ReversalInv, SeenBeforeReversed, CompensatesSeen, Visible
  <2>2. CASE t # s
    <3>1. saved'[t] = saved[t] /\ HasSavepoint(t)
      BY <1>4, <2>2 DEF TypeOK, SetSavepoint, HasSavepoint
    <3> QED
      BY <1>1, <1>4, <3>1 DEF ReversalInv, SavedReversals
  <2> QED
    BY <2>1, <2>2
<1>5. SavedReversals'
  BY <1>4 DEF SavedReversals, CompensatesIn
<1> QED
  BY <1>3, <1>5 DEF ReversalInv

\* Every step keeps reversals and what they reverse together.
LEMMA NextKeepsReversals == TypeOK /\ ReversalInv /\ [Next]_vars => ReversalInv'
<1> SUFFICES ASSUME TypeOK, ReversalInv, [Next]_vars PROVE ReversalInv'
  OBVIOUS
<1>0. ASSUME UNCHANGED <<journal, reversed, rows, call, saved>>,
             \A s \in Sessions : pc'[s] \in {"locking", "inserting"} =>
                                 pc[s] \in {"locking", "inserting"}
      PROVE  ReversalInv'
  BY <1>0, SameRowsKeepReversals DEF ReversalInv, SeenBeforeReversed
<1>1. CASE UNCHANGED vars
  BY <1>0, <1>1 DEF vars, work
<1>2. ASSUME NEW s \in Sessions, NEW k \in Keys \cup {NoKey}, NEW e \in Requests,
             Post(s, k, e)
      PROVE  ReversalInv'
  <2>1. CompensatesSeen(k, e, s)
    BY KeysDistinct DEF CompensatesSeen, CompensatesIn, UniqueKeys
  <2> QED
    BY <1>2, <2>1, PostKeepsReversals
<1>3. ASSUME NEW s \in Sessions, NEW q \in Visible(s), Reverse(s, q)
      PROVE  ReversalInv'
  <2>1. CompensatesSeen([reverses |-> q.id], Negated(q.entries), s)
    BY DEF CompensatesSeen, CompensatesIn
  <2> QED
    BY <1>3, <2>1, PostKeepsReversals DEF Reverse
<1>4. ASSUME NEW s \in Sessions, NEW a \in Accounts, LockAccount(s, a)
      PROVE  ReversalInv'
  BY <1>0, <1>4 DEF LockAccount, stored
<1>5. ASSUME NEW s \in Sessions, AllLocked(s) \/ InsertDuplicate(s)
      PROVE  ReversalInv'
  BY <1>0, <1>5 DEF TypeOK, AllLocked, InsertDuplicate, stored, work
<1>6. ASSUME NEW s \in Sessions, InsertRow(s) PROVE ReversalInv'
  BY <1>6, InsertKeepsReversals
<1>7. ASSUME NEW s \in Sessions, WriteEntries(s) PROVE ReversalInv'
  <2>1. ASSUME NEW t \in Sessions, pc'[t] \in {"locking", "inserting"}
        PROVE  CompensatesSeen(call'[t].key, call'[t].entries, t)
    BY <1>7, <2>1 DEF TypeOK, WriteEntries, ReversalInv, SeenBeforeReversed
  <2> QED
    BY <1>7, <2>1, SameRowsKeepReversals DEF WriteEntries, stored
<1>8. ASSUME NEW s \in Sessions, Commit(s) PROVE ReversalInv'
  BY <1>8, CommitKeepsReversals
<1>9. ASSUME NEW s \in Sessions, Rollback(s) \/ DeadlockVictim(s)
      PROVE  ReversalInv'
  BY <1>9, UndoKeepsReversals DEF Rollback, DeadlockVictim
<1>10. ASSUME NEW s \in Sessions, SetSavepoint(s) PROVE ReversalInv'
  BY <1>10, SavepointKeepsReversals
<1> QED
  BY <1>1, <1>2, <1>3, <1>4, <1>5, <1>6, <1>7, <1>8, <1>9, <1>10
  DEF Next, CallerPosts

\* A transaction is marked REVERSED exactly when its compensating transaction
\* is committed with it, and a reversal always negates a committed row.
THEOREM ReversalsCompensate == Spec => []ReversedMeansCompensated
<1>1. Init => ReversalInv
  BY DEF Init, ReversalInv, SeenBeforeReversed, ReversedMeansCompensated,
         ReversedBy, SavedReversals, HasSavepoint
<1>2. ReversalInv => ReversedMeansCompensated
  BY DEF ReversalInv
<1> QED
  BY <1>1, <1>2, TypeCorrect, NextKeepsReversals, PTL DEF Spec

-----------------------------------------------------------------------------
(* Rows are in one place, under an id of their own, and were accepted      *)

RowsInv == RowsApart /\ RowsAccepted

\* A step that inserts nothing and at most publishes the rows of s keeps them
\* apart, and accepted.
LEMMA FewerRowsStayApart ==
  ASSUME TypeOK, RowsApart, NEW s \in Sessions,
         rows'[s] \subseteq rows[s], \A t \in Sessions \ {s} : rows'[t] = rows[t],
         \/ journal' = journal
         \/ journal' = journal \cup rows[s] /\ rows'[s] = {}
  PROVE  RowsApart'
<1>1. AllRows' \subseteq AllRows
  BY DEF AllRows
<1>2. \A t \in Sessions : rows'[t] \subseteq rows[t]
  OBVIOUS
<1>3. \A t \in Sessions : rows'[t] \cap journal' = {}
  BY <1>2 DEF RowsApart
<1>4. \A t, v \in Sessions : t # v => rows'[t] \cap rows'[v] = {}
  BY <1>2 DEF RowsApart
<1> QED
  BY <1>1, <1>3, <1>4 DEF RowsApart

LEMMA FewerRowsStayAccepted ==
  ASSUME TypeOK, RowsAccepted, NEW s \in Sessions, AllRows' \subseteq AllRows,
         \A t \in Sessions \ {s} : pc'[t] = pc[t] /\ call'[t] = call[t],
         pc'[s] \in {"locking", "inserting", "entries"} => Acceptable(call'[s].entries)
  PROVE  RowsAccepted'
<1>1. \A t \in Sessions :
        pc'[t] \in {"locking", "inserting", "entries"} => Acceptable(call'[t].entries)
  BY DEF RowsAccepted
<1> QED
  BY <1>1 DEF RowsAccepted

\* What a rollback, to a savepoint or of everything, leaves of the rows.
LEMMA UndoKeepsRows ==
  ASSUME TypeOK, RowsInv, SavedRows, NEW s \in Sessions, Undo(s),
         \/ journal' = journal
         \/ journal' = journal \cup rows[s] /\ Release(s)
  PROVE  RowsInv'
<1>1. /\ rows'[s] \subseteq rows[s] /\ (Release(s) => rows'[s] = {})
      /\ \A t \in Sessions \ {s} : rows'[t] = rows[t]
  BY DEF TypeOK, SavedRows, HasSavepoint, Undo, Release, RollbackToSavepoint
<1>2. /\ pc'[s] \in {"idle", "open"}
      /\ \A t \in Sessions \ {s} : pc'[t] = pc[t] /\ call'[t] = call[t]
  BY DEF TypeOK, Undo, Release, RollbackToSavepoint
<1>3. AllRows' \subseteq AllRows
  BY UndoRows
<1>4. RowsApart'
  BY <1>1, FewerRowsStayApart DEF RowsInv
<1>5. RowsAccepted'
  BY <1>2, <1>3, FewerRowsStayAccepted DEF RowsInv
<1> QED
  BY <1>4, <1>5 DEF RowsInv

\* A session enters post_transaction: what goes on was accepted.
LEMMA PostKeepsRows ==
  ASSUME TypeOK, RowsInv, SavedRows, NEW s \in Sessions, NEW k, NEW e, Post(s, k, e)
  PROVE  RowsInv'
<1>1. CASE PostExisting(s, k, e)
  <2>1. AllRows' = AllRows /\ rows' = rows /\ journal' = journal /\ call' = call
    BY <1>1 DEF PostExisting, AllRows, stored, work
  <2>2. pc'[s] = "open" /\ \A t \in Sessions \ {s} : pc'[t] = pc[t]
    BY <1>1 DEF TypeOK, PostExisting
  <2>3. RowsApart'
    BY <2>1, FewerRowsStayApart DEF RowsInv
  <2> QED
    BY <2>1, <2>2, <2>3, FewerRowsStayAccepted DEF RowsInv
<1>2. CASE PostRefused(s, k, e)
  BY <1>2, UndoKeepsRows DEF PostRefused, stored
<1>3. CASE PostAccepted(s, k, e)
  <2>1. AllRows' = AllRows /\ rows' = rows /\ journal' = journal
    BY <1>3 DEF PostAccepted, AllRows, stored
  <2>2. /\ call'[s].entries = e /\ Acceptable(e)
        /\ \A t \in Sessions \ {s} : pc'[t] = pc[t] /\ call'[t] = call[t]
    BY <1>3 DEF TypeOK, PostAccepted
  <2>3. RowsApart'
    BY <2>1, FewerRowsStayApart DEF RowsInv
  <2> QED
    BY <2>1, <2>2, <2>3, FewerRowsStayAccepted DEF RowsInv
<1> QED
  BY <1>1, <1>2, <1>3 DEF Post

\* The inserted row has an id nobody has, and the entries that were accepted.
LEMMA InsertKeepsRows ==
  ASSUME TypeOK, RowsInv, NEW s \in Sessions, InsertRow(s)
  PROVE  RowsInv'
<1>1. PICK i \in TxnIds \ UsedIds :
        rows' = [rows EXCEPT ![s] = @ \cup
                  {[id |-> i, key |-> call[s].key, entries |-> call[s].entries,
                    reverses |-> NoTxn]}]
  BY DEF InsertRow
<1> DEFINE new == [id |-> i, key |-> call[s].key, entries |-> call[s].entries,
                   reverses |-> NoTxn]
<1>2. /\ rows'[s] = rows[s] \cup {new} /\ journal' = journal
      /\ \A t \in Sessions \ {s} : rows'[t] = rows[t]
  BY <1>1 DEF TypeOK, InsertRow, stored
<1>3. new.id = i /\ new.entries = call[s].entries
  OBVIOUS
<1>4. \A q \in AllRows : q.id # i
  BY <1>1 DEF UsedIds, AllRows
<1> HIDE DEF new
<1>5. new \notin AllRows
  BY <1>3, <1>4
<1>6. AllRows' = AllRows \cup {new}
  BY <1>2 DEF AllRows
<1>7. \A t \in Sessions : new \notin rows[t] /\ new \notin journal
  BY <1>5 DEF AllRows
<1>8. RowsApart'
  <2>1. \A q, r \in AllRows' : q.id = r.id => q = r
    BY <1>3, <1>4, <1>6 DEF RowsInv, RowsApart
  <2>2. \A t \in Sessions : rows'[t] \cap journal' = {}
    BY <1>2, <1>7 DEF RowsInv, RowsApart
  <2>3. \A t, v \in Sessions : t # v => rows'[t] \cap rows'[v] = {}
    BY <1>2, <1>7 DEF RowsInv, RowsApart
  <2> QED
    BY <2>1, <2>2, <2>3 DEF RowsApart
<1>9. RowsAccepted'
  <2>1. Acceptable(call[s].entries)
    BY DEF InsertRow, RowsInv, RowsAccepted
  <2>2. call' = call /\ \A t \in Sessions \ {s} : pc'[t] = pc[t]
    BY DEF TypeOK, InsertRow
  <2>3. \A r \in AllRows' : Acceptable(r.entries)
    BY <1>3, <1>6, <2>1 DEF RowsInv, RowsAccepted
  <2> QED
    BY <2>1, <2>2, <2>3 DEF RowsInv, RowsAccepted
<1> QED
  BY <1>8, <1>9 DEF RowsInv

\* Every step keeps the rows apart and accepted.
LEMMA NextKeepsRows == TypeOK /\ RowsInv /\ SavedRows /\ [Next]_vars => RowsInv'
<1> SUFFICES ASSUME TypeOK, RowsInv, SavedRows, [Next]_vars PROVE RowsInv'
  OBVIOUS
<1>1. CASE UNCHANGED vars
  BY <1>1 DEF vars, work, RowsInv, RowsApart, RowsAccepted, AllRows
<1>2. ASSUME NEW s \in Sessions, CallerPosts(s) PROVE RowsInv'
  BY <1>2, PostKeepsRows DEF CallerPosts, Reverse
<1>3. ASSUME NEW s \in Sessions, NEW a \in Accounts, LockAccount(s, a) PROVE RowsInv'
  BY <1>3 DEF LockAccount, stored, RowsInv, RowsApart, RowsAccepted, AllRows
<1>4. ASSUME NEW s \in Sessions, AllLocked(s) \/ InsertDuplicate(s) PROVE RowsInv'
  <2>1. /\ UNCHANGED <<journal, rows, call>>
        /\ \A t \in Sessions : pc'[t] \in {"locking", "inserting", "entries"} =>
                                pc[t] \in {"locking", "inserting", "entries"}
    BY <1>4 DEF TypeOK, AllLocked, InsertDuplicate, stored, work
  <2> QED
    BY <2>1 DEF RowsInv, RowsApart, RowsAccepted, AllRows
<1>5. ASSUME NEW s \in Sessions, InsertRow(s) PROVE RowsInv'
  BY <1>5, InsertKeepsRows
<1>6. ASSUME NEW s \in Sessions, WriteEntries(s) PROVE RowsInv'
  BY <1>6 DEF TypeOK, WriteEntries, stored, RowsInv, RowsApart, RowsAccepted, AllRows
<1>7. ASSUME NEW s \in Sessions, Commit(s) PROVE RowsInv'
  BY <1>7, UndoKeepsRows DEF Commit, Undo
<1>8. ASSUME NEW s \in Sessions, Rollback(s) \/ DeadlockVictim(s) PROVE RowsInv'
  BY <1>8, UndoKeepsRows DEF Rollback, DeadlockVictim, stored
<1>9. ASSUME NEW s \in Sessions, SetSavepoint(s) PROVE RowsInv'
  BY <1>9 DEF TypeOK, SetSavepoint, stored, RowsInv, RowsApart, RowsAccepted, AllRows
<1> QED
  BY <1>1, <1>2, <1>3, <1>4, <1>5, <1>6, <1>7, <1>8, <1>9 DEF Next

-----------------------------------------------------------------------------
(* The books add up                                                        *)

\* No rows, no money.
LEMMA EntrySumEmpty == \A a : EntrySum({}, a) = 0
  BY SumEmpty DEF EntrySum

\* The amount of the only row.
LEMMA EntrySumOne ==
  ASSUME NEW r \in Row, NEW a \in Accounts
  PROVE  EntrySum({r}, a) = r.entries[a]
<1> DEFINE amounts == [q \in {r} |-> q.entries[a]]
<1>1. amounts[r] = r.entries[a] /\ r.entries[a] \in Int
  BY DEF Row, Entries
<1>2. \A q \in {} \cup {r} : amounts[q] \in Int
  BY <1>1
<1> HIDE DEF amounts
<1>3. SumFunctionOnSet(amounts, {} \cup {r}) = SumFunctionOnSet(amounts, {}) + amounts[r]
  BY <1>2, SumAdd, FS_EmptySet
<1>4. SumFunctionOnSet(amounts, {}) = 0 /\ {} \cup {r} = {r}
  BY SumEmpty
<1>5. SumFunctionOnSet(amounts, {r}) = amounts[r]
  BY <1>1, <1>3, <1>4
<1> QED
  BY <1>1, <1>5 DEF EntrySum, amounts

\* Two batches of rows that share none sum to the sum of both.
LEMMA EntrySumUnion ==
  ASSUME NEW R \in SUBSET Row, NEW T \in SUBSET Row, IsFiniteSet(R), IsFiniteSet(T),
         R \cap T = {}, NEW a \in Accounts
  PROVE  EntrySum(R \cup T, a) = EntrySum(R, a) + EntrySum(T, a)
<1> DEFINE both == [r \in R \cup T |-> r.entries[a]]
           left == [r \in R |-> r.entries[a]]
           right == [r \in T |-> r.entries[a]]
<1>1. /\ \A r \in R \cup T : both[r] \in Int
      /\ \A r \in R : both[r] = left[r]
      /\ \A r \in T : both[r] = right[r]
  BY DEF Row, Entries
<1>2. /\ EntrySum(R \cup T, a) = SumFunctionOnSet(both, R \cup T)
      /\ EntrySum(R, a) = SumFunctionOnSet(left, R)
      /\ EntrySum(T, a) = SumFunctionOnSet(right, T)
  BY DEF EntrySum
<1> HIDE DEF both, left, right
<1>3. SumFunctionOnSet(both, R \cup T) = SumFunctionOnSet(both, R) + SumFunctionOnSet(both, T)
  BY <1>1, SumUnion
<1>4. SumFunctionOnSet(both, R) = SumFunctionOnSet(left, R)
  BY <1>1, SumEqual
<1>5. SumFunctionOnSet(both, T) = SumFunctionOnSet(right, T)
  BY <1>1, SumEqual
<1> QED
  BY <1>2, <1>3, <1>4, <1>5

\* The accounts of a currency, over which Balanced sums.
LEMMA CurrencyFinite == \A c : IsFiniteSet({a \in Accounts : CurrencyOf[a] = c})
<1> TAKE c
<1>1. {a \in Accounts : CurrencyOf[a] = c} \subseteq Accounts
  OBVIOUS
<1> QED
  BY <1>1, AccountsFinite, FS_Subset

\* Amounts that are equal everywhere balance alike.
LEMMA BalancedEqual ==
  ASSUME NEW e, NEW f, Balanced(e), \A a \in Accounts : f[a] = e[a]
  PROVE  Balanced(f)
<1> SUFFICES ASSUME NEW c \in Currencies
             PROVE  SumFunctionOnSet(f, {a \in Accounts : CurrencyOf[a] = c}) = 0
  BY DEF Balanced
<1> DEFINE A == {a \in Accounts : CurrencyOf[a] = c}
<1>1. IsFiniteSet(A) /\ \A a \in A : f[a] = e[a]
  BY CurrencyFinite
<1>2. SumFunctionOnSet(e, A) = 0
  BY DEF Balanced
<1> HIDE DEF A
<1>3. SumFunctionOnSet(f, A) = 0
  BY <1>1, <1>2, SumEqual
<1> QED
  BY <1>3 DEF A

\* No amounts at all balance.
LEMMA BalancedZero ==
  ASSUME NEW e, \A a \in Accounts : e[a] = 0
  PROVE  Balanced(e)
<1> SUFFICES ASSUME NEW c \in Currencies
             PROVE  SumFunctionOnSet(e, {a \in Accounts : CurrencyOf[a] = c}) = 0
  BY DEF Balanced
<1> DEFINE A == {a \in Accounts : CurrencyOf[a] = c}
<1>1. IsFiniteSet(A) /\ \A a \in A : e[a] = 0
  BY CurrencyFinite
<1> HIDE DEF A
<1>2. SumFunctionOnSet(e, A) = 0
  BY <1>1, SumZero
<1> QED
  BY <1>2 DEF A

\* Adding balanced amounts to balanced amounts.
LEMMA BalancedPlus ==
  ASSUME NEW e, NEW f, NEW g, Balanced(e), Balanced(f),
         \A a \in Accounts : e[a] \in Int /\ f[a] \in Int /\ g[a] = e[a] + f[a]
  PROVE  Balanced(g)
<1> SUFFICES ASSUME NEW c \in Currencies
             PROVE  SumFunctionOnSet(g, {a \in Accounts : CurrencyOf[a] = c}) = 0
  BY DEF Balanced
<1> DEFINE A == {a \in Accounts : CurrencyOf[a] = c}
<1>1. IsFiniteSet(A)
  BY CurrencyFinite
<1>2. \A a \in A : e[a] \in Int /\ f[a] \in Int /\ g[a] = e[a] + f[a]
  OBVIOUS
<1>3. SumFunctionOnSet(e, A) = 0 /\ SumFunctionOnSet(f, A) = 0
  BY DEF Balanced
<1> HIDE DEF A
<1>4. SumFunctionOnSet(g, A) = SumFunctionOnSet(e, A) + SumFunctionOnSet(f, A)
  BY <1>1, <1>2, SumPlus
<1>5. SumFunctionOnSet(g, A) = 0
  BY <1>3, <1>4
<1> QED
  BY <1>5 DEF A

\* The sums of no rows are zero, those of an accepted row are its amounts, and
\* those of two disjoint batches are added up account by account.
LEMMA AddsUpNothing ==
  ASSUME NEW sums, \A a \in Accounts : sums[a] = 0
  PROVE  AddsUp({}, sums)
  BY BalancedZero, EntrySumEmpty, FS_EmptySet DEF AddsUp

LEMMA AddsUpOne ==
  ASSUME NEW r \in Row, Acceptable(r.entries)
  PROVE  AddsUp({r}, r.entries)
  BY EntrySumOne, FS_Singleton DEF AddsUp, Acceptable

LEMMA AddsUpEqual ==
  ASSUME NEW R, NEW x, NEW y, AddsUp(R, x), \A a \in Accounts : y[a] = x[a]
  PROVE  AddsUp(R, y)
  BY BalancedEqual DEF AddsUp

LEMMA AddsUpUnion ==
  ASSUME NEW R \in SUBSET Row, NEW T \in SUBSET Row, R \cap T = {}, NEW x, NEW y, NEW z,
         AddsUp(R, x), AddsUp(T, y),
         \A a \in Accounts : x[a] \in Int /\ y[a] \in Int /\ z[a] = x[a] + y[a]
  PROVE  AddsUp(R \cup T, z)
<1>1. IsFiniteSet(R) /\ IsFiniteSet(T) /\ IsFiniteSet(R \cup T)
  BY FS_Union DEF AddsUp
<1>2. Balanced(z)
  BY BalancedPlus DEF AddsUp
<1>3. \A a \in Accounts : EntrySum(R \cup T, a) = z[a]
  BY <1>1, EntrySumUnion DEF AddsUp
<1> QED
  BY <1>1, <1>2, <1>3 DEF AddsUp

SumsOf(s) ==
  /\ AddsUp(rows[s], [a \in Accounts |-> added[s][a] + Unwritten(s)[a]])
  /\ Balanced(added[s])
  /\ HasSavepoint(s) => AddsUp(saved[s].rows, saved[s].added)

SumsInv == AddsUp(journal, entrySum) /\ SessionsAddUp /\ SavedAddUp

\* The two readings of the session part, by conjunct and by session.
LEMMA SumsBySession ==
  SumsInv <=> AddsUp(journal, entrySum) /\ \A s \in Sessions : SumsOf(s)
  BY DEF SumsInv, SessionsAddUp, SavedAddUp, SumsOf

\* What is left to show of a step of s: its own sums, and the committed ones.
LEMMA StepKeepsSums ==
  ASSUME SumsInv, NEW s \in Sessions, AddsUp(journal, entrySum)', SumsOf(s)',
         \A t \in Sessions \ {s} :
           /\ rows'[t] = rows[t] /\ added'[t] = added[t] /\ saved'[t] = saved[t]
           /\ pc'[t] = pc[t] /\ call'[t] = call[t]
  PROVE  SumsInv'
<1>1. \A t \in Sessions \ {s} : SumsOf(t) => SumsOf(t)'
  BY DEF SumsOf, Unwritten, HasSavepoint
<1>2. \A t \in Sessions : SumsOf(t)'
  BY <1>1, SumsBySession
<1> QED
  BY <1>2 DEF SumsInv, SessionsAddUp, SavedAddUp, SumsOf

\* A step that moves no rows and no amounts and starts or ends no write.
LEMMA SameSums ==
  ASSUME SumsInv, UNCHANGED <<stored, rows, added, saved>>,
         \A s \in Sessions : pc[s] = "entries" => pc'[s] = "entries" /\ call'[s] = call[s],
         \A s \in Sessions : pc'[s] = "entries" => pc[s] = "entries"
  PROVE  SumsInv'
<1>1. \A s \in Sessions : Unwritten(s)' = Unwritten(s)
  BY DEF Unwritten, ZeroAmounts
<1>2. \A s \in Sessions : SumsOf(s) => SumsOf(s)'
  BY <1>1 DEF SumsOf, HasSavepoint
<1>3. AddsUp(journal, entrySum)' /\ \A s \in Sessions : SumsOf(s)'
  BY <1>2, SumsBySession DEF stored
<1> QED
  BY <1>3 DEF SumsInv, SessionsAddUp, SavedAddUp, SumsOf

\* A session that is not about to write has added the sums of its rows.
LEMMA AddedIsSumOfRows ==
  ASSUME TypeOK, SumsInv, NEW s \in Sessions, pc[s] # "entries"
  PROVE  AddsUp(rows[s], added[s])
<1>1. AddsUp(rows[s], [a \in Accounts |-> added[s][a] + Unwritten(s)[a]])
  BY DEF SumsInv, SessionsAddUp
<1>2. \A a \in Accounts : added[s][a] = [b \in Accounts |-> added[s][b] + Unwritten(s)[b]][a]
  BY DEF TypeOK, Unwritten, ZeroAmounts
<1> QED
  BY <1>1, <1>2, AddsUpEqual

\* A rollback forgets rows and what they added together.
LEMMA UndoKeepsSums ==
  ASSUME TypeOK, SumsInv, NEW s \in Sessions, Undo(s), AddsUp(journal, entrySum)'
  PROVE  SumsInv'
<1>1. \A t \in Sessions \ {s} :
        /\ rows'[t] = rows[t] /\ added'[t] = added[t] /\ saved'[t] = saved[t]
        /\ pc'[t] = pc[t] /\ call'[t] = call[t]
  BY DEF TypeOK, Undo, Release, RollbackToSavepoint
<1>2. pc'[s] \in {"idle", "open"} /\ saved'[s] = NoSavepoint
  BY DEF TypeOK, Undo, Release, RollbackToSavepoint
<1>3. AddsUp(rows'[s], added'[s]) /\ \A a \in Accounts : added'[s][a] \in Int
  <2>1. CASE Release(s)
    <3>1. rows'[s] = {} /\ \A a \in Accounts : added'[s][a] = 0
      BY <2>1 DEF TypeOK, Release, ZeroAmounts
    <3> QED
      BY <3>1, AddsUpNothing
  <2>2. CASE RollbackToSavepoint(s)
    <3>1. rows'[s] = saved[s].rows /\ added'[s] = saved[s].added /\ HasSavepoint(s)
      BY <2>2 DEF TypeOK, RollbackToSavepoint, HasSavepoint
    <3>2. saved[s].added \in [Accounts -> Int]
      BY <3>1 DEF TypeOK, HasSavepoint, Savepoint
    <3> QED
      BY <3>1, <3>2 DEF SumsInv, SavedAddUp
  <2> QED
    BY <2>1, <2>2 DEF Undo
<1>4. AddsUp(rows[s], [a \in Accounts |-> added[s][a] + Unwritten(s)[a]])'
  <2>1. \A a \in Accounts :
          [b \in Accounts |-> added'[s][b] + Unwritten(s)'[b]][a] = added'[s][a]
    BY <1>2, <1>3 DEF Unwritten, ZeroAmounts
  <2> QED
    BY <1>3, <2>1, AddsUpEqual
<1>5. SumsOf(s)'
  BY <1>2, <1>3, <1>4 DEF SumsOf, HasSavepoint, AddsUp
<1> QED
  BY <1>1, <1>5, StepKeepsSums

\* Entering post_transaction adds nothing.
LEMMA PostKeepsSums ==
  ASSUME TypeOK, SumsInv, NEW s \in Sessions, NEW k, NEW e, Post(s, k, e)
  PROVE  SumsInv'
<1>1. CASE PostExisting(s, k, e)
  BY <1>1, SameSums DEF TypeOK, PostExisting, InCaller, stored, work
<1>2. CASE PostRefused(s, k, e)
  BY <1>2, UndoKeepsSums DEF PostRefused, stored, SumsInv
<1>3. CASE PostAccepted(s, k, e)
  BY <1>3, SameSums DEF TypeOK, PostAccepted, InCaller, stored
<1> QED
  BY <1>1, <1>2, <1>3 DEF Post

\* The inserted row is the one whose entries are still to be written.
LEMMA InsertKeepsSums ==
  ASSUME TypeOK, RowsInv, SumsInv, NEW s \in Sessions, InsertRow(s)
  PROVE  SumsInv'
<1>1. PICK i \in TxnIds \ UsedIds :
        rows' = [rows EXCEPT ![s] = @ \cup
                  {[id |-> i, key |-> call[s].key, entries |-> call[s].entries,
                    reverses |-> NoTxn]}]
  BY DEF InsertRow
<1> DEFINE new == [id |-> i, key |-> call[s].key, entries |-> call[s].entries,
                   reverses |-> NoTxn]
<1>2. /\ rows'[s] = rows[s] \cup {new} /\ pc[s] = "inserting" /\ pc'[s] = "entries"
      /\ UNCHANGED <<stored, call, added, saved>>
      /\ \A t \in Sessions \ {s} : rows'[t] = rows[t] /\ pc'[t] = pc[t]
  BY <1>1 DEF TypeOK, InsertRow
<1>3. new.id = i /\ new.entries = call[s].entries
  OBVIOUS
<1>4. new \in Row
  BY DEF Row, TypeOK, Call
<1> HIDE DEF new
<1>5. rows[s] \cap {new} = {}
  BY <1>1, <1>3 DEF UsedIds
<1>6. AddsUp(rows[s], added[s])
  BY <1>2, AddedIsSumOfRows
<1>7. AddsUp({new}, new.entries)
  BY <1>2, <1>3, <1>4, AddsUpOne DEF RowsInv, RowsAccepted
<1>8. /\ \A a \in Accounts : added[s][a] \in Int /\ call[s].entries[a] \in Int
      /\ rows[s] \in SUBSET Row
  BY DEF TypeOK, Call, Entries
<1> DEFINE sums == [a \in Accounts |-> added[s][a] + call[s].entries[a]]
<1>9. AddsUp(rows[s] \cup {new}, sums)
  <2>1. \A a \in Accounts : sums[a] = added[s][a] + new.entries[a]
    BY <1>3
  <2>2. \A a \in Accounts : new.entries[a] \in Int
    BY <1>3, <1>8
  <2> HIDE DEF sums
  <2> QED
    BY <1>4, <1>5, <1>6, <1>7, <1>8, <2>1, <2>2, AddsUpUnion
<1>10. sums = [a \in Accounts |-> added'[s][a] + Unwritten(s)'[a]]
  BY <1>2 DEF Unwritten
<1> HIDE DEF sums
<1>11. SumsOf(s)'
  <2>1. AddsUp(rows[s], [a \in Accounts |-> added[s][a] + Unwritten(s)[a]])'
    BY <1>2, <1>9, <1>10
  <2> QED
    BY <1>2, <2>1 DEF SumsOf, HasSavepoint, SumsInv, SessionsAddUp, SavedAddUp
<1> QED
  BY <1>2, <1>11, StepKeepsSums DEF stored, SumsInv

\* Writing the entries makes up for the row that was ahead of them.
LEMMA WriteKeepsSums ==
  ASSUME TypeOK, SumsInv, NEW s \in Sessions, WriteEntries(s)
  PROVE  SumsInv'
<1>1. /\ pc[s] = "entries" /\ pc'[s] = "open"
      /\ UNCHANGED <<stored, rows, saved>>
      /\ \A t \in Sessions \ {s} :
           added'[t] = added[t] /\ pc'[t] = pc[t] /\ call'[t] = call[t]
  BY DEF TypeOK, WriteEntries
<1>2. added'[s] = [a \in Accounts |-> added[s][a] + Unwritten(s)[a]]
  BY <1>1 DEF TypeOK, WriteEntries, Unwritten
<1>3. AddsUp(rows[s], added'[s])
  BY <1>2 DEF SumsInv, SessionsAddUp
<1>4. \A a \in Accounts : added'[s][a] \in Int
  BY <1>1, <1>2 DEF TypeOK, Unwritten, Call, Entries
<1>5. AddsUp(rows[s], [a \in Accounts |-> added[s][a] + Unwritten(s)[a]])'
  <2>1. \A a \in Accounts :
          [b \in Accounts |-> added'[s][b] + Unwritten(s)'[b]][a] = added'[s][a]
    BY <1>1, <1>4 DEF Unwritten, ZeroAmounts
  <2> QED
    BY <1>1, <1>3, <2>1, AddsUpEqual
<1>6. SumsOf(s)'
  BY <1>1, <1>3, <1>5 DEF SumsOf, HasSavepoint, SumsInv, SavedAddUp, AddsUp
<1> QED
  BY <1>1, <1>6, StepKeepsSums DEF stored, SumsInv

\* The commit adds the rows to the journal and their sums to the entries'.
LEMMA CommitKeepsSums ==
  ASSUME TypeOK, RowsInv, SumsInv, NEW s \in Sessions, Commit(s)
  PROVE  SumsInv'
<1>1. /\ journal' = journal \cup rows[s] /\ pc[s] = "open"
      /\ \A a \in Accounts : entrySum'[a] = entrySum[a] + added[s][a]
  BY DEF Commit
<1>2. AddsUp(rows[s], added[s])
  BY <1>1, AddedIsSumOfRows
<1>3. journal \cap rows[s] = {}
  BY DEF RowsInv, RowsApart
<1>4. /\ \A a \in Accounts : entrySum[a] \in Int /\ added[s][a] \in Int
      /\ journal \in SUBSET Row /\ rows[s] \in SUBSET Row
  BY DEF TypeOK
<1>5. AddsUp(journal, entrySum)'
  BY <1>1, <1>2, <1>3, <1>4, AddsUpUnion DEF SumsInv
<1> QED
  BY <1>5, UndoKeepsSums DEF Commit, Undo

\* A savepoint remembers rows and sums that belong together.
LEMMA SavepointKeepsSums ==
  ASSUME TypeOK, SumsInv, NEW s \in Sessions, SetSavepoint(s)
  PROVE  SumsInv'
<1>1. /\ UNCHANGED <<stored, rows, added, call>> /\ pc[s] # "entries" /\ pc'[s] = "open"
      /\ \A t \in Sessions \ {s} : saved'[t] = saved[t] /\ pc'[t] = pc[t]
  BY DEF TypeOK, SetSavepoint, InCaller
<1>2. saved'[s].rows = rows[s] /\ saved'[s].added = added[s]
  BY DEF TypeOK, SetSavepoint
<1>3. AddsUp(rows[s], added[s])
  BY <1>1, AddedIsSumOfRows
<1>4. Unwritten(s)' = Unwritten(s)
  BY <1>1 DEF Unwritten, ZeroAmounts
<1>5. SumsOf(s)'
  BY <1>1, <1>2, <1>3, <1>4 DEF SumsOf, SumsInv, SessionsAddUp
<1> QED
  BY <1>1, <1>5, StepKeepsSums DEF stored, SumsInv

\* Every step keeps the sums of rows and amounts equal.
LEMMA NextKeepsSums == TypeOK /\ RowsInv /\ SumsInv /\ [Next]_vars => SumsInv'
<1> SUFFICES ASSUME TypeOK, RowsInv, SumsInv, [Next]_vars PROVE SumsInv'
  OBVIOUS
<1>1. CASE UNCHANGED vars
  BY <1>1, SameSums DEF vars, work, stored
<1>2. ASSUME NEW s \in Sessions, CallerPosts(s) PROVE SumsInv'
  BY <1>2, PostKeepsSums DEF CallerPosts, Reverse
<1>3. ASSUME NEW s \in Sessions, NEW a \in Accounts, LockAccount(s, a) PROVE SumsInv'
  BY <1>3, SameSums DEF LockAccount
<1>4. ASSUME NEW s \in Sessions, AllLocked(s) \/ InsertDuplicate(s) PROVE SumsInv'
  BY <1>4, SameSums DEF TypeOK, AllLocked, InsertDuplicate, work
<1>5. ASSUME NEW s \in Sessions, InsertRow(s) PROVE SumsInv'
  BY <1>5, InsertKeepsSums
<1>6. ASSUME NEW s \in Sessions, WriteEntries(s) PROVE SumsInv'
  BY <1>6, WriteKeepsSums
<1>7. ASSUME NEW s \in Sessions, Commit(s) PROVE SumsInv'
  BY <1>7, CommitKeepsSums
<1>8. ASSUME NEW s \in Sessions, Rollback(s) \/ DeadlockVictim(s) PROVE SumsInv'
  BY <1>8, UndoKeepsSums DEF Rollback, DeadlockVictim, stored, SumsInv
<1>9. ASSUME NEW s \in Sessions, SetSavepoint(s) PROVE SumsInv'
  BY <1>9, SavepointKeepsSums
<1> QED
  BY <1>1, <1>2, <1>3, <1>4, <1>5, <1>6, <1>7, <1>8, <1>9 DEF Next

-----------------------------------------------------------------------------
(* All of it at once                                                       *)

All == TypeOK /\ BalanceInv /\ KeyInv /\ ReversalInv /\ RowsInv /\ SumsInv

\* The empty books satisfy every part of the invariant.
LEMMA InitAll == Init => All
<1> SUFFICES ASSUME Init PROVE All
  OBVIOUS
<1>1. BalanceInv /\ KeyInv /\ ReversalInv
  BY NoSessionType
  DEF Init, BalanceInv, BalanceMatchesEntries, LockDiscipline, ZeroAmounts,
      SavedLocks, KeyInv, KeyUsedOnce, AllRows, SavedRows, ReversalInv,
      SeenBeforeReversed, ReversedMeansCompensated, ReversedBy, SavedReversals,
      HasSavepoint
<1>2. RowsInv
  BY DEF Init, RowsInv, RowsApart, RowsAccepted, AllRows
<1>3. SumsInv
  <2>1. AddsUp(journal, entrySum)
    BY AddsUpNothing DEF Init, ZeroAmounts
  <2>2. ASSUME NEW s \in Sessions PROVE SumsOf(s)
    <3>1. rows[s] = {} /\ added[s] = ZeroAmounts /\ Unwritten(s) = ZeroAmounts
      BY DEF Init, Unwritten
    <3>2. Balanced(added[s])
      BY <3>1, BalancedZero DEF ZeroAmounts
    <3>3. \A a \in Accounts : [b \in Accounts |-> added[s][b] + Unwritten(s)[b]][a] = 0
      BY <3>1 DEF ZeroAmounts
    <3> QED
      BY <3>1, <3>2, <3>3, AddsUpNothing DEF SumsOf, Init, HasSavepoint
  <2> QED
    BY <2>1, <2>2, SumsBySession
<1> QED
  BY <1>1, <1>2, <1>3, InitType DEF All

\* Every step keeps every part.
LEMMA NextKeepsAll == All /\ [Next]_vars => All'
<1> SUFFICES ASSUME All, [Next]_vars PROVE All'
  OBVIOUS
<1>1. TypeOK' /\ BalanceInv' /\ KeyInv' /\ ReversalInv'
  BY NextType, NextKeepsBalances, NextKeepsKeys, NextKeepsReversals DEF All
<1>2. RowsInv' /\ SumsInv'
  BY NextKeepsRows, NextKeepsSums DEF All, KeyInv
<1> QED
  BY <1>1, <1>2 DEF All

\* The invariant LedgerPosting is checked with is inductive: every state that
\* is reached satisfies all of it, the lock discipline included.
THEOREM Invariant == Spec => []IInv
<1>1. All => IInv
  BY DEF All, IInv, BalanceInv, KeyInv, ReversalInv, RowsInv, SumsInv
<1> QED
  BY <1>1, InitAll, NextKeepsAll, PTL DEF Spec

\* The cached balances of every currency sum to zero, the platform's included,
\* and the running sums of the entries are the sums over the committed rows:
\* post_transaction creates no money, whoever posts, rolls back or dies.
THEOREM MoneyIsConserved == Spec => []BooksAddUp
<1>1. All => BooksAddUp
  BY DEF All, BooksAddUp, MoneyConserved, EntrySumIsAggregate, BalanceInv,
         BalanceMatchesEntries, SumsInv, AddsUp
<1> QED
  BY <1>1, InitAll, NextKeepsAll, PTL DEF Spec

-----------------------------------------------------------------------------
(* The service implements the atomic ledger                                *)

\* The abstract ledger speaks of rows as the service does.
LEMMA SameRows ==
  /\ \A r : Atomic!IsReversal(r) <=> IsReversal(r)
  /\ \A R : Atomic!ReversedBy(R) = ReversedBy(R)
  /\ \A e : Atomic!Negated(e) = Negated(e)
  /\ \A e : Atomic!Acceptable(e) <=> Acceptable(e)
  /\ \A R : \A a : Atomic!EntrySum(R, a) = EntrySum(R, a)
<1>1. \A f, S : Atomic!SumFunctionOnSet(f, S) = SumFunctionOnSet(f, S)
  BY DEF Atomic!SumFunctionOnSet, SumFunctionOnSet, Atomic!FoldFunctionOnSet,
         FoldFunctionOnSet, Atomic!MapThenFoldSet, MapThenFoldSet
<1>2. \A r : Atomic!IsReversal(r) <=> IsReversal(r)
  BY DEF Atomic!IsReversal, IsReversal, Atomic!ReversalKeys, ReversalKeys
<1>3. \A R : Atomic!ReversedBy(R) = ReversedBy(R)
  BY <1>2 DEF Atomic!ReversedBy, ReversedBy
<1>4. \A e : Atomic!Negated(e) = Negated(e)
  BY DEF Atomic!Negated, Negated
<1>5. \A e : Atomic!Acceptable(e) <=> Acceptable(e)
  BY <1>1 DEF Atomic!Acceptable, Acceptable, Atomic!Balanced, Balanced,
              Atomic!Touched, Touched
<1>6. \A R : \A a : Atomic!EntrySum(R, a) = EntrySum(R, a)
  BY <1>1 DEF Atomic!EntrySum, EntrySum
<1> QED
  BY <1>2, <1>3, <1>4, <1>5, <1>6

\* A commit moves every balance by the amounts of the rows it publishes.
LEMMA CommitMovesEntrySums ==
  ASSUME All, NEW s \in Sessions, Commit(s)
  PROVE  balance' = [a \in Accounts |-> balance[a] + EntrySum(rows[s], a)]
<1>1. AddsUp(rows[s], added[s])
  BY AddedIsSumOfRows DEF All, Commit
<1>2. \A a \in Accounts : EntrySum(rows[s], a) = added[s][a]
  BY <1>1 DEF AddsUp
<1>3. \A a \in Accounts :
        IF owner[a] = s THEN cache[s][a] = balance[a] + added[s][a] ELSE added[s][a] = 0
  BY DEF All, BalanceInv, LockDiscipline
<1>4. \A a \in Accounts : balance[a] \in Int
  BY DEF All, TypeOK
<1>5. balance' = [a \in Accounts |-> IF owner[a] = s THEN cache[s][a] ELSE balance[a]]
  BY DEF Commit, Held
<1> QED
  BY <1>2, <1>3, <1>4, <1>5

\* A commit is one batch of the atomic ledger, or, if the session posted
\* nothing, no step of it.
LEMMA CommitIsABatch ==
  ASSUME All, NEW s \in Sessions, Commit(s)
  PROVE  [Atomic!PostBatch]_(Atomic!vars)
<1>1. /\ journal' = journal \cup rows[s]
      /\ reversed' = reversed \cup ReversedBy(rows[s])
      /\ balance' = [a \in Accounts |-> balance[a] + EntrySum(rows[s], a)]
  BY CommitMovesEntrySums DEF Commit
<1>2. journal' \ journal = rows[s]
  BY <1>1 DEF All, RowsInv, RowsApart
<1>3. CASE rows[s] = {}
  <2>1. journal' = journal /\ reversed' = reversed
    BY <1>1, <1>3 DEF ReversedBy
  <2>2. balance' = balance
    BY <1>1, <1>3, EntrySumEmpty DEF All, TypeOK
  <2> QED
    BY <2>1, <2>2 DEF Atomic!vars
<1>4. CASE rows[s] # {}
  <2> SUFFICES ASSUME NEW r \in rows[s]
               PROVE  /\ Acceptable(r.entries)
                      /\ Atomic!UniqueIn(r, journal')
                      /\ Atomic!Compensates(r, journal')
    BY <1>1, <1>2, <1>4, SameRows DEF Atomic!PostBatch
  <2>1. r \in AllRows /\ journal' \subseteq AllRows
    BY <1>1 DEF AllRows
  <2>2. Acceptable(r.entries)
    BY <2>1 DEF All, RowsInv, RowsAccepted
  <2>3. Atomic!UniqueIn(r, journal')
    BY <2>1 DEF All, RowsInv, RowsApart, KeyInv, KeyUsedOnce, Atomic!UniqueIn
  <2>4. CompensatesSeen(r.key, r.entries, s)
    BY DEF All, ReversalInv, SeenBeforeReversed
  <2>5. Atomic!Compensates(r, journal')
    BY <1>1, <2>4, SameRows
    DEF Atomic!Compensates, CompensatesSeen, CompensatesIn, Visible, IsReversal
  <2> QED
    BY <2>2, <2>3, <2>5
<1> QED
  BY <1>3, <1>4

\* No other statement of any session is seen by a reader of the ledger.
LEMMA OtherStepsAreUnseen ==
  ASSUME NEW s \in Sessions,
         \/ CallerPosts(s) \/ SetSavepoint(s) \/ \E a \in Accounts : LockAccount(s, a)
         \/ AllLocked(s) \/ InsertRow(s) \/ InsertDuplicate(s) \/ WriteEntries(s)
         \/ Rollback(s) \/ DeadlockVictim(s)
  PROVE  UNCHANGED Atomic!vars
<1> SUFFICES UNCHANGED stored
  BY DEF stored, Atomic!vars
<1>1. ASSUME NEW k, NEW e, Post(s, k, e) PROVE UNCHANGED stored
  BY <1>1 DEF Post, PostExisting, PostRefused, PostAccepted
<1> QED
  BY <1>1 DEF CallerPosts, Reverse, SetSavepoint, LockAccount, AllLocked, InsertRow,
              InsertDuplicate, WriteEntries, Rollback, DeadlockVictim

\* What the callers see of the concurrent service, its locks, savepoints,
\* rollbacks and races is one ledger that posts whole batches, one at a time.
THEOREM ServiceImplementsLedger == Spec => ImplementsLedger
<1>1. Init => Atomic!Init
  BY DEF Init, Atomic!Init, ZeroAmounts
<1>2. All /\ [Next]_vars => [Atomic!PostBatch]_(Atomic!vars)
  <2> SUFFICES ASSUME All, [Next]_vars PROVE [Atomic!PostBatch]_(Atomic!vars)
    OBVIOUS
  <2>1. CASE UNCHANGED vars
    BY <2>1 DEF vars, Atomic!vars
  <2>2. ASSUME NEW s \in Sessions, Commit(s) PROVE [Atomic!PostBatch]_(Atomic!vars)
    BY <2>2, CommitIsABatch
  <2> QED
    BY <2>1, <2>2, OtherStepsAreUnseen DEF Next
<1> QED
  BY <1>1, <1>2, InitAll, NextKeepsAll, PTL DEF Spec, ImplementsLedger, Atomic!Spec
=============================================================================
