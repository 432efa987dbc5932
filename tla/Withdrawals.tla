----------------------------- MODULE Withdrawals -----------------------------
(***************************************************************************)
(* apps/withdrawals/services.py with the wallet accounts it moves money    *)
(* between, and adminpanel's WithdrawalActionView, which drives it.        *)
(*                                                                         *)
(* approve, mark_paid and reject hold the row lock of the withdrawal from  *)
(* their first statement on: one action each.  A request reads its limits  *)
(* and the cooldown before it locks the CASH account, so it is two.  The   *)
(* ledger transactions behind a withdrawal are kept as "legs", one per     *)
(* idempotency key f"withdrawal:{id}:<leg>"; LedgerPosting shows that such *)
(* a post is atomic and is done once per key.                              *)
(***************************************************************************)
EXTENDS Integers, FiniteSets, Functions

CONSTANTS
  Users,
  Admins,
  NoAdmin,         \* approved_by = NULL
  Callers,         \* concurrent request_withdrawal calls
  None,            \* no row, or no call in progress
  Amounts,         \* amounts users ask for
  Adjustments,     \* amounts credited or debited by adjust_balance
  MaxCash,         \* bound on the absolute value of a CASH balance
  MaxWithdrawals,  \* bound on the Withdrawal rows created
  RiskLevels,      \* risk levels the users may have
  \* PlatformSettings, in the currency of the wallet:
  MinAmount, MaxAmount, KycThreshold, DualThreshold, AutoMax, PayoutMode, Cooldown

WithdrawalIds == 1..MaxWithdrawals

Request == [user : Users, amount : Nat \ {0}]

ASSUME UsersFinite      == IsFiniteSet(Users)
ASSUME AmountsType      == Amounts \subseteq Nat \ {0}
ASSUME AdjustmentsType  == Adjustments \subseteq Int \ {0}
ASSUME SettingsType     ==
  /\ MinAmount \in Nat /\ MaxAmount \in Nat /\ KycThreshold \in Nat
  /\ DualThreshold \in Nat /\ AutoMax \in Nat
  /\ PayoutMode \in {"auto", "hybrid", "manual"} /\ Cooldown \in BOOLEAN
ASSUME BoundsType       == MaxWithdrawals \in Nat /\ MaxCash \in Nat
ASSUME RiskLevelsType   == RiskLevels \subseteq {"low", "medium", "high"}

VARIABLES
  withdrawal,  \* Withdrawal rows, None where no row was created yet
  legs,        \* per withdrawal: the ledger transactions posted for it
  cash,        \* balance of each user's CASH account
  locked,      \* balance of each user's LOCKED account
  platform,    \* balance of the system user's CASH account
  attempt,     \* per caller: the request that passed _validate_request
  gate         \* what admins may change while requests are on their way

vars == <<withdrawal, legs, cash, locked, platform, attempt, gate>>

Statuses == {"REQUESTED", "UNDER_REVIEW", "APPROVED", "PROCESSING", "PAID", "REJECTED"}

\* recent: requested within WITHDRAWAL_COOLDOWN_HOURS.
WithdrawalRow ==
  [user : Users, amount : Nat \ {0}, status : Statuses, dual : BOOLEAN,
   risk : {"low", "medium", "high"}, mode : {"auto", "manual"},
   first : Admins \cup {NoAdmin}, second : Admins \cup {NoAdmin}, recent : BOOLEAN]

ASSUME NullsAreNoValues == NoAdmin \notin Admins /\ None \notin Request \cup WithdrawalRow

Legs == {"reserve", "payout", "refund"}

\* WITHDRAWALS_ENABLED, users with an active WITHDRAWAL_DISABLED restriction,
\* users whose KYC is approved, users whose CASH account is frozen.
Gate == [enabled : BOOLEAN, restricted : SUBSET Users, kyc : SUBSET Users,
         frozen : SUBSET Users]

Exists(w) == withdrawal[w] # None

TypeOK ==
  /\ withdrawal \in [WithdrawalIds -> WithdrawalRow \cup {None}]
  /\ legs \in [WithdrawalIds -> SUBSET Legs]
  /\ cash \in [Users -> Int]
  /\ locked \in [Users -> Int]
  /\ platform \in Int
  /\ attempt \in [Callers -> Request \cup {None}]
  /\ gate \in Gate

Init ==
  /\ withdrawal = [w \in WithdrawalIds |-> None]
  /\ legs = [w \in WithdrawalIds |-> {}]
  /\ cash = [u \in Users |-> 0]
  /\ locked = [u \in Users |-> 0]
  /\ platform = 0
  /\ attempt = [c \in Callers |-> None]
  /\ gate = [enabled |-> TRUE, restricted |-> {}, kyc |-> {}, frozen |-> {}]

-----------------------------------------------------------------------------
(* request_withdrawal                                                      *)

\* _validate_request: nothing is locked while it reads.
CoolingDown(u) ==
  \E w \in WithdrawalIds :
    /\ Exists(w) /\ withdrawal[w].user = u
    /\ withdrawal[w].recent /\ withdrawal[w].status # "REJECTED"

Valid(q) ==
  /\ gate.enabled /\ q.user \notin gate.restricted
  /\ MinAmount <= q.amount /\ q.amount <= MaxAmount
  /\ KycThreshold > 0 /\ q.amount >= KycThreshold => q.user \in gate.kyc
  /\ Cooldown => ~CoolingDown(q.user)

RequestValidated(c, q) ==
  /\ attempt[c] = None
  /\ Valid(q)
  /\ attempt' = [attempt EXCEPT ![c] = q]
  /\ UNCHANGED <<withdrawal, legs, cash, locked, platform, gate>>

\* Faulty variant: money that is reserved still counts as available.
AvailableWithLocked(u) == IF u \in gate.frozen THEN 0 ELSE cash[u] + locked[u]

\* WalletAccount.available, of the locked CASH row.
Available(u) == IF u \in gate.frozen THEN 0 ELSE cash[u]

\* "Insufficient available balance": the request is rolled back.
RequestRefused(c) ==
  /\ attempt[c] # None
  /\ Available(attempt[c].user) < attempt[c].amount
  /\ attempt' = [attempt EXCEPT ![c] = None]
  /\ UNCHANGED <<withdrawal, legs, cash, locked, platform, gate>>

ResolvedMode(amount) ==
  IF PayoutMode = "auto" \/ (PayoutMode = "hybrid" /\ amount < AutoMax)
  THEN "auto" ELSE "manual"

\* The row is created and its amount moved CASH -> LOCKED in one transaction.
RequestReserves(c) ==
  /\ attempt[c] # None
  /\ LET q == attempt[c]
     IN  /\ Available(q.user) >= q.amount
         /\ \E w \in WithdrawalIds, risk \in RiskLevels :
              /\ ~Exists(w) /\ \A v \in 1..(w-1) : Exists(v)
              /\ withdrawal' = [withdrawal EXCEPT ![w] =
                   [user |-> q.user, amount |-> q.amount, status |-> "REQUESTED",
                    dual |-> q.amount >= DualThreshold, risk |-> risk,
                    mode |-> ResolvedMode(q.amount), first |-> NoAdmin,
                    second |-> NoAdmin, recent |-> TRUE]]
              /\ legs' = [legs EXCEPT ![w] = @ \cup {"reserve"}]
         /\ cash' = [cash EXCEPT ![q.user] = @ - q.amount]
         /\ locked' = [locked EXCEPT ![q.user] = @ + q.amount]
  /\ attempt' = [attempt EXCEPT ![c] = None]
  /\ UNCHANGED <<platform, gate>>

-----------------------------------------------------------------------------
(* WithdrawalActionView                                                    *)

\* Faulty variant: the second approval may come from the same admin.
ApproveTwice(w, by) ==
  /\ Exists(w) /\ withdrawal[w].status \in {"REQUESTED", "UNDER_REVIEW"}
  /\ LET row    == withdrawal[w]
         other  == row.dual /\ row.first # NoAdmin
         first  == IF other THEN row.first ELSE by
         second == IF other THEN by ELSE row.second
         done   == row.dual => second # NoAdmin
     IN  withdrawal' = [withdrawal EXCEPT ![w] =
           [row EXCEPT !.first = first, !.second = second,
                       !.status = IF done THEN "PROCESSING" ELSE "UNDER_REVIEW"]]
  /\ UNCHANGED <<legs, cash, locked, platform, attempt, gate>>

\* approve_withdrawal(w, approved_by=request.user); second_approver is never
\* passed, so the second of two different admins becomes it.
Approve(w, by) ==
  /\ Exists(w) /\ withdrawal[w].status \in {"REQUESTED", "UNDER_REVIEW"}
  /\ LET row    == withdrawal[w]
         other  == row.dual /\ row.first \notin {NoAdmin, by}
         first  == IF other THEN row.first ELSE by
         second == IF other THEN by ELSE row.second
         done   == row.dual => second # NoAdmin
     IN  withdrawal' = [withdrawal EXCEPT ![w] =
           [row EXCEPT !.first = first, !.second = second,
                       !.status = IF done THEN "PROCESSING" ELSE "UNDER_REVIEW"]]
  /\ UNCHANGED <<legs, cash, locked, platform, attempt, gate>>

\* Faulty variants: the status is not checked; the payout is taken from CASH.
MarkPaidAny(w) ==
  /\ Exists(w)
  /\ withdrawal' = [withdrawal EXCEPT ![w].status = "PAID"]
  /\ legs' = [legs EXCEPT ![w] = @ \cup {"payout"}]
  /\ locked' = [locked EXCEPT ![withdrawal[w].user] = @ - withdrawal[w].amount]
  /\ platform' = platform + withdrawal[w].amount
  /\ UNCHANGED <<cash, attempt, gate>>

MarkPaidFromCash(w) ==
  /\ Exists(w) /\ withdrawal[w].status \in {"APPROVED", "PROCESSING"}
  /\ withdrawal' = [withdrawal EXCEPT ![w].status = "PAID"]
  /\ legs' = [legs EXCEPT ![w] = @ \cup {"payout"}]
  /\ cash' = [cash EXCEPT ![withdrawal[w].user] = @ - withdrawal[w].amount]
  /\ platform' = platform + withdrawal[w].amount
  /\ UNCHANGED <<locked, attempt, gate>>

\* A leg whose key is used posts nothing.
MarkPaid(w) ==
  /\ Exists(w) /\ withdrawal[w].status \in {"APPROVED", "PROCESSING"}
  /\ withdrawal' = [withdrawal EXCEPT ![w].status = "PAID"]
  /\ IF "payout" \in legs[w]
     THEN UNCHANGED <<legs, locked, platform>>
     ELSE /\ legs' = [legs EXCEPT ![w] = @ \cup {"payout"}]
          /\ locked' = [locked EXCEPT ![withdrawal[w].user] = @ - withdrawal[w].amount]
          /\ platform' = platform + withdrawal[w].amount
  /\ UNCHANGED <<cash, attempt, gate>>

\* Faulty variant: a paid withdrawal may still be rejected.
RejectPaid(w) ==
  /\ Exists(w) /\ withdrawal[w].status # "REJECTED"
  /\ withdrawal' = [withdrawal EXCEPT ![w].status = "REJECTED"]
  /\ legs' = [legs EXCEPT ![w] = @ \cup {"refund"}]
  /\ locked' = [locked EXCEPT ![withdrawal[w].user] = @ - withdrawal[w].amount]
  /\ cash' = [cash EXCEPT ![withdrawal[w].user] = @ + withdrawal[w].amount]
  /\ UNCHANGED <<platform, attempt, gate>>

\* Refused only for PAID, REJECTED and CANCELLED: also one already PROCESSING.
Reject(w) ==
  /\ Exists(w) /\ withdrawal[w].status \notin {"PAID", "REJECTED"}
  /\ withdrawal' = [withdrawal EXCEPT ![w].status = "REJECTED"]
  /\ IF "refund" \in legs[w]
     THEN UNCHANGED <<legs, cash, locked>>
     ELSE /\ legs' = [legs EXCEPT ![w] = @ \cup {"refund"}]
          /\ locked' = [locked EXCEPT ![withdrawal[w].user] = @ - withdrawal[w].amount]
          /\ cash' = [cash EXCEPT ![withdrawal[w].user] = @ + withdrawal[w].amount]
  /\ UNCHANGED <<platform, attempt, gate>>

-----------------------------------------------------------------------------
(* Around the withdrawals                                                  *)

\* wallets adjust_balance, which also stands for rewards and deposits that
\* credit the account: no idempotency key, no look at the balance.
AdjustBalance(u, n) ==
  /\ -MaxCash <= cash[u] + n /\ cash[u] + n <= MaxCash
  /\ cash' = [cash EXCEPT ![u] = @ + n]
  /\ platform' = platform - n
  /\ UNCHANGED <<withdrawal, legs, locked, attempt, gate>>

\* set_setting, restrict and unrestrict of the user view, KYC review, and the
\* is_frozen box of the generic admin; each is a request of its own.
Toggled(S, u) == IF u \in S THEN S \ {u} ELSE S \cup {u}

GateChanges ==
  /\ \/ gate' = [gate EXCEPT !.enabled = ~@]
     \/ \E u \in Users : \/ gate' = [gate EXCEPT !.restricted = Toggled(@, u)]
                         \/ gate' = [gate EXCEPT !.kyc = Toggled(@, u)]
                         \/ gate' = [gate EXCEPT !.frozen = Toggled(@, u)]
  /\ UNCHANGED <<withdrawal, legs, cash, locked, platform, attempt>>

CooldownPasses(w) ==
  /\ Exists(w) /\ withdrawal[w].recent
  /\ withdrawal' = [withdrawal EXCEPT ![w].recent = FALSE]
  /\ UNCHANGED <<legs, cash, locked, platform, attempt, gate>>

Next ==
  \/ \E c \in Callers :
       \/ \E u \in Users, n \in Amounts :
            RequestValidated(c, [user |-> u, amount |-> n])
       \/ RequestRefused(c) \/ RequestReserves(c)
  \/ \E w \in WithdrawalIds :
       \/ \E by \in Admins : Approve(w, by)
       \/ MarkPaid(w) \/ Reject(w) \/ CooldownPasses(w)
  \/ \E u \in Users, n \in Adjustments : AdjustBalance(u, n)
  \/ GateChanges

Spec == Init /\ [][Next]_vars

-----------------------------------------------------------------------------
(* Properties                                                              *)

\* What an open withdrawal keeps reserved in the LOCKED account of u.
Held(row, u) ==
  IF row # None /\ row.user = u /\ row.status \notin {"PAID", "REJECTED"}
  THEN row.amount ELSE 0

Reservations(u) == [w \in WithdrawalIds |-> Held(withdrawal[w], u)]

\* What LOCKED holds is what the open withdrawals reserved, so that each can
\* still be paid or refunded in full, and no money left the three accounts.
LockedCoversOpen ==
  /\ \A u \in Users : locked[u] = SumFunctionOnSet(Reservations(u), WithdrawalIds)
  /\ SumFunctionOnSet(cash, Users) + SumFunctionOnSet(locked, Users) + platform = 0

\* A withdrawal is reserved once, and then paid or refunded, never both, as
\* its status says, whatever two admins click at the same time.
PaidOrRefunded ==
  \A w \in WithdrawalIds :
    legs[w] = IF ~Exists(w) THEN {}
              ELSE CASE withdrawal[w].status = "PAID"     -> {"reserve", "payout"}
                     [] withdrawal[w].status = "REJECTED" -> {"reserve", "refund"}
                     [] OTHER -> {"reserve"}

\* A withdrawal above the dual-approval threshold is processed or paid only
\* after two different admins approved it, in whatever order and how often.
TwoApprovers ==
  \A w \in WithdrawalIds :
    Exists(w) /\ withdrawal[w].dual
              /\ withdrawal[w].status \in {"APPROVED", "PROCESSING", "PAID"}
      => /\ withdrawal[w].first # NoAdmin /\ withdrawal[w].second # NoAdmin
         /\ withdrawal[w].first # withdrawal[w].second

\* Reserving never overdraws or touches a frozen account: simultaneous
\* requests cannot spend the same balance.
SpendsOnlyAvailable ==
  [][\A u \in Users :
       locked'[u] > locked[u] => cash'[u] >= 0 /\ u \notin gate.frozen]_vars

\* PAID and REJECTED are final, and money moves for a withdrawal only in the
\* step that changes its status.
SettledIsFinal ==
  [][\A w \in WithdrawalIds :
       Exists(w) =>
         /\ withdrawal[w].status \in {"PAID", "REJECTED"} =>
              withdrawal'[w].status = withdrawal[w].status
         /\ withdrawal'[w].status = withdrawal[w].status => legs'[w] = legs[w]
         /\ withdrawal'[w].amount = withdrawal[w].amount]_vars
=============================================================================
