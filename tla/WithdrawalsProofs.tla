-------------------------- MODULE WithdrawalsProofs --------------------------
(***************************************************************************)
(* Theorems about Withdrawals, for any users, admins, callers, amounts and *)
(* settings.                                                               *)
(***************************************************************************)
EXTENDS Withdrawals, SumTheorems, TLAPS

-----------------------------------------------------------------------------
(* What the steps do to one withdrawal                                     *)

\* approve_withdrawal changes the approvers and the status of one row.
LEMMA ApproveStep ==
  ASSUME TypeOK, NEW w \in WithdrawalIds, NEW by \in Admins, Approve(w, by)
  PROVE  \E row \in WithdrawalRow :
           /\ withdrawal' = [withdrawal EXCEPT ![w] = row]
           /\ row.user = withdrawal[w].user
           /\ row.amount = withdrawal[w].amount /\ row.dual = withdrawal[w].dual
           /\ row.status \in {"UNDER_REVIEW", "PROCESSING"}
           /\ row.status = "PROCESSING" => (row.dual => row.second # NoAdmin)
           /\ row.status = "UNDER_REVIEW" => row.second = NoAdmin
           /\ \/ row.first = by /\ row.second = withdrawal[w].second
              \/ /\ row.first = withdrawal[w].first /\ row.first \notin {NoAdmin, by}
                 /\ row.second = by
<1> DEFINE old    == withdrawal[w]
           other  == old.dual /\ old.first \notin {NoAdmin, by}
           first  == IF other THEN old.first ELSE by
           second == IF other THEN by ELSE old.second
           status == IF old.dual => second # NoAdmin THEN "PROCESSING" ELSE "UNDER_REVIEW"
           row    == [old EXCEPT !.first = first, !.second = second, !.status = status]
<1>1. old \in WithdrawalRow
  BY DEF TypeOK, Approve, Exists
<1>2. withdrawal' = [withdrawal EXCEPT ![w] = row]
  BY DEF Approve
<1>3. /\ first \in Admins \cup {NoAdmin} /\ second \in Admins \cup {NoAdmin}
      /\ status \in Statuses
  BY <1>1 DEF WithdrawalRow, Statuses
<1>4. /\ row.first = first /\ row.second = second /\ row.status = status
      /\ row.user = old.user /\ row.amount = old.amount /\ row.dual = old.dual
  BY <1>1 DEF WithdrawalRow
<1>5. row \in WithdrawalRow
  <2> HIDE DEF first, second, status
  <2> QED
    BY <1>1, <1>3 DEF WithdrawalRow
<1> HIDE DEF row
<1> QED
  BY <1>2, <1>4, <1>5

\* Paying, rejecting and the passing of the cooldown change the status or the
\* recency of one row and nothing else of it.
LEMMA FieldStep ==
  ASSUME TypeOK, NEW w \in WithdrawalIds,
         MarkPaid(w) \/ Reject(w) \/ CooldownPasses(w)
  PROVE  \E row \in WithdrawalRow :
           /\ withdrawal' = [withdrawal EXCEPT ![w] = row]
           /\ row.user = withdrawal[w].user
           /\ row.amount = withdrawal[w].amount /\ row.dual = withdrawal[w].dual
           /\ row.first = withdrawal[w].first /\ row.second = withdrawal[w].second
           /\ MarkPaid(w) => row.status = "PAID"
           /\ Reject(w) => row.status = "REJECTED"
           /\ CooldownPasses(w) => row.status = withdrawal[w].status
<1> DEFINE old == withdrawal[w]
<1>1. old \in WithdrawalRow
  BY DEF TypeOK, MarkPaid, Reject, CooldownPasses, Exists
<1>2. CASE MarkPaid(w) \/ Reject(w)
  <2>1. PICK s \in {"PAID", "REJECTED"} :
          /\ withdrawal' = [withdrawal EXCEPT ![w] = [old EXCEPT !.status = s]]
          /\ MarkPaid(w) => s = "PAID"
          /\ Reject(w) => s = "REJECTED"
    <3>1. CASE MarkPaid(w) /\ ~Reject(w)
      BY <3>1 DEF MarkPaid
    <3>2. CASE Reject(w) /\ ~MarkPaid(w)
      BY <3>2 DEF Reject
    <3>3. ~(MarkPaid(w) /\ Reject(w))
      BY <1>1 DEF TypeOK, MarkPaid, Reject, WithdrawalRow
    <3> QED
      BY <1>2, <3>1, <3>2, <3>3
  <2>2. [old EXCEPT !.status = s] \in WithdrawalRow
    BY <1>1 DEF WithdrawalRow, Statuses
  <2>3. ~CooldownPasses(w)
    BY <1>1, <1>2, <2>1 DEF TypeOK, MarkPaid, Reject, CooldownPasses, WithdrawalRow
  <2> QED
    BY <1>1, <2>1, <2>2, <2>3 DEF WithdrawalRow
<1>3. CASE CooldownPasses(w) /\ ~(MarkPaid(w) \/ Reject(w))
  <2>1. withdrawal' = [withdrawal EXCEPT ![w] = [old EXCEPT !.recent = FALSE]]
    BY <1>3 DEF CooldownPasses
  <2>2. [old EXCEPT !.recent = FALSE] \in WithdrawalRow
    BY <1>1 DEF WithdrawalRow
  <2> QED
    BY <1>1, <1>3, <2>1, <2>2 DEF WithdrawalRow
<1> QED
  BY <1>2, <1>3

\* A request creates one row, with the status REQUESTED and no approver.
LEMMA ReserveStep ==
  ASSUME TypeOK, NEW c \in Callers, RequestReserves(c)
  PROVE  \E w \in WithdrawalIds, row \in WithdrawalRow :
           /\ ~Exists(w)
           /\ withdrawal' = [withdrawal EXCEPT ![w] = row]
           /\ legs' = [legs EXCEPT ![w] = @ \cup {"reserve"}]
           /\ row.status = "REQUESTED" /\ row.second = NoAdmin
           /\ row.user = attempt[c].user /\ row.amount = attempt[c].amount
<1> DEFINE q == attempt[c]
<1>1. q \in Request
  BY DEF TypeOK, RequestReserves
<1>2. q.user \in Users /\ q.amount \in Nat \ {0}
  BY <1>1 DEF Request
<1>3. PICK w \in WithdrawalIds, risk \in RiskLevels :
        /\ ~Exists(w)
        /\ withdrawal' = [withdrawal EXCEPT ![w] =
             [user |-> q.user, amount |-> q.amount, status |-> "REQUESTED",
              dual |-> q.amount >= DualThreshold, risk |-> risk,
              mode |-> ResolvedMode(q.amount), first |-> NoAdmin,
              second |-> NoAdmin, recent |-> TRUE]]
        /\ legs' = [legs EXCEPT ![w] = @ \cup {"reserve"}]
  BY DEF RequestReserves
<1>4. ResolvedMode(q.amount) \in {"auto", "manual"} /\ risk \in {"low", "medium", "high"}
  BY RiskLevelsType DEF ResolvedMode
<1>5. (q.amount >= DualThreshold) \in BOOLEAN
  BY <1>2, SettingsType
<1> DEFINE row ==
             [user |-> q.user, amount |-> q.amount, status |-> "REQUESTED",
              dual |-> q.amount >= DualThreshold, risk |-> risk,
              mode |-> ResolvedMode(q.amount), first |-> NoAdmin,
              second |-> NoAdmin, recent |-> TRUE]
<1>6. row \in WithdrawalRow
  BY <1>2, <1>4, <1>5 DEF WithdrawalRow, Statuses
<1>7. /\ row.status = "REQUESTED" /\ row.second = NoAdmin
      /\ row.user = q.user /\ row.amount = q.amount
  OBVIOUS
<1> HIDE DEF row
<1> QED
  BY <1>3, <1>6, <1>7 DEF row

-----------------------------------------------------------------------------
(* Type correctness                                                        *)

\* Every step keeps every variable in its type.
LEMMA NextType == TypeOK /\ [Next]_vars => TypeOK'
<1> SUFFICES ASSUME TypeOK, [Next]_vars PROVE TypeOK'
  OBVIOUS
<1>0. \A w \in WithdrawalIds : Exists(w) =>
        withdrawal[w].user \in Users /\ withdrawal[w].amount \in Nat \ {0}
  BY DEF TypeOK, Exists, WithdrawalRow
<1>1. CASE UNCHANGED vars
  BY <1>1 DEF TypeOK, vars
<1>2. ASSUME NEW c \in Callers, NEW u \in Users, NEW n \in Amounts,
             RequestValidated(c, [user |-> u, amount |-> n])
      PROVE  TypeOK'
  <2>1. [user |-> u, amount |-> n] \in Request
    BY AmountsType DEF Request
  <2> QED
    BY <1>2, <2>1 DEF TypeOK, RequestValidated
<1>3. ASSUME NEW c \in Callers, RequestRefused(c) PROVE TypeOK'
  BY <1>3 DEF TypeOK, RequestRefused
<1>4. ASSUME NEW c \in Callers, RequestReserves(c) PROVE TypeOK'
  <2>1. attempt[c] \in Request
    BY <1>4 DEF TypeOK, RequestReserves
  <2>2. attempt[c].user \in Users /\ attempt[c].amount \in Nat
    BY <2>1 DEF Request
  <2>3. withdrawal' \in [WithdrawalIds -> WithdrawalRow \cup {None}]
        /\ legs' \in [WithdrawalIds -> SUBSET Legs]
    BY <1>4, ReserveStep DEF TypeOK, Legs
  <2>4. cash' \in [Users -> Int] /\ locked' \in [Users -> Int]
    BY <1>4, <2>2 DEF TypeOK, RequestReserves
  <2> QED
    BY <1>4, <2>3, <2>4 DEF TypeOK, RequestReserves
<1>5. ASSUME NEW w \in WithdrawalIds, NEW by \in Admins, Approve(w, by)
      PROVE  TypeOK'
  <2>1. withdrawal' \in [WithdrawalIds -> WithdrawalRow \cup {None}]
    BY <1>5, ApproveStep DEF TypeOK
  <2> QED
    BY <1>5, <2>1 DEF TypeOK, Approve
<1>6. ASSUME NEW w \in WithdrawalIds, MarkPaid(w) PROVE TypeOK'
  <2>1. withdrawal' \in [WithdrawalIds -> WithdrawalRow \cup {None}]
    BY <1>6, FieldStep DEF TypeOK
  <2>2. Exists(w)
    BY <1>6 DEF MarkPaid
  <2> QED
    BY <1>0, <1>6, <2>1, <2>2 DEF TypeOK, MarkPaid, Legs
<1>7. ASSUME NEW w \in WithdrawalIds, Reject(w) PROVE TypeOK'
  <2>1. withdrawal' \in [WithdrawalIds -> WithdrawalRow \cup {None}]
    BY <1>7, FieldStep DEF TypeOK
  <2>2. Exists(w)
    BY <1>7 DEF Reject
  <2> QED
    BY <1>0, <1>7, <2>1, <2>2 DEF TypeOK, Reject, Legs
<1>8. ASSUME NEW w \in WithdrawalIds, CooldownPasses(w) PROVE TypeOK'
  <2>1. withdrawal' \in [WithdrawalIds -> WithdrawalRow \cup {None}]
    BY <1>8, FieldStep DEF TypeOK
  <2> QED
    BY <1>8, <2>1 DEF TypeOK, CooldownPasses
<1>9. ASSUME NEW u \in Users, NEW n \in Adjustments, AdjustBalance(u, n)
      PROVE  TypeOK'
  BY <1>9, AdjustmentsType DEF TypeOK, AdjustBalance
<1>10. CASE GateChanges
  <2>1. \A S \in SUBSET Users, u \in Users : Toggled(S, u) \in SUBSET Users
    BY DEF Toggled
  <2>2. /\ gate \in Gate /\ gate.restricted \in SUBSET Users
        /\ gate.kyc \in SUBSET Users /\ gate.frozen \in SUBSET Users
    BY DEF TypeOK, Gate
  <2>3. gate' \in Gate
    <3>1. CASE gate' = [gate EXCEPT !.enabled = ~@]
      BY <2>2, <3>1 DEF Gate
    <3>2. ASSUME NEW u \in Users,
                 \/ gate' = [gate EXCEPT !.restricted = Toggled(@, u)]
                 \/ gate' = [gate EXCEPT !.kyc = Toggled(@, u)]
                 \/ gate' = [gate EXCEPT !.frozen = Toggled(@, u)]
          PROVE  gate' \in Gate
      BY <2>1, <2>2, <3>2 DEF Gate
    <3> QED
      BY <1>10, <3>1, <3>2 DEF GateChanges
  <2> QED
    BY <1>10, <2>3 DEF TypeOK, GateChanges
<1> QED
  BY <1>1, <1>2, <1>3, <1>4, <1>5, <1>6, <1>7, <1>8, <1>9, <1>10 DEF Next

\* Every reachable state is well typed.
THEOREM TypeCorrect == Spec => []TypeOK
<1>1. Init => TypeOK
  BY DEF Init, TypeOK, Gate
<1> QED
  BY <1>1, NextType, PTL DEF Spec

-----------------------------------------------------------------------------
(* Paid or refunded, never both                                            *)

\* What PaidOrRefunded says of one withdrawal.
LegsOk(row, L) ==
  L = IF row = None THEN {}
      ELSE CASE row.status = "PAID"     -> {"reserve", "payout"}
             [] row.status = "REJECTED" -> {"reserve", "refund"}
             [] OTHER -> {"reserve"}

\* A step on one withdrawal that leaves it right leaves all of them right.
LEMMA OneChanges ==
  ASSUME PaidOrRefunded, NEW w \in WithdrawalIds,
         \A v \in WithdrawalIds \ {w} :
           withdrawal'[v] = withdrawal[v] /\ legs'[v] = legs[v],
         LegsOk(withdrawal'[w], legs'[w])
  PROVE  PaidOrRefunded'
  BY DEF PaidOrRefunded, LegsOk, Exists

\* Every step keeps the legs of a withdrawal and its status together.
LEMMA NextKeepsLegs == TypeOK /\ PaidOrRefunded /\ [Next]_vars => PaidOrRefunded'
<1> SUFFICES ASSUME TypeOK, PaidOrRefunded, [Next]_vars PROVE PaidOrRefunded'
  OBVIOUS
<1>0. withdrawal' = withdrawal /\ legs' = legs => PaidOrRefunded'
  BY DEF PaidOrRefunded, Exists
<1>1. CASE UNCHANGED vars \/ GateChanges
  BY <1>0, <1>1 DEF vars, GateChanges
<1>2. ASSUME NEW c \in Callers,
             \/ \E u \in Users, n \in Amounts :
                  RequestValidated(c, [user |-> u, amount |-> n])
             \/ RequestRefused(c)
      PROVE  PaidOrRefunded'
  BY <1>0, <1>2 DEF RequestValidated, RequestRefused
<1>3. ASSUME NEW c \in Callers, RequestReserves(c) PROVE PaidOrRefunded'
  <2>1. PICK w \in WithdrawalIds, row \in WithdrawalRow :
          /\ ~Exists(w)
          /\ withdrawal' = [withdrawal EXCEPT ![w] = row]
          /\ legs' = [legs EXCEPT ![w] = @ \cup {"reserve"}]
          /\ row.status = "REQUESTED"
    BY <1>3, ReserveStep
  <2>2. legs[w] = {}
    BY <2>1 DEF PaidOrRefunded
  <2>3. LegsOk(withdrawal'[w], legs'[w])
    BY <2>1, <2>2, NullsAreNoValues DEF TypeOK, LegsOk
  <2> QED
    BY <2>1, <2>3, OneChanges DEF TypeOK
<1>4. ASSUME NEW w \in WithdrawalIds, NEW by \in Admins, Approve(w, by)
      PROVE  PaidOrRefunded'
  <2>1. PICK row \in WithdrawalRow :
          /\ withdrawal' = [withdrawal EXCEPT ![w] = row]
          /\ row.status \in {"UNDER_REVIEW", "PROCESSING"}
    BY <1>4, ApproveStep
  <2>2. legs[w] = {"reserve"} /\ legs' = legs
    BY <1>4 DEF PaidOrRefunded, Approve
  <2>3. LegsOk(withdrawal'[w], legs'[w])
    BY <2>1, <2>2, NullsAreNoValues DEF TypeOK, LegsOk
  <2> QED
    BY <2>1, <2>2, <2>3, OneChanges DEF TypeOK
<1>5. ASSUME NEW w \in WithdrawalIds, MarkPaid(w) PROVE PaidOrRefunded'
  <2>1. PICK row \in WithdrawalRow :
          withdrawal' = [withdrawal EXCEPT ![w] = row] /\ row.status = "PAID"
    BY <1>5, FieldStep
  <2>2. legs[w] = {"reserve"}
    BY <1>5 DEF PaidOrRefunded, MarkPaid
  <2>3. legs' = [legs EXCEPT ![w] = {"reserve", "payout"}]
    BY <1>5, <2>2 DEF MarkPaid
  <2>4. LegsOk(withdrawal'[w], legs'[w])
    BY <2>1, <2>3, NullsAreNoValues DEF TypeOK, LegsOk
  <2> QED
    BY <2>1, <2>3, <2>4, OneChanges DEF TypeOK
<1>6. ASSUME NEW w \in WithdrawalIds, Reject(w) PROVE PaidOrRefunded'
  <2>1. PICK row \in WithdrawalRow :
          withdrawal' = [withdrawal EXCEPT ![w] = row] /\ row.status = "REJECTED"
    BY <1>6, FieldStep
  <2>2. legs[w] = {"reserve"}
    BY <1>6 DEF PaidOrRefunded, Reject
  <2>3. legs' = [legs EXCEPT ![w] = {"reserve", "refund"}]
    BY <1>6, <2>2 DEF Reject
  <2>4. LegsOk(withdrawal'[w], legs'[w])
    BY <2>1, <2>3, NullsAreNoValues DEF TypeOK, LegsOk
  <2> QED
    BY <2>1, <2>3, <2>4, OneChanges DEF TypeOK
<1>7. ASSUME NEW w \in WithdrawalIds, CooldownPasses(w) PROVE PaidOrRefunded'
  <2>1. PICK row \in WithdrawalRow :
          /\ withdrawal' = [withdrawal EXCEPT ![w] = row]
          /\ row.status = withdrawal[w].status
    BY <1>7, FieldStep
  <2>2. legs' = legs /\ withdrawal[w] # None
    BY <1>7 DEF CooldownPasses, Exists
  <2>3. LegsOk(withdrawal'[w], legs'[w])
    BY <2>1, <2>2, NullsAreNoValues DEF TypeOK, PaidOrRefunded, LegsOk, Exists
  <2> QED
    BY <2>1, <2>2, <2>3, OneChanges DEF TypeOK
<1>8. ASSUME NEW u \in Users, NEW n \in Adjustments, AdjustBalance(u, n)
      PROVE  PaidOrRefunded'
  BY <1>0, <1>8 DEF AdjustBalance
<1> QED
  BY <1>1, <1>2, <1>3, <1>4, <1>5, <1>6, <1>7, <1>8 DEF Next

\* Every withdrawal is reserved once and then paid or refunded, never both and
\* never twice, whatever the admins do to it and in which order.
THEOREM PaidXorRefunded == Spec => []PaidOrRefunded
<1>1. Init => PaidOrRefunded
  BY DEF Init, PaidOrRefunded, Exists
<1> QED
  BY <1>1, TypeCorrect, NextKeepsLegs, PTL DEF Spec

-----------------------------------------------------------------------------
(* What LOCKED holds                                                       *)

\* The rows a bound allows are finitely many.
LEMMA IdsFinite == IsFiniteSet(WithdrawalIds)
  BY FS_Interval, BoundsType DEF WithdrawalIds

\* What an open withdrawal holds back is an amount.
LEMMA HeldType ==
  ASSUME NEW row \in WithdrawalRow \cup {None}, NEW u
  PROVE  Held(row, u) \in Int
  BY DEF Held, WithdrawalRow

\* A step on one withdrawal changes what is held back for u by what that one
\* withdrawal holds back more or less.
LEMMA OneReservationChanges ==
  ASSUME TypeOK, NEW w \in WithdrawalIds, NEW row \in WithdrawalRow,
         withdrawal' = [withdrawal EXCEPT ![w] = row], NEW u \in Users
  PROVE  SumFunctionOnSet(Reservations(u)', WithdrawalIds) =
           SumFunctionOnSet(Reservations(u), WithdrawalIds)
             + Held(row, u) - Held(withdrawal[w], u)
<1> DEFINE f == Reservations(u)
           g == Reservations(u)'
<1>1. \A v \in WithdrawalIds : f[v] = Held(withdrawal[v], u) /\ g[v] = Held(withdrawal'[v], u)
  BY DEF Reservations
<1>2. withdrawal'[w] = row /\ \A v \in WithdrawalIds \ {w} : withdrawal'[v] = withdrawal[v]
  BY DEF TypeOK
<1>3. \A v \in WithdrawalIds : withdrawal[v] \in WithdrawalRow \cup {None}
                            /\ withdrawal'[v] \in WithdrawalRow \cup {None}
  BY <1>2 DEF TypeOK
<1>4. \A v \in WithdrawalIds : f[v] \in Int /\ g[v] \in Int
  BY <1>1, <1>3, HeldType
<1>5. \A v \in WithdrawalIds \ {w} : g[v] = f[v]
  BY <1>1, <1>2
<1>6. g[w] = Held(row, u) /\ f[w] = Held(withdrawal[w], u)
  BY <1>1, <1>2
<1> HIDE DEF f, g
<1>7. SumFunctionOnSet(g, WithdrawalIds) = SumFunctionOnSet(f, WithdrawalIds) + g[w] - f[w]
  BY <1>4, <1>5, IdsFinite, SumChange
<1> QED
  BY <1>6, <1>7 DEF f, g

\* As long as no row changes, neither does what is held back.
LEMMA NoReservationChanges ==
  ASSUME withdrawal' = withdrawal, NEW u \in Users
  PROVE  SumFunctionOnSet(Reservations(u)', WithdrawalIds) =
           SumFunctionOnSet(Reservations(u), WithdrawalIds)
<1>1. Reservations(u)' = Reservations(u)
  BY DEF Reservations
<1> QED
  BY <1>1, Zenon

\* Posting n to the account of one user adds n to what the users have.
LEMMA OneBalanceChanges ==
  ASSUME NEW f, NEW g, \A v \in Users : f[v] \in Int /\ g[v] \in Int,
         NEW u \in Users, NEW n \in Int, g[u] = f[u] + n,
         \A v \in Users \ {u} : g[v] = f[v]
  PROVE  SumFunctionOnSet(g, Users) = SumFunctionOnSet(f, Users) + n
<1>1. SumFunctionOnSet(g, Users) = SumFunctionOnSet(f, Users) + g[u] - f[u]
  BY UsersFinite, SumChange
<1>2. SumFunctionOnSet(f, Users) \in Int
  BY UsersFinite, SumType
<1>3. f[u] \in Int
  OBVIOUS
<1> QED
  BY <1>1, <1>2, <1>3

\* The two halves of LockedCoversOpen.
ReservedIsLocked ==
  \A u \in Users : locked[u] = SumFunctionOnSet(Reservations(u), WithdrawalIds)

NoMoneyLost ==
  SumFunctionOnSet(cash, Users) + SumFunctionOnSet(locked, Users) + platform = 0

\* A step that changes no row and no LOCKED account keeps the first half.
LEMMA ReservedUnchanged ==
  ReservedIsLocked /\ withdrawal' = withdrawal /\ locked' = locked => ReservedIsLocked'
<1> SUFFICES ASSUME ReservedIsLocked, withdrawal' = withdrawal, locked' = locked,
                    NEW u \in Users
             PROVE  locked'[u] = SumFunctionOnSet(Reservations(u)', WithdrawalIds)
  BY DEF ReservedIsLocked
<1>1. SumFunctionOnSet(Reservations(u)', WithdrawalIds) =
        SumFunctionOnSet(Reservations(u), WithdrawalIds)
  BY NoReservationChanges
<1> QED
  BY <1>1 DEF ReservedIsLocked

\* A step on one row that posts to LOCKED of its user what the row holds back
\* more or less keeps the first half.
LEMMA ReservedMoves ==
  ASSUME TypeOK, ReservedIsLocked, NEW w \in WithdrawalIds, NEW row \in WithdrawalRow,
         withdrawal' = [withdrawal EXCEPT ![w] = row],
         \A u \in Users : locked'[u] = locked[u] + Held(row, u) - Held(withdrawal[w], u)
  PROVE  ReservedIsLocked'
<1> SUFFICES ASSUME NEW u \in Users
             PROVE  locked'[u] = SumFunctionOnSet(Reservations(u)', WithdrawalIds)
  BY DEF ReservedIsLocked
<1>1. SumFunctionOnSet(Reservations(u)', WithdrawalIds) =
        SumFunctionOnSet(Reservations(u), WithdrawalIds)
          + Held(row, u) - Held(withdrawal[w], u)
  BY OneReservationChanges
<1>2. locked[u] = SumFunctionOnSet(Reservations(u), WithdrawalIds)
  BY DEF ReservedIsLocked
<1> QED
  BY <1>1, <1>2

\* Every step moves between LOCKED and the other accounts what the open
\* withdrawals hold back more or less: a leg is missing exactly as long as the
\* withdrawal is open (PaidOrRefunded), so a payout or a refund is posted.
LEMMA NextKeepsReservations ==
  TypeOK /\ PaidOrRefunded /\ ReservedIsLocked /\ [Next]_vars => ReservedIsLocked'
<1> SUFFICES ASSUME TypeOK, PaidOrRefunded, ReservedIsLocked, [Next]_vars
             PROVE  ReservedIsLocked'
  OBVIOUS
<1>0. \A u \in Users : locked[u] \in Int
  BY DEF TypeOK
<1>1. CASE UNCHANGED vars \/ GateChanges
  BY <1>1, ReservedUnchanged DEF vars, GateChanges
<1>2. ASSUME NEW c \in Callers,
             \/ \E u \in Users, n \in Amounts :
                  RequestValidated(c, [user |-> u, amount |-> n])
             \/ RequestRefused(c)
      PROVE  ReservedIsLocked'
  BY <1>2, ReservedUnchanged DEF RequestValidated, RequestRefused
<1>3. ASSUME NEW c \in Callers, RequestReserves(c) PROVE ReservedIsLocked'
  <2>1. PICK w \in WithdrawalIds, row \in WithdrawalRow :
          /\ ~Exists(w)
          /\ withdrawal' = [withdrawal EXCEPT ![w] = row]
          /\ row.status = "REQUESTED"
          /\ row.user = attempt[c].user /\ row.amount = attempt[c].amount
    BY <1>3, ReserveStep
  <2>2. row.user \in Users /\ row.amount \in Nat /\ row # None
    BY NullsAreNoValues DEF WithdrawalRow
  <2>3. \A u \in Users : Held(withdrawal[w], u) = 0
    BY <2>1 DEF Held, Exists
  <2>4. \A u \in Users : Held(row, u) = IF row.user = u THEN row.amount ELSE 0
    BY <2>1, <2>2 DEF Held
  <2>5. locked' = [locked EXCEPT ![row.user] = @ + row.amount]
    BY <1>3, <2>1 DEF RequestReserves
  <2>6. \A u \in Users : locked'[u] = locked[u] + Held(row, u) - Held(withdrawal[w], u)
    BY <1>0, <2>2, <2>3, <2>4, <2>5 DEF TypeOK
  <2> QED
    BY <2>1, <2>6, ReservedMoves
<1>4. ASSUME NEW w \in WithdrawalIds, NEW by \in Admins, Approve(w, by)
      PROVE  ReservedIsLocked'
  <2>1. PICK row \in WithdrawalRow :
          /\ withdrawal' = [withdrawal EXCEPT ![w] = row]
          /\ row.user = withdrawal[w].user /\ row.amount = withdrawal[w].amount
          /\ row.status \in {"UNDER_REVIEW", "PROCESSING"}
    BY <1>4, ApproveStep
  <2>2. /\ withdrawal[w] # None /\ row # None
        /\ withdrawal[w].status \in {"REQUESTED", "UNDER_REVIEW"}
    BY <1>4, NullsAreNoValues DEF Approve, Exists
  <2>3. \A u \in Users : Held(row, u) = Held(withdrawal[w], u)
    BY <2>1, <2>2 DEF Held
  <2>4. \A u \in Users : Held(row, u) \in Int
    BY HeldType
  <2>5. \A u \in Users : locked'[u] = locked[u] + Held(row, u) - Held(withdrawal[w], u)
    BY <1>0, <1>4, <2>3, <2>4 DEF Approve
  <2> QED
    BY <2>1, <2>5, ReservedMoves
<1>5. ASSUME NEW w \in WithdrawalIds, MarkPaid(w) \/ Reject(w) PROVE ReservedIsLocked'
  <2>1. PICK row \in WithdrawalRow :
          /\ withdrawal' = [withdrawal EXCEPT ![w] = row]
          /\ row.status \in {"PAID", "REJECTED"}
    BY <1>5, FieldStep
  <2>2. /\ withdrawal[w] \in WithdrawalRow
        /\ withdrawal[w].status \notin {"PAID", "REJECTED"}
    BY <1>5 DEF TypeOK, MarkPaid, Reject, Exists
  <2>3. withdrawal[w] # None /\ withdrawal[w].user \in Users /\ withdrawal[w].amount \in Nat
    BY <2>2, NullsAreNoValues DEF WithdrawalRow
  <2>4. legs[w] = {"reserve"}
    BY <2>2, <2>3 DEF PaidOrRefunded, Exists
  <2>5. locked' = [locked EXCEPT ![withdrawal[w].user] = @ - withdrawal[w].amount]
    BY <1>5, <2>4 DEF MarkPaid, Reject
  <2>6. \A u \in Users : Held(row, u) = 0
    BY <2>1 DEF Held
  <2>7. \A u \in Users : Held(withdrawal[w], u) =
          IF withdrawal[w].user = u THEN withdrawal[w].amount ELSE 0
    BY <2>2, <2>3 DEF Held
  <2>8. \A u \in Users : locked'[u] = locked[u] + Held(row, u) - Held(withdrawal[w], u)
    BY <1>0, <2>3, <2>5, <2>6, <2>7 DEF TypeOK
  <2> QED
    BY <2>1, <2>8, ReservedMoves
<1>6. ASSUME NEW w \in WithdrawalIds, CooldownPasses(w) PROVE ReservedIsLocked'
  <2>1. PICK row \in WithdrawalRow :
          /\ withdrawal' = [withdrawal EXCEPT ![w] = row]
          /\ row.user = withdrawal[w].user /\ row.amount = withdrawal[w].amount
          /\ row.status = withdrawal[w].status
    BY <1>6, FieldStep
  <2>2. withdrawal[w] # None /\ row # None
    BY <1>6, NullsAreNoValues DEF CooldownPasses, Exists
  <2>3. \A u \in Users : Held(row, u) = Held(withdrawal[w], u)
    BY <2>1, <2>2 DEF Held
  <2>4. \A u \in Users : Held(row, u) \in Int
    BY HeldType
  <2>5. \A u \in Users : locked'[u] = locked[u] + Held(row, u) - Held(withdrawal[w], u)
    BY <1>0, <1>6, <2>3, <2>4 DEF CooldownPasses
  <2> QED
    BY <2>1, <2>5, ReservedMoves
<1>7. ASSUME NEW u \in Users, NEW n \in Adjustments, AdjustBalance(u, n)
      PROVE  ReservedIsLocked'
  BY <1>7, ReservedUnchanged DEF AdjustBalance
<1> QED
  BY <1>1, <1>2, <1>3, <1>4, <1>5, <1>6, <1>7 DEF Next

\* Every step moves money between the three kinds of account only.
LEMMA NextLosesNoMoney == TypeOK /\ NoMoneyLost /\ [Next]_vars => NoMoneyLost'
<1> SUFFICES ASSUME TypeOK, NoMoneyLost, [Next]_vars PROVE NoMoneyLost'
  OBVIOUS
<1> DEFINE C == SumFunctionOnSet(cash, Users)
           L == SumFunctionOnSet(locked, Users)
<1>0. /\ \A u \in Users : /\ cash[u] \in Int /\ locked[u] \in Int
                          /\ cash'[u] \in Int /\ locked'[u] \in Int
      /\ cash \in [Users -> Int] /\ cash' \in [Users -> Int]
      /\ locked \in [Users -> Int] /\ locked' \in [Users -> Int]
      /\ platform \in Int
  BY NextType DEF TypeOK
<1>1. C \in Int /\ L \in Int
  BY <1>0, UsersFinite, SumType
<1>2. cash' = cash /\ locked' = locked /\ platform' = platform => NoMoneyLost'
  BY DEF NoMoneyLost
<1>3. CASE UNCHANGED vars \/ GateChanges
  BY <1>2, <1>3 DEF vars, GateChanges
<1>4. ASSUME NEW c \in Callers,
             \/ \E u \in Users, n \in Amounts :
                  RequestValidated(c, [user |-> u, amount |-> n])
             \/ RequestRefused(c)
      PROVE  NoMoneyLost'
  BY <1>2, <1>4 DEF RequestValidated, RequestRefused
<1>5. ASSUME NEW c \in Callers, RequestReserves(c) PROVE NoMoneyLost'
  <2> DEFINE u == attempt[c].user
             n == attempt[c].amount
  <2>1. u \in Users /\ n \in Int /\ 0 - n \in Int
    BY <1>5 DEF TypeOK, RequestReserves, Request
  <2>2. /\ cash' = [cash EXCEPT ![u] = @ - n] /\ locked' = [locked EXCEPT ![u] = @ + n]
        /\ platform' = platform
    BY <1>5 DEF RequestReserves
  <2> HIDE DEF u, n
  <2>3. /\ cash'[u] = cash[u] + (0 - n) /\ locked'[u] = locked[u] + n
        /\ \A v \in Users \ {u} : cash'[v] = cash[v] /\ locked'[v] = locked[v]
    BY <1>0, <2>1, <2>2
  <2>4. SumFunctionOnSet(cash', Users) = C + (0 - n)
    BY <1>0, <2>1, <2>3, OneBalanceChanges
  <2>5. SumFunctionOnSet(locked', Users) = L + n
    BY <1>0, <2>1, <2>3, OneBalanceChanges
  <2> QED
    BY <1>0, <1>1, <2>1, <2>2, <2>4, <2>5 DEF NoMoneyLost
<1>6. ASSUME NEW w \in WithdrawalIds, NEW by \in Admins, Approve(w, by)
      PROVE  NoMoneyLost'
  BY <1>2, <1>6 DEF Approve
<1>7. ASSUME NEW w \in WithdrawalIds, MarkPaid(w) \/ Reject(w) PROVE NoMoneyLost'
  <2> DEFINE u == withdrawal[w].user
             n == withdrawal[w].amount
  <2>1. u \in Users /\ n \in Int /\ 0 - n \in Int
    BY <1>7 DEF TypeOK, MarkPaid, Reject, Exists, WithdrawalRow
  <2>2. \/ cash' = cash /\ locked' = locked /\ platform' = platform
        \/ /\ cash' = cash /\ locked' = [locked EXCEPT ![u] = @ - n]
           /\ platform' = platform + n
        \/ /\ cash' = [cash EXCEPT ![u] = @ + n] /\ locked' = [locked EXCEPT ![u] = @ - n]
           /\ platform' = platform
    BY <1>7 DEF MarkPaid, Reject
  <2> HIDE DEF u, n
  <2>3. ASSUME locked' = [locked EXCEPT ![u] = @ - n]
        PROVE  SumFunctionOnSet(locked', Users) = L + (0 - n)
    <3>1. /\ locked'[u] = locked[u] + (0 - n)
          /\ \A v \in Users \ {u} : locked'[v] = locked[v]
      BY <1>0, <2>1, <2>3
    <3> QED
      BY <1>0, <2>1, <3>1, OneBalanceChanges
  <2>4. ASSUME cash' = [cash EXCEPT ![u] = @ + n]
        PROVE  SumFunctionOnSet(cash', Users) = C + n
    <3>1. /\ cash'[u] = cash[u] + n
          /\ \A v \in Users \ {u} : cash'[v] = cash[v]
      BY <1>0, <2>1, <2>4
    <3> QED
      BY <1>0, <2>1, <3>1, OneBalanceChanges
  <2>5. cash' = cash => SumFunctionOnSet(cash', Users) = C
    OBVIOUS
  <2> QED
    BY <1>0, <1>1, <1>2, <2>1, <2>2, <2>3, <2>4, <2>5 DEF NoMoneyLost
<1>8. ASSUME NEW w \in WithdrawalIds, CooldownPasses(w) PROVE NoMoneyLost'
  BY <1>2, <1>8 DEF CooldownPasses
<1>9. ASSUME NEW u \in Users, NEW n \in Adjustments, AdjustBalance(u, n)
      PROVE  NoMoneyLost'
  <2>1. n \in Int /\ 0 - n \in Int
    BY AdjustmentsType
  <2>2. /\ cash' = [cash EXCEPT ![u] = @ + n] /\ locked' = locked
        /\ platform' = platform - n
    BY <1>9 DEF AdjustBalance
  <2>3. SumFunctionOnSet(cash', Users) = C + n
    <3>1. cash'[u] = cash[u] + n /\ \A v \in Users \ {u} : cash'[v] = cash[v]
      BY <1>0, <2>2
    <3> QED
      BY <1>0, <2>1, <3>1, OneBalanceChanges
  <2> QED
    BY <1>0, <1>1, <2>1, <2>2, <2>3 DEF NoMoneyLost
<1> QED
  BY <1>3, <1>4, <1>5, <1>6, <1>7, <1>8, <1>9 DEF Next

\* LOCKED holds for every user what the open withdrawals reserved, no more and
\* no less, and no step makes or loses money, for any number of users.
THEOREM LockedIsReserved == Spec => []LockedCoversOpen
<1>1. Init => ReservedIsLocked /\ NoMoneyLost
  <2> SUFFICES ASSUME Init PROVE ReservedIsLocked /\ NoMoneyLost
    OBVIOUS
  <2>1. ASSUME NEW u \in Users
        PROVE  SumFunctionOnSet(Reservations(u), WithdrawalIds) = 0
    <3>1. \A w \in WithdrawalIds : Reservations(u)[w] = 0
      BY DEF Init, Reservations, Held
    <3> QED
      BY <3>1, IdsFinite, SumZero
  <2>2. SumFunctionOnSet(cash, Users) = 0 /\ SumFunctionOnSet(locked, Users) = 0
    <3>1. \A u \in Users : cash[u] = 0 /\ locked[u] = 0
      BY DEF Init
    <3> QED
      BY <3>1, UsersFinite, SumZero
  <2> QED
    BY <2>1, <2>2 DEF Init, ReservedIsLocked, NoMoneyLost
<1>2. ReservedIsLocked /\ NoMoneyLost => LockedCoversOpen
  BY DEF ReservedIsLocked, NoMoneyLost, LockedCoversOpen
<1> QED
  BY <1>1, <1>2, TypeCorrect, PaidXorRefunded, NextKeepsReservations,
     NextLosesNoMoney, PTL DEF Spec

-----------------------------------------------------------------------------
(* Dual approval                                                           *)

\* The strengthening: as long as a withdrawal can still be approved it has no
\* second approver, so the first may be replaced freely.
ApproversOk(row) ==
  row # None /\ row.dual =>
    /\ row.status \in {"REQUESTED", "UNDER_REVIEW"} => row.second = NoAdmin
    /\ row.status \in {"APPROVED", "PROCESSING", "PAID"} =>
         row.first # NoAdmin /\ row.second # NoAdmin /\ row.first # row.second

ApproverInv == \A w \in WithdrawalIds : ApproversOk(withdrawal[w])

\* Every step keeps the approvers in order.
LEMMA NextKeepsApprovers == TypeOK /\ ApproverInv /\ [Next]_vars => ApproverInv'
<1> SUFFICES ASSUME TypeOK, ApproverInv, [Next]_vars PROVE ApproverInv'
  OBVIOUS
<1>0. withdrawal' = withdrawal => ApproverInv'
  BY DEF ApproverInv, ApproversOk
<1>1. ASSUME NEW w \in WithdrawalIds, NEW row \in WithdrawalRow, ApproversOk(row),
             withdrawal' = [withdrawal EXCEPT ![w] = row]
      PROVE  ApproverInv'
  BY <1>1 DEF TypeOK, ApproverInv, ApproversOk
<1>2. CASE UNCHANGED vars \/ GateChanges
  BY <1>0, <1>2 DEF vars, GateChanges
<1>3. ASSUME NEW c \in Callers,
             \/ \E u \in Users, n \in Amounts :
                  RequestValidated(c, [user |-> u, amount |-> n])
             \/ RequestRefused(c)
      PROVE  ApproverInv'
  BY <1>0, <1>3 DEF RequestValidated, RequestRefused
<1>4. ASSUME NEW c \in Callers, RequestReserves(c) PROVE ApproverInv'
  BY <1>1, <1>4, ReserveStep DEF ApproversOk
<1>5. ASSUME NEW w \in WithdrawalIds, NEW by \in Admins, Approve(w, by)
      PROVE  ApproverInv'
  <2>1. ApproversOk(withdrawal[w]) /\ withdrawal[w] # None
        /\ withdrawal[w].status \in {"REQUESTED", "UNDER_REVIEW"}
    BY <1>5 DEF ApproverInv, Approve, Exists
  <2>2. by # NoAdmin
    BY NullsAreNoValues
  <2> QED
    BY <1>1, <1>5, <2>1, <2>2, ApproveStep DEF ApproversOk
<1>6. ASSUME NEW w \in WithdrawalIds, MarkPaid(w) \/ Reject(w) \/ CooldownPasses(w)
      PROVE  ApproverInv'
  <2>1. ApproversOk(withdrawal[w]) /\ withdrawal[w] # None
    BY <1>6 DEF ApproverInv, MarkPaid, Reject, CooldownPasses, Exists
  <2>2. MarkPaid(w) => withdrawal[w].status \in {"APPROVED", "PROCESSING"}
    BY DEF MarkPaid
  <2> QED
    BY <1>1, <1>6, <2>1, <2>2, FieldStep DEF ApproversOk
<1>7. ASSUME NEW u \in Users, NEW n \in Adjustments, AdjustBalance(u, n)
      PROVE  ApproverInv'
  BY <1>0, <1>7 DEF AdjustBalance
<1> QED
  BY <1>2, <1>3, <1>4, <1>5, <1>6, <1>7 DEF Next

\* No withdrawal above the threshold is processed or paid on the approval of
\* one admin, however often and in whatever order the admins approve.
THEOREM DualApproval == Spec => []TwoApprovers
<1>1. Init => ApproverInv
  BY DEF Init, ApproverInv, ApproversOk
<1>2. ApproverInv => TwoApprovers
  BY DEF ApproverInv, ApproversOk, TwoApprovers, Exists
<1> QED
  BY <1>1, <1>2, TypeCorrect, NextKeepsApprovers, PTL DEF Spec

-----------------------------------------------------------------------------
(* Spending and settling                                                   *)

\* Only a request moves money into LOCKED, and it does so under the lock of
\* the CASH account whose balance it has just checked.
THEOREM ReservesAreCovered == Spec => SpendsOnlyAvailable
<1>1. ASSUME TypeOK, [Next]_vars, NEW u \in Users, locked'[u] > locked[u]
      PROVE  cash'[u] >= 0 /\ u \notin gate.frozen
  <2>1. locked[u] \in Int /\ cash[u] \in Int
    BY <1>1 DEF TypeOK
  <2>2. locked' # locked
    BY <1>1, <2>1
  <2>3. ASSUME NEW w \in WithdrawalIds, MarkPaid(w) \/ Reject(w) PROVE FALSE
    <3>1. withdrawal[w].amount \in Nat /\ withdrawal[w].user \in Users
      BY <1>1, <2>3 DEF TypeOK, MarkPaid, Reject, Exists, WithdrawalRow
    <3>2. locked' = [locked EXCEPT ![withdrawal[w].user] = @ - withdrawal[w].amount]
      BY <2>2, <2>3 DEF MarkPaid, Reject
    <3>3. locked'[u] <= locked[u]
      BY <1>1, <2>1, <3>1, <3>2 DEF TypeOK
    <3> QED
      BY <1>1, <2>1, <3>1, <3>2, <3>3 DEF TypeOK
  <2>4. PICK c \in Callers : RequestReserves(c)
    BY <1>1, <2>2, <2>3
    DEF Next, vars, RequestValidated, RequestRefused, Approve, CooldownPasses,
        AdjustBalance, GateChanges
  <2>5. attempt[c].user \in Users /\ attempt[c].amount \in Nat \ {0}
    BY <1>1, <2>4 DEF TypeOK, RequestReserves, Request
  <2>6. /\ locked' = [locked EXCEPT ![attempt[c].user] = @ + attempt[c].amount]
        /\ cash' = [cash EXCEPT ![attempt[c].user] = @ - attempt[c].amount]
        /\ Available(attempt[c].user) >= attempt[c].amount
    BY <2>4 DEF RequestReserves
  <2>7. u = attempt[c].user
    BY <1>1, <2>1, <2>6 DEF TypeOK
  <2> QED
    BY <1>1, <2>1, <2>5, <2>6, <2>7 DEF TypeOK, Available
<1>2. TypeOK /\ [Next]_vars =>
        [\A u \in Users :
           locked'[u] > locked[u] => cash'[u] >= 0 /\ u \notin gate.frozen]_vars
  BY <1>1
<1> QED
  BY <1>2, TypeCorrect, PTL DEF Spec, SpendsOnlyAvailable

\* What a step may do to one withdrawal.
Final(w) ==
  Exists(w) =>
    /\ withdrawal[w].status \in {"PAID", "REJECTED"} =>
         withdrawal'[w].status = withdrawal[w].status
    /\ withdrawal'[w].status = withdrawal[w].status => legs'[w] = legs[w]
    /\ withdrawal'[w].amount = withdrawal[w].amount

\* A settled withdrawal never changes again, and money moves for a withdrawal
\* only together with its status.
THEOREM SettledForGood == Spec => SettledIsFinal
<1>1. ASSUME TypeOK, [Next]_vars, NEW v \in WithdrawalIds PROVE Final(v)
  <2> USE <1>1
  <2>0. withdrawal' = withdrawal /\ legs' = legs => Final(v)
    BY DEF Final
  <2>1. CASE UNCHANGED vars \/ GateChanges
    BY <2>0, <2>1 DEF vars, GateChanges
  <2>2. ASSUME NEW c \in Callers,
               \/ \E u \in Users, n \in Amounts :
                    RequestValidated(c, [user |-> u, amount |-> n])
               \/ RequestRefused(c)
        PROVE  Final(v)
    BY <2>0, <2>2 DEF RequestValidated, RequestRefused
  <2>3. ASSUME NEW c \in Callers, RequestReserves(c) PROVE Final(v)
    <3>1. PICK w \in WithdrawalIds, row \in WithdrawalRow :
            /\ ~Exists(w)
            /\ withdrawal' = [withdrawal EXCEPT ![w] = row]
            /\ legs' = [legs EXCEPT ![w] = @ \cup {"reserve"}]
      BY <2>3, ReserveStep
    <3> QED
      BY <3>1 DEF TypeOK, Final
  <2>4. ASSUME NEW w \in WithdrawalIds, NEW by \in Admins, Approve(w, by)
        PROVE  Final(v)
    <3>1. PICK row \in WithdrawalRow :
            /\ withdrawal' = [withdrawal EXCEPT ![w] = row]
            /\ row.amount = withdrawal[w].amount
      BY <2>4, ApproveStep
    <3>2. legs' = legs /\ withdrawal[w].status \notin {"PAID", "REJECTED"}
      BY <2>4 DEF Approve
    <3> QED
      BY <3>1, <3>2 DEF TypeOK, Final
  <2>5. ASSUME NEW w \in WithdrawalIds, MarkPaid(w) \/ Reject(w) PROVE Final(v)
    <3>1. PICK row \in WithdrawalRow :
            /\ withdrawal' = [withdrawal EXCEPT ![w] = row]
            /\ row.amount = withdrawal[w].amount
            /\ row.status \in {"PAID", "REJECTED"}
      BY <2>5, FieldStep
    <3>2. withdrawal[w].status \notin {"PAID", "REJECTED"}
      BY <2>5 DEF MarkPaid, Reject
    <3>3. \A x \in WithdrawalIds \ {w} : legs'[x] = legs[x]
      BY <2>5 DEF TypeOK, MarkPaid, Reject
    <3> QED
      BY <3>1, <3>2, <3>3 DEF TypeOK, Final
  <2>6. ASSUME NEW w \in WithdrawalIds, CooldownPasses(w) PROVE Final(v)
    <3>1. PICK row \in WithdrawalRow :
            /\ withdrawal' = [withdrawal EXCEPT ![w] = row]
            /\ row.amount = withdrawal[w].amount
            /\ row.status = withdrawal[w].status
      BY <2>6, FieldStep
    <3> QED
      BY <2>6, <3>1 DEF TypeOK, Final, CooldownPasses
  <2>7. ASSUME NEW u \in Users, NEW n \in Adjustments, AdjustBalance(u, n)
        PROVE  Final(v)
    BY <2>0, <2>7 DEF AdjustBalance
  <2> QED
    BY <2>1, <2>2, <2>3, <2>4, <2>5, <2>6, <2>7 DEF Next
<1>2. TypeOK /\ [Next]_vars =>
        [\A w \in WithdrawalIds :
           Exists(w) =>
             /\ withdrawal[w].status \in {"PAID", "REJECTED"} =>
                  withdrawal'[w].status = withdrawal[w].status
             /\ withdrawal'[w].status = withdrawal[w].status => legs'[w] = legs[w]
             /\ withdrawal'[w].amount = withdrawal[w].amount]_vars
  BY <1>1 DEF Final
<1> QED
  BY <1>2, TypeCorrect, PTL DEF Spec, SettledIsFinal
=============================================================================
