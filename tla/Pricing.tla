------------------------------- MODULE Pricing -------------------------------
(***************************************************************************)
(* What an event is worth: resolve_rule, calculate_reward_parts and the    *)
(* arithmetic of RewardService.award (apps/rewards/services.py), with      *)
(* convert (apps/payments/services.py).                                    *)
(*                                                                         *)
(* Amounts are integers, in the smallest unit kept of money (MONEY_QUANT)  *)
(* and of points (POINTS_QUANT); fractions of it live only inside one      *)
(* computation, as numerators.  Staff change rules and the rate between    *)
(* two awards.                                                             *)
(***************************************************************************)
EXTENDS Integers, Sequences, FiniteSets

CONSTANTS
  Rules,          \* the RewardRule rows, by priority and age
  Fields,         \* what a rule may be narrowed to: source, country, ...
  Events,         \* contexts and revenues awarded for
  Rates,          \* PKR for a USD, as numerators over RateScale
  RateScale,
  Hundred,        \* of a percentage
  Thousand,       \* of a multiplier
  PerPoint,       \* units of money to one of points
  None

VARIABLES
  active,         \* rules with is_active
  rate,           \* EXCHANGE_RATE_USD_PKR
  last            \* the reward last issued, or None

vars == <<active, rate, last>>

Init == active = DOMAIN Rules /\ rate \in Rates /\ last = None

\* n / d to the nearest integer, halves to the even one (quantize).
Rounded(n, d) ==
  LET q == n \div d
      twice == 2 * (n % d)
  IN IF twice > d \/ (twice = d /\ q % 2 = 1) THEN q + 1 ELSE q

\* convert: n / d of a currency in units of the other.
Convert(n, d, from, to) ==
  IF from = to THEN Rounded(n, d)
  ELSE IF from = "USD" THEN Rounded(n * rate, d * RateScale)
  ELSE Rounded(n * RateScale, d * rate)

ConditionsMatch(rule, gross) ==
  \/ rule.min = None /\ rule.max = None
  \/ /\ gross # None
     /\ rule.min # None => gross >= rule.min
     /\ rule.max # None => gross <= rule.max

Matches(rule, event) ==
  /\ \A f \in Fields : rule.scope[f] \in {None, event.context[f]}
  /\ ConditionsMatch(rule, event.gross)

\* resolve_rule: the first that matches, or None.
Resolved(event) ==
  LET matching == {i \in active : Matches(Rules[i], event)}
  IN IF matching = {} THEN None
     ELSE Rules[CHOOSE i \in matching : \A j \in matching : i <= j]

\* A multiplier of 0 counts as none.
Factor(rule) == IF rule.multiplier = 0 THEN Thousand ELSE rule.multiplier

\* calculate_reward_parts: numerators of the percentage (over Hundred *
\* Thousand) and of the fixed part (over Thousand), and the points.
Parts(rule, gross) ==
  LET payout == IF gross = None THEN 0 ELSE gross
  IN [percentage |-> payout * rule.percentage * Factor(rule),
      fixed |-> rule.fixed * Factor(rule),
      points |-> Rounded((payout * rule.pointsPercentage
                            + rule.fixedPoints * Hundred * PerPoint) * Factor(rule),
                         Hundred * Thousand * PerPoint)]

NoParts == [percentage |-> 0, fixed |-> 0, points |-> 0]

Capped(rule, cash) ==
  IF rule # None /\ rule.cap # None /\ cash > rule.cap THEN rule.cap ELSE cash

\* Faulty variant: the fixed part, in the user's currency already, is
\* converted as well.
CashAllConverted(parts, revenue, paid) ==
  Convert(parts.percentage + parts.fixed * Hundred, Hundred * Thousand, revenue, paid)

\* The cash of award: the percentage is of the revenue's currency, the fixed
\* part of the user's; a conversion rounds first.
Cash(parts, revenue, paid) ==
  IF revenue = paid \/ parts.percentage = 0
  THEN Rounded(parts.percentage + parts.fixed * Hundred, Hundred * Thousand)
  ELSE LET converted == Convert(parts.percentage, Hundred * Thousand, revenue, paid)
       IN Rounded(converted * Thousand + parts.fixed, Thousand)

\* award: what is issued for an event, with the platform's share in the
\* revenue's currency.  A reward of nothing is refused.
Award(event) ==
  LET rule == Resolved(event)
      paid == IF rule = None THEN "PKR" ELSE rule.currency
      parts == IF rule = None THEN NoParts ELSE Parts(rule, event.gross)
      cash == Capped(rule, Cash(parts, event.currency, paid))
  IN /\ cash > 0 \/ parts.points > 0
     /\ last' = [event |-> event, rule |-> rule, rate |-> rate,
                 cash |-> cash, points |-> parts.points,
                 share |-> IF event.gross = None THEN None
                           ELSE event.gross - Convert(cash, 1, paid, event.currency)]
     /\ UNCHANGED <<active, rate>>

\* Staff activate or retire a rule, or set the rate.
ToggleRule(i) ==
  /\ active' = IF i \in active THEN active \ {i} ELSE active \union {i}
  /\ UNCHANGED <<rate, last>>

SetRate(r) == rate' = r /\ UNCHANGED <<active, last>>

Next ==
  \/ \E e \in Events : Award(e)
  \/ \E i \in DOMAIN Rules : ToggleRule(i)
  \/ \E r \in Rates : SetRate(r)

Spec == Init /\ [][Next]_vars

(***************************************************************************)
(* Properties.                                                             *)
(***************************************************************************)
TypeOK ==
  /\ active \subseteq DOMAIN Rules /\ rate \in Rates
  /\ last # None => last.cash \in Nat /\ last.points \in Nat

\* a and b are at most half of d apart.
HalfApart(a, b, d) == 2 * (a - b) <= d /\ 2 * (b - a) <= d

\* Without a fixed part or a cap, the platform keeps what the user's
\* percentage leaves of the revenue, in dollars, but for the rounding of a
\* conversion there and back: half of each currency's smallest unit.
SharesAddUp ==
  last # None =>
    LET r == last.rule
        gross == last.event.gross
        exact == gross * (Hundred * Thousand - r.percentage * Factor(r))
        kept == last.share * (Hundred * Thousand)
    IN (r.fixed = 0 /\ r.cap = None /\ gross # None) =>
         IF r.currency = "USD" THEN HalfApart(kept, exact, Hundred * Thousand)
         ELSE HalfApart(kept * last.rate, exact * last.rate, (last.rate + RateScale) * (Hundred * Thousand))

\* A fixed part is worth the same at every rate, and on top of whatever the
\* percentage gives.
FixedIsFixed ==
  last # None =>
    LET r == last.rule
        fixed == Rounded(r.fixed * Factor(r), Thousand)
    IN r.cap = None =>
         /\ last.cash >= fixed
         /\ (r.percentage = 0 \/ last.event.gross \in {None, 0}) => last.cash = fixed

\* Nothing is issued without a rule.  A rule's cap bounds the cash in the
\* user's currency, and the platform never pays more dollars than it takes
\* unless the rule's own numbers say so, or its currency's smallest unit is
\* worth more than the dollar's and cash was rounded up to it.
GuardRails ==
  last # None =>
    /\ last.rule # None
    /\ last.rule.cap # None => last.cash <= last.rule.cap
    /\ (last.share # None /\ last.share < 0) =>
         \/ last.rule.fixed > 0
         \/ last.rule.percentage * Factor(last.rule) > Hundred * Thousand
         \/ last.rule.currency = "PKR" /\ last.rate < RateScale

\* What a reward's arithmetic keeps true, part by part above.
PricingSound == TypeOK /\ SharesAddUp /\ FixedIsFixed /\ GuardRails
=============================================================================
