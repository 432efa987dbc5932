------------------------------ MODULE Deposits ------------------------------
(***************************************************************************)
(* apps/deposits and apps/payments: a user asks for an invoice, the        *)
(* provider reports what becomes of it, the task expires what is unpaid.   *)
(*                                                                         *)
(* The invoice is created at the provider in the middle of the transaction *)
(* that stores the deposit, so creation takes three steps.  A webhook is   *)
(* one transaction (ATOMIC_REQUESTS) that first writes, and so locks, the  *)
(* payment and then locks the deposit; the task is one UPDATE: each is one *)
(* step.  Notifications are repeated, reordered and lost.                  *)
(***************************************************************************)
EXTENDS Integers

CONSTANTS
  Ids,           \* deposits that may be asked for
  Amount,        \* per deposit: in units of its currency
  Rates,         \* values of EXCHANGE_RATE_USD_PKR, as numerators over RateScale
  RateScale,     \* the common denominator of the rates
  Window,        \* DEFAULT_DEPOSIT_WINDOW_MINUTES, in ticks
  None,
  MaxEvents      \* bound on failures and administrative changes

Currencies == {"PKR", "USD"}
Providers == {"nowpayments", "manual"}

ASSUME DepositConstants ==
  /\ None \notin Currencies
  /\ Amount \in [Ids -> Nat \ {0}]
  /\ Rates \subseteq Nat \ {0} /\ Rates # {} /\ RateScale \in Nat \ {0}
  /\ Window \in Nat \ {0} /\ MaxEvents \in Nat

VARIABLES
  wallet,     \* per deposit: the currency of the user's wallet, set when it was created
  deposit,    \* Deposit rows, None while there is none
  payment,    \* PaymentTransaction.status, None while there is no row
  creating,   \* per request inside create_deposit: what it asks for, None elsewhere
  invoice,    \* the provider's invoices, None where there is none
  sent,       \* notifications the provider has sent
  credited,   \* how many DEPOSIT transactions the ledger holds per deposit
  enabled,    \* DEPOSITS_ENABLED
  rate,       \* EXCHANGE_RATE_USD_PKR, over RateScale
  events

vars == <<wallet, deposit, payment, creating, invoice, sent, credited, enabled, rate, events>>

\* left: the time until expires_at.
DepositRow == [status : {"awaiting_payment", "confirmed", "expired"},
               currency : Currencies, left : 0..Window]

PaymentStatuses ==
  {"created", "awaiting_payment", "confirming", "confirmed", "processing", "failed",
   "expired", "refunded"}

\* The provider's own statuses, and those that may follow each.  A transfer is
\* confirmed on its chain before the provider forwards it, and that it was too
\* small may turn out before or after.
Follows ==
  [waiting        |-> {"confirming", "partially_paid", "expired"},
   confirming     |-> {"confirmed", "failed"},
   confirmed      |-> {"sending", "failed"},
   sending        |-> {"finished", "partially_paid", "failed"},
   partially_paid |-> {"confirming", "failed"},
   finished       |-> {"refunded"},
   refunded       |-> {}, failed |-> {}, expired |-> {}]

Reported == DOMAIN Follows

Request == [provider : Providers, currency : Currencies]

Invoice == [provider : Providers, status : Reported, price : Nat]

ASSUME NullIsNoValue ==
  None \notin DepositRow /\ None \notin PaymentStatuses /\ None \notin Request /\ None \notin Invoice

TypeOK ==
  /\ wallet \in [Ids -> Currencies]
  /\ deposit \in [Ids -> DepositRow \cup {None}]
  /\ payment \in [Ids -> PaymentStatuses \cup {None}]
  /\ creating \in [Ids -> Request \cup {None}]
  /\ invoice \in [Ids -> Invoice \cup {None}]
  /\ sent \subseteq Ids \X Reported
  /\ credited \in [Ids -> Nat]
  /\ enabled \in BOOLEAN /\ rate \in Rates
  /\ events \in 0..MaxEvents

Init ==
  /\ wallet \in [Ids -> Currencies]
  /\ deposit = [d \in Ids |-> None]
  /\ payment = [d \in Ids |-> None]
  /\ creating = [d \in Ids |-> None]
  /\ invoice = [d \in Ids |-> None]
  /\ sent = {}
  /\ credited = [d \in Ids |-> 0]
  /\ enabled = TRUE /\ rate \in Rates
  /\ events = 0

-----------------------------------------------------------------------------
(* Creation                                                                *)

\* Divided and rounded, half to even.
Rounded(a, b) ==
  LET q == a \div b
      r == 2 * (a % b)
  IN  IF r > b \/ (r = b /\ q % 2 = 1) THEN q + 1 ELSE q

\* What the invoice asks for, in USD.
Price(amount, currency) == IF currency = "USD" THEN amount ELSE Rounded(amount * RateScale, rate)

\* The status stored for a new payment: a map of its own, not that of the webhooks.
CreatedStatus(s) ==
  CASE s = "waiting" -> "awaiting_payment"
    [] s \in {"confirming", "failed", "expired", "refunded"} -> s
    [] s \in {"confirmed", "finished"} -> "confirmed"
    [] OTHER -> "created"

\* The request names a currency, whatever the wallet's is, or leaves it out and
\* so asks for the wallet's.
Begin(d, p, c) ==
  /\ enabled
  /\ deposit[d] = None /\ creating[d] = None /\ invoice[d] = None
  /\ creating' = [creating EXCEPT ![d] = [provider |-> p, currency |-> c]]
  /\ UNCHANGED <<wallet, deposit, payment, invoice, sent, credited, enabled, rate, events>>

\* The call to the provider.
CreatePayment(d) ==
  /\ creating[d] # None /\ invoice[d] = None
  /\ invoice' = [invoice EXCEPT ![d] =
       [provider |-> creating[d].provider, status |-> "waiting",
        price |-> IF creating[d].provider = "manual" THEN Amount[d]
                  ELSE Price(Amount[d], creating[d].currency)]]
  /\ UNCHANGED <<wallet, deposit, payment, creating, sent, credited, enabled, rate, events>>

Commit(d) ==
  /\ creating[d] # None /\ invoice[d] # None
  /\ creating' = [creating EXCEPT ![d] = None]
  /\ deposit' = [deposit EXCEPT ![d] =
       [status |-> "awaiting_payment", currency |-> creating[d].currency,
        left |-> Window]]
  /\ payment' = [payment EXCEPT ![d] = CreatedStatus("waiting")]
  /\ UNCHANGED <<wallet, invoice, sent, credited, enabled, rate, events>>

\* The provider cannot be reached or does not answer in time, or the process
\* dies: nothing is stored, and the invoice, if there is one, stays.
Abort(d) ==
  /\ creating[d] # None /\ events < MaxEvents
  /\ creating' = [creating EXCEPT ![d] = None]
  /\ events' = events + 1
  /\ UNCHANGED <<wallet, deposit, payment, invoice, sent, credited, enabled, rate>>

-----------------------------------------------------------------------------
(* The provider                                                            *)

ProviderMoves(d, s) ==
  /\ invoice[d] # None /\ invoice[d].provider = "nowpayments"
  /\ s \in Follows[invoice[d].status]
  /\ invoice' = [invoice EXCEPT ![d].status = s]
  /\ sent' = sent \cup {<<d, s>>}
  /\ UNCHANGED <<wallet, deposit, payment, creating, credited, enabled, rate, events>>

-----------------------------------------------------------------------------
(* Webhooks                                                                *)

\* Faulty variant: an underpaid invoice counts as paid.
NormalisedGenerously(s) ==
  IF s \in {"partially_paid", "confirmed", "finished"} THEN "confirmed"
  ELSE IF s = "sending" THEN "processing"
  ELSE IF s \in {"failed", "refunded", "expired"} THEN s ELSE "confirming"

\* STATUS_MAP of the adapter: a transfer counts as paid once it is confirmed on
\* its chain, and what the adapter does not know counts as confirming.
Normalised(s) ==
  CASE s = "waiting" -> "awaiting_payment"
    [] s \in {"confirmed", "finished"} -> "confirmed"
    [] s = "sending" -> "processing"
    [] s \in {"failed", "refunded", "expired"} -> s
    [] OTHER -> "confirming"

\* The platform account is the one in USD, whatever the wallet's currency, and
\* entries must balance per currency.
Postable(d) == wallet[d] = "USD"

Refused(d) == deposit[d].status = "expired" \/ (deposit[d].status # "confirmed" /\ ~Postable(d))

\* Faulty variant: credited per notification, without a look at the deposit.
ConfirmAgain(d) ==
  /\ ~Refused(d)
  /\ credited' = [credited EXCEPT ![d] = @ + 1]
  /\ deposit' = [deposit EXCEPT ![d].status = "confirmed"]

Confirm(d) ==
  /\ ~Refused(d)
  /\ IF deposit[d].status = "confirmed" THEN UNCHANGED <<deposit, credited>>
     ELSE /\ credited' = [credited EXCEPT ![d] = @ + 1]
          /\ deposit' = [deposit EXCEPT ![d].status = "confirmed"]

\* A webhook for a payment that is not stored is answered 404; one whose
\* confirmation raises is rolled back whole.  Neither changes anything.
Webhook(d, s) ==
  /\ <<d, s>> \in sent /\ payment[d] # None
  /\ payment' = [payment EXCEPT ![d] = Normalised(s)]
  /\ IF Normalised(s) = "confirmed" THEN Confirm(d) ELSE UNCHANGED <<deposit, credited>>
  /\ UNCHANGED <<wallet, creating, invoice, sent, enabled, rate, events>>

-----------------------------------------------------------------------------
(* Expiry, time and administration                                         *)

\* Faulty variant: every deposit past its window, whatever its status.
OverdueAll == {d \in Ids : deposit[d] # None /\ deposit[d].left = 0}

\* Faulty variant: the comparison is the wrong way round.
OverdueAhead ==
  {d \in Ids : /\ deposit[d] # None /\ deposit[d].status = "awaiting_payment"
               /\ deposit[d].left >= Window}

Overdue == {d \in Ids : /\ deposit[d] # None /\ deposit[d].status = "awaiting_payment"
                        /\ deposit[d].left = 0}

ExpireDeposits ==
  /\ Overdue # {}
  /\ deposit' = [d \in Ids |->
       IF d \in Overdue THEN [deposit[d] EXCEPT !.status = "expired"] ELSE deposit[d]]
  /\ UNCHANGED <<wallet, payment, creating, invoice, sent, credited, enabled, rate, events>>

Tick ==
  /\ \E d \in Ids : deposit[d] # None /\ deposit[d].left > 0
  /\ deposit' = [d \in Ids |->
       IF deposit[d] # None /\ deposit[d].left > 0
       THEN [deposit[d] EXCEPT !.left = @ - 1] ELSE deposit[d]]
  /\ UNCHANGED <<wallet, payment, creating, invoice, sent, credited, enabled, rate, events>>

Administer ==
  /\ events < MaxEvents
  /\ events' = events + 1
  /\ \/ enabled' = ~enabled /\ UNCHANGED rate
     \/ rate' \in Rates \ {rate} /\ UNCHANGED enabled
  /\ UNCHANGED <<wallet, deposit, payment, creating, invoice, sent, credited>>

Next ==
  \/ \E d \in Ids : \/ \E p \in Providers, c \in Currencies : Begin(d, p, c)
                  \/ CreatePayment(d) \/ Commit(d) \/ Abort(d)
  \/ \E d \in Ids, s \in Reported : ProviderMoves(d, s) \/ Webhook(d, s)
  \/ ExpireDeposits
  \/ Tick
  \/ Administer

\* A request ends, beat runs the task every ten minutes, time passes and the
\* provider repeats a notification until it is accepted.
Fairness ==
  /\ WF_vars(Tick) /\ WF_vars(ExpireDeposits)
  /\ \A d \in Ids : /\ WF_vars(CreatePayment(d)) /\ WF_vars(Commit(d))
                    /\ \A s \in Reported : WF_vars(Webhook(d, s))

Spec == Init /\ [][Next]_vars /\ Fairness

-----------------------------------------------------------------------------
(* Properties                                                              *)

HasStatus(d, S) == deposit[d] # None /\ deposit[d].status \in S

Payments == INSTANCE PayOnce WITH Events <- Ids, credited <- credited

\* However often, late and out of order the provider reports a payment, the
\* ledger credits the deposit at most once, and never takes it back.
ImplementsPayOnce == Payments!Spec

\* What is credited the provider has reported as confirmed or finished: what was
\* underpaid from the start, failed before that or expired unpaid is not, nor a
\* deposit with the manual provider.
CreditedWasConfirmed ==
  \A d \in Ids : credited[d] > 0 =>
    /\ invoice[d].provider = "nowpayments"
    /\ <<d, "confirmed">> \in sent \/ <<d, "finished">> \in sent

\* Statuses and ledger agree: a deposit is confirmed when it was credited, so
\* none that was paid is expired by the task, nor an expired one credited.
ConfirmedMeansCredited ==
  \A d \in Ids : HasStatus(d, {"confirmed"}) <=> credited[d] > 0

\* A payment shown as confirmed was credited, also where the confirmation of
\* another notification failed.  The converse does not hold: notifications
\* out of order move the payment's status backwards.
ConfirmedPaymentCredited ==
  \A d \in Ids : payment[d] = "confirmed" => credited[d] > 0

\* A deposit in USD is what the provider was asked to collect; one in PKR is
\* worth the invoice within half a unit at one of the rates.
InvoiceWorthDeposit ==
  \A d \in Ids : deposit[d] # None /\ invoice[d].provider = "nowpayments" =>
    IF deposit[d].currency = "USD" THEN invoice[d].price = Amount[d]
    ELSE \E r \in Rates : 2 * (invoice[d].price * r - Amount[d] * RateScale) \in (-r)..r

\* What deposits, payments and invoices keep true together, part by part above.
BooksAgree ==
  TypeOK /\ ConfirmedMeansCredited /\ ConfirmedPaymentCredited /\ InvoiceWorthDeposit

\* No deposit waits for ever: it is confirmed or, when no payment arrives or
\* its credit is refused, expired.
DepositsEnd ==
  \A d \in Ids : deposit[d] # None ~> HasStatus(d, {"confirmed", "expired"})
=============================================================================
