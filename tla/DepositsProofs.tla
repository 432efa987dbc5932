--------------------------- MODULE DepositsProofs ---------------------------
(***************************************************************************)
(* Theorems about Deposits, for any deposits, currencies, amounts, rates   *)
(* and windows.                                                            *)
(***************************************************************************)
EXTENDS Deposits, TLAPS

-----------------------------------------------------------------------------
(* Lemmas about the operators                                              *)

\* The provider's statuses, written out.
LEMMA ReportedStatuses ==
  Reported = {"waiting", "partially_paid", "confirming", "confirmed", "sending",
              "finished", "refunded", "failed", "expired"}
BY DEF Reported, Follows

\* What may follow a status is a status.
LEMMA FollowsStatuses ==
  ASSUME NEW s \in Reported, NEW t \in Follows[s]
  PROVE  t \in Reported
BY DEF Reported, Follows

\* STATUS_MAP gives confirmed for what the provider calls confirmed or finished,
\* and for nothing else.
LEMMA NormalisedStatus ==
  ASSUME NEW s \in Reported
  PROVE  /\ Normalised(s) \in PaymentStatuses
         /\ Normalised(s) = "confirmed" <=> s \in {"confirmed", "finished"}
BY ReportedStatuses DEF Normalised, PaymentStatuses

\* Rounding is off by half a unit at most.
LEMMA RoundedIsNear ==
  ASSUME NEW a \in Nat, NEW b \in Nat \ {0}
  PROVE  /\ Rounded(a, b) \in Nat
         /\ 2 * (Rounded(a, b) * b - a) \in (-b)..b
<1> DEFINE q == a \div b
           r == a % b
<1>1. q \in Nat /\ r \in 0..b - 1 /\ a = b * q + r
  OBVIOUS
<1>2. Rounded(a, b) = IF 2 * r > b \/ (2 * r = b /\ q % 2 = 1) THEN q + 1 ELSE q
  BY DEF Rounded
<1> HIDE DEF q, r
<1>3. b * q \in Int /\ q * b = b * q /\ (q + 1) * b = b * q + b
  BY <1>1
<1>4. CASE Rounded(a, b) = q
  <2>1. 2 * r <= b
    BY <1>1, <1>2, <1>4
  <2>2. Rounded(a, b) * b - a = -r
    BY <1>1, <1>3, <1>4
  <2> QED
    BY <1>1, <1>4, <2>1, <2>2
<1>5. CASE Rounded(a, b) = q + 1 /\ Rounded(a, b) # q
  <2>1. 2 * r >= b
    BY <1>1, <1>2, <1>5
  <2>2. Rounded(a, b) * b - a = b - r
    BY <1>1, <1>3, <1>5
  <2> QED
    BY <1>1, <1>5, <2>1, <2>2
<1> QED
  BY <1>2, <1>4, <1>5

-----------------------------------------------------------------------------
(* The inductive invariant                                                 *)

\* An invoice asks for what the deposit is worth.
Worth(d, currency, price) ==
  IF currency = "USD" THEN price = Amount[d]
  ELSE \E r \in Rates : 2 * (price * r - Amount[d] * RateScale) \in (-r)..r

\* The provider has reported the deposit as confirmed or finished.
SaidConfirmed(d) == <<d, "confirmed">> \in sent \/ <<d, "finished">> \in sent

\* The rows of one deposit: a payment comes with its deposit, both with an
\* invoice; what is confirmed is credited once, as its payment was confirmed.
RowsAgree(d) ==
  /\ deposit[d] # None <=> payment[d] # None
  /\ deposit[d] # None => invoice[d] # None /\ creating[d] = None
  /\ credited[d] = IF deposit[d] # None /\ deposit[d].status = "confirmed" THEN 1 ELSE 0
  /\ payment[d] = "confirmed" => credited[d] = 1
  /\ credited[d] = 1 => SaidConfirmed(d)
  /\ (creating[d] # None /\ invoice[d] # None /\ invoice[d].provider = "nowpayments") =>
       Worth(d, creating[d].currency, invoice[d].price)
  /\ (deposit[d] # None /\ invoice[d].provider = "nowpayments") =>
       Worth(d, deposit[d].currency, invoice[d].price)
  /\ \A s \in Reported : <<d, s>> \in sent =>
       invoice[d] # None /\ invoice[d].provider = "nowpayments"

IInv == TypeOK /\ \A d \in Ids : RowsAgree(d)

LEMMA InitInv == Init => IInv
<1> SUFFICES ASSUME Init PROVE IInv
  OBVIOUS
<1>1. TypeOK
  BY DepositConstants DEF Init, TypeOK
<1>2. ASSUME NEW d \in Ids PROVE RowsAgree(d)
  <2>1. /\ deposit[d] = None /\ payment[d] = None /\ creating[d] = None /\ invoice[d] = None
        /\ credited[d] = 0 /\ sent = {}
    BY DEF Init
  <2>2. None # "confirmed"
    BY NullIsNoValue DEF PaymentStatuses
  <2> QED
    BY <2>1, <2>2 DEF RowsAgree
<1> QED
  BY <1>1, <1>2 DEF IInv

\* Nothing of a deposit changes, of a step that is about others.
LEMMA SameRows ==
  ASSUME NEW d \in Ids, RowsAgree(d),
         deposit'[d] = deposit[d], payment'[d] = payment[d], creating'[d] = creating[d],
         invoice'[d] = invoice[d], credited'[d] = credited[d],
         \A s \in Reported : <<d, s>> \in sent' <=> <<d, s>> \in sent
  PROVE  RowsAgree(d)'
BY ReportedStatuses DEF RowsAgree, Worth, SaidConfirmed

LEMMA CreationKeepsInv ==
  ASSUME IInv, NEW d \in Ids,
         (\E p \in Providers, c \in Currencies : Begin(d, p, c)) \/ CreatePayment(d) \/ Commit(d) \/ Abort(d)
  PROVE  IInv'
<1> USE DEF IInv
<1>0. /\ Amount[d] \in Nat \ {0} /\ RateScale \in Nat \ {0}
      /\ rate \in Rates /\ rate \in Nat \ {0} /\ Amount[d] * RateScale \in Nat
  BY DepositConstants DEF TypeOK
<1>1. CASE \E p \in Providers, c \in Currencies : Begin(d, p, c)
  <2>1. PICK p \in Providers, c \in Currencies : Begin(d, p, c)
    BY <1>1
  <2>2. TypeOK'
    BY <2>1 DEF TypeOK, Begin, Request
  <2>3. RowsAgree(d)'
    BY <2>1 DEF TypeOK, Begin, RowsAgree, Worth, SaidConfirmed
  <2>4. ASSUME NEW e \in Ids \ {d} PROVE RowsAgree(e)'
    BY <2>1, SameRows DEF TypeOK, Begin
  <2> QED
    BY <2>2, <2>3, <2>4
<1>2. CASE CreatePayment(d)
  <2> DEFINE c == creating[d].currency
             price == IF creating[d].provider = "manual" THEN Amount[d] ELSE Price(Amount[d], c)
             new == [provider |-> creating[d].provider, status |-> "waiting", price |-> price]
  <2>1. Price(Amount[d], c) \in Nat /\ Worth(d, c, Price(Amount[d], c))
    BY <1>0, RoundedIsNear DEF Price, Worth
  <2>2. /\ invoice' = [invoice EXCEPT ![d] = new]
        /\ creating[d].provider \in Providers /\ creating[d] # None
    BY <1>2 DEF CreatePayment, TypeOK, Request
  <2>3. creating[d].provider = "nowpayments" => Worth(d, c, price)
    BY <1>0, <2>1
  <2>3a. price \in Nat
    BY <1>0, <2>1
  <2>4. /\ new \in Invoice /\ new.provider = creating[d].provider
        /\ new.price = price /\ new.status = "waiting"
    BY <2>2, <2>3a, ReportedStatuses DEF Invoice
  <2> HIDE DEF new, price
  <2>5. TypeOK'
    BY <1>2, <2>2, <2>4 DEF TypeOK, CreatePayment
  <2>6. RowsAgree(d)'
    <3>1. invoice'[d] = new /\ invoice[d] = None
      BY <1>2, <2>2 DEF TypeOK, CreatePayment
    <3>2. deposit[d] = None /\ payment[d] = None /\ credited[d] = 0
      BY <1>2, <3>1 DEF RowsAgree, CreatePayment
    <3>3. \A s \in Reported : <<d, s>> \notin sent
      BY <3>1 DEF RowsAgree
    <3> QED
      BY <1>2, <2>3, <2>3a, <2>4, <3>1, <3>2, <3>3, NullIsNoValue
      DEF RowsAgree, Worth, SaidConfirmed, CreatePayment
  <2>7. ASSUME NEW e \in Ids \ {d} PROVE RowsAgree(e)'
    BY <1>2, <2>2, SameRows DEF TypeOK, CreatePayment
  <2> QED
    BY <2>5, <2>6, <2>7
<1>3. CASE Commit(d)
  <2> DEFINE new == [status |-> "awaiting_payment", currency |-> creating[d].currency,
                     left |-> Window]
  <2>1. new \in DepositRow /\ new.status = "awaiting_payment" /\ new.currency = creating[d].currency
    BY <1>3, DepositConstants DEF DepositRow, Commit, TypeOK, Request
  <2>2. /\ deposit' = [deposit EXCEPT ![d] = new]
        /\ payment' = [payment EXCEPT ![d] = "awaiting_payment"]
    BY <1>3 DEF Commit, CreatedStatus
  <2> HIDE DEF new
  <2>3. TypeOK'
    BY <1>3, <2>1, <2>2 DEF TypeOK, Commit, PaymentStatuses
  <2>4. RowsAgree(d)'
    <3>1. deposit'[d] = new /\ payment'[d] = "awaiting_payment" /\ creating'[d] = None
      BY <1>3, <2>2 DEF TypeOK, Commit
    <3>2. deposit[d] = None /\ credited[d] = 0 /\ invoice[d] # None
      BY <1>3 DEF RowsAgree, Commit
    <3> QED
      BY <1>3, <2>1, <3>1, <3>2, NullIsNoValue
      DEF RowsAgree, Worth, SaidConfirmed, Commit, PaymentStatuses
  <2>5. ASSUME NEW e \in Ids \ {d} PROVE RowsAgree(e)'
    BY <1>3, <2>2, SameRows DEF TypeOK, Commit
  <2> QED
    BY <2>3, <2>4, <2>5
<1>4. CASE Abort(d)
  <2>1. TypeOK'
    BY <1>4, DepositConstants DEF TypeOK, Abort
  <2>2. RowsAgree(d)'
    BY <1>4 DEF TypeOK, Abort, RowsAgree, Worth, SaidConfirmed
  <2>3. ASSUME NEW e \in Ids \ {d} PROVE RowsAgree(e)'
    BY <1>4, SameRows DEF TypeOK, Abort
  <2> QED
    BY <2>1, <2>2, <2>3
<1> QED
  BY <1>1, <1>2, <1>3, <1>4

LEMMA ProviderKeepsInv ==
  ASSUME IInv, NEW d \in Ids, NEW s \in Reported, ProviderMoves(d, s)
  PROVE  IInv'
<1> USE DEF IInv
<1>1. invoice[d] \in Invoice /\ invoice[d].status \in Reported /\ s \in Follows[invoice[d].status]
  BY DEF ProviderMoves, TypeOK, Invoice
<1> DEFINE new == [invoice[d] EXCEPT !.status = s]
<1>2. /\ new \in Invoice /\ new.status = s
      /\ new.provider = invoice[d].provider /\ new.price = invoice[d].price
  BY <1>1 DEF Invoice
<1>3. invoice' = [invoice EXCEPT ![d] = new] /\ invoice'[d] = new
  BY DEF ProviderMoves, TypeOK
<1> HIDE DEF new
<1>4. TypeOK'
  BY <1>2, <1>3 DEF TypeOK, ProviderMoves
<1>5. RowsAgree(d)'
  <2>1. /\ invoice'[d] # None /\ invoice[d] # None /\ invoice[d].provider = "nowpayments"
        /\ UNCHANGED <<deposit, payment, creating, credited>>
        /\ SaidConfirmed(d) => SaidConfirmed(d)'
    BY <1>2, <1>3, NullIsNoValue DEF ProviderMoves, SaidConfirmed
  <2> QED
    BY <1>2, <1>3, <2>1 DEF RowsAgree, Worth
<1>6. ASSUME NEW e \in Ids \ {d} PROVE RowsAgree(e)'
  <2>1. \A t \in Reported : <<e, t>> \in sent' <=> <<e, t>> \in sent
    BY DEF ProviderMoves
  <2> QED
    BY <1>3, <2>1, SameRows DEF TypeOK, ProviderMoves
<1> QED
  BY <1>4, <1>5, <1>6

\* A webhook credits a deposit that was reported as confirmed and not credited before, or
\* changes nothing but the payment's status.
LEMMA WebhookStep ==
  ASSUME IInv, NEW d \in Ids, NEW s \in Reported, Webhook(d, s)
  PROVE  /\ deposit[d] \in DepositRow /\ payment[d] # None /\ invoice[d] # None
         /\ payment' = [payment EXCEPT ![d] = Normalised(s)]
         /\ \/ /\ UNCHANGED <<deposit, credited>>
               /\ Normalised(s) = "confirmed" => deposit[d].status = "confirmed"
            \/ /\ Normalised(s) = "confirmed" /\ SaidConfirmed(d)
               /\ deposit[d].status # "confirmed" /\ credited[d] = 0
               /\ deposit' = [deposit EXCEPT ![d] = [deposit[d] EXCEPT !.status = "confirmed"]]
               /\ credited' = [credited EXCEPT ![d] = 1]
<1> USE DEF IInv
<1>1. deposit[d] # None /\ payment[d] # None /\ invoice[d] # None /\ deposit[d] \in DepositRow
  BY DEF Webhook, RowsAgree, TypeOK
<1>2. payment' = [payment EXCEPT ![d] = Normalised(s)] /\ <<d, s>> \in sent
  BY DEF Webhook
<1>3. CASE Normalised(s) # "confirmed"
  BY <1>1, <1>2, <1>3 DEF Webhook
<1>4. CASE Normalised(s) = "confirmed" /\ deposit[d].status = "confirmed"
  BY <1>1, <1>2, <1>4 DEF Webhook, Confirm
<1>5. CASE Normalised(s) = "confirmed" /\ deposit[d].status # "confirmed"
  <2>1. SaidConfirmed(d)
    BY <1>2, <1>5, NormalisedStatus DEF SaidConfirmed
  <2>2. credited[d] = 0
    BY <1>5 DEF RowsAgree
  <2>3. /\ credited' = [credited EXCEPT ![d] = credited[d] + 1]
        /\ deposit' = [deposit EXCEPT ![d] = [deposit[d] EXCEPT !.status = "confirmed"]]
    BY <1>5 DEF Webhook, Confirm
  <2> QED
    BY <1>1, <1>2, <1>5, <2>1, <2>2, <2>3
<1> QED
  BY <1>3, <1>4, <1>5

LEMMA WebhookKeepsInv ==
  ASSUME IInv, NEW d \in Ids, NEW s \in Reported, Webhook(d, s)
  PROVE  IInv'
<1> USE DEF IInv
<1> DEFINE new == [deposit[d] EXCEPT !.status = "confirmed"]
<1>1. /\ Normalised(s) \in PaymentStatuses
      /\ UNCHANGED <<wallet, creating, invoice, sent, enabled, rate, events>>
  BY NormalisedStatus DEF Webhook
<1>2. /\ deposit[d] \in DepositRow /\ payment[d] # None /\ invoice[d] # None
      /\ payment' = [payment EXCEPT ![d] = Normalised(s)]
  BY WebhookStep
<1>3. new \in DepositRow /\ new.status = "confirmed" /\ new.currency = deposit[d].currency
  BY <1>2 DEF DepositRow
<1> HIDE DEF new
<1>4. \/ /\ UNCHANGED <<deposit, credited>>
         /\ Normalised(s) = "confirmed" => deposit[d].status = "confirmed"
      \/ /\ SaidConfirmed(d)
         /\ credited[d] = 0
         /\ deposit' = [deposit EXCEPT ![d] = new]
         /\ credited' = [credited EXCEPT ![d] = 1]
  BY WebhookStep DEF new
<1>5. TypeOK'
  BY <1>1, <1>2, <1>3, <1>4 DEF TypeOK
<1>6. RowsAgree(d)'
  <2>1. payment'[d] = Normalised(s) /\ payment'[d] # None /\ deposit[d] # None
    BY <1>1, <1>2, NullIsNoValue DEF TypeOK
  <2>2. CASE /\ UNCHANGED <<deposit, credited>>
             /\ Normalised(s) = "confirmed" => deposit[d].status = "confirmed"
    BY <1>1, <2>1, <2>2 DEF RowsAgree, Worth, SaidConfirmed
  <2>3. CASE /\ SaidConfirmed(d)
             /\ deposit' = [deposit EXCEPT ![d] = new]
             /\ credited' = [credited EXCEPT ![d] = 1]
    <3>1. deposit'[d] = new /\ credited'[d] = 1 /\ deposit'[d] # None
      BY <1>3, <2>3, NullIsNoValue DEF TypeOK
    <3> QED
      BY <1>1, <1>3, <2>1, <2>3, <3>1 DEF RowsAgree, Worth, SaidConfirmed
  <2> QED
    BY <1>4, <2>2, <2>3
<1>7. ASSUME NEW e \in Ids \ {d} PROVE RowsAgree(e)'
  BY <1>1, <1>2, <1>4, SameRows DEF TypeOK
<1> QED
  BY <1>5, <1>6, <1>7

\* The task expires what awaits payment, time shortens what is left: both
\* change deposits only, none that is confirmed and none to confirmed.
LEMMA RowsStep ==
  ASSUME IInv, ExpireDeposits \/ Tick
  PROVE  /\ deposit' \in [Ids -> DepositRow \cup {None}]
         /\ UNCHANGED <<wallet, payment, creating, invoice, sent, credited, enabled, rate, events>>
         /\ \A d \in Ids :
              /\ deposit'[d] # None <=> deposit[d] # None
              /\ deposit[d] # None =>
                   /\ deposit'[d].currency = deposit[d].currency
                   /\ deposit'[d].status = "confirmed" <=> deposit[d].status = "confirmed"
<1> USE DEF IInv
<1>1. UNCHANGED <<wallet, payment, creating, invoice, sent, credited, enabled, rate, events>>
  BY DEF ExpireDeposits, Tick
<1>2. ASSUME NEW d \in Ids
      PROVE  /\ deposit'[d] \in DepositRow \cup {None}
             /\ deposit'[d] # None <=> deposit[d] # None
             /\ deposit[d] # None =>
                  /\ deposit'[d].currency = deposit[d].currency
                  /\ deposit'[d].status = "confirmed" <=> deposit[d].status = "confirmed"
  <2>1. CASE deposit'[d] = deposit[d]
    BY <2>1 DEF TypeOK
  <2>2. CASE /\ ExpireDeposits /\ deposit[d] # None
             /\ deposit[d].status = "awaiting_payment"
             /\ deposit'[d] = [deposit[d] EXCEPT !.status = "expired"]
    BY <2>2, NullIsNoValue DEF TypeOK, DepositRow
  <2>3. CASE /\ Tick /\ deposit[d] # None /\ deposit[d].left > 0
             /\ deposit'[d] = [deposit[d] EXCEPT !.left = deposit[d].left - 1]
    BY <2>3, DepositConstants, NullIsNoValue DEF TypeOK, DepositRow
  <2> QED
    BY <2>1, <2>2, <2>3 DEF ExpireDeposits, Tick, Overdue
<1>3. deposit' = [d \in Ids |-> deposit'[d]]
  BY DEF ExpireDeposits, Tick
<1> QED
  BY <1>1, <1>2, <1>3

LEMMA RowsKeepInv ==
  ASSUME IInv, ExpireDeposits \/ Tick
  PROVE  IInv'
<1>1. TypeOK'
  BY RowsStep DEF IInv, TypeOK
<1>2. ASSUME NEW d \in Ids PROVE RowsAgree(d)'
  BY RowsStep DEF IInv, RowsAgree, Worth, SaidConfirmed
<1> QED
  BY <1>1, <1>2 DEF IInv

\* Each step keeps the rows in agreement.
LEMMA NextInv == IInv /\ [Next]_vars => IInv'
<1> SUFFICES ASSUME IInv, [Next]_vars PROVE IInv'
  OBVIOUS
<1>1. CASE UNCHANGED vars
  BY <1>1 DEF vars, IInv, TypeOK, RowsAgree, Worth, SaidConfirmed
<1>2. ASSUME NEW d \in Ids,
             (\E p \in Providers, c \in Currencies : Begin(d, p, c)) \/ CreatePayment(d) \/ Commit(d) \/ Abort(d)
      PROVE  IInv'
  BY <1>2, CreationKeepsInv
<1>3. ASSUME NEW d \in Ids, NEW s \in Reported, ProviderMoves(d, s) PROVE IInv'
  BY <1>3, ProviderKeepsInv
<1>4. ASSUME NEW d \in Ids, NEW s \in Reported, Webhook(d, s) PROVE IInv'
  BY <1>4, WebhookKeepsInv
<1>5. CASE ExpireDeposits \/ Tick
  BY <1>5, RowsKeepInv
<1>6. CASE Administer
  <2>0. enabled' \in BOOLEAN
    BY <1>6 DEF Administer, IInv, TypeOK
  <2>1. TypeOK'
    BY <1>6, <2>0, DepositConstants DEF Administer, IInv, TypeOK
  <2>2. ASSUME NEW d \in Ids PROVE RowsAgree(d)'
    BY <1>6, SameRows DEF Administer, IInv
  <2> QED
    BY <2>1, <2>2 DEF IInv
<1> QED
  BY <1>1, <1>2, <1>3, <1>4, <1>5, <1>6 DEF Next

LEMMA Invariant == Spec => []IInv
BY InitInv, NextInv, PTL DEF Spec

-----------------------------------------------------------------------------
(* Theorems                                                                *)

\* Deposits, payments, invoices and the ledger agree at every moment: what is
\* confirmed is credited, what is expired is not, and invoices ask for what
\* the deposit is worth.
THEOREM BooksAlwaysAgree == Spec => []BooksAgree
<1>1. IInv => BooksAgree
  <2> SUFFICES ASSUME IInv PROVE BooksAgree
    OBVIOUS
  <2>1. TypeOK
    BY DEF IInv
  <2>2. ConfirmedMeansCredited
    <3> SUFFICES ASSUME NEW d \in Ids
                 PROVE  HasStatus(d, {"confirmed"}) <=> credited[d] > 0
      BY DEF ConfirmedMeansCredited
    <3>1. credited[d] = IF deposit[d] # None /\ deposit[d].status = "confirmed" THEN 1 ELSE 0
      BY DEF IInv, RowsAgree
    <3> QED
      BY <3>1 DEF HasStatus
  <2>3. ConfirmedPaymentCredited
    BY DEF IInv, RowsAgree, ConfirmedPaymentCredited
  <2>4. InvoiceWorthDeposit
    BY DEF IInv, RowsAgree, Worth, InvoiceWorthDeposit
  <2> QED
    BY <2>1, <2>2, <2>3, <2>4 DEF BooksAgree
<1> QED
  BY <1>1, Invariant, PTL

\* Only what the provider reported as confirmed or finished is ever credited.
THEOREM OnlyConfirmedIsCredited == Spec => []CreditedWasConfirmed
<1>1. IInv => CreditedWasConfirmed
  <2> SUFFICES ASSUME IInv, NEW d \in Ids, credited[d] > 0
               PROVE  invoice[d].provider = "nowpayments" /\ SaidConfirmed(d)
    BY DEF CreditedWasConfirmed, SaidConfirmed
  <2>1. SaidConfirmed(d)
    BY DEF IInv, RowsAgree
  <2> QED
    BY <2>1, ReportedStatuses DEF IInv, RowsAgree, SaidConfirmed
<1> QED
  BY <1>1, Invariant, PTL

\* However often, late and out of order a payment is reported, its deposit is
\* credited once at most and for good: Deposits implements PayOnce.
THEOREM CreditedOnce == Spec => ImplementsPayOnce
<1>1. Init => Payments!Init
  BY DEF Init, Payments!Init
<1>2. IInv /\ [Next]_vars => [Payments!Next]_credited
  <2> SUFFICES ASSUME IInv, [Next]_vars, credited' # credited PROVE Payments!Next
    OBVIOUS
  <2>1. PICK d \in Ids, s \in Reported : Webhook(d, s)
    BY DEF Next, vars, Begin, CreatePayment, Commit, Abort, ProviderMoves, ExpireDeposits,
           Tick, Administer
  <2>2. credited[d] = 0 /\ credited' = [credited EXCEPT ![d] = 1]
    BY <2>1, WebhookStep
  <2> QED
    BY <2>2 DEF Payments!Next, Payments!Credit
<1> QED
  BY <1>1, <1>2, Invariant, PTL DEF Spec, ImplementsPayOnce, Payments!Spec
=============================================================================
