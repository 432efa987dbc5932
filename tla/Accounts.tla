------------------------------ MODULE Accounts ------------------------------
(***************************************************************************)
(* Registration, wallets and referrals: apps/accounts (forms, serializers, *)
(* services, models), get_wallet and ensure_accounts of apps/wallets, and  *)
(* apps/referrals.                                                         *)
(*                                                                         *)
(* A registration checks that the email is free, then one transaction      *)
(* inserts the user, the wallet with its accounts and the referral.  Users *)
(* made in other ways get their wallet from the first request that needs   *)
(* it, possibly several at once.  Unique columns arbitrate: an insert      *)
(* waits for an uncommitted row with its value and fails when that commits.*)
(***************************************************************************)
EXTENDS Naturals, Sequences, FiniteSets

CONSTANTS
  Emails,
  Codes,         \* referral codes the generator may draw
  Items,         \* what get_wallet inserts, in order: the wallet, its accounts
  Requests,
  MaxRequests,   \* bound: requests served
  None

AllItems == {Items[i] : i \in DOMAIN Items}

VARIABLES
  users,         \* the referral code of each registered email, or None
  wallet,        \* the wallet rows of each user
  referral,      \* Referral of each referred user: [referrer, status], or None
  conversions,   \* ReferralConversion rows of each referral that was qualified
  request,       \* each request with what its transaction has inserted
  served

vars == <<users, wallet, referral, conversions, request, served>>

Idle == [at |-> "idle", email |-> None, given |-> None, code |-> None,
         item |-> 1, new |-> {}, referral |-> None]

Init ==
  /\ users = [e \in Emails |-> None]
  /\ wallet = [e \in Emails |-> {}]
  /\ referral = [e \in Emails |-> None]
  /\ conversions = [e \in Emails |-> 0]
  /\ request = [r \in Requests |-> Idle]
  /\ served = 0

Serve == served < MaxRequests /\ served' = served + 1

Goes(r, q) ==
  /\ request' = [request EXCEPT ![r] = q]
  /\ UNCHANGED <<users, wallet, referral, conversions, served>>

\* clean_email, before the transaction: the email is not taken.
Validate(r, e, given) ==
  /\ request[r].at = "idle" /\ users[e] = None /\ Serve
  /\ request' = [request EXCEPT ![r] =
                   [Idle EXCEPT !.at = "creates", !.email = e, !.given = given]]
  /\ UNCHANGED <<users, wallet, referral, conversions>>

\* Rows that other transactions have inserted and not committed.
Inserting(rs, field, value) ==
  \E r \in rs : request[r].at # "creates" /\ request[r][field] = value

CodesInUse == {users[e] : e \in Emails} \ {None}

\* The user row: its email and its generated code are unique.
CreateUser(r) ==
  LET q == request[r] IN
    /\ q.at = "creates"
    /\ \/ /\ users[q.email] # None
          /\ Goes(r, Idle)
       \/ /\ users[q.email] = None /\ ~Inserting(Requests \ {r}, "email", q.email)
          /\ \E c \in Codes \ CodesInUse :
               /\ ~Inserting(Requests \ {r}, "code", c)
               /\ Goes(r, [q EXCEPT !.at = "wallet", !.code = c])

\* A user who has no wallet yet opens a page that needs one.
NeedWallet(r, e) ==
  /\ request[r].at = "idle" /\ users[e] # None /\ wallet[e] = {} /\ Serve
  /\ request' = [request EXCEPT ![r] = [Idle EXCEPT !.at = "wallet", !.email = e]]
  /\ UNCHANGED <<users, wallet, referral, conversions>>

\* Faulty variant: get_wallet without a transaction.
EnsureItemUnwrapped(r) ==
  /\ request[r].at = "wallet" /\ request[r].item <= Len(Items)
  /\ request' = [request EXCEPT ![r].item = @ + 1]
  /\ wallet' = [wallet EXCEPT ![request[r].email] = @ \union {Items[request[r].item]}]
  /\ UNCHANGED <<users, referral, conversions, served>>

\* get_or_create: the row is there, another transaction is inserting it, or
\* this one inserts it.
EnsureItem(r) ==
  LET q == request[r]
      i == Items[q.item]
  IN /\ q.at = "wallet" /\ q.item <= Len(Items)
     /\ \A x \in Requests \ {r} : request[x].email = q.email => i \notin request[x].new
     /\ Goes(r, [q EXCEPT !.item = @ + 1,
                          !.new = IF i \in wallet[q.email] THEN @ ELSE @ \union {i}])

\* The codes the transaction sees: committed ones and its own.
Code(q, e) == IF e = q.email THEN q.code ELSE users[e]

\* The owner of the code given, unless it is the new user.
Referrer(q) == {e \in Emails \ {q.email} : q.given # None /\ Code(q, e) = q.given}

AttachReferral(r) ==
  LET q == request[r] IN
    /\ q.at = "wallet" /\ q.item > Len(Items)
    /\ Goes(r, [q EXCEPT !.at = "commits",
         !.referral = IF Referrer(q) = {} THEN None
                      ELSE [referrer |-> CHOOSE e \in Referrer(q) : TRUE,
                            status |-> "registered"]])

Commit(r) ==
  LET q == request[r] IN
    /\ q.at = "commits"
    /\ users' = [users EXCEPT ![q.email] = IF q.code = None THEN @ ELSE q.code]
    /\ wallet' = [wallet EXCEPT ![q.email] = @ \union q.new]
    /\ referral' = [referral EXCEPT ![q.email] = IF q.referral = None THEN @ ELSE q.referral]
    /\ request' = [request EXCEPT ![r] = Idle]
    /\ UNCHANGED <<conversions, served>>

RollBack(r) == request[r].at # "idle" /\ Goes(r, Idle)

\* createsuperuser, and the platform's own user: no wallet.
CreateWithoutWallet(e) ==
  /\ users[e] = None /\ Serve
  /\ ~Inserting(Requests, "email", e)
  /\ \E c \in Codes \ CodesInUse :
       /\ ~Inserting(Requests, "code", c)
       /\ users' = [users EXCEPT ![e] = c]
  /\ UNCHANGED <<wallet, referral, conversions, request>>

\* record_conversion: award returns a pair, which the reward column refuses,
\* so a conversion that earns something is rolled back with its award.
RecordConversion(e, earns) ==
  /\ referral[e] # None /\ Serve
  /\ IF earns THEN UNCHANGED <<referral, conversions>>
     ELSE /\ conversions' = [conversions EXCEPT ![e] = @ + 1]
          /\ referral' = [referral EXCEPT ![e].status = "qualified"]
  /\ UNCHANGED <<users, wallet, request>>

Next ==
  \/ \E r \in Requests : \/ \E e \in Emails, given \in Codes \union {None} : Validate(r, e, given)
                         \/ \E e \in Emails : NeedWallet(r, e)
                         \/ CreateUser(r) \/ EnsureItem(r) \/ AttachReferral(r)
                         \/ Commit(r) \/ RollBack(r)
  \/ \E e \in Emails : CreateWithoutWallet(e) \/ \E b \in BOOLEAN : RecordConversion(e, b)

Spec == Init /\ [][Next]_vars

(***************************************************************************)
(* Properties.                                                             *)
(***************************************************************************)
TypeOK ==
  /\ users \in [Emails -> Codes \union {None}]
  /\ wallet \in [Emails -> SUBSET AllItems]
  /\ referral \in [Emails -> {None} \union
                     [referrer : Emails, status : {"registered", "qualified"}]]
  /\ conversions \in [Emails -> 0..MaxRequests]
  /\ \A r \in Requests : request[r].at \in {"idle", "creates", "wallet", "commits"}

\* A wallet is there with every default account or not at all, though several
\* requests provision it at once and any of them may be rolled back
\* (get_wallet is atomic, get_or_create waits for the rival's row).
WalletsComplete == \A e \in Emails : wallet[e] \in {{}, AllItems}

\* A code names one user: generate_referral_code looks for committed users
\* only, the unique column decides between two registrations.
CodesUnique ==
  \A d, e \in Emails : (d # e /\ users[d] # None) => users[d] # users[e]

\* Nobody is referred by themselves or by somebody they brought in, at any
\* remove: the referrer is registered before the referred user is.  Every group
\* of users has a member whom no member referred.
NoReferralCycle ==
  \A group \in (SUBSET Emails) \ {{}} :
    \E e \in group : referral[e] = None \/ referral[e].referrer \notin group

\* What registration keeps true, part by part above.
AccountsSound == TypeOK /\ WalletsComplete /\ CodesUnique /\ NoReferralCycle
=============================================================================
