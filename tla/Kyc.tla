--------------------------------- MODULE Kyc ---------------------------------
(***************************************************************************)
(* Identity verification of one user: apps/kyc (models, services, views)   *)
(* and AdminKYCActionView.  The row is read, changed in memory and saved   *)
(* whole, with no lock and, in a review, no check of its status; the pages *)
(* of the user and of the reviewers interleave between the read and the    *)
(* save.                                                                   *)
(***************************************************************************)
EXTENDS Naturals

CONSTANTS
  Tabs,            \* the user's pages
  Reviewers,
  MaxSubmissions,  \* bound
  MaxReviews,      \* bound
  None

Statuses == {"under_review", "approved", "rejected"}

\* A row: which submission its fields and its document come from.
VARIABLES
  kyc,             \* the committed row, or None
  tab,             \* the row a submission has in memory, and its number
  review,          \* and a review, with the decision
  submissions, reviews

vars == <<kyc, tab, review, submissions, reviews>>

NoRow == [status |-> "not_started", fields |-> 0, document |-> 0, level |-> "none"]

Init ==
  /\ kyc = None
  /\ tab = [t \in Tabs |-> None]
  /\ review = [r \in Reviewers |-> None]
  /\ submissions = 0
  /\ reviews = 0

\* get_or_create: a second creation waits for the first one's unique user.
Loaded == IF kyc = None THEN NoRow ELSE kyc

\* Faulty variant: a verified user may submit again.
MaySubmitUnlessPending(row) == row.status # "under_review"

MaySubmit(row) == row.status \notin {"approved", "under_review"}

SubmitReads(t) ==
  /\ tab[t] = None /\ submissions < MaxSubmissions
  /\ kyc = None => \A x \in Tabs : tab[x] = None
  /\ MaySubmit(Loaded)
  /\ tab' = [tab EXCEPT ![t] = [row |-> Loaded, n |-> submissions + 1]]
  /\ submissions' = submissions + 1
  /\ UNCHANGED <<kyc, review, reviews>>

\* A submission without a document keeps the one on file, and its level.
Filled(row, n, withDocument) ==
  LET document == IF withDocument THEN n ELSE row.document
  IN [status |-> "under_review", fields |-> n, document |-> document,
      level |-> IF document # 0 THEN "full" ELSE "basic"]

SubmitSaves(t, withDocument) ==
  /\ tab[t] # None
  /\ kyc' = Filled(tab[t].row, tab[t].n, withDocument)
  /\ tab' = [tab EXCEPT ![t] = None]
  /\ UNCHANGED <<review, submissions, reviews>>

ReviewReads(r, decision) ==
  /\ review[r] = None /\ kyc # None /\ reviews < MaxReviews
  /\ review' = [review EXCEPT ![r] = [row |-> kyc, decision |-> decision]]
  /\ reviews' = reviews + 1
  /\ UNCHANGED <<kyc, tab, submissions>>

\* approve_verification, reject_verification: every column of the row read.
ReviewSaves(r) ==
  /\ review[r] # None
  /\ kyc' = [review[r].row EXCEPT !.status = review[r].decision]
  /\ review' = [review EXCEPT ![r] = None]
  /\ UNCHANGED <<tab, submissions, reviews>>

Next ==
  \/ \E t \in Tabs : SubmitReads(t) \/ \E d \in BOOLEAN : SubmitSaves(t, d)
  \/ \E r \in Reviewers : \/ \E d \in {"approved", "rejected"} : ReviewReads(r, d)
                          \/ ReviewSaves(r)

Spec == Init /\ [][Next]_vars

(***************************************************************************)
(* Properties.                                                             *)
(***************************************************************************)
Rows == [status : Statuses, fields : 1..MaxSubmissions, document : 0..MaxSubmissions,
         level : {"basic", "full"}]

\* Also says that no reviewer ever meets the empty row of a submission that
\* has not committed: fields is a submission's.
TypeOK ==
  /\ kyc \in {None} \union Rows
  /\ tab \in [Tabs -> {None} \union [row : {NoRow} \union Rows, n : 1..MaxSubmissions]]
  /\ review \in [Reviewers -> {None} \union [row : Rows, decision : {"approved", "rejected"}]]

\* The level says whether a document is on file, whichever submissions and
\* reviews overwrote one another.
LevelMatchesDocument == kyc # None => (kyc.level = "full" <=> kyc.document # 0)

\* What the row keeps true.
KycSound == TypeOK /\ LevelMatchesDocument

\* A verified user, the one whom withdrawals let through, stops being verified
\* only when a reviewer rejects, or when a form checked before the approval
\* is saved after it (submit_verification holds no lock).
VerifiedIsUndoneByReview ==
  [][(kyc # None /\ kyc.status = "approved" /\ kyc'.status # "approved")
       => \/ \E r \in Reviewers : review[r] # None /\ review[r].decision = "rejected"
          \/ \E t \in Tabs : /\ tab[t] # None /\ tab'[t] = None
                             /\ tab[t].row.status \in {"not_started", "rejected"}]_vars
=============================================================================
