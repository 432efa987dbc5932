---------------------------- MODULE MembersProofs ----------------------------
(***************************************************************************)
(* Theorems about the members of the platform, for any users, pages,       *)
(* processes, rules and bounds: each part is proved on its own, and a      *)
(* behaviour of Members is a behaviour of every part.                      *)
(***************************************************************************)
EXTENDS Members, SumTheorems, SequenceTheorems

-----------------------------------------------------------------------------
(* Kyc                                                                     *)

\* A row whose level says whether a document is on file.
Level(row) == row.level = "full" <=> row.document # 0

\* LevelMatchesDocument is not inductive: a review writes back a row it read,
\* so the rows in reviewers' hands must agree as well; and a submission in
\* progress was allowed by the status it read.
KycInv ==
  /\ K!TypeOK
  /\ submissions \in Nat
  /\ K!LevelMatchesDocument
  /\ \A r \in Reviewers : review[r] # None => Level(review[r].row)
  /\ \A t \in Tabs : tab[t] # None => K!MaySubmit(tab[t].row)

LEMMA KycInit == K!Init => KycInv
BY DEF K!Init, KycInv, K!TypeOK, K!LevelMatchesDocument

\* What a submission saves is a row under review, whatever it read.
LEMMA FilledRow ==
  ASSUME NEW row \in {K!NoRow} \union K!Rows, NEW n \in 1..MaxSubmissions,
         NEW d \in BOOLEAN
  PROVE  /\ K!Filled(row, n, d) \in K!Rows
         /\ K!Filled(row, n, d).status = "under_review"
         /\ Level(K!Filled(row, n, d))
<1>1. row.document \in 0..MaxSubmissions
  BY KycConstants DEF K!NoRow, K!Rows
<1> DEFINE document == IF d THEN n ELSE row.document
<1>2. document \in 0..MaxSubmissions
  BY <1>1
<1>3. K!Filled(row, n, d) = [status |-> "under_review", fields |-> n, document |-> document,
                           level |-> IF document # 0 THEN "full" ELSE "basic"]
  BY DEF K!Filled
<1> HIDE DEF document
<1> QED
  BY <1>2, <1>3, KycConstants DEF K!Rows, K!Statuses, Level

LEMMA SubmissionKeepsKyc ==
  ASSUME KycInv, NEW t \in Tabs,
         K!SubmitReads(t) \/ \E d \in BOOLEAN : K!SubmitSaves(t, d)
  PROVE  KycInv'
<1> USE DEF KycInv
<1>1. CASE K!SubmitReads(t)
  <2> DEFINE held == [row |-> K!Loaded, n |-> submissions + 1]
  <2>1. /\ K!Loaded \in {K!NoRow} \union K!Rows /\ K!MaySubmit(K!Loaded)
        /\ submissions + 1 \in 1..MaxSubmissions
        /\ tab' = [tab EXCEPT ![t] = held]
        /\ UNCHANGED <<kyc, review>> /\ submissions' \in Nat
    BY <1>1, KycConstants DEF K!SubmitReads, K!Loaded, K!TypeOK
  <2>2. held \in [row : {K!NoRow} \union K!Rows, n : 1..MaxSubmissions] /\ held.row = K!Loaded
    BY <2>1
  <2> HIDE DEF held
  <2>3. K!TypeOK'
    BY <2>1, <2>2 DEF K!TypeOK
  <2>4. \A x \in Tabs : tab'[x] # None => K!MaySubmit(tab'[x].row)
    BY <2>1, <2>2 DEF K!TypeOK
  <2> QED
    BY <2>1, <2>3, <2>4 DEF K!LevelMatchesDocument, Level, K!MaySubmit
<1>2. ASSUME NEW d \in BOOLEAN, K!SubmitSaves(t, d) PROVE KycInv'
  <2>1. tab[t].row \in {K!NoRow} \union K!Rows /\ tab[t].n \in 1..MaxSubmissions
    BY <1>2 DEF K!SubmitSaves, K!TypeOK
  <2>2. kyc' \in K!Rows /\ Level(kyc')
    BY <1>2, <2>1, FilledRow DEF K!SubmitSaves
  <2>3. tab' = [tab EXCEPT ![t] = None] /\ UNCHANGED <<review, submissions>>
    BY <1>2 DEF K!SubmitSaves
  <2> QED
    BY <2>2, <2>3 DEF K!TypeOK, K!LevelMatchesDocument, Level, K!MaySubmit
<1> QED
  BY <1>1, <1>2

LEMMA ReviewKeepsKyc ==
  ASSUME KycInv, NEW r \in Reviewers,
         K!ReviewSaves(r) \/ \E d \in {"approved", "rejected"} : K!ReviewReads(r, d)
  PROVE  KycInv'
<1> USE DEF KycInv
<1>1. ASSUME NEW d \in {"approved", "rejected"}, K!ReviewReads(r, d) PROVE KycInv'
  <2> DEFINE held == [row |-> kyc, decision |-> d]
  <2>1. /\ kyc \in K!Rows /\ Level(kyc)
        /\ review' = [review EXCEPT ![r] = held]
        /\ UNCHANGED <<kyc, tab, submissions>>
    BY <1>1 DEF K!ReviewReads, K!TypeOK, K!LevelMatchesDocument, Level
  <2>2. held \in [row : K!Rows, decision : {"approved", "rejected"}] /\ held.row = kyc
    BY <2>1
  <2> HIDE DEF held
  <2> QED
    BY <2>1, <2>2 DEF K!TypeOK, K!LevelMatchesDocument, Level, K!MaySubmit
<1>2. CASE K!ReviewSaves(r)
  <2>1. /\ review[r].row \in K!Rows /\ review[r].decision \in K!Statuses
        /\ Level(review[r].row)
    BY <1>2 DEF K!ReviewSaves, K!TypeOK, K!Statuses
  <2>2. /\ kyc' = [review[r].row EXCEPT !.status = review[r].decision]
        /\ review' = [review EXCEPT ![r] = None] /\ UNCHANGED <<tab, submissions>>
    BY <1>2 DEF K!ReviewSaves
  <2>3. kyc' \in K!Rows /\ Level(kyc')
    BY <2>1, <2>2 DEF K!Rows, Level
  <2> QED
    BY <2>2, <2>3 DEF K!TypeOK, K!LevelMatchesDocument, Level, K!MaySubmit
<1> QED
  BY <1>1, <1>2

LEMMA KycNext == KycInv /\ [K!Next]_(K!vars) => KycInv'
<1> SUFFICES ASSUME KycInv, [K!Next]_(K!vars) PROVE KycInv'
  OBVIOUS
<1>1. CASE UNCHANGED K!vars
  BY <1>1 DEF K!vars, KycInv, K!TypeOK, K!LevelMatchesDocument, Level, K!MaySubmit
<1>2. CASE K!Next
  BY <1>2, SubmissionKeepsKyc, ReviewKeepsKyc DEF K!Next
<1> QED
  BY <1>1, <1>2

LEMMA KycInvariant == K!Spec => []KycInv
BY KycInit, KycNext, PTL DEF K!Spec

\* Whichever submissions and reviews overwrite one another, the row is well
\* formed and its level says whether a document is on file.
THEOREM KycRowIsSound == K!Spec => []K!KycSound
<1>1. KycInv => K!KycSound
  BY DEF KycInv, K!KycSound
<1> QED
  BY <1>1, KycInvariant, PTL

\* A verified user stops being verified only by a reviewer's rejection or by a
\* form that was checked before the approval.
THEOREM KycVerifiedStays == K!Spec => K!VerifiedIsUndoneByReview
<1> DEFINE Undone ==
      (kyc # None /\ kyc.status = "approved" /\ kyc'.status # "approved")
       => \/ \E r \in Reviewers : review[r] # None /\ review[r].decision = "rejected"
          \/ \E t \in Tabs : /\ tab[t] # None /\ tab'[t] = None
                             /\ tab[t].row.status \in {"not_started", "rejected"}
<1>1. KycInv /\ [K!Next]_(K!vars) => [Undone]_(K!vars)
  <2> SUFFICES ASSUME KycInv, K!Next, kyc.status = "approved", kyc'.status # "approved"
               PROVE  \/ \E r \in Reviewers : review[r] # None /\ review[r].decision = "rejected"
                      \/ \E t \in Tabs : /\ tab[t] # None /\ tab'[t] = None
                                         /\ tab[t].row.status \in {"not_started", "rejected"}
    BY DEF K!vars
  <2>1. ASSUME NEW t \in Tabs, NEW d \in BOOLEAN, K!SubmitSaves(t, d)
        PROVE  /\ tab[t] # None /\ tab'[t] = None
               /\ tab[t].row.status \in {"not_started", "rejected"}
    <3>1. tab[t] # None /\ tab' = [tab EXCEPT ![t] = None]
      BY <2>1 DEF K!SubmitSaves
    <3>2. tab[t].row \in {K!NoRow} \union K!Rows /\ K!MaySubmit(tab[t].row)
      BY <3>1 DEF KycInv, K!TypeOK
    <3>3. tab[t].row.status \in {"not_started", "rejected"}
      BY <3>2 DEF K!NoRow, K!Rows, K!Statuses, K!MaySubmit
    <3> QED
      BY <3>1, <3>3 DEF KycInv, K!TypeOK
  <2>2. ASSUME NEW r \in Reviewers, K!ReviewSaves(r)
        PROVE  review[r] # None /\ review[r].decision = "rejected"
    <3>1. review[r] # None /\ kyc' = [review[r].row EXCEPT !.status = review[r].decision]
      BY <2>2 DEF K!ReviewSaves
    <3>2. review[r].row \in K!Rows /\ review[r].decision \in {"approved", "rejected"}
      BY <3>1 DEF KycInv, K!TypeOK
    <3>3. kyc'.status = review[r].decision
      BY <3>1, <3>2 DEF K!Rows
    <3> QED
      BY <3>1, <3>2, <3>3
  <2>3. ASSUME NEW t \in Tabs, K!SubmitReads(t) PROVE FALSE
    BY <2>3 DEF K!SubmitReads
  <2>4. ASSUME NEW r \in Reviewers, NEW d \in {"approved", "rejected"}, K!ReviewReads(r, d)
        PROVE  FALSE
    BY <2>4 DEF K!ReviewReads
  <2> QED
    BY <2>1, <2>2, <2>3, <2>4 DEF K!Next
<1> QED
  BY <1>1, KycInvariant, PTL DEF K!Spec, K!VerifiedIsUndoneByReview

-----------------------------------------------------------------------------
(* Games                                                                   *)

\* Games counts as this module does.
LEMMA SameCount == \A S : G!Cardinality(S) = Cardinality(S)
  BY DEF G!Cardinality, Cardinality

\* A nonempty set of numbers has a least one.
LEMMA LeastIsOne ==
  ASSUME NEW S \in SUBSET Nat, S # {}
  PROVE  G!Min(S) \in S
<1> DEFINE below == OpToRel(<, Nat)
<1> HIDE DEF below
<1>1. IsWellFoundedOn(below, Nat)
  BY NatLessThanWellFounded DEF below
<1>2. PICK x \in S : \A y \in S : ~ (<<y, x>> \in below)
  BY <1>1, WFMin
<1>3. \A y \in S : ~ (y < x)
  BY <1>2 DEF OpToRel, below
<1>4. \A y \in S : x =< y
  BY <1>3
<1> QED
  BY <1>4 DEF G!Min

\* The rule that is applied is one of the rules and its conditions match.
LEMMA AwardedRule ==
  ASSUME NEW s, NEW duration, NEW scored
  PROVE  /\ G!Awarded(s, duration, scored) \in (1..Len(GameRules)) \cup {None}
         /\ G!Awarded(s, duration, scored) # None =>
              /\ G!ConditionsMatch(GameRules[G!Awarded(s, duration, scored)], duration, scored)
              /\ G!RuleAvailable(GameRules[G!Awarded(s, duration, scored)], s)
<1> DEFINE I == {i \in 1..Len(GameRules) : /\ G!ConditionsMatch(GameRules[i], duration, scored)
                                       /\ G!RuleAvailable(GameRules[i], s)}
           first == IF I # {} THEN G!Min(I) ELSE 0
<1>1. G!Awarded(s, duration, scored) = IF first = 0 THEN None ELSE first
  BY DEF G!Awarded, G!SelectInSeq
<1>2. I # {} => G!Min(I) \in I
  <2>1. Len(GameRules) \in Nat
    BY GamesConstants
  <2>2. I \in SUBSET Nat
    BY <2>1
  <2> HIDE DEF I
  <2> QED
    BY <2>2, LeastIsOne
<1> HIDE DEF I
<1>3. first # 0 => first \in I
  BY <1>2
<1>4. I \subseteq 1..Len(GameRules)
      /\ \A i \in I : /\ G!ConditionsMatch(GameRules[i], duration, scored)
                      /\ G!RuleAvailable(GameRules[i], s)
  BY DEF I
<1> HIDE DEF first
<1> QED
  BY <1>1, <1>3, <1>4

-----------------------------------------------------------------------------
(* The inductive invariant                                                 *)

Earned(row) ==
  row.award # None =>
    LET d == row.ended - row.started
    IN  d >= MinDuration /\ G!ConditionsMatch(GameRules[row.award], d, row.score)

Ending(q) == q.kind = "end" /\ q.at = "read"

\* Rows are numbered from one, so that an insert never hits an existing row.
RowsFirst == \E n \in 0..MaxSessions : G!Rows = 1..n

\* Whatever a session token names is there.
TokensKnown == \A c \in Clients : token[c] # None => token[c] \in G!Rows

\* What a request has read still holds when it writes: the row it closes is
\* active, and nobody else is closing it.
CallsKnown ==
  \A q \in calls :
    /\ q.session # None => q.session \in G!Rows
    /\ q.kind = "end" => q.session # None
    /\ Ending(q) => /\ session[q.session].status = "active"
                    /\ q.result \in G!SessionRow /\ Earned(q.result)

\* All sessions are of one user, whose row an end holds until it commits.
OneEnding == \A p, q \in calls : Ending(p) /\ Ending(q) => p = q

GamesInv ==
  /\ G!TypeOK
  /\ RowsFirst
  /\ TokensKnown
  /\ CallsKnown
  /\ OneEnding
  /\ \A s \in G!Rows : Earned(session[s])

LEMMA GamesInit == G!Init => GamesInv
<1> SUFFICES ASSUME G!Init PROVE GamesInv
  OBVIOUS
<1>1. G!Rows = 1..0
  BY DEF G!Init, G!Rows
<1>2. RowsFirst /\ \A s \in G!Rows : Earned(session[s])
  <2>1. 0 \in 0..MaxSessions /\ 1..0 = {}
    BY GamesConstants
  <2> QED
    BY <1>1, <2>1 DEF RowsFirst
<1>3. G!TypeOK
  BY GamesConstants DEF G!Init, G!TypeOK, G!Times
<1> QED
  BY <1>2, <1>3 DEF G!Init, GamesInv, TokensKnown, CallsKnown, OneEnding

\* A step that writes no row, gives no token but a known one, and only takes
\* requests away or adds some that are not closing anything.
LEMMA QuietStep ==
  ASSUME GamesInv, G!TypeOK', UNCHANGED session,
         \A c \in Clients : token'[c] # None => token'[c] \in G!Rows,
         \A q \in calls' : \/ q \in calls
                           \/ /\ ~Ending(q)
                              /\ q.session # None => q.session \in G!Rows
                              /\ q.kind = "end" => q.session # None
  PROVE  GamesInv'
<1>1. G!Rows' = G!Rows
  BY DEF G!Rows
<1>2. RowsFirst' /\ TokensKnown' /\ (\A s \in G!Rows : Earned(session[s]))'
  BY <1>1 DEF GamesInv, RowsFirst, TokensKnown, Earned
<1>3. CallsKnown'
  BY <1>1 DEF GamesInv, CallsKnown, Ending, Earned
<1>4. OneEnding'
  BY DEF GamesInv, OneEnding, Ending
<1> QED
  BY <1>2, <1>3, <1>4 DEF GamesInv

-----------------------------------------------------------------------------
(* The steps                                                               *)

\* The game and its host, and what does not come to a write.
LEMMA QuietActions ==
  ASSUME GamesInv,
         \/ \E c \in Clients : G!StartGame(c) \/ \E scored \in Scores : G!FinishGame(c, scored)
         \/ \E q \in calls : G!HostReceives(q) \/ G!Lost(q) \/ G!StartReads(q) \/ G!StartRefused(q)
         \/ G!Tick
  PROVE  GamesInv'
<1> USE DEF GamesInv
<1>1. ASSUME NEW c \in Clients, G!StartGame(c) PROVE GamesInv'
  <2> DEFINE new == G!Request(c, round'[c], "start", None, None)
  <2>1. /\ round' = [round EXCEPT ![c] = round[c] + 1] /\ running' = running \cup {c}
        /\ calls' = calls \cup {new}
        /\ UNCHANGED <<session, connected, token, clock, events>>
    BY <1>1 DEF G!StartGame
  <2>2. new \in G!Call /\ ~Ending(new) /\ new.session = None /\ new.kind # "end"
    BY <2>1 DEF G!Request, G!Call, Ending, G!TypeOK
  <2> HIDE DEF new
  <2>3. G!TypeOK'
    BY <2>1, <2>2 DEF G!TypeOK
  <2> QED
    BY <2>1, <2>2, <2>3, QuietStep DEF TokensKnown
<1>2. ASSUME NEW c \in Clients, NEW scored \in Scores, G!FinishGame(c, scored) PROVE GamesInv'
  <2> DEFINE new == G!Request(c, round[c], "end", token[c], scored)
  <2>1. /\ running' = running \ {c}
        /\ calls' = calls \/ (calls' = calls \cup {new} /\ token[c] # None)
        /\ UNCHANGED <<session, round, connected, token, clock, events>>
    BY <1>2 DEF G!FinishGame
  <2>2. /\ new \in G!Call /\ ~Ending(new) /\ new.session = token[c]
        /\ token[c] # None => token[c] \in G!Rows
    BY DEF G!Request, G!Call, Ending, G!TypeOK, TokensKnown
  <2> HIDE DEF new
  <2>3. G!TypeOK'
    BY <2>1, <2>2 DEF G!TypeOK
  <2> QED
    BY <2>1, <2>2, <2>3, QuietStep DEF TokensKnown
<1>3. ASSUME NEW q \in calls, G!HostReceives(q) PROVE GamesInv'
  <2>1. q \in G!Call /\ (q.session # None => q.session \in G!Rows)
    BY DEF G!TypeOK, CallsKnown
  <2>2. /\ calls' = calls \ {q} /\ UNCHANGED <<session, round, running, clock, events>>
        /\ \/ q.session # None /\ token' = [token EXCEPT ![q.client] = q.session]
              /\ UNCHANGED connected
           \/ connected' = connected \ {q.client} /\ UNCHANGED token
    BY <1>3 DEF G!HostReceives
  <2>3. G!TypeOK'
    BY <2>1, <2>2 DEF G!TypeOK, G!Call
  <2>4. \A c \in Clients : token'[c] # None => token'[c] \in G!Rows
    BY <2>1, <2>2 DEF G!TypeOK, TokensKnown
  <2> QED
    BY <2>2, <2>3, <2>4, QuietStep
<1>4. ASSUME NEW q \in calls, G!Lost(q) PROVE GamesInv'
  <2>1. /\ calls' = calls \ {q} /\ events < MaxEvents /\ events' = events + 1
        /\ connected' \subseteq connected
        /\ UNCHANGED <<session, round, running, token, clock>>
    BY <1>4 DEF G!Lost
  <2>2. G!TypeOK'
    BY <2>1, GamesConstants DEF G!TypeOK
  <2> QED
    BY <2>1, <2>2, QuietStep DEF TokensKnown
<1>5. ASSUME NEW q \in calls, G!StartReads(q) \/ G!StartRefused(q) PROVE GamesInv'
  <2>1. PICK at \in {"read", "answered"} :
          /\ calls' = (calls \ {q}) \cup {[q EXCEPT !.at = at]} /\ q.kind = "start"
          /\ UNCHANGED <<session, round, running, connected, token, clock>>
          /\ events' = events \/ (events < MaxEvents /\ events' = events + 1)
    BY <1>5 DEF G!StartReads, G!StartRefused, G!Moved
  <2> DEFINE new == [q EXCEPT !.at = at]
  <2>2. q \in G!Call /\ (q.session # None => q.session \in G!Rows)
    BY DEF G!TypeOK, CallsKnown
  <2>3. new \in G!Call /\ new.kind = "start" /\ new.session = q.session
    BY <2>1, <2>2 DEF G!Call
  <2>4. calls' = (calls \ {q}) \cup {new}
    BY <2>1
  <2> HIDE DEF new
  <2>5. G!TypeOK'
    BY <2>1, <2>3, <2>4, GamesConstants DEF G!TypeOK
  <2> QED
    BY <2>1, <2>2, <2>3, <2>4, <2>5, QuietStep DEF TokensKnown, Ending
<1>6. CASE G!Tick
  <2>1. G!TypeOK'
    BY <1>6, GamesConstants DEF G!Tick, G!TypeOK, G!Times
  <2> QED
    BY <1>6, <2>1, QuietStep DEF G!Tick, TokensKnown
<1> QED
  BY <1>1, <1>2, <1>3, <1>4, <1>5, <1>6

\* The next row is a new one.
LEMMA NextRow ==
  ASSUME GamesInv, Cardinality(G!Rows) < MaxSessions
  PROVE  /\ Cardinality(G!Rows) + 1 \in G!Sessions
         /\ G!Rows = 1..Cardinality(G!Rows) /\ Cardinality(G!Rows) \in 0..MaxSessions
<1>1. PICK n \in 0..MaxSessions : G!Rows = 1..n
  BY DEF GamesInv, RowsFirst
<1>2. n \in Nat /\ Cardinality(1..n) = n
  BY FS_Interval, GamesConstants
<1> QED
  BY <1>1, <1>2, GamesConstants DEF G!Sessions

LEMMA StartInsertsKeepsInv ==
  ASSUME GamesInv, NEW q \in calls, G!StartInserts(q)
  PROVE  GamesInv'
<1> DEFINE n == Cardinality(G!Rows)
           row == [status |-> "active", started |-> clock, ended |-> None, score |-> None,
                   award |-> None]
           new == [q EXCEPT !.at = "answered", !.session = n + 1]
<1>1. /\ q.kind = "start" /\ n < MaxSessions
      /\ session' = [session EXCEPT ![n + 1] = row]
      /\ calls' = (calls \ {q}) \cup {new}
      /\ UNCHANGED <<round, running, connected, token, clock, events>>
  BY SameCount DEF G!StartInserts, G!Moved
<1>2. n + 1 \in G!Sessions /\ G!Rows = 1..n /\ n \in 0..MaxSessions
  BY <1>1, NextRow
<1>3. row \in G!SessionRow /\ row # None /\ Earned(row)
  BY GamesConstants DEF G!SessionRow, Earned, GamesInv, G!TypeOK
<1>4. new \in G!Call /\ new.kind = "start" /\ new.session = n + 1 /\ ~Ending(new)
  <2>1. q \in G!Call
    BY DEF GamesInv, G!TypeOK
  <2> QED
    BY <1>1, <1>2, <2>1 DEF G!Call, Ending
<1> HIDE DEF row, new, n
<1>5. G!TypeOK'
  BY <1>1, <1>2, <1>3, <1>4 DEF GamesInv, G!TypeOK
<1>6. n + 1 \notin G!Rows /\ \A s \in G!Rows : s \in G!Sessions /\ session'[s] = session[s]
  <2>1. n + 1 \notin 1..n
    BY <1>2, GamesConstants
  <2> QED
    BY <1>1, <1>2, <2>1 DEF GamesInv, G!TypeOK, G!Rows
<1>7. G!Rows' = G!Rows \cup {n + 1} /\ G!Rows' = 1..n + 1 /\ session'[n + 1] = row
  <2>1. session'[n + 1] = row /\ \A s \in G!Sessions \ {n + 1} : session'[s] = session[s]
    BY <1>1, <1>2 DEF GamesInv, G!TypeOK
  <2>2. G!Rows' = G!Rows \cup {n + 1}
    BY <1>2, <1>3, <2>1 DEF G!Rows
  <2>3. (1..n) \cup {n + 1} = 1..n + 1
    BY <1>2, GamesConstants
  <2> QED
    BY <1>2, <2>1, <2>2, <2>3
<1>8. RowsFirst'
  <2>1. n + 1 \in 0..MaxSessions
    BY <1>1, <1>2, GamesConstants
  <2> QED
    BY <1>7, <2>1 DEF RowsFirst
<1>9. TokensKnown' /\ (\A s \in G!Rows : Earned(session[s]))'
  BY <1>1, <1>3, <1>6, <1>7 DEF GamesInv, TokensKnown, Earned
<1>10. CallsKnown'
  <2> SUFFICES ASSUME NEW p \in calls'
               PROVE  /\ p.session # None => p.session \in G!Rows'
                      /\ p.kind = "end" => p.session # None
                      /\ Ending(p) => /\ session'[p.session].status = "active"
                                      /\ p.result \in G!SessionRow /\ Earned(p.result)
    BY DEF CallsKnown, Ending, Earned
  <2>1. CASE p = new
    BY <1>4, <1>7, <2>1
  <2>2. CASE p \in calls
    BY <1>6, <1>7, <2>2 DEF GamesInv, CallsKnown, Ending
  <2> QED
    BY <1>1, <2>1, <2>2
<1>11. OneEnding'
  BY <1>1, <1>4 DEF GamesInv, OneEnding, Ending
<1> QED
  BY <1>5, <1>8, <1>9, <1>10, <1>11 DEF GamesInv

\* The row end_session makes of an active one is a row, and what it awards is
\* earned.
LEMMA ClosedRow ==
  ASSUME GamesInv, NEW s \in G!Rows, NEW scored \in Scores \cup {None}
  PROVE  G!Closed(s, scored) \in G!SessionRow /\ Earned(G!Closed(s, scored))
<1> DEFINE duration == clock - session[s].started
           short == duration < MinDuration
           award == IF short THEN None ELSE G!Awarded(s, duration, scored)
           row == [session[s] EXCEPT !.ended = clock, !.score = scored,
                     !.status = IF short THEN "invalidated" ELSE "ended", !.award = award]
<1>1. G!Closed(s, scored) = row
  BY DEF G!Closed
<1>2. session[s] \in G!SessionRow /\ clock \in G!Times
  BY DEF GamesInv, G!TypeOK, G!Rows
<1>3. clock \in Int /\ session[s].started \in Int
  BY <1>2, GamesConstants DEF G!SessionRow, G!Times
<1>4. /\ award \in (1..Len(GameRules)) \cup {None}
      /\ award # None => duration >= MinDuration
                         /\ G!ConditionsMatch(GameRules[award], duration, scored)
  BY <1>3, AwardedRule, GamesConstants
<1>5. (IF short THEN "invalidated" ELSE "ended") \in {"active", "ended", "invalidated"}
  OBVIOUS
<1> HIDE DEF award, short
<1>6. /\ row \in G!SessionRow
      /\ row.award = award /\ row.score = scored
      /\ row.ended - row.started = duration
  BY <1>2, <1>4, <1>5 DEF G!SessionRow
<1> HIDE DEF row, duration
<1> QED
  BY <1>1, <1>4, <1>6 DEF Earned

LEMMA EndReadsKeepsInv ==
  ASSUME GamesInv, NEW q \in calls, G!EndReads(q)
  PROVE  GamesInv'
<1> DEFINE new == [q EXCEPT !.at = "read", !.result = G!Closed(q.session, q.score)]
<1>1. /\ q.kind = "end" /\ q.at = "sent"
      /\ \A p \in calls : ~Ending(p)
      /\ \/ calls' = calls \ {q}
         \/ /\ calls' = (calls \ {q}) \cup {new}
            /\ session[q.session].status = "active"
      /\ UNCHANGED <<session, round, running, connected, token, clock, events>>
  BY DEF G!EndReads, G!Decides, G!Ends, Ending
<1>2. q \in G!Call /\ q.session \in G!Rows
  BY <1>1 DEF GamesInv, G!TypeOK, CallsKnown
<1>3. G!Closed(q.session, q.score) \in G!SessionRow /\ Earned(G!Closed(q.session, q.score))
  <2>1. q.score \in Scores \cup {None}
    BY <1>2 DEF G!Call
  <2> QED
    BY <1>2, <2>1, ClosedRow
<1>4. new \in G!Call /\ new.session = q.session /\ new.kind = "end"
      /\ new.result = G!Closed(q.session, q.score)
  BY <1>1, <1>2, <1>3 DEF G!Call
<1> HIDE DEF new
<1>5. G!TypeOK'
  BY <1>1, <1>4 DEF GamesInv, G!TypeOK
<1>6. CASE calls' = calls \ {q}
  BY <1>1, <1>5, <1>6, QuietStep DEF GamesInv, TokensKnown
<1>7. CASE calls' = (calls \ {q}) \cup {new} /\ session[q.session].status = "active"
  <2>1. G!Rows' = G!Rows
    BY <1>1 DEF G!Rows
  <2>2. RowsFirst' /\ TokensKnown' /\ (\A s \in G!Rows : Earned(session[s]))'
    BY <1>1, <2>1 DEF GamesInv, RowsFirst, TokensKnown, Earned
  <2>3. CallsKnown'
    <3> SUFFICES ASSUME NEW p \in calls'
                 PROVE  /\ p.session # None => p.session \in G!Rows
                        /\ p.kind = "end" => p.session # None
                        /\ Ending(p) => /\ session[p.session].status = "active"
                                        /\ p.result \in G!SessionRow /\ Earned(p.result)
      BY <1>1, <2>1 DEF CallsKnown, Ending, Earned
    <3>1. CASE p = new
      <4>1. q.session # None
        BY <1>1 DEF GamesInv, CallsKnown
      <4> QED
        BY <1>2, <1>3, <1>4, <1>7, <3>1, <4>1
    <3>2. CASE p \in calls
      BY <3>2 DEF GamesInv, CallsKnown
    <3> QED
      BY <1>7, <3>1, <3>2
  <2>4. OneEnding'
    BY <1>1, <1>4, <1>7 DEF GamesInv, OneEnding, Ending
  <2> QED
    BY <1>5, <2>2, <2>3, <2>4 DEF GamesInv
<1> QED
  BY <1>1, <1>6, <1>7

LEMMA EndCommitsKeepsInv ==
  ASSUME GamesInv, NEW q \in calls, G!EndCommits(q)
  PROVE  GamesInv'
<1>1. /\ Ending(q) /\ session' = [session EXCEPT ![q.session] = q.result]
      /\ calls' = calls \ {q}
      /\ UNCHANGED <<round, running, connected, token, clock, events>>
  BY DEF G!EndCommits, Ending
<1>2. /\ q.session \in G!Rows /\ q.result \in G!SessionRow /\ Earned(q.result)
      /\ q.result # None
  BY <1>1, GamesConstants DEF GamesInv, CallsKnown, Ending
<1>3. /\ session'[q.session] = q.result
      /\ \A s \in G!Sessions \ {q.session} : session'[s] = session[s]
  BY <1>1, <1>2 DEF GamesInv, G!TypeOK, G!Rows
<1>4. G!Rows' = G!Rows
  BY <1>2, <1>3 DEF G!Rows
<1>5. G!TypeOK'
  BY <1>1, <1>2 DEF GamesInv, G!TypeOK
<1>6. RowsFirst' /\ TokensKnown'
  BY <1>1, <1>4 DEF GamesInv, RowsFirst, TokensKnown
<1>7. (\A s \in G!Rows : Earned(session[s]))'
  BY <1>2, <1>3, <1>4 DEF GamesInv, G!Rows, Earned
<1>8. CallsKnown'
  <2> SUFFICES ASSUME NEW p \in calls, p # q
               PROVE  /\ p.session # None => p.session \in G!Rows
                      /\ p.kind = "end" => p.session # None
                      /\ Ending(p) => /\ session'[p.session].status = "active"
                                      /\ p.result \in G!SessionRow /\ Earned(p.result)
    BY <1>1, <1>4 DEF CallsKnown, Ending, Earned
  <2>1. Ending(p) => p.session # q.session
    BY <1>1 DEF GamesInv, OneEnding
  <2> QED
    BY <1>3, <2>1 DEF GamesInv, CallsKnown, G!Rows, Ending
<1>9. OneEnding'
  BY <1>1 DEF GamesInv, OneEnding, Ending
<1> QED
  BY <1>5, <1>6, <1>7, <1>8, <1>9 DEF GamesInv

LEMMA GamesNext == GamesInv /\ [G!Next]_(G!vars) => GamesInv'
<1> SUFFICES ASSUME GamesInv, [G!Next]_(G!vars) PROVE GamesInv'
  OBVIOUS
<1>1. CASE UNCHANGED G!vars
  <2>1. UNCHANGED <<session, calls, token>> /\ G!TypeOK'
    BY <1>1 DEF G!vars, GamesInv, G!TypeOK
  <2> QED
    BY <2>1, QuietStep DEF GamesInv, TokensKnown
<1>2. CASE G!Next
  BY <1>2, QuietActions, StartInsertsKeepsInv, EndReadsKeepsInv, EndCommitsKeepsInv DEF G!Next
<1> QED
  BY <1>1, <1>2

LEMMA GamesInvariant == G!Spec => []GamesInv
BY GamesInit, GamesNext, PTL DEF G!Spec

-----------------------------------------------------------------------------
(* Theorems                                                                *)

\* The state of sessions, requests and pages is well typed.
THEOREM GamesTyped == G!Spec => []G!TypeOK
<1>1. GamesInv => G!TypeOK
  BY DEF GamesInv
<1> QED
  BY <1>1, GamesInvariant, PTL

\* No reward is given for a session that was too short or below what the rule
\* asks, whatever the pages send and in whatever order.
THEOREM OnlyEarned == G!Spec => []G!RewardsAreEarned
<1>1. GamesInv => G!RewardsAreEarned
  BY DEF GamesInv, Earned, G!RewardsAreEarned
<1> QED
  BY <1>1, GamesInvariant, PTL

\* A session that ended is never written again.
THEOREM ClosedForGood == G!Spec => G!ClosedStaysClosed
<1>1. GamesInv /\ [G!Next]_(G!vars) =>
        [\A s \in G!Rows : session[s].status # "active" => session'[s] = session[s]]_session
  <2> SUFFICES ASSUME GamesInv, G!Next, NEW s \in G!Rows, session[s].status # "active"
               PROVE  session'[s] = session[s]
    BY DEF G!vars
  <2>1. s \in G!Sessions /\ session \in [G!Sessions -> G!SessionRow \cup {None}]
    BY DEF G!Rows, GamesInv, G!TypeOK
  <2>2. ASSUME NEW q \in calls, G!StartInserts(q) PROVE session'[s] = session[s]
    <3>1. Cardinality(G!Rows) + 1 \notin G!Rows
      BY <2>2, NextRow, SameCount, GamesConstants DEF G!StartInserts
    <3> QED
      BY <2>1, <2>2, <3>1, SameCount DEF G!StartInserts
  <2>3. ASSUME NEW q \in calls, G!EndCommits(q) PROVE session'[s] = session[s]
    <3>1. session[q.session].status = "active"
      BY <2>3 DEF G!EndCommits, GamesInv, CallsKnown, Ending
    <3> QED
      BY <2>1, <2>3, <3>1 DEF G!EndCommits
  <2>4. CASE UNCHANGED session
    BY <2>4
  <2> QED
    BY <2>2, <2>3, <2>4 DEF G!Next, G!StartGame, G!FinishGame, G!HostReceives, G!Lost, G!StartReads,
       G!StartRefused, G!EndReads, G!Decides, G!Tick
<1> QED
  BY <1>1, GamesInvariant, PTL DEF G!Spec, G!ClosedStaysClosed

\* Quotients do not decrease.
LEMMA QuotientsGrow ==
  ASSUME NEW d \in Nat \ {0}, NEW a \in Nat, NEW b \in Nat, a <= b
  PROVE  a \div d <= b \div d
<1> DEFINE p == a \div d
           q == b \div d
           r == a % d
           s == b % d
<1>1. /\ p \in Nat /\ r \in 0..d - 1 /\ a = d * p + r
      /\ q \in Nat /\ s \in 0..d - 1 /\ b = d * q + s
  <2>1. p \in Nat /\ r \in 0..d - 1 /\ a = d * p + r
    OBVIOUS
  <2>2. q \in Nat /\ s \in 0..d - 1 /\ b = d * q + s
    OBVIOUS
  <2> QED
    BY <2>1, <2>2
<1> HIDE DEF p, q, r, s
<1>2. CASE p > q
  <2>1. PICK k \in Nat : p = q + 1 + k
    BY <1>1, <1>2, p - q - 1 \in Nat
  <2>2. d * p = d * q + d + d * k /\ d * k \in Nat
    BY <1>1, <2>1
  <2> QED
    BY <1>1, <2>2
<1> QED
  BY <1>1, <1>2 DEF p, q

-----------------------------------------------------------------------------
(* Games: a limit counted without a lock, and limits counted under one     *)

\* What is awarded was ended, at some time.
Settled(row) ==
  /\ row.award # None => row.status = "ended"
  /\ row.status = "ended" => row.ended \in G!Times

Reading == {q \in calls : q.at = "read"}
Starting == {q \in calls : q.kind = "start" /\ q.at = "read"}

StartedOn(t) == {s \in G!Rows : G!Day(session[s].started) = G!Day(t)}

SettledInv ==
  /\ \A s \in G!Rows : Settled(session[s]) /\ session[s].started <= clock
  /\ \A q \in calls : Ending(q) => Settled(q.result) /\ q.result.started = session[q.session].started

\* The sessions of a day and those about to be inserted: the last to be
\* counted in was one below the limit without the others in progress.
DailyInv ==
  /\ Starting # {} => MaxDaily > 0
  /\ \A t \in G!Times : Cardinality(StartedOn(t)) <= MaxDaily + GameWorkers - 1
  /\ Cardinality(StartedOn(clock)) + Cardinality(Starting) <= MaxDaily + GameWorkers - 1

CrowdInv ==
  /\ IsFiniteSet(calls) /\ Cardinality(Reading) <= GameWorkers
  /\ SettledInv /\ DailyInv

\* Sessions are finitely many, and so is what is counted of them.
LEMMA FiniteSessions ==
  ASSUME NEW S \in SUBSET G!Sessions
  PROVE  IsFiniteSet(S) /\ Cardinality(S) \in Nat
<1>1. IsFiniteSet(G!Sessions)
  BY FS_Interval, GamesConstants DEF G!Sessions
<1> QED
  BY <1>1, FS_Subset, FS_CardinalityType

LEMMA RowsAreSessions == G!Rows \subseteq G!Sessions
BY DEF G!Rows

\* Fewer calls count for no more.
LEMMA FewerCalls ==
  ASSUME NEW S, IsFiniteSet(S), NEW U \in SUBSET S
  PROVE  IsFiniteSet(U) /\ Cardinality(U) \in Nat /\ Cardinality(S) \in Nat
         /\ Cardinality(U) <= Cardinality(S)
BY FS_Subset, FS_CardinalityType

\* One more element counts for one at most.
LEMMA OneMore ==
  ASSUME NEW S, IsFiniteSet(S), NEW x
  PROVE  /\ IsFiniteSet(S \cup {x})
         /\ Cardinality(S) \in Nat /\ Cardinality(S \cup {x}) \in Nat
         /\ Cardinality(S \cup {x}) <= Cardinality(S) + 1
<1>1. IsFiniteSet(S \cup {x}) /\ Cardinality(S) \in Nat
  BY FS_AddElement, FS_CardinalityType
<1>2. CASE x \in S
  <2>1. Cardinality(S \cup {x}) = Cardinality(S)
    BY <1>2, FS_AddElement
  <2> QED
    BY <1>1, <2>1
<1>3. CASE x \notin S
  <2>1. Cardinality(S \cup {x}) = Cardinality(S) + 1
    BY <1>3, FS_AddElement
  <2> QED
    BY <1>1, <2>1
<1> QED
  BY <1>2, <1>3

LEMMA CrowdInit == G!Init => CrowdInv
<1> SUFFICES ASSUME G!Init PROVE CrowdInv
  OBVIOUS
<1>1. G!Rows = {} /\ calls = {} /\ Reading = {} /\ Starting = {}
  BY DEF G!Init, G!Rows, Reading, Starting
<1>2. \A t : StartedOn(t) = {}
  BY <1>1 DEF StartedOn
<1> QED
  <2>1. SettledInv
    BY <1>1 DEF SettledInv
  <2>2. DailyInv
    <3>1. 0 <= MaxDaily + GameWorkers - 1
      BY GamesConstants
    <3> QED
      BY <1>1, <1>2, <3>1, FS_EmptySet DEF DailyInv
  <2> QED
    BY <1>1, <2>1, <2>2, FS_EmptySet, GamesConstants DEF CrowdInv

\* A step that writes nothing and lets no request read.
LEMMA CrowdQuiet ==
  ASSUME GamesInv, CrowdInv, UNCHANGED <<session, clock>>, IsFiniteSet(calls'),
         \A q \in calls' : q \in calls \/ q.at # "read"
  PROVE  CrowdInv'
<1>1. G!Rows' = G!Rows
  BY DEF G!Rows
<1>2. Reading' \subseteq Reading /\ Starting' \subseteq Starting
  BY DEF Reading, Starting
<1>3. IsFiniteSet(Reading) /\ IsFiniteSet(Starting)
  BY FewerCalls DEF CrowdInv, Reading, Starting
<1>4. /\ Cardinality(Reading') <= Cardinality(Reading) /\ Cardinality(Reading) \in Nat
      /\ Cardinality(Reading') \in Nat
      /\ Cardinality(Starting') <= Cardinality(Starting) /\ Cardinality(Starting) \in Nat
      /\ Cardinality(Starting') \in Nat
  BY <1>2, <1>3, FewerCalls
<1>5. SettledInv'
  BY <1>1 DEF CrowdInv, SettledInv, Settled, Ending
<1>6. DailyInv'
  <2>1. \A t : StartedOn(t)' = StartedOn(t)
    BY <1>1 DEF StartedOn
  <2>2. StartedOn(clock)' = StartedOn(clock)
    BY <1>1 DEF StartedOn
  <2>3. StartedOn(clock) \subseteq G!Sessions
    BY RowsAreSessions DEF StartedOn
  <2>4. Cardinality(StartedOn(clock)') = Cardinality(StartedOn(clock))
        /\ Cardinality(StartedOn(clock)) \in Nat
    BY <2>2, <2>3, FiniteSessions
  <2>5. Starting' # {} => MaxDaily > 0
    BY <1>2 DEF CrowdInv, DailyInv
  <2>6. \A t \in G!Times : Cardinality(StartedOn(t)') <= MaxDaily + GameWorkers - 1
    BY <2>1, Zenon DEF CrowdInv, DailyInv
  <2>7. Cardinality(StartedOn(clock)) + Cardinality(Starting) <= MaxDaily + GameWorkers - 1
    BY DEF CrowdInv, DailyInv
  <2> HIDE DEF StartedOn, Starting
  <2>8. Cardinality(StartedOn(clock)') + Cardinality(Starting') <= MaxDaily + GameWorkers - 1
    BY <1>4, <2>4, <2>7, GamesConstants
  <2> QED
    BY <2>5, <2>6, <2>8 DEF DailyInv
<1>7. Cardinality(Reading') <= GameWorkers
  <2>1. Cardinality(Reading) <= GameWorkers
    BY DEF CrowdInv
  <2> HIDE DEF Reading
  <2> QED
    BY <1>4, <2>1, GamesConstants
<1> QED
  BY <1>5, <1>6, <1>7 DEF CrowdInv

\* A free worker reads: no more are reading than there are workers.
LEMMA OneMoreReads ==
  ASSUME CrowdInv, G!Free, NEW q \in calls, NEW new, calls' = (calls \ {q}) \cup {new}
  PROVE  IsFiniteSet(calls') /\ IsFiniteSet(Reading') /\ Cardinality(Reading') <= GameWorkers
<1>1. IsFiniteSet(calls')
  BY FS_AddElement, FS_RemoveElement DEF CrowdInv
<1>2. IsFiniteSet(Reading) /\ Cardinality(Reading) < GameWorkers
  <2>1. IsFiniteSet(Reading)
    BY FewerCalls DEF CrowdInv, Reading
  <2>2. Cardinality(Reading) < GameWorkers
    BY SameCount DEF G!Free, Reading
  <2> QED
    BY <2>1, <2>2
<1>3. Reading' \subseteq Reading \cup {new}
  BY DEF Reading
<1> HIDE DEF Reading
<1>4. /\ IsFiniteSet(Reading \cup {new})
      /\ Cardinality(Reading \cup {new}) <= Cardinality(Reading) + 1
      /\ Cardinality(Reading) \in Nat /\ Cardinality(Reading \cup {new}) \in Nat
  BY <1>2, OneMore
<1>5. /\ IsFiniteSet(Reading') /\ Cardinality(Reading') \in Nat
      /\ Cardinality(Reading') <= Cardinality(Reading \cup {new})
  BY <1>3, <1>4, FewerCalls
<1> QED
  BY <1>1, <1>2, <1>4, <1>5, GamesConstants

\* A start is counted in: the others in progress, and one below the limit.
LEMMA StartReadsKeepsCrowd ==
  ASSUME GamesInv, CrowdInv, NEW q \in calls, G!StartReads(q)
  PROVE  CrowdInv'
<1>1. /\ q.kind = "start" /\ q.at = "sent" /\ G!Free
      /\ UNCHANGED <<session, round, running, connected, token, clock, events>>
  BY DEF G!StartReads
<1>2. IsFiniteSet(calls \ {q})
  BY FS_RemoveElement DEF CrowdInv
<1>3. CASE calls' = (calls \ {q}) \cup {[q EXCEPT !.at = "answered"]}
  <2>1. IsFiniteSet(calls')
    BY <1>2, <1>3, FS_AddElement
  <2>2. [q EXCEPT !.at = "answered"].at # "read"
    BY DEF GamesInv, G!TypeOK, G!Call
  <2> QED
    BY <1>1, <1>3, <2>1, <2>2, CrowdQuiet
<1>4. CASE G!MayStart /\ calls' = (calls \ {q}) \cup {[q EXCEPT !.at = "read"]}
  <2> DEFINE new == [q EXCEPT !.at = "read"]
  <2>1. new.kind = "start" /\ new.at = "read"
    BY <1>1 DEF GamesInv, G!TypeOK, G!Call
  <2>2. calls' = (calls \ {q}) \cup {new}
    BY <1>4
  <2> HIDE DEF new
  <2>3. IsFiniteSet(calls') /\ IsFiniteSet(Reading') /\ Cardinality(Reading') <= GameWorkers
    BY <1>1, <2>2, OneMoreReads
  <2>4. G!Rows' = G!Rows
    BY <1>1 DEF G!Rows
  <2>5. SettledInv'
    BY <1>1, <2>1, <2>2, <2>4 DEF CrowdInv, SettledInv, Settled, Ending
  <2>6. DailyInv'
    <3>1. Cardinality(Starting') <= GameWorkers /\ Cardinality(Starting') \in Nat
      <4>1. Starting' \subseteq Reading'
        BY DEF Starting, Reading
      <4> QED
        BY <2>3, <4>1, FewerCalls, GamesConstants
    <3>2. \A t : StartedOn(t)' = StartedOn(t)
      BY <1>1, <2>4 DEF StartedOn
    <3>3. StartedOn(clock)' = StartedOn(clock)
      BY <1>1, <2>4 DEF StartedOn
    <3>4. Cardinality(StartedOn(clock)) < MaxDaily /\ Cardinality(StartedOn(clock)) \in Nat
      <4>1. StartedOn(clock) = G!Today
        BY DEF StartedOn, G!Today
      <4>2. Cardinality(G!Today) < MaxDaily
        BY <1>4, SameCount DEF G!MayStart
      <4>3. G!Today \subseteq G!Sessions
        BY RowsAreSessions DEF G!Today
      <4>4. Cardinality(G!Today) \in Nat
        BY <4>3, FiniteSessions
      <4> QED
        BY <4>1, <4>2, <4>4
    <3>5. \A t \in G!Times : Cardinality(StartedOn(t)') <= MaxDaily + GameWorkers - 1
      BY <3>2, Zenon DEF CrowdInv, DailyInv
    <3>6. Cardinality(StartedOn(clock)') = Cardinality(StartedOn(clock))
      BY <3>3, Zenon
    <3> HIDE DEF StartedOn, Starting
    <3>7. Cardinality(StartedOn(clock)') + Cardinality(Starting') <= MaxDaily + GameWorkers - 1
      BY <3>1, <3>4, <3>6, GamesConstants
    <3>8. MaxDaily > 0
      BY <3>4, GamesConstants
    <3> QED
      BY <3>5, <3>7, <3>8 DEF DailyInv
  <2> QED
    BY <2>3, <2>5, <2>6 DEF CrowdInv
<1> QED
  BY <1>3, <1>4 DEF G!StartReads, G!Moved

\* A session is inserted by one of those that were starting.
LEMMA StartInsertsKeepsCrowd ==
  ASSUME GamesInv, CrowdInv, NEW q \in calls, G!StartInserts(q)
  PROVE  CrowdInv'
<1> DEFINE n == Cardinality(G!Rows) + 1
           row == [status |-> "active", started |-> clock, ended |-> None, score |-> None,
                   award |-> None]
           new == [q EXCEPT !.at = "answered", !.session = n]
<1>1. /\ q.kind = "start" /\ q.at = "read" /\ Cardinality(G!Rows) < MaxSessions
      /\ session' = [session EXCEPT ![n] = row]
      /\ calls' = (calls \ {q}) \cup {new}
      /\ UNCHANGED <<round, running, connected, token, clock, events>>
  BY SameCount DEF G!StartInserts, G!Moved
<1>2. n \in G!Sessions /\ n \notin G!Rows
  <2>1. G!Rows = 1..Cardinality(G!Rows) /\ Cardinality(G!Rows) \in 0..MaxSessions
        /\ n \in G!Sessions
    BY <1>1, NextRow
  <2> QED
    BY <2>1, GamesConstants
<1>3. new.at = "answered"
  BY DEF GamesInv, G!TypeOK, G!Call
<1>4. row.status = "active" /\ row.started = clock /\ row.award = None /\ row # None
  BY GamesConstants DEF G!SessionRow, GamesInv, G!TypeOK
<1> HIDE DEF n, row, new
<1>5. /\ session'[n] = row
      /\ \A s \in G!Sessions \ {n} : session'[s] = session[s]
      /\ G!Rows' = G!Rows \cup {n}
  <2>1. session'[n] = row /\ \A s \in G!Sessions \ {n} : session'[s] = session[s]
    BY <1>1, <1>2 DEF GamesInv, G!TypeOK
  <2> QED
    BY <1>2, <1>4, <2>1 DEF G!Rows
<1>6. \A s \in G!Rows : session'[s] = session[s]
  BY <1>2, <1>5, RowsAreSessions
<1>7. /\ IsFiniteSet(calls') /\ Reading' \subseteq Reading
      /\ Starting' = Starting \ {q} /\ q \in Starting
      /\ \A p \in calls' : Ending(p) => p \in calls /\ p.session \in G!Rows
  <2>1. IsFiniteSet(calls')
    BY <1>1, FS_AddElement, FS_RemoveElement DEF CrowdInv
  <2>2. \A p \in calls' : Ending(p) => p \in calls /\ p.session \in G!Rows
    BY <1>1, <1>3 DEF Ending, GamesInv, CallsKnown
  <2> QED
    BY <1>1, <1>3, <2>1, <2>2 DEF Reading, Starting
<1>8. IsFiniteSet(Reading) /\ IsFiniteSet(Starting)
  BY FewerCalls DEF CrowdInv, Reading, Starting
<1>9. Cardinality(Reading') <= GameWorkers
  <2>1. Cardinality(Reading) <= GameWorkers
    BY DEF CrowdInv
  <2> HIDE DEF Reading
  <2>2. Cardinality(Reading') <= Cardinality(Reading) /\ Cardinality(Reading) \in Nat
        /\ Cardinality(Reading') \in Nat
    BY <1>7, <1>8, FewerCalls
  <2> QED
    BY <2>1, <2>2, GamesConstants
<1>10. SettledInv'
  <2>1. clock <= clock
    BY GamesConstants DEF GamesInv, G!TypeOK, G!Times
  <2>2. \A s \in G!Rows' : Settled(session'[s]) /\ session'[s].started <= clock
    BY <1>4, <1>5, <1>6, <2>1 DEF CrowdInv, SettledInv, Settled
  <2>3. \A p \in calls' : Ending(p) => Settled(p.result) /\ p.result.started = session'[p.session].started
    BY <1>6, <1>7 DEF CrowdInv, SettledInv
  <2> QED
    BY <1>1, <2>2, <2>3 DEF SettledInv, Settled, Ending
<1>11. DailyInv'
  <2>1. MaxDaily > 0
    BY <1>7 DEF CrowdInv, DailyInv
  <2>2. Cardinality(Starting') = Cardinality(Starting) - 1 /\ Cardinality(Starting) \in Nat
        /\ Cardinality(Starting') \in Nat
    <3> HIDE DEF Starting
    <3>1. Cardinality(Starting \ {q}) = Cardinality(Starting) - 1
          /\ Cardinality(Starting \ {q}) \in Nat /\ Cardinality(Starting) \in Nat
      BY <1>7, <1>8, FS_RemoveElement, FS_CardinalityType
    <3> QED
      BY <1>7, <3>1
  <2>3. StartedOn(clock)' = StartedOn(clock) \cup {n}
    BY <1>1, <1>2, <1>4, <1>5, <1>6 DEF StartedOn
  <2>4. StartedOn(clock) \subseteq G!Sessions
    BY RowsAreSessions DEF StartedOn
  <2>5. Cardinality(StartedOn(clock)) + Cardinality(Starting) <= MaxDaily + GameWorkers - 1
    BY DEF CrowdInv, DailyInv
  <2>6. Cardinality(StartedOn(clock)') <= Cardinality(StartedOn(clock)) + 1
        /\ Cardinality(StartedOn(clock)) \in Nat /\ Cardinality(StartedOn(clock)') \in Nat
    <3> HIDE DEF StartedOn
    <3>1. IsFiniteSet(StartedOn(clock)) /\ Cardinality(StartedOn(clock)) \in Nat
      BY <2>4, FiniteSessions
    <3>2. Cardinality(StartedOn(clock) \cup {n}) <= Cardinality(StartedOn(clock)) + 1
          /\ Cardinality(StartedOn(clock) \cup {n}) \in Nat
      BY <3>1, OneMore
    <3> QED
      BY <2>3, <3>1, <3>2
  <2>7. Cardinality(StartedOn(clock)') + Cardinality(Starting') <= MaxDaily + GameWorkers - 1
    <3> HIDE DEF StartedOn, Starting
    <3> QED
      BY <2>2, <2>5, <2>6, GamesConstants
  <2>8. ASSUME NEW t \in G!Times
        PROVE  Cardinality(StartedOn(t)') <= MaxDaily + GameWorkers - 1
    <3>1. CASE G!Day(t) = G!Day(clock)
      <4>1. StartedOn(t)' = StartedOn(clock)'
        BY <1>1, <3>1 DEF StartedOn
      <4>2. Cardinality(StartedOn(t)') = Cardinality(StartedOn(clock)')
        BY <4>1, Zenon
      <4> HIDE DEF StartedOn, Starting
      <4> QED
        BY <2>2, <2>6, <2>7, <4>2, GamesConstants
    <3>2. CASE G!Day(t) # G!Day(clock)
      <4>1. StartedOn(t)' = StartedOn(t)
        BY <1>2, <1>4, <1>5, <1>6, <3>2 DEF StartedOn
      <4> QED
        BY <4>1, Zenon DEF CrowdInv, DailyInv
    <3> QED
      BY <3>1, <3>2
  <2> QED
    BY <2>1, <2>7, <2>8 DEF DailyInv
<1> QED
  BY <1>7, <1>9, <1>10, <1>11 DEF CrowdInv

\* The row an end makes: awarded by a rule no session that ended in its cooldown
\* was seen under.
LEMMA ClosedCrowd ==
  ASSUME GamesInv, CrowdInv, NEW s \in G!Rows, NEW scored
  PROVE  LET row == G!Closed(s, scored)
         IN  /\ Settled(row) /\ row.started = session[s].started /\ row.ended = clock
             /\ row.award # None =>
                  /\ row.award \in 1..Len(GameRules)
                  /\ G!RuleAvailable(GameRules[row.award], s)
<1> DEFINE duration == clock - session[s].started
           short == duration < MinDuration
           award == IF short THEN None ELSE G!Awarded(s, duration, scored)
           status == IF short THEN "invalidated" ELSE "ended"
           row == [session[s] EXCEPT !.ended = clock, !.score = scored,
                     !.status = status, !.award = award]
<1>1. G!Closed(s, scored) = row
  BY DEF G!Closed
<1>2. session[s] \in G!SessionRow /\ clock \in G!Times
  BY DEF GamesInv, G!TypeOK, G!Rows
<1>3. /\ award # None => /\ ~ short /\ award \in 1..Len(GameRules)
                         /\ G!RuleAvailable(GameRules[award], s)
      /\ status = "ended" <=> ~ short
  BY AwardedRule
<1> HIDE DEF award, short, status
<1>4. /\ row.award = award /\ row.ended = clock /\ row.started = session[s].started
      /\ row.status = status
  BY <1>2 DEF G!SessionRow
<1> HIDE DEF row
<1> QED
  BY <1>1, <1>2, <1>3, <1>4 DEF Settled

\* A session is about to be closed; nothing is counted in that was not.
LEMMA EndReadsKeepsCrowd ==
  ASSUME GamesInv, CrowdInv, NEW q \in calls, G!EndReads(q)
  PROVE  CrowdInv'
<1> DEFINE new == [q EXCEPT !.at = "read", !.result = G!Closed(q.session, q.score)]
<1>1. /\ q.kind = "end" /\ q.at = "sent" /\ G!Free
      /\ \/ calls' = calls \ {q}
         \/ /\ calls' = (calls \ {q}) \cup {new}
            /\ session[q.session].status = "active"
      /\ UNCHANGED <<session, round, running, connected, token, clock, events>>
  BY DEF G!EndReads, G!Decides
<1>2. q \in G!Call /\ q.session \in G!Rows
  BY <1>1 DEF GamesInv, G!TypeOK, CallsKnown
<1>3. /\ new.session = q.session /\ new.kind = "end" /\ new.at = "read"
      /\ new.result = G!Closed(q.session, q.score)
  BY <1>1, <1>2 DEF G!Call
<1>4. /\ Settled(new.result) /\ new.result.started = session[q.session].started
  BY <1>2, <1>3, ClosedCrowd
<1> HIDE DEF new
<1>5. CASE calls' = calls \ {q}
  <2>1. IsFiniteSet(calls')
    BY <1>5, FS_RemoveElement DEF CrowdInv
  <2> QED
    BY <1>1, <1>5, <2>1, CrowdQuiet
<1>6. CASE calls' = (calls \ {q}) \cup {new} /\ session[q.session].status = "active"
  <2>1. IsFiniteSet(calls') /\ IsFiniteSet(Reading') /\ Cardinality(Reading') <= GameWorkers
    BY <1>1, <1>6, OneMoreReads
  <2>2. G!Rows' = G!Rows /\ Starting' = Starting
    BY <1>1, <1>3, <1>6 DEF G!Rows, Starting
  <2>3. SettledInv'
    BY <1>1, <1>3, <1>4, <1>6, <2>2 DEF CrowdInv, SettledInv, Settled, Ending
  <2>4. DailyInv'
    <3>1. \A t : StartedOn(t)' = StartedOn(t)
      BY <1>1, <2>2 DEF StartedOn
    <3>2. StartedOn(clock)' = StartedOn(clock)
      BY <1>1, <2>2 DEF StartedOn
    <3> HIDE DEF StartedOn, Starting
    <3>3. \A t \in G!Times : Cardinality(StartedOn(t)') <= MaxDaily + GameWorkers - 1
      BY <3>1, Zenon DEF CrowdInv, DailyInv
    <3>4. Cardinality(StartedOn(clock)') + Cardinality(Starting') <= MaxDaily + GameWorkers - 1
      BY <2>2, <3>2, Zenon DEF CrowdInv, DailyInv
    <3> QED
      BY <2>2, <3>3, <3>4 DEF CrowdInv, DailyInv
  <2> QED
    BY <2>1, <2>3, <2>4 DEF CrowdInv
<1> QED
  BY <1>1, <1>5, <1>6

\* A closed session is committed as it was read.
LEMMA EndCommitsKeepsCrowd ==
  ASSUME GamesInv, CrowdInv, NEW q \in calls, G!EndCommits(q)
  PROVE  CrowdInv'
<1>1. /\ Ending(q) /\ session' = [session EXCEPT ![q.session] = q.result]
      /\ calls' = calls \ {q}
      /\ UNCHANGED <<round, running, connected, token, clock, events>>
  BY DEF G!EndCommits, Ending
<1>2. /\ q.session \in G!Rows /\ q.result # None
      /\ Settled(q.result) /\ q.result.started = session[q.session].started
  <2>1. q.session \in G!Rows /\ q.result \in G!SessionRow
    BY <1>1 DEF GamesInv, CallsKnown, Ending
  <2> QED
    BY <1>1, <2>1, GamesConstants DEF CrowdInv, SettledInv
<1>3. /\ session'[q.session] = q.result
      /\ \A s \in G!Rows \ {q.session} : session'[s] = session[s]
      /\ G!Rows' = G!Rows
  <2>1. session'[q.session] = q.result
        /\ \A s \in G!Sessions \ {q.session} : session'[s] = session[s]
    BY <1>1, <1>2 DEF GamesInv, G!TypeOK, G!Rows
  <2> QED
    BY <1>2, <2>1 DEF G!Rows
<1>4. \A p \in calls' : Ending(p) => p \in calls /\ p.session # q.session
  BY <1>1 DEF GamesInv, OneEnding
<1>5. IsFiniteSet(calls') /\ Reading' \subseteq Reading /\ Starting' = Starting
  <2>1. IsFiniteSet(calls')
    BY <1>1, FS_RemoveElement DEF CrowdInv
  <2> QED
    BY <1>1, <2>1 DEF Reading, Starting, Ending
<1>6. Cardinality(Reading') <= GameWorkers
  <2>1. IsFiniteSet(Reading) /\ Cardinality(Reading) <= GameWorkers
    BY FewerCalls DEF CrowdInv, Reading
  <2> HIDE DEF Reading
  <2>2. Cardinality(Reading') <= Cardinality(Reading) /\ Cardinality(Reading) \in Nat
        /\ Cardinality(Reading') \in Nat
    BY <1>5, <2>1, FewerCalls
  <2> QED
    BY <2>1, <2>2, GamesConstants
<1>7. SettledInv'
  <2>1. \A s \in G!Rows : Settled(session'[s]) /\ session'[s].started <= clock
    BY <1>2, <1>3 DEF CrowdInv, SettledInv
  <2>2. \A p \in calls' : Ending(p) =>
          Settled(p.result) /\ p.result.started = session'[p.session].started
    <3> SUFFICES ASSUME NEW p \in calls', Ending(p)
                 PROVE  Settled(p.result) /\ p.result.started = session'[p.session].started
      OBVIOUS
    <3>1. p \in calls /\ p.session # q.session /\ p.session \in G!Rows
      BY <1>4 DEF GamesInv, CallsKnown, Ending
    <3> QED
      BY <1>3, <3>1 DEF CrowdInv, SettledInv
  <2> QED
    BY <1>1, <1>3, <2>1, <2>2 DEF SettledInv, Settled, Ending
<1>8. DailyInv'
  <2>1. \A s \in G!Rows : session'[s].started = session[s].started
    BY <1>2, <1>3
  <2>2. \A t : StartedOn(t)' = StartedOn(t)
    BY <1>3, <2>1 DEF StartedOn
  <2>3. StartedOn(clock)' = StartedOn(clock)
    BY <1>1, <1>3, <2>1 DEF StartedOn
  <2> HIDE DEF StartedOn, Starting
  <2>4. \A t \in G!Times : Cardinality(StartedOn(t)') <= MaxDaily + GameWorkers - 1
    BY <2>2, Zenon DEF CrowdInv, DailyInv
  <2>5. Cardinality(StartedOn(clock)') + Cardinality(Starting') <= MaxDaily + GameWorkers - 1
    BY <1>5, <2>3, Zenon DEF CrowdInv, DailyInv
  <2> QED
    BY <1>5, <2>4, <2>5 DEF CrowdInv, DailyInv
<1> QED
  BY <1>5, <1>6, <1>7, <1>8 DEF CrowdInv

\* On a new day nobody has started yet, but all who are reading may.
LEMMA TickKeepsCrowd ==
  ASSUME GamesInv, CrowdInv, G!Tick
  PROVE  CrowdInv'
<1>1. /\ clock < MaxTime /\ clock' = clock + 1
      /\ UNCHANGED <<session, calls, round, running, connected, token, events>>
  BY DEF G!Tick
<1>2. clock \in Nat /\ clock' \in Nat
  BY <1>1, GamesConstants DEF GamesInv, G!TypeOK, G!Times
<1>3. G!Rows' = G!Rows /\ Reading' = Reading /\ Starting' = Starting
  BY <1>1 DEF G!Rows, Reading, Starting
<1>4. \A s \in G!Rows : session[s].started \in Nat /\ session[s].started <= clock
  BY GamesConstants DEF CrowdInv, SettledInv, GamesInv, G!TypeOK, G!Rows, G!SessionRow, G!Times
<1>5. SettledInv'
  <2>1. \A s \in G!Rows : session[s].started <= clock'
    BY <1>1, <1>2, <1>4
  <2> QED
    BY <1>1, <1>3, <2>1 DEF CrowdInv, SettledInv, Settled, Ending
<1>6. DailyInv'
  <2>1. \A t : StartedOn(t)' = StartedOn(t)
    BY <1>1, <1>3 DEF StartedOn
  <2>2. \A t \in G!Times : Cardinality(StartedOn(t)') <= MaxDaily + GameWorkers - 1
    <3> HIDE DEF StartedOn
    <3> QED
      BY <2>1, Zenon DEF CrowdInv, DailyInv
  <2>3. Cardinality(StartedOn(clock)') + Cardinality(Starting') <= MaxDaily + GameWorkers - 1
    <3>1. Starting' \subseteq Reading /\ IsFiniteSet(Reading)
      BY <1>3, FewerCalls DEF CrowdInv, Reading, Starting
    <3>2. Cardinality(Starting') <= Cardinality(Reading) /\ Cardinality(Reading) <= GameWorkers
          /\ Cardinality(Reading) \in Nat /\ Cardinality(Starting') \in Nat
      <4>1. Cardinality(Reading) <= GameWorkers
        BY DEF CrowdInv
      <4> HIDE DEF Reading, Starting
      <4> QED
        BY <3>1, <4>1, FewerCalls
    <3>3. CASE G!Day(clock') = G!Day(clock)
      <4>1. StartedOn(clock)' = StartedOn(clock)
        BY <1>1, <1>3, <3>3 DEF StartedOn
      <4> HIDE DEF StartedOn, Starting
      <4> QED
        BY <1>3, <4>1, Zenon DEF CrowdInv, DailyInv
    <3>4. CASE G!Day(clock') # G!Day(clock)
      <4>1. StartedOn(clock)' = {}
        <5> SUFFICES ASSUME NEW s \in G!Rows, G!Day(session[s].started) = G!Day(clock')
                     PROVE  FALSE
          BY <1>1, <1>3 DEF StartedOn
        <5>1. DayLength \in Nat \ {0}
          BY GamesConstants
        <5>2. G!Day(session[s].started) <= G!Day(clock)
          BY <1>2, <1>4, <5>1, QuotientsGrow DEF G!Day
        <5>3. G!Day(clock) <= G!Day(clock')
          BY <1>1, <1>2, <5>1, QuotientsGrow DEF G!Day
        <5>4. G!Day(clock) \in Int /\ G!Day(clock') \in Int
          BY <1>2, <5>1 DEF G!Day
        <5> QED
          BY <3>4, <5>2, <5>3, <5>4
      <4>2. Cardinality(StartedOn(clock)') = 0
        BY <4>1, FS_EmptySet, Zenon
      <4>3. CASE Starting' = {}
        <5>1. Cardinality(Starting') = 0
          BY <4>3, FS_EmptySet, Zenon
        <5> HIDE DEF StartedOn, Starting
        <5> QED
          BY <4>2, <5>1, GamesConstants
      <4>4. CASE Starting' # {}
        <5>1. MaxDaily > 0
          BY <1>3, <4>4 DEF CrowdInv, DailyInv
        <5> HIDE DEF StartedOn, Starting, Reading
        <5> QED
          BY <3>2, <4>2, <5>1, GamesConstants
      <4> QED
        BY <4>3, <4>4
    <3> QED
      BY <3>3, <3>4
  <2>4. Starting' # {} => MaxDaily > 0
    BY <1>3 DEF CrowdInv, DailyInv
  <2> QED
    BY <2>2, <2>3, <2>4 DEF DailyInv
<1>7. IsFiniteSet(calls') /\ Cardinality(Reading') <= GameWorkers
  BY <1>1, <1>3, Zenon DEF CrowdInv
<1> QED
  BY <1>5, <1>6, <1>7 DEF CrowdInv

\* What else happens lets nobody read.
LEMMA QuietActionsKeepCrowd ==
  ASSUME GamesInv, CrowdInv,
         \/ \E c \in Clients : G!StartGame(c) \/ \E scored \in Scores : G!FinishGame(c, scored)
         \/ \E q \in calls : G!HostReceives(q) \/ G!Lost(q) \/ G!StartRefused(q)
         \/ UNCHANGED G!vars
  PROVE  CrowdInv'
<1> SUFFICES UNCHANGED <<session, clock>> /\ IsFiniteSet(calls')
             /\ \A q \in calls' : q \in calls \/ q.at # "read"
  BY CrowdQuiet
<1>0. IsFiniteSet(calls)
  BY DEF CrowdInv
<1>1. ASSUME NEW new, NEW old, new.at # "read", calls' \subseteq (calls \ {old}) \cup {new}
      PROVE  IsFiniteSet(calls') /\ \A q \in calls' : q \in calls \/ q.at # "read"
  <2>1. IsFiniteSet((calls \ {old}) \cup {new})
    BY <1>0, FS_AddElement, FS_RemoveElement
  <2> QED
    BY <1>1, <2>1, FS_Subset
<1>2. ASSUME NEW c \in Clients, G!StartGame(c)
      PROVE  UNCHANGED <<session, clock>> /\ IsFiniteSet(calls')
             /\ \A q \in calls' : q \in calls \/ q.at # "read"
  <2> DEFINE new == G!Request(c, round'[c], "start", None, None)
  <2>1. calls' = calls \cup {new} /\ UNCHANGED <<session, clock>>
    BY <1>2 DEF G!StartGame
  <2>2. new.at # "read"
    BY DEF G!Request
  <2> HIDE DEF new
  <2>3. IsFiniteSet(calls')
    BY <1>0, <2>1, FS_AddElement
  <2> QED
    BY <2>1, <2>2, <2>3
<1>3. ASSUME NEW c \in Clients, NEW scored \in Scores, G!FinishGame(c, scored)
      PROVE  UNCHANGED <<session, clock>> /\ IsFiniteSet(calls')
             /\ \A q \in calls' : q \in calls \/ q.at # "read"
  <2> DEFINE new == G!Request(c, round[c], "end", token[c], scored)
  <2>1. (calls' = calls \/ calls' = calls \cup {new}) /\ UNCHANGED <<session, clock>>
    BY <1>3 DEF G!FinishGame
  <2>2. new.at # "read"
    BY DEF G!Request
  <2> HIDE DEF new
  <2>3. IsFiniteSet(calls')
    BY <1>0, <2>1, FS_AddElement
  <2> QED
    BY <2>1, <2>2, <2>3
<1>4. ASSUME NEW q \in calls, G!HostReceives(q) \/ G!Lost(q)
      PROVE  UNCHANGED <<session, clock>> /\ IsFiniteSet(calls')
             /\ \A p \in calls' : p \in calls \/ p.at # "read"
  <2>1. calls' = calls \ {q} /\ UNCHANGED <<session, clock>>
    BY <1>4 DEF G!HostReceives, G!Lost
  <2>2. IsFiniteSet(calls')
    BY <1>0, <2>1, FS_RemoveElement
  <2> QED
    BY <2>1, <2>2
<1>5. ASSUME NEW q \in calls, G!StartRefused(q)
      PROVE  UNCHANGED <<session, clock>> /\ IsFiniteSet(calls')
             /\ \A p \in calls' : p \in calls \/ p.at # "read"
  <2> DEFINE new == [q EXCEPT !.at = "answered"]
  <2>1. calls' = (calls \ {q}) \cup {new} /\ UNCHANGED <<session, clock>>
    BY <1>5 DEF G!StartRefused, G!Moved
  <2>2. new.at # "read"
    BY DEF GamesInv, G!TypeOK, G!Call
  <2> HIDE DEF new
  <2> QED
    BY <1>1, <2>1, <2>2
<1>6. CASE UNCHANGED G!vars
  BY <1>0, <1>6 DEF G!vars
<1> QED
  BY <1>2, <1>3, <1>4, <1>5, <1>6

LEMMA CrowdInvariant == G!Spec => []CrowdInv
<1>1. GamesInv /\ CrowdInv /\ [G!Next]_(G!vars) => CrowdInv'
  BY QuietActionsKeepCrowd, StartReadsKeepsCrowd, StartInsertsKeepsCrowd, EndReadsKeepsCrowd,
     EndCommitsKeepsCrowd, TickKeepsCrowd DEF G!Next
<1> QED
  BY <1>1, CrowdInit, GamesInvariant, PTL DEF G!Spec

\* The sessions of a day pass the limit by less than are processed at once.
THEOREM DailyLimitPassedByFew == G!Spec => []G!DailyLimitOvershoot
<1>1. CrowdInv => G!DailyLimitOvershoot
  BY SameCount DEF CrowdInv, DailyInv, StartedOn, G!DailyLimitOvershoot
<1> QED
  BY <1>1, CrowdInvariant, PTL

\* A rule gives row its award: of the sessions S, as rows shows them, none ended
\* in its cooldown, and fewer than it allows on the same day and in the same
\* month.
Allowed(row, rows, S) ==
  LET rule == GameRules[row.award]
  IN  /\ \A x \in S : rows[x].ended < row.ended - rule.cooldown
      /\ Cardinality({x \in S : G!Day(rows[x].ended) = G!Day(row.ended)}) < rule.dailyMax
      /\ Cardinality({x \in S : G!Month(rows[x].ended) = G!Month(row.ended)}) < rule.monthlyMax

Ended == {s \in G!Rows : session[s].status = "ended"}
EndedBefore(t) == {s \in Ended : session[s].ended < t}

\* The row an end is about to write is the last to end, and its award is
\* allowed by all the others; nobody else writes until it has.
LimitsInv ==
  /\ \A s \in Ended : session[s].ended <= clock
  /\ \A q \in calls : Ending(q) =>
       /\ q.result.status = "ended" =>
            q.result.ended <= clock /\ \A s \in Ended : session[s].ended <= q.result.ended
       /\ q.result.award # None => Allowed(q.result, session, Ended \ {q.session})
  /\ \A s \in G!Rows : session[s].award # None =>
       /\ Allowed(session[s], session, EndedBefore(session[s].ended))
       /\ \A x \in G!Rows \ {s} : session[x].award # None => session[x].ended # session[s].ended

\* What a rule allows of some sessions, it allows of fewer.
LEMMA AllowedOfFewer ==
  ASSUME NEW row, row.award \in 1..Len(GameRules), NEW rows, NEW new,
         NEW S \in SUBSET G!Sessions, NEW U \in SUBSET S,
         \A x \in U : new[x].ended = rows[x].ended,
         Allowed(row, rows, S)
  PROVE  Allowed(row, new, U)
<1> DEFINE rule == GameRules[row.award]
<1>1. rule \in G!Rule
  BY GamesConstants, ElementOfSeq
<1>2. rule.dailyMax \in Nat /\ rule.monthlyMax \in Nat
  BY <1>1 DEF G!Rule
<1>3. \A x \in U : new[x].ended < row.ended - rule.cooldown
  BY DEF Allowed
<1>4. Cardinality({x \in U : G!Day(new[x].ended) = G!Day(row.ended)}) < rule.dailyMax
  <2> DEFINE few == {x \in U : G!Day(new[x].ended) = G!Day(row.ended)}
             many == {x \in S : G!Day(rows[x].ended) = G!Day(row.ended)}
  <2>1. few \subseteq many /\ many \subseteq G!Sessions
    OBVIOUS
  <2>2. Cardinality(many) < rule.dailyMax
    BY DEF Allowed
  <2> HIDE DEF few, many, rule
  <2>3. Cardinality(few) <= Cardinality(many) /\ Cardinality(few) \in Nat
        /\ Cardinality(many) \in Nat
    BY <2>1, FiniteSessions, FewerCalls
  <2>4. Cardinality(few) < rule.dailyMax
    BY <1>2, <2>2, <2>3
  <2> QED
    BY <2>4 DEF few
<1>5. Cardinality({x \in U : G!Month(new[x].ended) = G!Month(row.ended)}) < rule.monthlyMax
  <2> DEFINE few == {x \in U : G!Month(new[x].ended) = G!Month(row.ended)}
             many == {x \in S : G!Month(rows[x].ended) = G!Month(row.ended)}
  <2>1. few \subseteq many /\ many \subseteq G!Sessions
    OBVIOUS
  <2>2. Cardinality(many) < rule.monthlyMax
    BY DEF Allowed
  <2> HIDE DEF few, many, rule
  <2>3. Cardinality(few) <= Cardinality(many) /\ Cardinality(few) \in Nat
        /\ Cardinality(many) \in Nat
    BY <2>1, FiniteSessions, FewerCalls
  <2>4. Cardinality(few) < rule.monthlyMax
    BY <1>2, <2>2, <2>3
  <2> QED
    BY <2>4 DEF few
<1> QED
  BY <1>3, <1>4, <1>5 DEF Allowed

\* The award of a row that is about to be written names a rule, as do those of
\* the rows.
LEMMA AwardsAreRules ==
  ASSUME GamesInv
  PROVE  /\ \A s \in G!Rows : session[s].award # None => session[s].award \in 1..Len(GameRules)
         /\ \A q \in calls : Ending(q) /\ q.result.award # None
              => q.result.award \in 1..Len(GameRules)
<1>1. \A row \in G!SessionRow : row.award # None => row.award \in 1..Len(GameRules)
  BY DEF G!SessionRow
<1>2. \A s \in G!Rows : session[s] \in G!SessionRow
  BY DEF GamesInv, G!TypeOK, G!Rows
<1>3. \A q \in calls : Ending(q) => q.result \in G!SessionRow
  BY DEF GamesInv, CallsKnown
<1> QED
  BY <1>1, <1>2, <1>3

LEMMA LimitsInit == G!Init => LimitsInv
<1> SUFFICES ASSUME G!Init PROVE LimitsInv
  OBVIOUS
<1>1. G!Rows = {} /\ calls = {}
  BY DEF G!Init, G!Rows
<1> QED
  BY <1>1 DEF LimitsInv, Ended

\* A step that changes no row, adds at most active ones, and has nobody else
\* about to close one.
LEMMA LimitsQuiet ==
  ASSUME GamesInv, CrowdInv, LimitsInv, clock' \in G!Times, clock <= clock',
         \A s \in G!Rows : s \in G!Rows' /\ session'[s] = session[s],
         \A s \in G!Rows' \ G!Rows : session'[s].status = "active" /\ session'[s].award = None,
         \A q \in calls' : Ending(q) => q \in calls
  PROVE  LimitsInv'
<1>1. Ended' = Ended /\ Ended \subseteq G!Rows /\ Ended \subseteq G!Sessions
  BY RowsAreSessions DEF Ended
<1>2. \A s \in Ended : session'[s] = session[s]
  BY <1>1
<1>3. clock \in Int /\ clock' \in Int /\ \A t \in G!Times : t \in Int
  BY GamesConstants DEF G!Times, GamesInv, G!TypeOK
<1>4. \A s \in Ended' : session'[s].ended <= clock'
  <2> SUFFICES ASSUME NEW s \in Ended PROVE session[s].ended <= clock'
    BY <1>1, <1>2
  <2>1. session[s].ended \in Int /\ session[s].ended <= clock
    BY <1>3 DEF LimitsInv, CrowdInv, SettledInv, Settled, Ended
  <2> QED
    BY <1>3, <2>1
<1>5. ASSUME NEW q \in calls', Ending(q)
      PROVE  /\ q.result.status = "ended" =>
                  q.result.ended <= clock' /\ \A s \in Ended' : session'[s].ended <= q.result.ended
             /\ q.result.award # None => Allowed(q.result, session', Ended' \ {q.session})
  <2>1. q \in calls
    BY <1>5
  <2>2. ASSUME q.result.status = "ended"
        PROVE  q.result.ended <= clock' /\ \A s \in Ended' : session'[s].ended <= q.result.ended
    <3>1. q.result.ended \in Int /\ q.result.ended <= clock
          /\ \A s \in Ended : session[s].ended <= q.result.ended
      BY <1>3, <1>5, <2>1, <2>2 DEF LimitsInv, CrowdInv, SettledInv, Settled
    <3> QED
      BY <1>1, <1>2, <1>3, <3>1
  <2>3. ASSUME q.result.award # None
        PROVE  Allowed(q.result, session', Ended' \ {q.session})
    <3>1. Allowed(q.result, session, Ended \ {q.session})
      BY <1>5, <2>1, <2>3 DEF LimitsInv
    <3>2. q.result.award \in 1..Len(GameRules)
      BY <1>5, <2>1, <2>3, AwardsAreRules
    <3>3. Ended \ {q.session} \subseteq G!Sessions
          /\ \A x \in Ended \ {q.session} : session'[x].ended = session[x].ended
      BY <1>1, <1>2
    <3>4. Allowed(q.result, session', Ended \ {q.session})
      BY <3>1, <3>2, <3>3, AllowedOfFewer
    <3> QED
      BY <1>1, <3>4
  <2> QED
    BY <2>2, <2>3
<1>6. ASSUME NEW s \in G!Rows', session'[s].award # None
      PROVE  /\ Allowed(session'[s], session', {x \in Ended' : session'[x].ended < session'[s].ended})
             /\ \A x \in G!Rows' \ {s} :
                  session'[x].award # None => session'[x].ended # session'[s].ended
  <2>1. s \in G!Rows /\ session'[s] = session[s] /\ session[s].award # None
    BY <1>6
  <2>2. \A x \in G!Rows' \ {s} : session'[x].award # None => session'[x].ended # session'[s].ended
    BY <2>1 DEF LimitsInv
  <2>3. {x \in Ended' : session'[x].ended < session'[s].ended} = EndedBefore(session[s].ended)
    BY <1>1, <1>2, <2>1 DEF EndedBefore
  <2>4. Allowed(session[s], session, EndedBefore(session[s].ended))
    BY <2>1 DEF LimitsInv
  <2>5. session[s].award \in 1..Len(GameRules)
    BY <2>1, AwardsAreRules
  <2>6. EndedBefore(session[s].ended) \subseteq G!Sessions
        /\ \A x \in EndedBefore(session[s].ended) : session'[x].ended = session[x].ended
    BY <1>1, <1>2 DEF EndedBefore
  <2>7. Allowed(session[s], session', EndedBefore(session[s].ended))
    BY <2>4, <2>5, <2>6, AllowedOfFewer
  <2> QED
    BY <2>1, <2>2, <2>3, <2>7
<1> QED
  BY <1>4, <1>5, <1>6 DEF LimitsInv, EndedBefore, Ending

\* An end reads the others as they stand, and is the only one to write next.
LEMMA EndReadsKeepsLimits ==
  ASSUME GamesInv, CrowdInv, LimitsInv, NEW q \in calls, G!EndReads(q)
  PROVE  LimitsInv'
<1> DEFINE new == [q EXCEPT !.at = "read", !.result = G!Closed(q.session, q.score)]
<1>1. /\ q.kind = "end"
      /\ \A p \in calls : ~Ending(p)
      /\ \/ calls' = calls \ {q}
         \/ /\ calls' = (calls \ {q}) \cup {new}
            /\ session[q.session].status = "active"
      /\ UNCHANGED <<session, clock>>
  BY DEF G!EndReads, G!Decides, G!Ends, Ending
<1>2. q \in G!Call /\ q.session \in G!Rows
  BY <1>1 DEF GamesInv, G!TypeOK, CallsKnown
<1>3. new.session = q.session /\ new.result = G!Closed(q.session, q.score)
  BY <1>2 DEF G!Call
<1>4. /\ Settled(new.result)
      /\ new.result.ended = clock
      /\ new.result.award # None =>
           /\ new.result.award \in 1..Len(GameRules)
           /\ G!RuleAvailable(GameRules[new.result.award], q.session)
  BY <1>2, <1>3, ClosedCrowd
<1> HIDE DEF new
<1>5. G!Rows' = G!Rows /\ Ended' = Ended /\ clock \in G!Times /\ clock <= clock
      /\ clock \in Int
  BY <1>1, GamesConstants DEF G!Rows, Ended, GamesInv, G!TypeOK, G!Times
<1>6. CASE calls' = calls \ {q}
  BY <1>1, <1>5, <1>6, LimitsQuiet
<1>7. CASE calls' = (calls \ {q}) \cup {new}
  <2>1. \A p \in calls' : Ending(p) => p = new
    BY <1>1, <1>7
  <2>2. new.result.award # None => Allowed(new.result, session, Ended \ {q.session})
    <3>1. SUFFICES ASSUME new.result.award # None
                   PROVE  Allowed(new.result, session, Ended \ {q.session})
      OBVIOUS
    <3>2. Ended \ {q.session} = G!EndedOthers(q.session)
      BY DEF Ended, G!EndedOthers
    <3> QED
      BY <1>4, <3>1, <3>2, SameCount DEF Allowed, G!RuleAvailable
  <2>3. \A s \in Ended : session[s].ended <= clock
    BY DEF LimitsInv
  <2>4. \A s \in G!Rows : session[s].award # None =>
          /\ Allowed(session[s], session, EndedBefore(session[s].ended))
          /\ \A x \in G!Rows \ {s} : session[x].award # None => session[x].ended # session[s].ended
    BY DEF LimitsInv
  <2>5. \A t : EndedBefore(t)' = EndedBefore(t)
    BY <1>1, <1>5 DEF EndedBefore
  <2>6. (\A q_1 \in calls : Ending(q_1) =>
          /\ q_1.result.status = "ended" =>
               q_1.result.ended <= clock /\ \A s \in Ended : session[s].ended <= q_1.result.ended
          /\ q_1.result.award # None => Allowed(q_1.result, session, Ended \ {q_1.session}))'
    BY <1>1, <1>3, <1>4, <1>5, <2>1, <2>2, <2>3
  <2>7. (\A s \in G!Rows : session[s].award # None =>
          /\ Allowed(session[s], session, EndedBefore(session[s].ended))
          /\ \A x \in G!Rows \ {s} : session[x].award # None => session[x].ended # session[s].ended)'
    BY <1>1, <1>5, <2>4 DEF EndedBefore
  <2> QED
    BY <1>1, <1>5, <2>3, <2>6, <2>7 DEF LimitsInv
<1> QED
  BY <1>1, <1>6, <1>7

\* What is written ended last: it was allowed by all that ended before, and
\* none of them counts it.
LEMMA EndCommitsKeepsLimits ==
  ASSUME GamesInv, CrowdInv, LimitsInv, NEW q \in calls, G!EndCommits(q)
  PROVE  LimitsInv'
<1> DEFINE row == q.result
<1>1. /\ Ending(q) /\ session' = [session EXCEPT ![q.session] = row]
      /\ calls' = calls \ {q} /\ UNCHANGED clock
  BY DEF G!EndCommits, Ending
<1>2. /\ q.session \in G!Rows /\ session[q.session].status = "active"
      /\ row \in G!SessionRow /\ row # None /\ Settled(row)
  BY <1>1, GamesConstants DEF GamesInv, CallsKnown, Ending, CrowdInv, SettledInv
<1>3. /\ session'[q.session] = row
      /\ \A s \in G!Rows \ {q.session} : session'[s] = session[s]
      /\ G!Rows' = G!Rows
  <2>1. session'[q.session] = row
        /\ \A s \in G!Sessions \ {q.session} : session'[s] = session[s]
    BY <1>1, <1>2 DEF GamesInv, G!TypeOK, G!Rows
  <2> QED
    BY <1>2, <2>1 DEF G!Rows
<1>4. \A p \in calls' : ~Ending(p)
  BY <1>1 DEF GamesInv, OneEnding
<1>5. /\ q.session \notin Ended /\ Ended \subseteq G!Sessions /\ Ended \subseteq G!Rows
      /\ \A s \in Ended : session'[s] = session[s]
      /\ Ended' = IF row.status = "ended" THEN Ended \cup {q.session} ELSE Ended
  BY <1>2, <1>3, RowsAreSessions DEF Ended
<1>6. /\ row.status = "ended" =>
           row.ended <= clock /\ \A s \in Ended : session[s].ended <= row.ended
      /\ row.award # None => Allowed(row, session, Ended) /\ row.award \in 1..Len(GameRules)
  BY <1>1, <1>5, AwardsAreRules DEF LimitsInv
<1>7. /\ clock \in Int
      /\ \A s \in Ended : session[s].ended \in Int
      /\ row.status = "ended" => row.ended \in Int
  <2>1. clock \in Int /\ \A t \in G!Times : t \in Int
    BY GamesConstants DEF G!Times, GamesInv, G!TypeOK
  <2> QED
    BY <1>2, <2>1 DEF CrowdInv, SettledInv, Settled, Ended
<1> HIDE DEF row
<1>8. \A s \in Ended' : session'[s].ended <= clock
  BY <1>3, <1>5, <1>6 DEF LimitsInv
<1>9. ASSUME row.award # None PROVE \A s \in Ended : session[s].ended < row.ended
  <2>1. row.status = "ended"
    BY <1>2, <1>9 DEF Settled
  <2>2. GameRules[row.award].cooldown \in Nat
    <3>1. GameRules[row.award] \in G!Rule
      BY <1>6, <1>9, GamesConstants, ElementOfSeq
    <3> QED
      BY <3>1 DEF G!Rule
  <2>3. \A s \in Ended : session[s].ended < row.ended - GameRules[row.award].cooldown
    BY <1>6, <1>9 DEF Allowed
  <2> QED
    BY <1>7, <2>1, <2>2, <2>3
<1>10. ASSUME NEW s \in G!Rows, session'[s].award # None
       PROVE  /\ Allowed(session'[s], session', EndedBefore(session[s].ended)')
              /\ \A x \in G!Rows \ {s} :
                   session'[x].award # None => session'[x].ended # session'[s].ended
  <2>1. EndedBefore(session[s].ended)' = {x \in Ended' : session'[x].ended < session'[s].ended}
    BY DEF EndedBefore
  <2>2. ASSUME NEW x \in G!Rows, x # q.session, session[x].award # None PROVE x \in Ended
    BY <2>2 DEF CrowdInv, SettledInv, Settled, Ended
  <2>3. CASE s = q.session
    <3>1. session'[s] = row /\ row.award # None /\ row.award \in 1..Len(GameRules)
          /\ Allowed(row, session, Ended)
      BY <1>3, <1>6, <1>10, <2>3
    <3>2. EndedBefore(session[s].ended)' \subseteq Ended
      BY <1>5, <1>7, <1>2, <2>1, <2>3, <3>1 DEF Settled
    <3>3. \A x \in EndedBefore(session[s].ended)' : session'[x].ended = session[x].ended
      BY <1>5, <3>2
    <3> HIDE DEF EndedBefore
    <3>4. Allowed(row, session', EndedBefore(session[s].ended)')
      BY <1>5, <3>1, <3>2, <3>3, AllowedOfFewer
    <3>5. \A x \in G!Rows \ {s} : session'[x].award # None => session'[x].ended # session'[s].ended
      <4> SUFFICES ASSUME NEW x \in G!Rows \ {s}, session'[x].award # None
                   PROVE  session'[x].ended # session'[s].ended
        OBVIOUS
      <4>1. session'[x] = session[x] /\ x \in Ended
        BY <1>3, <2>2, <2>3
      <4>2. session[x].ended < row.ended /\ session[x].ended \in Int /\ row.ended \in Int
        BY <1>2, <1>7, <1>9, <3>1, <4>1 DEF Settled
      <4> QED
        BY <3>1, <4>1, <4>2
    <3> QED
      BY <3>1, <3>4, <3>5
  <2>4. CASE s # q.session
    <3>1. session'[s] = session[s] /\ session[s].award # None /\ s \in Ended
          /\ session[s].award \in 1..Len(GameRules)
      BY <1>3, <1>10, <2>2, <2>4, AwardsAreRules
    <3>2. Allowed(session[s], session, EndedBefore(session[s].ended))
          /\ \A x \in G!Rows \ {s} : session[x].award # None => session[x].ended # session[s].ended
      BY <3>1 DEF LimitsInv
    <3>3. EndedBefore(session[s].ended)' = EndedBefore(session[s].ended)
      <4>1. ASSUME row.status = "ended" PROVE ~(row.ended < session[s].ended)
        BY <1>6, <1>7, <3>1, <4>1
      <4> QED
        BY <1>3, <1>5, <2>1, <3>1, <4>1 DEF EndedBefore
    <3>4. EndedBefore(session[s].ended) \subseteq G!Sessions
          /\ \A x \in EndedBefore(session[s].ended) : session'[x].ended = session[x].ended
      BY <1>5 DEF EndedBefore
    <3>5. Allowed(session[s], session', EndedBefore(session[s].ended))
      BY <3>1, <3>2, <3>4, AllowedOfFewer
    <3>6. \A x \in G!Rows \ {s} : session'[x].award # None => session'[x].ended # session'[s].ended
      <4> SUFFICES ASSUME NEW x \in G!Rows \ {s}, session'[x].award # None
                   PROVE  session'[x].ended # session'[s].ended
        OBVIOUS
      <4>1. CASE x = q.session
        <5>1. session'[x] = row /\ row.award # None
          BY <1>3, <4>1
        <5>2. session[s].ended < row.ended /\ session[s].ended \in Int /\ row.ended \in Int
          BY <1>2, <1>7, <1>9, <3>1, <5>1 DEF Settled
        <5> QED
          BY <3>1, <5>1, <5>2
      <4>2. CASE x # q.session
        BY <1>3, <3>1, <3>2, <4>2
      <4> QED
        BY <4>1, <4>2
    <3> QED
      BY <3>1, <3>3, <3>5, <3>6
  <2> QED
    BY <2>3, <2>4
<1> QED
  BY <1>1, <1>3, <1>4, <1>8, <1>10 DEF LimitsInv, EndedBefore

LEMMA LimitsNext == GamesInv /\ CrowdInv /\ LimitsInv /\ [G!Next]_(G!vars) => LimitsInv'
<1> SUFFICES ASSUME GamesInv, CrowdInv, LimitsInv, [G!Next]_(G!vars) PROVE LimitsInv'
  OBVIOUS
<1>1. clock \in G!Times /\ clock \in Int /\ clock <= clock
  BY GamesConstants DEF GamesInv, G!TypeOK, G!Times
<1>2. ASSUME UNCHANGED <<session, clock>>, \A q \in calls' : Ending(q) => q \in calls
      PROVE  LimitsInv'
  <2>1. G!Rows' = G!Rows
    BY <1>2 DEF G!Rows
  <2> QED
    BY <1>1, <1>2, <2>1, LimitsQuiet
<1>3. ASSUME NEW c \in Clients, G!StartGame(c) PROVE LimitsInv'
  <2>1. \A q \in calls' : Ending(q) => q \in calls
    BY <1>3 DEF G!StartGame, G!Request, Ending
  <2> QED
    BY <1>2, <1>3, <2>1 DEF G!StartGame
<1>4. ASSUME NEW c \in Clients, NEW scored \in Scores, G!FinishGame(c, scored) PROVE LimitsInv'
  <2>1. \A q \in calls' : Ending(q) => q \in calls
    BY <1>4 DEF G!FinishGame, G!Request, Ending
  <2> QED
    BY <1>2, <1>4, <2>1 DEF G!FinishGame
<1>5. ASSUME NEW q \in calls, G!HostReceives(q) \/ G!Lost(q) PROVE LimitsInv'
  BY <1>2, <1>5 DEF G!HostReceives, G!Lost
<1>6. ASSUME NEW q \in calls, G!StartReads(q) \/ G!StartRefused(q) PROVE LimitsInv'
  <2>1. q.kind = "start" /\ q \in G!Call
    BY <1>6 DEF G!StartReads, G!StartRefused, GamesInv, G!TypeOK
  <2>2. \A at \in {"sent", "read", "answered"} : [q EXCEPT !.at = at].kind = "start"
    BY <2>1 DEF G!Call
  <2>3. \E at \in {"sent", "read", "answered"} : calls' = (calls \ {q}) \cup {[q EXCEPT !.at = at]}
    BY <1>6 DEF G!StartReads, G!StartRefused, G!Moved
  <2>4. \A p \in calls' : Ending(p) => p \in calls
    BY <2>2, <2>3 DEF Ending
  <2> QED
    BY <1>2, <1>6, <2>4 DEF G!StartReads, G!StartRefused
<1>7. ASSUME NEW q \in calls, G!StartInserts(q) PROVE LimitsInv'
  <2> DEFINE n == Cardinality(G!Rows) + 1
             row == [status |-> "active", started |-> clock, ended |-> None, score |-> None,
                     award |-> None]
             new == [q EXCEPT !.at = "answered", !.session = n]
  <2>1. /\ q.kind = "start" /\ Cardinality(G!Rows) < MaxSessions
        /\ session' = [session EXCEPT ![n] = row]
        /\ calls' = (calls \ {q}) \cup {new} /\ UNCHANGED clock
    BY <1>7, SameCount DEF G!StartInserts, G!Moved
  <2>2. n \in G!Sessions /\ n \notin G!Rows
    <3>1. G!Rows = 1..Cardinality(G!Rows) /\ Cardinality(G!Rows) \in 0..MaxSessions
          /\ n \in G!Sessions
      BY <2>1, NextRow
    <3> QED
      BY <3>1, GamesConstants
  <2>3. row.status = "active" /\ row.award = None /\ row # None
    BY GamesConstants DEF G!SessionRow, GamesInv, G!TypeOK
  <2>4. \A p \in calls' : Ending(p) => p \in calls
    <3>1. new.kind = "start"
      BY <2>1 DEF GamesInv, G!TypeOK, G!Call
    <3> HIDE DEF new
    <3> QED
      BY <2>1, <3>1 DEF Ending
  <2> HIDE DEF n, row, new
  <2>5. /\ session'[n] = row
        /\ \A s \in G!Sessions \ {n} : session'[s] = session[s]
        /\ G!Rows' = G!Rows \cup {n}
    <3>1. session'[n] = row /\ \A s \in G!Sessions \ {n} : session'[s] = session[s]
      BY <2>1, <2>2 DEF GamesInv, G!TypeOK
    <3> QED
      BY <2>2, <2>3, <3>1 DEF G!Rows
  <2>6. \A s \in G!Rows : s \in G!Rows' /\ session'[s] = session[s]
    BY <2>2, <2>5, RowsAreSessions
  <2> QED
    BY <1>1, <2>1, <2>3, <2>4, <2>5, <2>6, LimitsQuiet
<1>8. CASE G!Tick
  <2>1. clock' \in G!Times /\ clock <= clock'
    BY <1>1, <1>8, GamesConstants DEF G!Tick, G!Times
  <2>2. G!Rows' = G!Rows
    BY <1>8 DEF G!Tick, G!Rows
  <2> QED
    BY <1>8, <2>1, <2>2, LimitsQuiet DEF G!Tick
<1>9. CASE UNCHANGED G!vars
  BY <1>2, <1>9 DEF G!vars
<1> QED
  BY <1>3, <1>4, <1>5, <1>6, <1>7, <1>8, <1>9, EndReadsKeepsLimits, EndCommitsKeepsLimits
     DEF G!Next

LEMMA LimitsInvariant == G!Spec => []LimitsInv
BY LimitsInit, LimitsNext, GamesInvariant, CrowdInvariant, PTL DEF G!Spec

\* No rule pays a session within its cooldown, nor beyond its counts of the day
\* and the month: an end counts the others while it holds the user's row.
THEOREM LimitsOfRulesAreKept == G!Spec => []G!RewardLimitsKept
<1>1. LimitsInv => G!RewardLimitsKept
  <2> SUFFICES ASSUME LimitsInv, NEW s \in G!Rows, session[s].award # None
               PROVE  LET rule == GameRules[session[s].award]
                          t == session[s].ended
                          earlier == {x \in G!Rows : session[x].status = "ended" /\ session[x].ended < t}
                      IN  /\ \A x \in earlier : session[x].ended < t - rule.cooldown
                          /\ G!Cardinality({x \in earlier : G!Day(session[x].ended) = G!Day(t)}) < rule.dailyMax
                          /\ G!Cardinality({x \in earlier : G!Month(session[x].ended) = G!Month(t)})
                               < rule.monthlyMax
                          /\ \A x \in G!Rows \ {s} : session[x].award # None => session[x].ended # t
    BY DEF G!RewardLimitsKept
  <2>1. EndedBefore(session[s].ended)
          = {x \in G!Rows : session[x].status = "ended" /\ session[x].ended < session[s].ended}
    BY DEF EndedBefore, Ended
  <2>2. /\ Allowed(session[s], session, EndedBefore(session[s].ended))
        /\ \A x \in G!Rows \ {s} : session[x].award # None => session[x].ended # session[s].ended
    BY DEF LimitsInv
  <2> QED
    BY <2>1, <2>2, SameCount DEF Allowed
<1> QED
  BY <1>1, LimitsInvariant, PTL

-----------------------------------------------------------------------------
(* Tap target                                                              *)

\* What is proved is inductive with the clock of a running round, which has
\* not come to its end, and with the targets, none older than the round.
TapInv ==
  /\ T!TapSound
  /\ tapRunning => tapTime > 0 /\ tapRound > 0
  /\ made \in 0..MaxTargets /\ before \in 0..made
  /\ target # None => target \in 1..made

LEMMA TapInit == T!Init => TapInv
BY TapConstants
   DEF T!Init, TapInv, T!TapSound, T!TypeOK, T!ScoreIsEarned, T!TargetIsNewest, T!RoundsEndOnce

LEMMA TapNext == TapInv /\ [T!Next]_(T!vars) => TapInv'
<1> SUFFICES ASSUME TapInv, [T!Next]_(T!vars) PROVE TapInv'
  OBVIOUS
<1> USE TapConstants DEF TapInv, T!TapSound, T!TypeOK, T!ScoreIsEarned, T!TargetIsNewest,
        T!RoundsEndOnce
<1>1. CASE T!StartGame
  BY <1>1 DEF T!StartGame, T!MakeTarget
<1>2. CASE T!SessionFails
  BY <1>2 DEF T!SessionFails
<1>3. CASE T!Spawn
  BY <1>3 DEF T!Spawn, T!MakeTarget
<1>4. CASE T!Hit
  BY <1>4 DEF T!Hit
<1>5. CASE T!Tick
  BY <1>5 DEF T!Tick, T!EndGame
<1>6. ASSUME NEW i \in lifetimes, T!Expire(i) PROVE TapInv'
  BY <1>6 DEF T!Expire
<1>7. CASE UNCHANGED T!vars
  BY <1>7 DEF T!vars
<1> QED
  BY <1>1, <1>2, <1>3, <1>4, <1>5, <1>6, <1>7 DEF T!Next

\* No timer that outlives its target or its round takes a target away, and
\* every point was made in the round it is counted in.
THEOREM TapIsSound == T!Spec => []T!TapSound
<1>1. TapInv => T!TapSound
  BY DEF TapInv
<1> QED
  BY <1>1, TapInit, TapNext, PTL DEF T!Spec

-----------------------------------------------------------------------------
(* Memory match                                                            *)

LEMMA SameCountM == \A X : M!Cardinality(X) = Cardinality(X)
BY DEF M!Cardinality, Cardinality

\* The cards of the pending timers, and the card that waits for its pair.
Waiting == UNION {t.cards : t \in timers}
First == IF firstCard = None THEN {} ELSE {firstCard}

\* One timer at most is pending, and the card that waits for its pair shows,
\* is not matched and no timer's.
MemoryInv ==
  /\ M!TypeOK
  /\ matched \in Nat /\ IsFiniteSet(done) /\ Cardinality(done) = 2 * matched
  /\ matched <= moves /\ matched <= Cardinality(SYMBOLS)
  /\ memoryRound > 0 => (memoryRunning <=> matched < Cardinality(SYMBOLS))
  /\ memoryRound = 0 => ~ memoryRunning /\ matched = 0
  /\ memorySent <= IF memoryRunning THEN memoryRound - 1 ELSE memoryRound
  /\ \A t, s \in timers : t = s
  /\ \A t \in timers : /\ t.round = memoryRound /\ memoryRunning
                       /\ firstCard \notin t.cards /\ done \cap t.cards = {}
  /\ firstCard \notin done
  /\ lock <=> timers # {}
  /\ shown = done \union Waiting \union First

LEMMA SymbolsCount == Cardinality(SYMBOLS) \in Nat /\ Cardinality(SYMBOLS) > 0
BY FS_EmptySet, FS_CardinalityType, MemoryConstants

LEMMA MemoryInit == M!Init => MemoryInv
<1> SUFFICES ASSUME M!Init PROVE MemoryInv
  OBVIOUS
<1>1. M!TypeOK
  BY MemoryConstants DEF M!Init, M!TypeOK
<1> QED
  BY <1>1, FS_EmptySet, SymbolsCount DEF M!Init, MemoryInv, Waiting, First

\* A card that is turned was covered: it is neither matched, nor a timer's,
\* nor the one that waits.
LEMMA TurnedCard ==
  ASSUME MemoryInv, NEW c \in M!Cards, M!Revealed(c)
  PROVE  /\ memoryRunning /\ ~ lock /\ c \notin done /\ c # firstCard /\ timers = {}
         /\ shown = done \union First
         /\ shown' = shown \union {c} /\ UNCHANGED <<memoryConnected, memoryRound>>
         /\ c # None /\ memoryRound > 0 /\ matched < Cardinality(SYMBOLS)
<1>1. memoryRunning /\ ~ lock /\ c \notin shown /\ c \notin done /\ shown' = shown \union {c}
      /\ UNCHANGED <<memoryConnected, memoryRound>>
  BY DEF M!Revealed
<1>2. timers = {} /\ Waiting = {}
  BY <1>1 DEF MemoryInv, Waiting
<1>3. memoryRound > 0 /\ matched < Cardinality(SYMBOLS)
  BY <1>1 DEF MemoryInv, M!TypeOK
<1>4. shown = done \union First /\ firstCard \in First \union {None}
  BY <1>2 DEF MemoryInv, First
<1>5. c # None
  BY MemoryConstants
<1> QED
  BY <1>1, <1>2, <1>3, <1>4, <1>5

LEMMA RevealFirstKeepsInv ==
  ASSUME MemoryInv, NEW c \in M!Cards, M!RevealFirst(c)
  PROVE  MemoryInv'
<1>1. /\ firstCard = None /\ M!Revealed(c) /\ firstCard' = c
      /\ UNCHANGED <<done, lock, matched, moves, memoryRunning, timers, memorySent>>
  BY DEF M!RevealFirst
<1>2. /\ c \notin done /\ timers = {} /\ shown = done /\ shown' = shown \union {c}
      /\ UNCHANGED <<memoryConnected, memoryRound>> /\ c # None /\ ~ lock
  BY <1>1, TurnedCard DEF First
<1>3. M!TypeOK'
  BY <1>1, <1>2 DEF MemoryInv, M!TypeOK
<1>4. shown' = done' \union Waiting' \union First'
  BY <1>1, <1>2 DEF Waiting, First
<1> QED
  BY <1>1, <1>2, <1>3, <1>4 DEF MemoryInv

LEMMA RevealPairKeepsInv ==
  ASSUME MemoryInv, NEW c \in M!Cards, M!RevealPair(c)
  PROVE  MemoryInv'
<1>1. /\ firstCard # None /\ M!Revealed(c) /\ moves < MaxMoves
      /\ moves' = moves + 1 /\ matched' = matched + 1 /\ firstCard' = None
      /\ done' = done \union {firstCard, c}
      /\ memoryRunning' = (matched' # Cardinality(SYMBOLS))
      /\ memorySent' = IF memoryConnected /\ ~ memoryRunning' THEN memorySent + 1 ELSE memorySent
      /\ UNCHANGED <<lock, timers>>
  BY SameCountM DEF M!RevealPair, M!PAIR_COUNT
<1>2. /\ memoryRunning /\ ~ lock /\ c \notin done /\ c # firstCard /\ timers = {}
      /\ shown = done \union {firstCard} /\ shown' = shown \union {c}
      /\ UNCHANGED <<memoryConnected, memoryRound>> /\ c # None
      /\ memoryRound > 0 /\ matched < Cardinality(SYMBOLS)
  BY <1>1, TurnedCard DEF First
<1>3. firstCard \notin done /\ firstCard \in M!Cards /\ matched \in Nat /\ moves \in Nat
      /\ memoryRound \in Nat /\ memorySent \in Nat /\ memoryRound <= MemoryRounds
  BY <1>1, MemoryConstants DEF MemoryInv, M!TypeOK
<1>4. M!TypeOK'
  <2>1. moves' \in 0..MaxMoves
    BY <1>1, <1>3, MemoryConstants
  <2>2. memorySent' \in 0..MemoryRounds
    BY <1>1, <1>2, <1>3, MemoryConstants DEF MemoryInv
  <2> QED
    BY <1>1, <1>2, <1>3, <2>1, <2>2 DEF MemoryInv, M!TypeOK
<1>5. IsFiniteSet(done') /\ Cardinality(done') = 2 * matched'
  <2>1. /\ IsFiniteSet(done \union {firstCard})
        /\ Cardinality(done \union {firstCard}) = Cardinality(done) + 1
    BY <1>3, FS_AddElement DEF MemoryInv
  <2>2. c \notin done \union {firstCard} /\ done' = (done \union {firstCard}) \union {c}
    BY <1>1, <1>2
  <2>3. /\ IsFiniteSet(done')
        /\ Cardinality(done') = Cardinality(done \union {firstCard}) + 1
    BY <2>1, <2>2, FS_AddElement
  <2> QED
    BY <1>1, <1>3, <2>1, <2>3 DEF MemoryInv
<1>6. shown' = done' \union Waiting' \union First' /\ firstCard' \notin done'
  <2>1. Waiting' = {} /\ First' = {}
    BY <1>1, <1>2 DEF Waiting, First
  <2> QED
    BY <1>1, <1>2, <1>3, <2>1, MemoryConstants DEF MemoryInv, M!TypeOK
<1>7. /\ matched' \in Nat /\ matched' <= moves' /\ matched' <= Cardinality(SYMBOLS)
      /\ memoryRunning' <=> matched' < Cardinality(SYMBOLS)
      /\ memorySent' <= IF memoryRunning' THEN memoryRound' - 1 ELSE memoryRound'
  <2>1. matched <= moves /\ memorySent <= memoryRound - 1
    BY <1>2 DEF MemoryInv
  <2>2. matched' \in Nat /\ matched' <= moves' /\ matched' <= Cardinality(SYMBOLS)
    BY <1>1, <1>2, <1>3, <2>1, SymbolsCount
  <2>3. memoryRunning' <=> matched' < Cardinality(SYMBOLS)
    <3>1. (matched' # Cardinality(SYMBOLS)) <=> matched' < Cardinality(SYMBOLS)
      BY <2>2, SymbolsCount
    <3> QED
      BY <1>1, <3>1, Zenon
  <2>4. memorySent' <= IF memoryRunning' THEN memoryRound' - 1 ELSE memoryRound'
    BY <1>1, <1>2, <1>3, <2>1
  <2> QED
    BY <2>2, <2>3, <2>4
<1>8. memoryRound' > 0 /\ timers' = {} /\ ~ lock'
  BY <1>1, <1>2
<1> QED
  BY <1>3, <1>4, <1>5, <1>6, <1>7, <1>8 DEF MemoryInv

LEMMA RevealOtherKeepsInv ==
  ASSUME MemoryInv, NEW c \in M!Cards, M!RevealOther(c)
  PROVE  MemoryInv'
<1> DEFINE new == [cards |-> {firstCard, c}, round |-> memoryRound]
<1>1. /\ firstCard # None /\ M!Revealed(c) /\ moves < MaxMoves
      /\ moves' = moves + 1 /\ firstCard' = None /\ lock' = TRUE
      /\ timers' = timers \union {new}
      /\ UNCHANGED <<done, matched, memoryRunning, memorySent>>
  BY DEF M!RevealOther
<1>2. /\ memoryRunning /\ c \notin done /\ timers = {}
      /\ shown = done \union {firstCard} /\ shown' = shown \union {c}
      /\ UNCHANGED <<memoryConnected, memoryRound>> /\ c # None
  BY <1>1, TurnedCard DEF First
<1>3. firstCard \notin done /\ firstCard \in M!Cards /\ None \notin done
  BY <1>1, MemoryConstants DEF MemoryInv, M!TypeOK
<1>4. M!TypeOK'
  BY <1>1, <1>2, <1>3, MemoryConstants DEF MemoryInv, M!TypeOK
<1>5. timers' = {new} /\ new.cards = {firstCard, c} /\ new.round = memoryRound
  BY <1>1, <1>2
<1> HIDE DEF new
<1>6. Waiting' = {firstCard, c} /\ First' = {}
  BY <1>1, <1>5 DEF Waiting, First
<1>7. shown' = done' \union Waiting' \union First'
  BY <1>1, <1>2, <1>6
<1>8. \A t \in timers' : /\ t.round = memoryRound' /\ memoryRunning'
                         /\ firstCard' \notin t.cards /\ done' \cap t.cards = {}
  BY <1>1, <1>2, <1>3, <1>5
<1>9. (\A t, s \in timers' : t = s) /\ timers' # {} /\ lock'
  BY <1>1, <1>5
<1>10. matched' \in Nat /\ matched' <= moves'
  BY <1>1 DEF MemoryInv, M!TypeOK
<1> QED
  BY <1>1, <1>2, <1>3, <1>4, <1>7, <1>8, <1>9, <1>10 DEF MemoryInv

\* The timer covers its two cards and nothing else.
LEMMA CoverKeepsInv ==
  ASSUME MemoryInv, NEW t \in timers, M!Cover(t)
  PROVE  MemoryInv'
<1>1. /\ timers' = timers \ {t} /\ lock' = FALSE
      /\ shown' = IF t.round = memoryRound THEN shown \ t.cards ELSE shown
      /\ UNCHANGED <<done, firstCard, matched, moves, memoryRunning, memoryConnected,
                     memoryRound, memorySent>>
  BY DEF M!Cover
<1>2. timers = {t} /\ timers' = {}
  BY <1>1 DEF MemoryInv
<1>3. /\ t.round = memoryRound /\ firstCard \notin t.cards /\ done \cap t.cards = {}
      /\ Waiting = t.cards /\ Waiting' = {} /\ First' = First
  BY <1>1, <1>2 DEF MemoryInv, Waiting, First
<1>4. shown' = done' \union Waiting' \union First'
  <2>1. shown = done \union t.cards \union First /\ shown' = shown \ t.cards
    BY <1>1, <1>3 DEF MemoryInv
  <2>2. First \cap t.cards = {}
    BY <1>3 DEF First
  <2> QED
    BY <1>1, <1>3, <2>1, <2>2
<1>5. M!TypeOK'
  BY <1>1, <1>3 DEF MemoryInv, M!TypeOK
<1> QED
  BY <1>1, <1>2, <1>3, <1>4, <1>5 DEF MemoryInv

LEMMA MemoryNext == MemoryInv /\ [M!Next]_(M!vars) => MemoryInv'
<1> SUFFICES ASSUME MemoryInv, [M!Next]_(M!vars) PROVE MemoryInv'
  OBVIOUS
<1>1. CASE M!StartGame
  <2>1. timers = {}
    BY <1>1 DEF M!StartGame, MemoryInv
  <2>2. M!TypeOK'
    BY <1>1, MemoryConstants DEF M!StartGame, MemoryInv, M!TypeOK
  <2>3. /\ memoryRound' > 0 /\ memoryRunning' /\ matched' = 0 /\ moves' = 0 /\ done' = {}
        /\ timers' = {} /\ ~ lock' /\ shown' = {} /\ firstCard' = None
        /\ memorySent' <= memoryRound' - 1
    BY <1>1, <2>1 DEF M!StartGame, MemoryInv, M!TypeOK
  <2>4. IsFiniteSet(done') /\ Cardinality(done') = 2 * matched'
    <3>1. Cardinality(done') = 0 /\ IsFiniteSet(done')
      BY <2>3, FS_EmptySet, Zenon
    <3> QED
      BY <2>3, <3>1
  <2>5. Waiting' = {} /\ First' = {}
    BY <2>3 DEF Waiting, First
  <2> QED
    BY <2>2, <2>3, <2>4, <2>5, SymbolsCount DEF MemoryInv
<1>2. CASE M!SessionFails
  BY <1>2 DEF M!SessionFails, MemoryInv, M!TypeOK, Waiting, First
<1>3. CASE UNCHANGED M!vars
  BY <1>3 DEF M!vars, MemoryInv, M!TypeOK, Waiting, First
<1> QED
  BY <1>1, <1>2, <1>3, RevealFirstKeepsInv, RevealPairKeepsInv, RevealOtherKeepsInv,
     CoverKeepsInv DEF M!Next

\* For any number of pairs: no timer unlocks another round or covers a card
\* that was matched since; a round ends with every pair found, and the score
\* stays in its range.
THEOREM MemoryIsSound == M!Spec => []M!MemorySound
<1>1. MemoryInv => M!MemorySound
  <2> SUFFICES ASSUME MemoryInv PROVE M!MemorySound
    OBVIOUS
  <2>1. M!ShownIsAccountedFor
    <3>1. Cardinality(timers) <= 1
      <4>1. CASE timers = {}
        BY <4>1, FS_EmptySet
      <4>2. CASE timers # {}
        <5>1. PICK t \in timers : timers = {t}
          BY <4>2 DEF MemoryInv
        <5> QED
          BY <5>1, FS_Singleton
      <4> QED
        BY <4>1, <4>2
    <3>2. done \cap Waiting = {}
      BY DEF MemoryInv, Waiting
    <3>3. shown = done \union Waiting \union First
      BY DEF MemoryInv
    <3>4. \A t \in timers : t.round = memoryRound /\ memoryRunning
      BY DEF MemoryInv
    <3>5. (lock <=> timers # {}) /\ M!Cardinality(timers) <= 1
      BY <3>1, SameCountM DEF MemoryInv
    <3> QED
      BY <3>2, <3>3, <3>4, <3>5 DEF M!ShownIsAccountedFor, Waiting, First
  <2>2. M!Score \in 0..M!PAIR_COUNT * PerPair
    <3> DEFINE n == Cardinality(SYMBOLS)
               lost == (IF moves - n > 0 THEN moves - n ELSE 0) * PerMove
    <3>1. M!PAIR_COUNT = n
      BY SameCountM DEF M!PAIR_COUNT
    <3>2. /\ n \in Nat /\ moves \in Nat /\ matched \in Nat /\ matched <= n
          /\ PerPair \in Nat /\ PerMove \in Nat
      BY SymbolsCount, MemoryConstants DEF MemoryInv, M!TypeOK
    <3>3. M!Score = IF 0 > matched * PerPair - lost THEN 0 ELSE matched * PerPair - lost
      <4>1. M!Larger(0, moves - n) = IF moves - n > 0 THEN moves - n ELSE 0
        BY <3>2 DEF M!Larger
      <4> QED
        BY <3>1, <4>1 DEF M!Score, M!Larger
    <3> HIDE DEF n
    <3>4. lost \in Nat
      <4> DEFINE more == IF moves - n > 0 THEN moves - n ELSE 0
      <4>1. more \in Nat
        BY <3>2
      <4> HIDE DEF more
      <4>2. more * PerMove \in Nat
        BY <3>2, <4>1
      <4> QED
        BY <4>2 DEF more
    <3>5. matched * PerPair \in Nat /\ matched * PerPair <= n * PerPair /\ n * PerPair \in Nat
      <4>1. PICK k \in Nat : n = matched + k
        BY <3>2, n - matched \in Nat
      <4>2. n * PerPair = matched * PerPair + k * PerPair
        BY <3>2, <4>1
      <4>3. matched * PerPair \in Nat /\ k * PerPair \in Nat
        BY <3>2, <4>1
      <4> QED
        BY <4>2, <4>3
    <3> HIDE DEF lost
    <3> QED
      BY <3>1, <3>3, <3>4, <3>5
  <2>3. M!RoundsEndOnce
    <3>1. M!PAIR_COUNT = Cardinality(SYMBOLS)
      BY SameCountM DEF M!PAIR_COUNT
    <3> QED
      BY <2>2, <3>1, SameCountM DEF MemoryInv, M!RoundsEndOnce
  <2> QED
    BY <2>1, <2>3 DEF MemoryInv, M!MemorySound
<1> QED
  BY <1>1, MemoryInit, MemoryNext, PTL DEF M!Spec

-----------------------------------------------------------------------------
(* Snake                                                                   *)

\* Cells side by side: from one to the other is a direction.
Beside(a, b) == <<a[1] - b[1], a[2] - b[2]>> \in N!Directions

Path(b) ==
  /\ b \in Seq(N!Cells) /\ Len(b) >= 2
  /\ \A i, j \in 1..Len(b) : i # j => b[i] # b[j]
  /\ \A i \in 2..Len(b) : Beside(b[i - 1], b[i])

Numbers(c) == c[1] \in Int /\ c[2] \in Int
SumOf(h, c, d, n) == h[1] = c[1] + d[1] + n[1] /\ h[2] = c[2] + d[2] + n[2]
Back(d, n) == n[1] = 0 - d[1] /\ n[2] = 0 - d[2]

\* The snake came to its head by its direction, and may turn but not back.
Heading ==
  /\ body[1][1] = body[2][1] + direction[1] /\ body[1][2] = body[2][2] + direction[2]
  /\ ~ Back(direction, nextDirection)

\* NeckIsSafe is not inductive: it needs where the snake came from.
SnakeInv ==
  /\ N!TypeOK /\ N!RoundsEndOnce /\ N!NeckIsSafe
  /\ Path(body) /\ Len(body) = Len(Start) + snakeScore
  /\ food \in N!Cells \ N!ToSet(body)
  /\ snakeRunning => Heading /\ snakeTime > 0 /\ snakeRound > 0

LEMMA CellNumbers ==
  ASSUME NEW c \in N!Cells
  PROVE  c[1] \in Int /\ c[2] \in Int /\ c = <<c[1], c[2]>>
BY SnakeConstants DEF N!Cells

LEMMA DirectionNumbers ==
  ASSUME NEW d \in N!Directions
  PROVE  /\ d[1] \in Int /\ d[2] \in Int /\ d = <<d[1], d[2]>>
         /\ <<0 - d[1], 0 - d[2]>> \in N!Directions
<1>1. d \in {<<1, 0>>, <<0 - 1, 0>>, <<0, 1>>, <<0, 0 - 1>>}
  BY DEF N!Directions
<1>2. N!Directions = {<<1, 0>>, <<0 - 1, 0>>, <<0, 1>>, <<0, 0 - 1>>}
  BY DEF N!Directions
<1>3. CASE d = <<1, 0>>
  BY <1>2, <1>3
<1>4. CASE d = <<0 - 1, 0>>
  BY <1>2, <1>4
<1>5. CASE d = <<0, 1>>
  BY <1>2, <1>5
<1>6. CASE d = <<0, 0 - 1>>
  BY <1>2, <1>6
<1> QED
  BY <1>1, <1>3, <1>4, <1>5, <1>6

LEMMA ThereAndBack ==
  ASSUME NEW c, NEW d, NEW n, NEW h,
         Numbers(c), Numbers(d), Numbers(n), SumOf(h, c, d, n), h[1] = c[1], h[2] = c[2]
  PROVE  Back(d, n)
<1> SUFFICES ASSUME NEW i \in {1, 2} PROVE n[i] = 0 - d[i]
  BY Zenon DEF Back
<1>1. PICK a, m, k : a = c[i] /\ m = d[i] /\ k = n[i]
  OBVIOUS
<1>2. a \in Int /\ m \in Int /\ k \in Int /\ a = a + m + k
  <2>1. CASE i = 1
    BY <1>1, <2>1, Zenon DEF Numbers, SumOf
  <2>2. CASE i = 2
    BY <1>1, <2>2, Zenon DEF Numbers, SumOf
  <2> QED
    BY <2>1, <2>2
<1>3. k = 0 - m
  BY <1>2
<1> QED
  BY <1>1, <1>3, Zenon

LEMMA MovedBy ==
  ASSUME NEW a \in Int, NEW m \in Int, NEW z, z = a + m
  PROVE  z - a = m
OBVIOUS

Shifted(h, c, d) == h[1] = c[1] + d[1] /\ h[2] = c[2] + d[2]

\* A direction is what a head moved by.
LEMMA ShiftedBy ==
  ASSUME NEW h, NEW c, NEW d, Numbers(c), Numbers(d), Shifted(h, c, d)
  PROVE  h[1] - c[1] = d[1] /\ h[2] - c[2] = d[2]
<1>1. PICK a, m, z : a = c[1] /\ m = d[1] /\ z = h[1]
  OBVIOUS
<1>2. PICK b, k, y : b = c[2] /\ k = d[2] /\ y = h[2]
  OBVIOUS
<1>3. a \in Int /\ m \in Int /\ z = a + m /\ b \in Int /\ k \in Int /\ y = b + k
  BY <1>1, <1>2, Zenon DEF Numbers, Shifted
<1>4. z - a = m /\ y - b = k
  BY <1>3
<1> QED
  BY <1>1, <1>2, <1>4, Zenon

LEMMA StartIsAPath == Path(Start)
BY SnakeConstants DEF Path, Beside

CanMove(b, x, s) ==
  /\ Path(b) /\ x \in N!Cells /\ x \notin N!ToSet(b) /\ Beside(x, b[1])
  /\ s \in Seq(N!Cells) /\ Len(s) \in {Len(b) - 1, Len(b)}
  /\ \A i \in 1..Len(s) : s[i] = b[i]

Moved(b, x, s, p) ==
  /\ Path(p) /\ Len(p) = Len(s) + 1
  /\ p[1] = x /\ p[2] = b[1]
  /\ N!ToSet(p) \subseteq N!ToSet(b) \union {x}

\* A new head, in front of all of a path or of all but its last cell.
LEMMA MovedPath ==
  ASSUME NEW b, NEW x, NEW s, CanMove(b, x, s)
  PROVE  Moved(b, x, s, <<x>> \o s)
<1> DEFINE p == <<x>> \o s
<1>0. /\ Path(b) /\ x \in N!Cells /\ x \notin N!ToSet(b) /\ Beside(x, b[1])
      /\ s \in Seq(N!Cells) /\ Len(s) \in {Len(b) - 1, Len(b)}
      /\ \A i \in 1..Len(s) : s[i] = b[i]
  BY DEF CanMove
<1>1. <<x>> \in Seq(N!Cells) /\ Len(<<x>>) = 1 /\ <<x>>[1] = x
  BY <1>0
<1>2. /\ p \in Seq(N!Cells) /\ Len(p) = 1 + Len(s)
      /\ \A i \in 1..1 + Len(s) : p[i] = IF i <= 1 THEN <<x>>[i] ELSE s[i - 1]
  BY <1>0, <1>1, ConcatProperties
<1>3. Len(s) \in Nat /\ Len(b) \in Nat /\ Len(b) >= 2 /\ Len(s) <= Len(b) /\ Len(s) >= 1
  BY <1>0, LenProperties DEF Path
<1>4. DOMAIN p = 1..1 + Len(s) /\ DOMAIN b = 1..Len(b)
  BY <1>0, <1>2, LenProperties DEF Path
<1> HIDE DEF p
<1>5. p[1] = x
  BY <1>1, <1>2, <1>3
<1>6. \A i \in 2..1 + Len(s) : p[i] = b[i - 1] /\ i - 1 \in 1..Len(b)
  <2> SUFFICES ASSUME NEW i \in 2..1 + Len(s) PROVE p[i] = b[i - 1] /\ i - 1 \in 1..Len(b)
    OBVIOUS
  <2>1. i \in 1..1 + Len(s) /\ ~ (i <= 1) /\ i - 1 \in 1..Len(s) /\ i - 1 \in 1..Len(b)
    BY <1>3
  <2> QED
    BY <1>0, <1>2, <2>1
<1>7. \A i \in 1..Len(b) : b[i] # x
  BY <1>0, <1>4 DEF N!ToSet
<1>8. \A i, j \in 1..Len(p) : i # j => p[i] # p[j]
  <2> SUFFICES ASSUME NEW i \in 1..Len(p), NEW j \in 1..Len(p), i # j PROVE p[i] # p[j]
    OBVIOUS
  <2>1. (i = 1 \/ i \in 2..1 + Len(s)) /\ (j = 1 \/ j \in 2..1 + Len(s))
    BY <1>2, <1>3
  <2>2. CASE i = 1
    <3>1. j \in 2..1 + Len(s)
      BY <2>1, <2>2
    <3> QED
      BY <1>5, <1>6, <1>7, <2>2, <3>1
  <2>3. CASE j = 1
    <3>1. i \in 2..1 + Len(s)
      BY <2>1, <2>3
    <3> QED
      BY <1>5, <1>6, <1>7, <2>3, <3>1
  <2>4. CASE i \in 2..1 + Len(s) /\ j \in 2..1 + Len(s)
    <3>1. i - 1 # j - 1
      BY <1>3, <2>4
    <3>2. b[i - 1] # b[j - 1]
      BY <1>0, <1>6, <2>4, <3>1 DEF Path
    <3> QED
      BY <1>6, <2>4, <3>2
  <2> QED
    BY <2>1, <2>2, <2>3, <2>4
<1>9. \A i \in 2..Len(p) : Beside(p[i - 1], p[i])
  <2> SUFFICES ASSUME NEW i \in 2..Len(p) PROVE Beside(p[i - 1], p[i])
    OBVIOUS
  <2>1. i \in 2..1 + Len(s) /\ (i = 2 \/ i - 1 \in 2..1 + Len(s))
    BY <1>2, <1>3
  <2>2. CASE i = 2
    <3>1. p[i - 1] = x /\ p[i] = b[1]
      BY <1>5, <1>6, <2>1, <2>2
    <3> QED
      BY <1>0, <3>1
  <2>3. CASE i - 1 \in 2..1 + Len(s)
    <3>1. p[i] = b[i - 1] /\ p[i - 1] = b[i - 2] /\ i - 1 \in 2..Len(b) /\ i - 2 = (i - 1) - 1
      BY <1>3, <1>6, <2>1, <2>3
    <3>2. Beside(b[(i - 1) - 1], b[i - 1])
      BY <1>0, <3>1 DEF Path
    <3> QED
      BY <3>1, <3>2
  <2> QED
    BY <2>1, <2>2, <2>3
<1>10. Path(p)
  BY <1>2, <1>3, <1>8, <1>9 DEF Path
<1>11. p[2] = b[1] /\ Len(p) = Len(s) + 1
  BY <1>2, <1>3, <1>6
<1>12. N!ToSet(p) \subseteq N!ToSet(b) \union {x}
  <2> SUFFICES ASSUME NEW i \in 1..1 + Len(s) PROVE p[i] \in N!ToSet(b) \union {x}
    BY <1>4 DEF N!ToSet
  <2>1. i = 1 \/ i \in 2..1 + Len(s)
    BY <1>3
  <2> QED
    BY <1>4, <1>5, <1>6, <2>1 DEF N!ToSet
<1> QED
  BY <1>5, <1>10, <1>11, <1>12, Zenon DEF p, Moved

LEMMA SnakeInit == N!Init => SnakeInv
<1> SUFFICES ASSUME N!Init PROVE SnakeInv
  OBVIOUS
<1>1. body = Start /\ nextDirection = <<1, 0>> /\ Path(body)
  BY StartIsAPath DEF N!Init
<1>2. N!NeckIsSafe
  <2>1. Start[1] \in N!Cells /\ Start[2] \in N!Cells
    BY SnakeConstants, ElementOfSeq
  <2>2. N!NewHead[1] = Start[2][1] + 2
    BY <1>1, <2>1, CellNumbers, SnakeConstants DEF N!NewHead
  <2>3. N!NewHead # Start[2]
    BY <2>1, <2>2, CellNumbers
  <2> QED
    BY <1>1, <2>3 DEF N!NeckIsSafe
<1>3. N!TypeOK /\ N!RoundsEndOnce
  BY SnakeConstants DEF N!Init, N!TypeOK, N!RoundsEndOnce, N!Directions
<1>4. Len(body) = Len(Start) + snakeScore
  BY <1>1, LenProperties, SnakeConstants DEF N!Init
<1> QED
  BY <1>1, <1>2, <1>3, <1>4 DEF N!Init, SnakeInv

\* A snake that heads somewhere does not turn on its neck.
LEMMA HeadingIsSafe ==
  ASSUME Path(body), direction \in N!Directions, nextDirection \in N!Directions, Heading
  PROVE  N!NeckIsSafe
<1>1. body[1] \in N!Cells /\ body[2] \in N!Cells
  BY ElementOfSeq, LenProperties DEF Path
<1>2. /\ body[2][1] \in Int /\ body[2][2] \in Int /\ direction[1] \in Int /\ direction[2] \in Int
      /\ nextDirection[1] \in Int /\ nextDirection[2] \in Int
  BY <1>1, CellNumbers, DirectionNumbers
<1>3. /\ N!NewHead[1] = body[2][1] + direction[1] + nextDirection[1]
      /\ N!NewHead[2] = body[2][2] + direction[2] + nextDirection[2]
  BY DEF N!NewHead, Heading
<1>4. CASE N!NewHead[1] # body[2][1] \/ N!NewHead[2] # body[2][2]
  BY <1>4 DEF N!NeckIsSafe
<1>5. CASE N!NewHead[1] = body[2][1] /\ N!NewHead[2] = body[2][2]
  <2>1. /\ Numbers(body[2]) /\ Numbers(direction) /\ Numbers(nextDirection)
        /\ SumOf(N!NewHead, body[2], direction, nextDirection)
    BY <1>2, <1>3, Zenon DEF Numbers, SumOf
  <2>2. Back(direction, nextDirection)
    BY <1>5, <2>1, ThereAndBack, Zenon
  <2> QED
    BY <2>2 DEF Heading
<1> QED
  BY <1>4, <1>5

LEMMA SnakeStarts ==
  ASSUME SnakeInv, N!StartGame
  PROVE  SnakeInv'
<1>1. /\ ~ snakeRunning /\ snakeRound < SnakeRounds
      /\ body' = Start /\ direction' = <<1, 0>> /\ nextDirection' = <<1, 0>>
      /\ food' \in N!Cells \ N!ToSet(Start)
      /\ snakeScore' = 0 /\ snakeTime' = SnakeSeconds
      /\ snakeRunning' = TRUE /\ snakeRound' = snakeRound + 1
      /\ snakeIntervals' = snakeIntervals \union {<<"step", snakeRound'>>, <<"second", snakeRound'>>}
      /\ UNCHANGED <<snakeConnected, snakeSent>>
  BY DEF N!StartGame, N!Reset
<1>2. N!TypeOK' /\ N!RoundsEndOnce'
  BY <1>1, SnakeConstants DEF SnakeInv, N!TypeOK, N!RoundsEndOnce, N!Directions
<1>3. Heading'
  <2>1. /\ direction'[1] = 1 /\ direction'[2] = 0 /\ nextDirection'[1] = 1
        /\ ~ (1 = 0 - 1)
    BY <1>1
  <2>2. Start[1][1] = Start[2][1] + 1 /\ Start[1][2] = Start[2][2] /\ Start[2][2] \in Int
    <3>1. Start[2] \in N!Cells
      BY SnakeConstants, ElementOfSeq
    <3> QED
      BY <3>1, SnakeConstants, CellNumbers
  <2>3. /\ Start[1][1] = Start[2][1] + direction'[1]
        /\ Start[1][2] = Start[2][2] + direction'[2]
    BY <2>1, <2>2
  <2>4. ~ (nextDirection'[1] = 0 - direction'[1])
    BY <2>1
  <2> QED
    BY <1>1, <2>3, <2>4 DEF Heading, Back
<1>4. Path(body)'
  BY <1>1, StartIsAPath
<1>5. N!NeckIsSafe'
  <2>1. direction' \in N!Directions /\ nextDirection' \in N!Directions
    BY <1>2 DEF N!TypeOK
  <2>2. Start[1] \in N!Cells /\ Start[2] \in N!Cells
    BY SnakeConstants, ElementOfSeq
  <2>3. N!NewHead'[1] = Start[2][1] + 2
    BY <1>1, <2>2, CellNumbers, SnakeConstants DEF N!NewHead
  <2>4. N!NewHead' # Start[2]
    BY <2>2, <2>3, CellNumbers
  <2> QED
    BY <1>1, <2>4 DEF N!NeckIsSafe
<1>6. Len(body') = Len(Start) + snakeScore'
  BY <1>1, LenProperties, SnakeConstants
<1>7. snakeTime' > 0 /\ snakeRound' > 0
  BY <1>1, SnakeConstants DEF SnakeInv, N!TypeOK
<1> QED
  BY <1>1, <1>2, <1>3, <1>4, <1>5, <1>6, <1>7 DEF SnakeInv

\* What ends a round leaves the board as it is.
LEMMA SnakeStops ==
  ASSUME SnakeInv, snakeRunning, N!Finish, N!TypeOK',
         UNCHANGED <<body, nextDirection, food, snakeScore, snakeConnected, snakeRound>>
  PROVE  SnakeInv'
<1>1. N!RoundsEndOnce' /\ ~ snakeRunning'
  BY DEF N!Finish, SnakeInv, N!RoundsEndOnce, N!TypeOK
<1>2. N!NeckIsSafe'
  BY DEF SnakeInv, N!NeckIsSafe, N!NewHead
<1> QED
  BY <1>1, <1>2 DEF SnakeInv, Path

\* The snake moves on, or eats and grows.
LEMMA SnakeMoves ==
  ASSUME SnakeInv, snakeRunning, ~ N!Crashes, N!Plays,
         direction' = nextDirection, UNCHANGED <<nextDirection, snakeTime, snakeConnected, snakeRound>>,
         NEW s \in Seq(N!Cells), Len(s) \in {Len(body) - 1, Len(body)},
         \A i \in 1..Len(s) : s[i] = body[i],
         body' = <<N!NewHead>> \o s,
         food' \in N!Cells \ N!ToSet(body'),
         snakeScore' \in 0..MaxScore, snakeScore' = snakeScore + (Len(s) - (Len(body) - 1))
  PROVE  SnakeInv'
<1>1. N!NewHead \in N!Cells /\ N!NewHead \notin N!ToSet(body)
  BY DEF N!Crashes
<1>2. /\ direction \in N!Directions /\ nextDirection \in N!Directions /\ Heading
      /\ Path(body) /\ Len(body) = Len(Start) + snakeScore
  BY DEF SnakeInv, N!TypeOK
<1>3. body[1] \in N!Cells /\ Len(body) \in Nat /\ Len(s) \in Nat
  BY <1>2, ElementOfSeq, LenProperties DEF Path
<1>4. /\ N!NewHead[1] = body[1][1] + nextDirection[1] /\ N!NewHead[2] = body[1][2] + nextDirection[2]
  BY DEF N!NewHead
<1>5. Beside(N!NewHead, body[1])
  <2>1. /\ body[1][1] \in Int /\ body[1][2] \in Int
        /\ nextDirection[1] \in Int /\ nextDirection[2] \in Int
        /\ nextDirection = <<nextDirection[1], nextDirection[2]>>
    BY <1>2, <1>3, CellNumbers, DirectionNumbers
  <2>2. /\ N!NewHead[1] - body[1][1] = nextDirection[1]
        /\ N!NewHead[2] - body[1][2] = nextDirection[2]
    <3>1. Numbers(body[1]) /\ Numbers(nextDirection) /\ Shifted(N!NewHead, body[1], nextDirection)
      BY <1>4, <2>1, Zenon DEF Numbers, Shifted
    <3> QED
      BY <3>1, ShiftedBy, Zenon
  <2> QED
    BY <1>2, <2>1, <2>2, Zenon DEF Beside
<1>6. /\ Path(body') /\ Len(body') = Len(s) + 1
      /\ body'[1] = N!NewHead /\ body'[2] = body[1]
  <2>1. Path(body) /\ Len(s) \in {Len(body) - 1, Len(body)} /\ \A i \in 1..Len(s) : s[i] = body[i]
    BY <1>2
  <2>2. /\ Path(<<N!NewHead>> \o s) /\ Len(<<N!NewHead>> \o s) = Len(s) + 1
        /\ (<<N!NewHead>> \o s)[1] = N!NewHead /\ (<<N!NewHead>> \o s)[2] = body[1]
    <3>1. CanMove(body, N!NewHead, s)
      BY <1>1, <1>5, <2>1, Zenon DEF CanMove
    <3>2. Moved(body, N!NewHead, s, <<N!NewHead>> \o s)
      BY <3>1, MovedPath, Zenon
    <3> QED
      BY <3>2 DEF Moved
  <2> QED
    BY <2>2, Zenon
<1>7. Heading'
  <2>1. /\ body'[1][1] = body'[2][1] + direction'[1]
        /\ body'[1][2] = body'[2][2] + direction'[2]
    BY <1>4, <1>6
  <2>2. ~ Back(direction', nextDirection')
    <3>1. nextDirection \in {<<1, 0>>, <<0 - 1, 0>>, <<0, 1>>, <<0, 0 - 1>>}
      BY <1>2 DEF N!Directions
    <3>2. ~ Back(nextDirection, nextDirection)
      BY <3>1 DEF Back
    <3> QED
      BY <3>2
  <2> QED
    BY <2>1, <2>2 DEF Heading
<1>8. N!TypeOK' /\ N!RoundsEndOnce'
  BY DEF SnakeInv, N!TypeOK, N!RoundsEndOnce, N!Plays
<1>9. N!NeckIsSafe'
  <2>1. body'[2] \in N!Cells
    BY <1>3, <1>6
  <2>2. /\ body'[2][1] \in Int /\ body'[2][2] \in Int
        /\ direction'[1] \in Int /\ direction'[2] \in Int
        /\ nextDirection'[1] \in Int /\ nextDirection'[2] \in Int
    BY <1>2, <2>1, CellNumbers, DirectionNumbers
  <2>3. /\ N!NewHead'[1] = body'[2][1] + direction'[1] + nextDirection'[1]
        /\ N!NewHead'[2] = body'[2][2] + direction'[2] + nextDirection'[2]
    BY <1>7 DEF N!NewHead, Heading
  <2>4. CASE N!NewHead' = body'[2]
    <3>1. N!NewHead'[1] = body'[2][1] /\ N!NewHead'[2] = body'[2][2]
      BY <2>4
    <3>2. /\ Numbers(body'[2]) /\ Numbers(direction') /\ Numbers(nextDirection')
          /\ SumOf(N!NewHead', body'[2], direction', nextDirection')
      BY <2>2, <2>3, Zenon DEF Numbers, SumOf
    <3>3. Back(direction', nextDirection')
      BY <3>1, <3>2, ThereAndBack, Zenon
    <3> QED
      BY <1>7, <3>3 DEF Heading
  <2> QED
    BY <2>4 DEF N!NeckIsSafe
<1>10. Len(body') = Len(Start) + snakeScore'
  BY <1>2, <1>3, <1>6, LenProperties, SnakeConstants DEF SnakeInv, N!TypeOK
<1> QED
  BY <1>6, <1>7, <1>8, <1>9, <1>10 DEF SnakeInv, Path, N!Plays

LEMMA SnakeSteps ==
  ASSUME SnakeInv, N!Step
  PROVE  SnakeInv'
<1>1. /\ snakeRunning /\ direction' = nextDirection
      /\ UNCHANGED <<nextDirection, snakeTime, snakeConnected, snakeRound>>
  BY DEF N!Step
<1>2. body \in Seq(N!Cells) /\ Len(body) \in Nat /\ Len(body) >= 2
      /\ \A i \in 1..Len(body) : body[i] \in N!Cells
  BY LenProperties, ElementOfSeq DEF SnakeInv, Path
<1>3. CASE N!Crashes /\ N!Finish /\ UNCHANGED <<body, snakeScore, food>>
  <2>1. snakeSent' \in 0..SnakeRounds
    BY <1>1, <1>3, SnakeConstants DEF N!Finish, SnakeInv, N!TypeOK, N!RoundsEndOnce
  <2>2. N!TypeOK'
    BY <1>1, <1>3, <2>1 DEF SnakeInv, N!TypeOK
  <2> QED
    BY <1>1, <1>3, <2>2, SnakeStops
<1>4. CASE /\ ~ N!Crashes /\ N!NewHead = food /\ snakeScore < MaxScore
           /\ body' = <<N!NewHead>> \o body
           /\ snakeScore' = snakeScore + 1
           /\ food' \in N!Cells \ N!ToSet(body')
           /\ N!Plays
  <2>1. snakeScore' \in 0..MaxScore /\ snakeScore' = snakeScore + (Len(body) - (Len(body) - 1))
    BY <1>2, <1>4, SnakeConstants DEF SnakeInv, N!TypeOK
  <2> QED
    BY <1>1, <1>2, <1>4, <2>1, SnakeMoves
<1>5. CASE /\ ~ N!Crashes /\ N!NewHead # food
           /\ body' = <<N!NewHead>> \o N!Front(body)
           /\ N!Plays /\ UNCHANGED <<snakeScore, food>>
  <2> DEFINE s == N!Front(body)
  <2>1. /\ s \in Seq(N!Cells) /\ Len(s) = Len(body) - 1
        /\ \A i \in 1..Len(s) : s[i] = body[i]
    <3>1. s = SubSeq(body, 1, Len(body) - 1)
      BY DEF N!Front
    <3>2. \A i \in 1..Len(body) - 1 : body[i] \in N!Cells
      BY <1>2
    <3>3. /\ s \in Seq(N!Cells)
          /\ Len(s) = IF 1 <= Len(body) - 1 THEN (Len(body) - 1) - 1 + 1 ELSE 0
          /\ \A i \in 1..(Len(body) - 1) - 1 + 1 : s[i] = body[1 + i - 1]
      <4>1. 1 \in Int /\ Len(body) - 1 \in Int
        BY <1>2
      <4> HIDE DEF s
      <4> QED
        BY <3>1, <3>2, <4>1, SubSeqProperties
    <3> HIDE DEF s
    <3>4. Len(s) = Len(body) - 1
      BY <1>2, <3>3
    <3>5. \A i \in 1..Len(s) : s[i] = body[i]
      <4> SUFFICES ASSUME NEW i \in 1..Len(s) PROVE s[i] = body[i]
        OBVIOUS
      <4>1. i \in 1..(Len(body) - 1) - 1 + 1 /\ 1 + i - 1 = i
        BY <1>2, <3>4
      <4> QED
        BY <3>3, <4>1
    <3> QED
      BY <3>3, <3>4, <3>5
  <2> HIDE DEF s
  <2>2. body' = <<N!NewHead>> \o s
    BY <1>5 DEF s
  <2>3. N!NewHead \in N!Cells /\ N!NewHead \notin N!ToSet(body)
    BY <1>5 DEF N!Crashes
  <2>4. Beside(N!NewHead, body[1])
    <3>1. body[1] \in N!Cells /\ nextDirection \in N!Directions
      BY <1>2 DEF SnakeInv, N!TypeOK
    <3>2. /\ body[1][1] \in Int /\ body[1][2] \in Int
          /\ nextDirection[1] \in Int /\ nextDirection[2] \in Int
          /\ nextDirection = <<nextDirection[1], nextDirection[2]>>
      BY <3>1, CellNumbers, DirectionNumbers
    <3>3. /\ N!NewHead[1] = body[1][1] + nextDirection[1]
          /\ N!NewHead[2] = body[1][2] + nextDirection[2]
      BY DEF N!NewHead
    <3>4. /\ N!NewHead[1] - body[1][1] = nextDirection[1]
          /\ N!NewHead[2] - body[1][2] = nextDirection[2]
      BY <3>2, <3>3, MovedBy, Zenon
    <3> QED
      BY <3>1, <3>2, <3>4, Zenon DEF Beside
  <2>5. N!ToSet(body') \subseteq N!ToSet(body) \union {N!NewHead}
    <3>1. CanMove(body, N!NewHead, s)
      BY <2>1, <2>3, <2>4, Zenon DEF CanMove, SnakeInv
    <3> QED
      BY <2>2, <3>1, MovedPath, Zenon DEF Moved
  <2>6. food' \in N!Cells \ N!ToSet(body')
    BY <1>5, <2>5 DEF SnakeInv
  <2>7. snakeScore' \in 0..MaxScore /\ snakeScore' = snakeScore + (Len(s) - (Len(body) - 1))
    BY <1>2, <1>5, <2>1 DEF SnakeInv, N!TypeOK
  <2> QED
    BY <1>1, <1>5, <2>1, <2>2, <2>6, <2>7, SnakeMoves
<1> QED
  BY <1>3, <1>4, <1>5 DEF N!Step

LEMMA SnakeNext == SnakeInv /\ [N!Next]_(N!vars) => SnakeInv'
<1> SUFFICES ASSUME SnakeInv, [N!Next]_(N!vars) PROVE SnakeInv'
  OBVIOUS
<1>1. ASSUME NEW d \in N!Directions, N!Turn(d) PROVE SnakeInv'
  <2>1. /\ snakeRunning /\ direction # <<-d[1], -d[2]>> /\ nextDirection' = d
        /\ UNCHANGED <<body, direction, food, snakeScore, snakeTime, snakeConnected, snakeRound>>
        /\ UNCHANGED <<snakeRunning, snakeIntervals, snakeSent>>
    BY <1>1 DEF N!Turn, N!Plays
  <2>2. N!TypeOK' /\ N!RoundsEndOnce'
    BY <2>1 DEF SnakeInv, N!TypeOK, N!RoundsEndOnce
  <2>3. direction \in N!Directions
    BY DEF SnakeInv, N!TypeOK
  <2>4. ~ Back(direction, d)
    <3> SUFFICES ASSUME d[1] = 0 - direction[1], d[2] = 0 - direction[2] PROVE FALSE
      BY DEF Back
    <3>1. /\ direction[1] \in Int /\ direction[2] \in Int
          /\ direction = <<direction[1], direction[2]>>
      BY <2>3, DirectionNumbers
    <3>2. -d[1] = direction[1] /\ -d[2] = direction[2]
      BY <3>1
    <3> QED
      BY <2>1, <3>1, <3>2
  <2>5. Heading'
    BY <2>1, <2>4 DEF SnakeInv, Heading
  <2>6. N!NeckIsSafe'
    <3>1. body[2] \in N!Cells
      BY ElementOfSeq, LenProperties DEF SnakeInv, Path
    <3>2. /\ body[2][1] \in Int /\ body[2][2] \in Int /\ direction[1] \in Int /\ direction[2] \in Int
          /\ d[1] \in Int /\ d[2] \in Int
      BY <2>3, <3>1, CellNumbers, DirectionNumbers
    <3>3. /\ N!NewHead'[1] = body[2][1] + direction[1] + d[1]
          /\ N!NewHead'[2] = body[2][2] + direction[2] + d[2]
      BY <2>1, <2>5 DEF N!NewHead, Heading
    <3>4. CASE N!NewHead' = body[2]
      <4>1. N!NewHead'[1] = body[2][1] /\ N!NewHead'[2] = body[2][2]
        BY <3>4
      <4>2. /\ Numbers(body[2]) /\ Numbers(direction) /\ Numbers(d)
            /\ SumOf(N!NewHead', body[2], direction, d)
        BY <3>2, <3>3, Zenon DEF Numbers, SumOf
      <4>3. Back(direction, d)
        BY <4>1, <4>2, ThereAndBack, ZenonT(60)
      <4> QED
        BY <2>4, <4>3
    <3> QED
      BY <2>1, <3>4 DEF N!NeckIsSafe
  <2> QED
    BY <2>1, <2>2, <2>5, <2>6 DEF SnakeInv, Path
<1>2. CASE N!SessionFails
  BY <1>2 DEF N!SessionFails, SnakeInv, N!TypeOK, N!RoundsEndOnce, N!NeckIsSafe, N!NewHead,
     Path, Heading
<1>3. CASE N!Second
  <2>1. /\ snakeTime' = snakeTime - 1 /\ snakeRunning
        /\ UNCHANGED <<body, direction, nextDirection, food, snakeScore, snakeConnected, snakeRound>>
        /\ IF snakeTime' <= 0 THEN N!Finish ELSE N!Plays
    BY <1>3 DEF N!Second, SnakeInv, N!RoundsEndOnce
  <2>2. CASE N!Finish
    <3>1. N!TypeOK'
      <4>1. SnakeSeconds \in Nat /\ SnakeRounds \in Nat
        BY SnakeConstants
      <4>2. snakeTime' \in 0..SnakeSeconds
        BY <2>1, <4>1 DEF SnakeInv, N!TypeOK
      <4>3. snakeSent' \in 0..SnakeRounds
        BY <2>1, <2>2, <4>1 DEF N!Finish, SnakeInv, N!TypeOK, N!RoundsEndOnce
      <4> QED
        BY <2>1, <4>2, <4>3 DEF SnakeInv, N!TypeOK
    <3> QED
      BY <2>1, <2>2, <3>1, SnakeStops
  <2>3. CASE ~ (snakeTime' <= 0) /\ N!Plays
    <3>1. snakeTime' > 0 /\ N!TypeOK'
      BY <2>1, <2>3, SnakeConstants DEF N!Plays, SnakeInv, N!TypeOK
    <3> QED
      BY <2>1, <2>3, <3>1 DEF N!Plays, SnakeInv, N!RoundsEndOnce, N!NeckIsSafe, N!NewHead,
         Path, Heading
  <2> QED
    BY <2>1, <2>2, <2>3
<1>4. CASE UNCHANGED N!vars
  BY <1>4 DEF N!vars, SnakeInv, N!TypeOK, N!RoundsEndOnce, N!NeckIsSafe, N!NewHead,
     Path, Heading
<1> QED
  BY <1>1, <1>2, <1>3, <1>4, SnakeStarts, SnakeSteps DEF N!Next

\* For any board and any snake to begin with: the body is a path of distinct
\* cells, the snake does not turn on its own neck, and neither interval
\* outlives its round.
THEOREM SnakeIsSound == N!Spec => []N!SnakeSound
<1>1. SnakeInv => N!SnakeSound
  <2> SUFFICES ASSUME SnakeInv PROVE N!BodyIsAPath
    BY DEF SnakeInv, N!SnakeSound
  <2>1. DOMAIN body = 1..Len(body)
    BY LenProperties DEF SnakeInv, Path
  <2>2. N!ToSet(body) \subseteq N!Cells \ {food}
    BY <2>1, ElementOfSeq DEF SnakeInv, Path, N!ToSet
  <2> QED
    BY <2>1, <2>2 DEF SnakeInv, Path, Beside, N!BodyIsAPath
<1> QED
  BY <1>1, SnakeInit, SnakeNext, PTL DEF N!Spec

-----------------------------------------------------------------------------
(* Automation                                                              *)

LEMMA SameCountA == \A X : A!Cardinality(X) = Cardinality(X)
BY DEF A!Cardinality, Cardinality

Tally == [A!RuleIds -> [A!ExecutionStatuses -> Nat]]

AutoCall == [at : {"idle", "rule", "action", "inserts"}, rule : Nat, step : Nat,
             ran : Tally, credited : [A!RuleIds -> Nat], referenced : [A!References -> Nat],
             freezes : BOOLEAN]

\* Credit actions of rule r, and those before its step n.
CreditSteps(r) == {i \in DOMAIN AutoRules[r].actions : AutoRules[r].actions[i].do = "credit"}
CreditsBefore(r, n) == {i \in CreditSteps(r) : i < n}

Acts(c) == c.at \in {"action", "inserts"}

\* What a call has written of rule r: nothing yet, what its steps so far may
\* have credited, or one execution with what the rule may credit at most.
WroteInOrder(c, r) ==
  /\ (r > c.rule \/ (r = c.rule /\ ~Acts(c))) =>
       c.credited[r] = 0 /\ c.ran[r]["success"] = 0 /\ c.ran[r]["failed"] = 0
  /\ (r = c.rule /\ Acts(c)) =>
       /\ c.ran[r]["success"] = 0 /\ c.ran[r]["failed"] = 0
       /\ c.credited[r] <= Cardinality(CreditsBefore(r, c.step))
  /\ r < c.rule =>
       /\ c.ran[r]["success"] <= 1
       /\ c.credited[r] <= Cardinality(CreditSteps(r)) *
                             (c.ran[r]["success"] + c.ran[r]["failed"])

InOrder(c) ==
  /\ c.at # "idle" => c.rule > 0
  /\ Acts(c) => c.rule \in A!RuleIds /\ c.step > 0
  /\ c.at = "inserts" => /\ c.step \in CreditSteps(c.rule)
                         /\ A!Action(c).reference \in A!References
  /\ \A r \in A!RuleIds : WroteInOrder(c, r)

\* A call that has executed rule r, or may.
Counts(c, r) == (Acts(c) /\ c.rule = r) \/ c.ran[r]["success"] > 0
Counting(r) == {p \in Processes : Counts(call[p], r)}

\* Every process that passed the check counts against the maximum from then
\* on, until it commits or is rolled back.
MaximumLeft ==
  \A r \in A!RuleIds : AutoRules[r].max # None =>
    executions[r]["success"] + Cardinality(Counting(r))
      <= AutoRules[r].max + Cardinality(Processes) - 1

\* One transaction at most holds a row of a reference, and none once one has
\* committed.
OneHolder ==
  \A f \in A!References :
    /\ referenced[f] <= 1
    /\ \A p \in Processes : call[p].referenced[f] > 0 =>
         /\ call[p].referenced[f] = 1 /\ referenced[f] = 0
         /\ \A q \in Processes \ {p} : call[q].referenced[f] = 0

AutoTypes ==
  /\ executions \in Tally /\ credits \in [A!RuleIds -> Nat]
  /\ referenced \in [A!References -> Nat]
  /\ accountFrozen \in BOOLEAN /\ risky \in BOOLEAN
  /\ call \in [Processes -> AutoCall]

CreditsExplained ==
  \A r \in A!RuleIds :
    credits[r] <= Cardinality(CreditSteps(r)) *
                  (executions[r]["success"] + executions[r]["failed"])

AutoInv ==
  /\ AutoTypes /\ MaximumLeft /\ OneHolder /\ CreditsExplained
  /\ \A p \in Processes : InOrder(call[p])

LEMMA RulesAreFinite ==
  /\ Len(AutoRules) \in Nat /\ A!RuleIds = 1..Len(AutoRules)
  /\ \A r \in A!RuleIds :
       /\ AutoRules[r].max \in Nat \union {None}
       /\ AutoRules[r].actions \in
            Seq([do : {"credit", "freeze", "other", "raises"}, reference : A!References \union {None}])
       /\ IsFiniteSet(CreditSteps(r)) /\ Cardinality(CreditSteps(r)) \in Nat
       /\ CreditSteps(r) \subseteq Nat
<1>1. Len(AutoRules) \in Nat /\ A!RuleIds = 1..Len(AutoRules)
  BY AutomationConstants, LenProperties DEF A!RuleIds
<1>2. ASSUME NEW r \in A!RuleIds
      PROVE  /\ AutoRules[r].max \in Nat \union {None}
             /\ AutoRules[r].actions \in
                  Seq([do : {"credit", "freeze", "other", "raises"},
                       reference : A!References \union {None}])
  <2>1. AutoRules[r] \in
          [max : Nat \union {None}, riskLt : BOOLEAN,
           actions : Seq([do : {"credit", "freeze", "other", "raises"},
                          reference : A!References \union {None}])]
    BY <1>1, AutomationConstants, ElementOfSeq, Zenon
  <2> QED
    BY <2>1
<1>3. ASSUME NEW r \in A!RuleIds
      PROVE  /\ IsFiniteSet(CreditSteps(r)) /\ Cardinality(CreditSteps(r)) \in Nat
             /\ CreditSteps(r) \subseteq Nat
  <2> DEFINE acts == AutoRules[r].actions
  <2>1. Len(acts) \in Nat /\ DOMAIN acts = 1..Len(acts)
    BY <1>2, LenProperties
  <2>2. CreditSteps(r) \subseteq 1..Len(acts)
    BY <2>1 DEF CreditSteps
  <2> HIDE DEF acts
  <2>3. IsFiniteSet(1..Len(acts))
    BY <2>1, FS_Interval
  <2> QED
    BY <2>1, <2>2, <2>3, FS_Subset, FS_CardinalityType
<1> QED
  BY <1>1, <1>2, <1>3

\* One step further, a rule may have credited once more.
LEMMA StepCredits ==
  ASSUME NEW r \in A!RuleIds, NEW n \in Nat
  PROVE  /\ Cardinality(CreditsBefore(r, n)) \in Nat
         /\ Cardinality(CreditsBefore(r, n + 1)) \in Nat
         /\ Cardinality(CreditsBefore(r, n)) <= Cardinality(CreditsBefore(r, n + 1))
         /\ Cardinality(CreditsBefore(r, n)) <= Cardinality(CreditSteps(r))
         /\ n \in CreditSteps(r) =>
              Cardinality(CreditsBefore(r, n + 1)) = Cardinality(CreditsBefore(r, n)) + 1
<1>1. IsFiniteSet(CreditSteps(r)) /\ CreditSteps(r) \subseteq Nat
  BY RulesAreFinite
<1>2. CreditsBefore(r, n) \subseteq CreditSteps(r) /\ CreditsBefore(r, n + 1) \subseteq CreditSteps(r)
      /\ CreditsBefore(r, n) \subseteq CreditsBefore(r, n + 1)
  BY <1>1 DEF CreditsBefore
<1>3. IsFiniteSet(CreditsBefore(r, n)) /\ IsFiniteSet(CreditsBefore(r, n + 1))
  BY <1>1, <1>2, FS_Subset
<1>4. ASSUME n \in CreditSteps(r)
      PROVE  CreditsBefore(r, n + 1) = CreditsBefore(r, n) \union {n} /\ n \notin CreditsBefore(r, n)
  BY <1>1, <1>4 DEF CreditsBefore
<1>5. n \in CreditSteps(r) =>
        Cardinality(CreditsBefore(r, n + 1)) = Cardinality(CreditsBefore(r, n)) + 1
  BY <1>3, <1>4, FS_AddElement
<1> QED
  BY <1>1, <1>2, <1>3, <1>5, FS_Subset, FS_CardinalityType

LEMMA RecordedCall ==
  ASSUME NEW c \in AutoCall, c.rule \in A!RuleIds, NEW s \in A!ExecutionStatuses
  PROVE  /\ A!Recorded(c, s) \in AutoCall
         /\ A!Recorded(c, s).at = "rule" /\ A!Recorded(c, s).rule = c.rule + 1
         /\ A!Recorded(c, s).credited = c.credited
         /\ A!Recorded(c, s).referenced = c.referenced
         /\ \A r \in A!RuleIds, t \in A!ExecutionStatuses :
              A!Recorded(c, s).ran[r][t] = IF r = c.rule /\ t = s THEN c.ran[r][t] + 1
                                           ELSE c.ran[r][t]
<1> DEFINE ran == [c.ran EXCEPT ![c.rule][s] = @ + 1]
<1>1. ran \in Tally
      /\ \A r \in A!RuleIds, t \in A!ExecutionStatuses :
           ran[r][t] = IF r = c.rule /\ t = s THEN c.ran[r][t] + 1 ELSE c.ran[r][t]
  BY DEF AutoCall, Tally
<1>2. A!Recorded(c, s) = [c EXCEPT !.at = "rule", !.rule = @ + 1, !.step = 0, !.ran = ran]
  BY DEF A!Recorded, AutoCall
<1> HIDE DEF ran
<1>3. c.rule + 1 \in Nat
  BY DEF AutoCall
<1>4. A!Recorded(c, s) \in AutoCall
  <2> DEFINE e == [c EXCEPT !.at = "rule", !.rule = @ + 1]
  <2>1. e \in AutoCall
    BY <1>3 DEF AutoCall
  <2>2. A!Recorded(c, s) = [e EXCEPT !.step = 0, !.ran = ran]
    BY <1>2
  <2>3. ran \in Tally
    BY <1>1
  <2> HIDE DEF e
  <2>4. [e EXCEPT !.step = 0] \in AutoCall
    BY <2>1 DEF AutoCall
  <2>5. ASSUME NEW x \in AutoCall, NEW y \in Tally PROVE [x EXCEPT !.ran = y] \in AutoCall
    BY DEF AutoCall
  <2>6. [[e EXCEPT !.step = 0] EXCEPT !.ran = ran] \in AutoCall
    BY <2>3, <2>4, <2>5
  <2>7. A!Recorded(c, s) = [[e EXCEPT !.step = 0] EXCEPT !.ran = ran]
    BY <2>2
  <2> QED
    BY <2>6, <2>7
<1>5. /\ A!Recorded(c, s).at = "rule" /\ A!Recorded(c, s).rule = c.rule + 1
      /\ A!Recorded(c, s).credited = c.credited
      /\ A!Recorded(c, s).referenced = c.referenced /\ A!Recorded(c, s).ran = ran
  BY <1>2 DEF AutoCall
<1> QED
  BY <1>1, <1>4, <1>5

LEMMA SteppedCall ==
  ASSUME NEW c \in AutoCall
  PROVE  /\ A!Stepped(c) \in AutoCall
         /\ A!Stepped(c).at = "action" /\ A!Stepped(c).rule = c.rule
         /\ A!Stepped(c).step = c.step + 1 /\ A!Stepped(c).ran = c.ran
         /\ A!Stepped(c).credited = c.credited /\ A!Stepped(c).referenced = c.referenced
<1>1. c.step + 1 \in Nat
  BY DEF AutoCall
<1> QED
  BY <1>1 DEF A!Stepped, AutoCall

LEMMA CreditedCall ==
  ASSUME NEW c \in AutoCall, c.rule \in A!RuleIds
  PROVE  /\ A!Credited(c) \in AutoCall
         /\ A!Credited(c).at = "action" /\ A!Credited(c).rule = c.rule
         /\ A!Credited(c).step = c.step + 1 /\ A!Credited(c).ran = c.ran
         /\ \A r \in A!RuleIds : A!Credited(c).credited[r] =
              IF r = c.rule THEN c.credited[r] + 1 ELSE c.credited[r]
         /\ \A f \in A!References : A!Credited(c).referenced[f] =
              IF f = A!Action(c).reference THEN c.referenced[f] + 1 ELSE c.referenced[f]
<1> DEFINE e == A!Stepped(c)
           credited == [c.credited EXCEPT ![c.rule] = @ + 1]
           held == [f \in A!References |->
                      c.referenced[f] + (IF f = A!Action(c).reference THEN 1 ELSE 0)]
<1>1. /\ credited \in [A!RuleIds -> Nat]
      /\ \A r \in A!RuleIds : credited[r] = IF r = c.rule THEN c.credited[r] + 1 ELSE c.credited[r]
  BY DEF AutoCall
<1>2. /\ held \in [A!References -> Nat]
      /\ \A f \in A!References : held[f] =
           IF f = A!Action(c).reference THEN c.referenced[f] + 1 ELSE c.referenced[f]
  BY DEF AutoCall
<1>3. e.credited = c.credited /\ e.referenced = c.referenced /\ e \in AutoCall
  BY SteppedCall
<1>4. A!Credited(c) = [e EXCEPT !.credited = credited, !.referenced = held]
  BY <1>3 DEF A!Credited
<1> HIDE DEF credited, held, e
<1>5. A!Credited(c) \in AutoCall
  BY <1>1, <1>2, <1>3, <1>4 DEF AutoCall
<1>6. /\ A!Credited(c).at = e.at /\ A!Credited(c).rule = e.rule
      /\ A!Credited(c).step = e.step /\ A!Credited(c).ran = e.ran
      /\ A!Credited(c).credited = credited /\ A!Credited(c).referenced = held
  BY <1>3, <1>4 DEF AutoCall
<1> QED
  BY <1>1, <1>2, <1>5, <1>6, SteppedCall DEF e

LEMMA IdleCall ==
  /\ A!Idle \in AutoCall /\ InOrder(A!Idle)
  /\ \A r \in A!RuleIds : ~Counts(A!Idle, r)
  /\ \A f \in A!References : A!Idle.referenced[f] = 0
<1>1. A!Idle \in AutoCall
  BY DEF A!Idle, A!NoExecutions, A!NoCredits, A!NoReferences, AutoCall, Tally
<1>2. \A r \in A!RuleIds : A!Idle.ran[r]["success"] = 0 /\ A!Idle.ran[r]["failed"] = 0
                           /\ A!Idle.credited[r] = 0
  BY DEF A!Idle, A!NoExecutions, A!NoCredits, A!ExecutionStatuses
<1>3. A!Idle.at = "idle" /\ A!Idle.rule = 0
  BY DEF A!Idle
<1>4. \A r \in A!RuleIds : r > 0
  BY RulesAreFinite
<1>5. InOrder(A!Idle)
  BY <1>2, <1>3, <1>4, RulesAreFinite DEF InOrder, WroteInOrder, Acts
<1>6. \A f \in A!References : A!Idle.referenced[f] = 0
  BY DEF A!Idle, A!NoReferences
<1> QED
  BY <1>1, <1>2, <1>3, <1>5, <1>6 DEF Counts, Acts

LEMMA AutoInit == A!Init => AutoInv
<1> SUFFICES ASSUME A!Init PROVE AutoInv
  OBVIOUS
<1>1. /\ executions = A!NoExecutions /\ credits = A!NoCredits /\ referenced = A!NoReferences
      /\ accountFrozen = FALSE /\ risky = FALSE
      /\ call = [p \in Processes |-> A!Idle]
  BY DEF A!Init
<1>2. AutoTypes
  BY <1>1, IdleCall DEF A!NoExecutions, A!NoCredits, A!NoReferences, AutoTypes, Tally
<1>3. \A p \in Processes : InOrder(call[p])
  BY <1>1, IdleCall
<1>4. OneHolder
  BY <1>1, IdleCall DEF OneHolder, A!NoReferences
<1>5. MaximumLeft
  <2> SUFFICES ASSUME NEW r \in A!RuleIds, AutoRules[r].max # None
               PROVE  executions[r]["success"] + Cardinality(Counting(r))
                        <= AutoRules[r].max + Cardinality(Processes) - 1
    BY DEF MaximumLeft
  <2>1. executions[r]["success"] = 0
    BY <1>1 DEF A!NoExecutions, A!ExecutionStatuses
  <2>2. Counting(r) = {}
    BY <1>1, IdleCall DEF Counting
  <2>3. Cardinality(Processes) \in Nat /\ Cardinality(Processes) # 0
    BY AutomationConstants, FS_CardinalityType, FS_EmptySet
  <2>4. AutoRules[r].max \in Nat
    BY RulesAreFinite
  <2>5. Cardinality(Counting(r)) = 0
    BY <2>2, FS_EmptySet
  <2> QED
    BY <2>1, <2>3, <2>4, <2>5
<1>6. CreditsExplained
  BY <1>1, RulesAreFinite DEF CreditsExplained, A!NoCredits, A!NoExecutions, A!ExecutionStatuses
<1> QED
  BY <1>2, <1>3, <1>4, <1>5, <1>6 DEF AutoInv

LEMMA CountingIsFinite ==
  \A r : /\ IsFiniteSet(Counting(r)) /\ Cardinality(Counting(r)) \in Nat
         /\ Cardinality(Counting(r)) <= Cardinality(Processes)
         /\ Cardinality(Processes) \in Nat
BY AutomationConstants, FS_Subset, FS_CardinalityType DEF Counting

\* A step of one call: it starts to count while there is room, and to hold a
\* reference when nobody else does.
LEMMA CallStep ==
  ASSUME AutoInv, NEW p \in Processes, NEW c \in AutoCall, InOrder(c),
         call' = [call EXCEPT ![p] = c],
         UNCHANGED <<executions, credits, referenced, accountFrozen, risky>>,
         \A r \in A!RuleIds : Counts(c, r) =>
           \/ Counts(call[p], r)
           \/ AutoRules[r].max # None => executions[r]["success"] < AutoRules[r].max,
         \A f \in A!References : c.referenced[f] > 0 =>
           /\ c.referenced[f] = 1
           /\ \/ call[p].referenced[f] > 0
              \/ /\ referenced[f] = 0
                 /\ \A q \in Processes \ {p} : call[q].referenced[f] = 0
  PROVE  AutoInv'
<1>1. /\ call' \in [Processes -> AutoCall]
      /\ \A q \in Processes : call'[q] = IF q = p THEN c ELSE call[q]
  BY DEF AutoInv, AutoTypes
<1>2. AutoTypes' /\ CreditsExplained' /\ \A q \in Processes : InOrder(call'[q])
  <2>1. AutoTypes'
    BY <1>1 DEF AutoInv, AutoTypes
  <2>2. CreditsExplained'
    BY DEF AutoInv, CreditsExplained
  <2> QED
    BY <1>1, <2>1, <2>2 DEF AutoInv
<1>3. OneHolder'
  <2> SUFFICES ASSUME NEW f \in A!References
               PROVE  /\ referenced[f] <= 1
                      /\ \A q \in Processes : call'[q].referenced[f] > 0 =>
                           /\ call'[q].referenced[f] = 1 /\ referenced[f] = 0
                           /\ \A o \in Processes \ {q} : call'[o].referenced[f] = 0
    BY DEF OneHolder
  <2>1. /\ referenced[f] <= 1 /\ c.referenced[f] \in Nat
        /\ \A q \in Processes : call[q].referenced[f] \in Nat
    BY DEF AutoInv, OneHolder, AutoTypes, AutoCall
  <2>2. \A q \in Processes : call[q].referenced[f] > 0 =>
          /\ call[q].referenced[f] = 1 /\ referenced[f] = 0
          /\ \A o \in Processes \ {q} : call[o].referenced[f] = 0
    BY DEF AutoInv, OneHolder
  <2>3. ASSUME NEW q \in Processes, call'[q].referenced[f] > 0
        PROVE  /\ call'[q].referenced[f] = 1 /\ referenced[f] = 0
               /\ \A o \in Processes \ {q} : call'[o].referenced[f] = 0
    <3>1. CASE q = p
      BY <1>1, <2>2, <2>3, <3>1
    <3>2. CASE q # p
      <4>1. call[q].referenced[f] > 0
        BY <1>1, <2>3, <3>2
      <4>2. c.referenced[f] = 0
        BY <2>1, <2>2, <3>2, <4>1
      <4> QED
        BY <1>1, <2>2, <3>2, <4>1, <4>2
    <3> QED
      BY <3>1, <3>2
  <2> QED
    BY <2>1, <2>3
<1>4. MaximumLeft'
  <2> SUFFICES ASSUME NEW r \in A!RuleIds, AutoRules[r].max # None
               PROVE  executions[r]["success"] + Cardinality(Counting(r)')
                        <= AutoRules[r].max + Cardinality(Processes) - 1
    BY DEF MaximumLeft
  <2>1. executions[r]["success"] \in Nat /\ AutoRules[r].max \in Nat
        /\ executions[r]["success"] + Cardinality(Counting(r))
             <= AutoRules[r].max + Cardinality(Processes) - 1
    BY RulesAreFinite DEF AutoInv, AutoTypes, Tally, A!ExecutionStatuses, MaximumLeft
  <2>2. Counting(r)' \subseteq Processes
    BY DEF Counting
  <2>3. Cardinality(Counting(r)') \in Nat /\ Cardinality(Counting(r)') <= Cardinality(Processes)
        /\ Cardinality(Processes) \in Nat
    BY <2>2, AutomationConstants, FS_Subset, FS_CardinalityType
  <2>4. CASE Counts(c, r) /\ ~Counts(call[p], r)
    <3>1. executions[r]["success"] < AutoRules[r].max
      BY <2>4
    <3> QED
      BY <2>1, <2>3, <3>1
  <2>5. CASE Counts(c, r) => Counts(call[p], r)
    <3>1. Counting(r)' \subseteq Counting(r)
      BY <1>1, <2>5 DEF Counting
    <3>2. Cardinality(Counting(r)') <= Cardinality(Counting(r)) /\ Cardinality(Counting(r)) \in Nat
      BY <3>1, CountingIsFinite, FS_Subset
    <3> QED
      BY <2>1, <2>3, <3>2
  <2> QED
    BY <2>4, <2>5
<1> QED
  BY <1>2, <1>3, <1>4 DEF AutoInv

\* Recording an execution settles the rule.
LEMMA RecordedInOrder ==
  ASSUME NEW c \in AutoCall, InOrder(c), c.at # "idle", c.rule \in A!RuleIds,
         NEW s \in A!ExecutionStatuses, s = "skipped" <=> ~Acts(c)
  PROVE  /\ InOrder(A!Recorded(c, s))
         /\ \A r \in A!RuleIds : Counts(A!Recorded(c, s), r) => Counts(c, r)
<1> DEFINE d == A!Recorded(c, s)
<1>1. /\ d \in AutoCall /\ d.at = "rule" /\ d.rule = c.rule + 1
      /\ d.credited = c.credited /\ ~Acts(d) /\ c.rule \in Nat /\ c.step \in Nat
      /\ \A r \in A!RuleIds, t \in A!ExecutionStatuses :
           d.ran[r][t] = IF r = c.rule /\ t = s THEN c.ran[r][t] + 1 ELSE c.ran[r][t]
  BY RecordedCall DEF Acts, AutoCall
<1> HIDE DEF d
<1>2. ASSUME NEW r \in A!RuleIds PROVE WroteInOrder(d, r)
  <2> DEFINE k == Cardinality(CreditSteps(r))
             b == Cardinality(CreditsBefore(r, c.step))
  <2>1. /\ c.credited[r] \in Nat /\ c.ran[r]["success"] \in Nat /\ c.ran[r]["failed"] \in Nat
        /\ r \in Nat /\ k \in Nat /\ b \in Nat /\ b <= k
    <3>1. c.credited[r] \in Nat /\ c.ran[r]["success"] \in Nat /\ c.ran[r]["failed"] \in Nat
      BY DEF AutoCall, Tally, A!ExecutionStatuses
    <3>2. r \in Nat /\ k \in Nat
      BY RulesAreFinite
    <3>3. b \in Nat /\ b <= k
      BY <1>1, StepCredits
    <3> QED
      BY <3>1, <3>2, <3>3
  <2>2. WroteInOrder(c, r)
    BY DEF InOrder
  <2> HIDE DEF k
  <2>3. CASE r = c.rule
    <3>1. c.ran[r]["success"] = 0 /\ c.ran[r]["failed"] = 0 /\ c.credited[r] <= k
          /\ (~Acts(c) => c.credited[r] = 0)
      BY <2>1, <2>2, <2>3 DEF WroteInOrder
    <3>2. /\ s = "success" => d.ran[r]["success"] = 1 /\ d.ran[r]["failed"] = 0
          /\ s = "failed" => d.ran[r]["success"] = 0 /\ d.ran[r]["failed"] = 1
          /\ s = "skipped" => d.ran[r]["success"] = 0 /\ d.ran[r]["failed"] = 0
      BY <1>1, <2>3, <3>1 DEF A!ExecutionStatuses
    <3>3. s \in {"success", "skipped", "failed"}
      BY DEF A!ExecutionStatuses
    <3>4. d.credited[r] <= k * (d.ran[r]["success"] + d.ran[r]["failed"])
          /\ d.ran[r]["success"] <= 1
      <4>1. k * 0 = 0 /\ k * 1 = k
        BY <2>1
      <4>2. CASE s = "skipped"
        <5>1. d.ran[r]["success"] + d.ran[r]["failed"] = 0 /\ d.credited[r] = 0
          BY <1>1, <3>1, <3>2, <4>2
        <5> QED
          BY <3>2, <4>1, <4>2, <5>1
      <4>3. CASE s # "skipped"
        <5>1. d.ran[r]["success"] + d.ran[r]["failed"] = 1 /\ d.credited[r] <= k
          BY <1>1, <3>1, <3>2, <3>3, <4>3
        <5> QED
          BY <3>2, <3>3, <4>1, <4>3, <5>1
      <4> QED
        BY <4>2, <4>3
    <3> QED
      BY <1>1, <2>1, <2>3, <3>4 DEF WroteInOrder, k
  <2>4. CASE r # c.rule
    <3>1. d.ran[r]["success"] = c.ran[r]["success"] /\ d.ran[r]["failed"] = c.ran[r]["failed"]
          /\ d.credited[r] = c.credited[r]
      BY <1>1, <2>4 DEF A!ExecutionStatuses
    <3>2. (r < d.rule => r < c.rule) /\ (r >= d.rule => r > c.rule)
      BY <1>1, <2>1, <2>4
    <3> QED
      BY <1>1, <2>1, <2>2, <3>1, <3>2 DEF WroteInOrder
  <2> QED
    BY <2>3, <2>4
<1>3. InOrder(d)
  BY <1>1, <1>2 DEF InOrder
<1>4. ASSUME NEW r \in A!RuleIds, Counts(d, r) PROVE Counts(c, r)
  <2>1. d.ran[r]["success"] > 0
    BY <1>1, <1>4 DEF Counts
  <2>2. CASE r = c.rule /\ Acts(c)
    BY <2>2 DEF Counts
  <2>3. CASE ~ (r = c.rule /\ Acts(c))
    <3>1. d.ran[r]["success"] = c.ran[r]["success"]
      BY <1>1, <2>3 DEF A!ExecutionStatuses
    <3> QED
      BY <2>1, <3>1 DEF Counts
  <2> QED
    BY <2>2, <2>3
<1> QED
  BY <1>3, <1>4 DEF d

\* A call inside a rule that goes on in it, with one more credit if its step
\* was a credit.
LEMMA ActingInOrder ==
  ASSUME NEW c \in AutoCall, InOrder(c), Acts(c), NEW d \in AutoCall,
         d.at = "action", d.rule = c.rule, d.step = c.step + 1, d.ran = c.ran,
         \A r \in A!RuleIds \ {c.rule} : d.credited[r] = c.credited[r],
         \/ d.credited[c.rule] = c.credited[c.rule]
         \/ d.credited[c.rule] = c.credited[c.rule] + 1 /\ c.step \in CreditSteps(c.rule)
  PROVE  InOrder(d) /\ \A r \in A!RuleIds : Counts(d, r) => Counts(c, r)
<1>1. c.rule \in A!RuleIds /\ c.step \in Nat /\ c.rule \in Nat /\ c.step + 1 > 0 /\ c.rule > 0
  BY DEF InOrder, AutoCall, Acts
<1>2. Acts(d) /\ ~(d.at = "inserts") /\ d.at # "idle"
  BY DEF Acts
<1>3. ASSUME NEW r \in A!RuleIds PROVE WroteInOrder(d, r)
  <2>1. WroteInOrder(c, r) /\ r \in Nat
    BY RulesAreFinite DEF InOrder
  <2>2. CASE r = c.rule
    <3>1. c.ran[r]["success"] = 0 /\ c.ran[r]["failed"] = 0
          /\ c.credited[r] <= Cardinality(CreditsBefore(r, c.step)) /\ c.credited[r] \in Nat
      BY <1>1, <2>1, <2>2 DEF WroteInOrder, AutoCall
    <3>2. /\ Cardinality(CreditsBefore(r, c.step)) \in Nat
          /\ Cardinality(CreditsBefore(r, c.step + 1)) \in Nat
          /\ Cardinality(CreditsBefore(r, c.step)) <= Cardinality(CreditsBefore(r, c.step + 1))
          /\ c.step \in CreditSteps(r) => Cardinality(CreditsBefore(r, c.step + 1))
                                            = Cardinality(CreditsBefore(r, c.step)) + 1
      BY <1>1, StepCredits
    <3>3. d.credited[r] <= Cardinality(CreditsBefore(r, c.step + 1))
      BY <2>2, <3>1, <3>2
    <3> QED
      BY <1>2, <2>1, <2>2, <3>1, <3>3 DEF WroteInOrder
  <2>3. CASE r # c.rule
    BY <1>1, <1>2, <2>1, <2>3 DEF WroteInOrder
  <2> QED
    BY <2>2, <2>3
<1>4. InOrder(d)
  BY <1>1, <1>2, <1>3 DEF InOrder
<1> QED
  BY <1>4 DEF Counts

\* What a call finds when it acts.
LEMMA ActionIsKnown ==
  ASSUME AutoInv, NEW p \in Processes, A!Acting(p)
  PROVE  /\ call[p] \in AutoCall /\ InOrder(call[p]) /\ Acts(call[p])
         /\ call[p].at = "action" /\ call[p].rule \in A!RuleIds
         /\ call[p].step \in DOMAIN AutoRules[call[p].rule].actions
         /\ A!Action(call[p]).reference \in A!References \union {None}
<1> DEFINE c == call[p]
           acts == AutoRules[c.rule].actions
<1>1. c \in AutoCall /\ InOrder(c) /\ c.at = "action" /\ c.step <= Len(acts) /\ Acts(c)
  BY DEF AutoInv, AutoTypes, A!Acting, Acts
<1>2. c.rule \in A!RuleIds /\ c.step > 0 /\ c.step \in Nat
  BY <1>1 DEF InOrder, AutoCall
<1>3. acts \in Seq([do : {"credit", "freeze", "other", "raises"},
                    reference : A!References \union {None}])
  BY <1>2, RulesAreFinite
<1> HIDE DEF c, acts
<1>4. Len(acts) \in Nat /\ DOMAIN acts = 1..Len(acts)
  BY <1>3, LenProperties
<1>5. c.step \in DOMAIN acts
  BY <1>1, <1>2, <1>4
<1>6. acts[c.step] \in [do : {"credit", "freeze", "other", "raises"},
                        reference : A!References \union {None}]
  BY <1>3, <1>4, <1>5, ElementOfSeq, Zenon
<1>7. A!Action(c) = acts[c.step]
  BY DEF A!Action, acts
<1> QED
  BY <1>1, <1>2, <1>5, <1>6, <1>7 DEF c, acts

LEMMA BecomesIs ==
  ASSUME NEW p \in Processes, NEW c, A!Becomes(p, c)
  PROVE  /\ call' = [call EXCEPT ![p] = c]
         /\ UNCHANGED <<executions, credits, referenced, accountFrozen, risky>>
BY DEF A!Becomes

\* Records, steps and rollbacks hold no reference they did not hold.
LEMMA HoldsNoMore ==
  ASSUME AutoInv, NEW p \in Processes, NEW c \in AutoCall, InOrder(c), A!Becomes(p, c),
         \A r \in A!RuleIds : Counts(c, r) => Counts(call[p], r),
         c.referenced = call[p].referenced \/ \A f \in A!References : c.referenced[f] = 0
  PROVE  AutoInv'
<1>1. \A f \in A!References : c.referenced[f] > 0 =>
        c.referenced[f] = 1 /\ call[p].referenced[f] > 0
  BY DEF AutoInv, OneHolder
<1> QED
  BY <1>1, BecomesIs, CallStep

LEMMA EmitKeepsInv ==
  ASSUME AutoInv, NEW p \in Processes, A!Emit(p)
  PROVE  AutoInv'
<1> DEFINE c == [A!Idle EXCEPT !.at = "rule", !.rule = 1]
<1>1. call' = [call EXCEPT ![p] = c]
      /\ UNCHANGED <<executions, credits, referenced, accountFrozen, risky>>
  BY DEF A!Emit
<1>2. /\ c \in AutoCall /\ c.at = "rule" /\ c.rule = 1 /\ c.ran = A!Idle.ran
      /\ c.credited = A!Idle.credited /\ c.referenced = A!Idle.referenced
  BY IdleCall DEF AutoCall
<1>3. \A r \in A!RuleIds : A!Idle.ran[r]["success"] = 0 /\ A!Idle.ran[r]["failed"] = 0
                           /\ A!Idle.credited[r] = 0
  BY DEF A!Idle, A!NoExecutions, A!NoCredits, A!ExecutionStatuses
<1> HIDE DEF c
<1>4. InOrder(c)
  BY <1>2, <1>3, RulesAreFinite DEF InOrder, WroteInOrder, Acts
<1>5. /\ \A r \in A!RuleIds : ~Counts(c, r)
      /\ \A f \in A!References : c.referenced[f] = 0
  BY <1>2, <1>3, IdleCall DEF Counts, Acts
<1>6. \A f \in A!References : ~(c.referenced[f] > 0)
  BY <1>5
<1> QED
  BY <1>1, <1>2, <1>4, <1>5, <1>6, CallStep

LEMMA StartRuleKeepsInv ==
  ASSUME AutoInv, NEW p \in Processes, A!StartRule(p)
  PROVE  AutoInv'
<1> DEFINE c == call[p]
           d == [c EXCEPT !.at = "action", !.step = 1]
<1>1. /\ c.at = "rule" /\ c.rule \in A!RuleIds
      /\ IF A!Exhausted(c) \/ ~A!ConditionsMatch(c)
         THEN A!Becomes(p, A!Recorded(c, "skipped")) ELSE A!Becomes(p, d)
  BY DEF A!StartRule
<1>2. c \in AutoCall /\ InOrder(c) /\ ~Acts(c)
  BY <1>1 DEF AutoInv, AutoTypes, Acts
<1>3. CASE A!Becomes(p, A!Recorded(c, "skipped"))
  <2>1. /\ InOrder(A!Recorded(c, "skipped"))
        /\ \A r \in A!RuleIds : Counts(A!Recorded(c, "skipped"), r) => Counts(c, r)
    BY <1>1, <1>2, RecordedInOrder DEF A!ExecutionStatuses
  <2>2. A!Recorded(c, "skipped") \in AutoCall
        /\ A!Recorded(c, "skipped").referenced = c.referenced
    BY <1>1, <1>2, RecordedCall DEF A!ExecutionStatuses
  <2> QED
    BY <1>3, <2>1, <2>2, HoldsNoMore
<1>4. CASE ~A!Exhausted(c) /\ A!Becomes(p, d)
  <2>1. /\ d \in AutoCall /\ d.at = "action" /\ d.step = 1 /\ d.rule = c.rule /\ d.ran = c.ran
        /\ d.credited = c.credited /\ d.referenced = c.referenced
    BY <1>2 DEF AutoCall
  <2> HIDE DEF d
  <2>2. Acts(d) /\ c.rule \in Nat /\ c.rule > 0
    BY <1>1, <1>2, <2>1 DEF Acts, InOrder, AutoCall
  <2>3. ASSUME NEW r \in A!RuleIds PROVE WroteInOrder(d, r)
    <3>1. WroteInOrder(c, r) /\ r \in Nat /\ Cardinality(CreditsBefore(r, 1)) \in Nat
      BY <1>2, RulesAreFinite, StepCredits DEF InOrder
    <3> QED
      BY <1>2, <2>1, <2>2, <3>1 DEF WroteInOrder
  <2>4. InOrder(d)
    BY <1>1, <2>1, <2>2, <2>3 DEF InOrder
  <2>5. ASSUME NEW r \in A!RuleIds, Counts(d, r)
        PROVE  Counts(c, r) \/ (AutoRules[r].max # None => executions[r]["success"] < AutoRules[r].max)
    <3>1. CASE r = c.rule
      <4>1. c.ran[r]["success"] = 0
        BY <1>2, <3>1 DEF InOrder, WroteInOrder
      <4>2. executions[r]["success"] \in Nat /\ AutoRules[r].max \in Nat \union {None}
        BY RulesAreFinite DEF AutoInv, AutoTypes, Tally, A!ExecutionStatuses
      <4> QED
        BY <1>4, <3>1, <4>1, <4>2 DEF A!Exhausted, A!Used
    <3>2. CASE r # c.rule
      BY <2>1, <2>5, <3>2 DEF Counts
    <3> QED
      BY <3>1, <3>2
  <2>6. \A f \in A!References : d.referenced[f] > 0 =>
          d.referenced[f] = 1 /\ call[p].referenced[f] > 0
    BY <2>1 DEF AutoInv, OneHolder
  <2> QED
    BY <1>4, <2>1, <2>4, <2>5, <2>6, BecomesIs, CallStep
<1> QED
  BY <1>1, <1>3, <1>4

LEMMA SteppedKeepsInv ==
  ASSUME AutoInv, NEW p \in Processes, A!Acting(p), A!Becomes(p, A!Stepped(call[p]))
  PROVE  AutoInv'
<1>1. call[p] \in AutoCall /\ InOrder(call[p]) /\ Acts(call[p])
  BY ActionIsKnown
<1>2. InOrder(A!Stepped(call[p]))
      /\ \A r \in A!RuleIds : Counts(A!Stepped(call[p]), r) => Counts(call[p], r)
  BY <1>1, SteppedCall, ActingInOrder
<1> QED
  BY <1>1, <1>2, SteppedCall, HoldsNoMore

LEMMA RecordKeepsInv ==
  ASSUME AutoInv, NEW p \in Processes, Acts(call[p]), NEW s \in {"success", "failed"},
         A!Becomes(p, A!Recorded(call[p], s))
  PROVE  AutoInv'
<1>1. call[p] \in AutoCall /\ InOrder(call[p]) /\ call[p].rule \in A!RuleIds
      /\ call[p].at # "idle" /\ s \in A!ExecutionStatuses /\ s # "skipped"
  BY DEF AutoInv, AutoTypes, InOrder, Acts, A!ExecutionStatuses
<1>2. /\ InOrder(A!Recorded(call[p], s))
      /\ \A r \in A!RuleIds : Counts(A!Recorded(call[p], s), r) => Counts(call[p], r)
  BY <1>1, RecordedInOrder
<1>3. A!Recorded(call[p], s) \in AutoCall
      /\ A!Recorded(call[p], s).referenced = call[p].referenced
  BY <1>1, RecordedCall
<1> QED
  BY <1>2, <1>3, HoldsNoMore

\* A credit without a reference, or with one that nobody holds.
LEMMA CreditedKeepsInv ==
  ASSUME AutoInv, NEW p \in Processes, Acts(call[p]),
         call[p].step \in CreditSteps(call[p].rule),
         A!Becomes(p, A!Credited(call[p])),
         A!Action(call[p]).reference \in A!References =>
           /\ ~A!HasReward(call[p])
           /\ \A q \in Processes \ {p} : call[q].referenced[A!Action(call[p]).reference] = 0
  PROVE  AutoInv'
<1> DEFINE c == call[p]
           d == A!Credited(c)
           g == A!Action(c).reference
<1>1. c \in AutoCall /\ InOrder(c) /\ c.rule \in A!RuleIds
  BY DEF AutoInv, AutoTypes, InOrder
<1>2. /\ d \in AutoCall /\ d.at = "action" /\ d.rule = c.rule /\ d.step = c.step + 1
      /\ d.ran = c.ran
      /\ \A r \in A!RuleIds : d.credited[r] =
           IF r = c.rule THEN c.credited[r] + 1 ELSE c.credited[r]
      /\ \A f \in A!References : d.referenced[f] =
           IF f = g THEN c.referenced[f] + 1 ELSE c.referenced[f]
  BY <1>1, CreditedCall
<1> HIDE DEF d
<1>3. InOrder(d) /\ \A r \in A!RuleIds : Counts(d, r) => Counts(c, r)
  BY <1>1, <1>2, ActingInOrder
<1>4. ASSUME NEW f \in A!References, d.referenced[f] > 0
      PROVE  /\ d.referenced[f] = 1
             /\ \/ c.referenced[f] > 0
                \/ referenced[f] = 0 /\ \A q \in Processes \ {p} : call[q].referenced[f] = 0
  <2>1. referenced[f] \in Nat /\ c.referenced[f] \in Nat
    BY <1>1 DEF AutoInv, AutoTypes, AutoCall
  <2>2. CASE f = g
    <3>1. referenced[f] = 0 /\ c.referenced[f] = 0
      BY <2>1, <2>2 DEF A!HasReward
    <3> QED
      BY <1>2, <2>2, <3>1
  <2>3. CASE f # g
    BY <1>2, <1>4, <2>3 DEF AutoInv, OneHolder
  <2> QED
    BY <2>2, <2>3
<1>5. A!Becomes(p, d)
  BY DEF d
<1> QED
  BY <1>2, <1>3, <1>4, <1>5, BecomesIs, CallStep

LEMMA CreditKeepsInv ==
  ASSUME AutoInv, NEW p \in Processes, A!Credit(p) \/ A!InsertReward(p)
  PROVE  AutoInv'
<1> DEFINE c == call[p]
<1>1. c \in AutoCall /\ InOrder(c)
  BY DEF AutoInv, AutoTypes
<1>2. CASE A!Credit(p)
  <2>1. /\ A!Acting(p) /\ A!Action(c).do = "credit"
        /\ IF A!Action(c).reference = None THEN A!Becomes(p, A!Credited(c))
           ELSE IF A!HasReward(c) THEN A!Becomes(p, A!Stepped(c))
           ELSE A!Becomes(p, [c EXCEPT !.at = "inserts"])
    BY <1>2 DEF A!Credit
  <2>2. /\ c.at = "action" /\ Acts(c) /\ c.rule \in A!RuleIds
        /\ c.step \in DOMAIN AutoRules[c.rule].actions
        /\ A!Action(c).reference \in A!References \union {None}
    BY <2>1, ActionIsKnown
  <2>3. c.step \in CreditSteps(c.rule)
    BY <2>1, <2>2 DEF CreditSteps, A!Action
  <2>4. CASE A!Action(c).reference = None /\ A!Becomes(p, A!Credited(c))
    <3>1. A!Action(c).reference \notin A!References
      BY <2>4 DEF A!References
    <3> QED
      BY <2>2, <2>3, <2>4, <3>1, CreditedKeepsInv
  <2>5. CASE A!Becomes(p, A!Stepped(c))
    BY <2>1, <2>5, SteppedKeepsInv
  <2>6. CASE A!Action(c).reference # None /\ A!Becomes(p, [c EXCEPT !.at = "inserts"])
    <3> DEFINE d == [c EXCEPT !.at = "inserts"]
    <3>1. /\ d \in AutoCall /\ d.at = "inserts" /\ d.rule = c.rule /\ d.step = c.step
          /\ d.ran = c.ran /\ d.credited = c.credited /\ d.referenced = c.referenced
      BY <1>1 DEF AutoCall
    <3> HIDE DEF d
    <3>2. A!Action(d).reference \in A!References
      BY <2>2, <2>6, <3>1 DEF A!Action
    <3>3. ASSUME NEW r \in A!RuleIds PROVE WroteInOrder(d, r)
      BY <1>1, <2>2, <3>1 DEF InOrder, WroteInOrder, Acts
    <3>4. InOrder(d)
      BY <1>1, <2>2, <2>3, <3>1, <3>2, <3>3 DEF InOrder, Acts
    <3>5. \A r \in A!RuleIds : Counts(d, r) => Counts(c, r)
      BY <2>2, <3>1 DEF Counts
    <3>6. A!Becomes(p, d)
      BY <2>6 DEF d
    <3> QED
      BY <3>1, <3>4, <3>5, <3>6, HoldsNoMore
  <2> QED
    BY <2>1, <2>4, <2>5, <2>6
<1>3. CASE A!InsertReward(p)
  <2>1. /\ c.at = "inserts"
        /\ \A q \in Processes \ {p} : call[q].referenced[A!Action(c).reference] = 0
        /\ IF A!HasReward(c) THEN A!Becomes(p, A!Recorded(c, "failed"))
           ELSE A!Becomes(p, A!Credited(c))
    BY <1>3 DEF A!InsertReward
  <2>2. Acts(c) /\ c.step \in CreditSteps(c.rule)
    BY <1>1, <2>1 DEF Acts, InOrder
  <2> QED
    BY <2>1, <2>2, CreditedKeepsInv, RecordKeepsInv
<1> QED
  BY <1>2, <1>3

LEMMA OtherActionsKeepInv ==
  ASSUME AutoInv, NEW p \in Processes,
         A!Freeze(p) \/ A!OtherAction(p) \/ A!ActionRaises(p) \/ A!FinishRule(p) \/ A!RollBack(p)
  PROVE  AutoInv'
<1>1. CASE A!Freeze(p)
  <2> DEFINE e == A!Stepped(call[p])
             d == [e EXCEPT !.freezes = TRUE]
  <2>1. A!Acting(p) /\ A!Becomes(p, d)
    BY <1>1 DEF A!Freeze
  <2>2. call[p] \in AutoCall /\ InOrder(call[p]) /\ Acts(call[p])
    BY <2>1, ActionIsKnown
  <2>3. e \in AutoCall
    BY <2>2, SteppedCall
  <2> HIDE DEF e
  <2>4. /\ d \in AutoCall /\ d.at = e.at /\ d.rule = e.rule /\ d.step = e.step
        /\ d.ran = e.ran /\ d.credited = e.credited /\ d.referenced = e.referenced
    BY <2>3 DEF AutoCall
  <2> HIDE DEF d
  <2>5. /\ d.at = "action" /\ d.rule = call[p].rule /\ d.step = call[p].step + 1
        /\ d.ran = call[p].ran /\ d.credited = call[p].credited
        /\ d.referenced = call[p].referenced
    BY <2>2, <2>4, SteppedCall DEF e
  <2>6. InOrder(d) /\ \A r \in A!RuleIds : Counts(d, r) => Counts(call[p], r)
    BY <2>2, <2>4, <2>5, ActingInOrder
  <2> QED
    BY <2>1, <2>4, <2>5, <2>6, HoldsNoMore
<1>2. CASE A!OtherAction(p)
  BY <1>2, SteppedKeepsInv DEF A!OtherAction
<1>3. CASE A!ActionRaises(p)
  BY <1>3, RecordKeepsInv DEF A!ActionRaises, A!Acting, Acts
<1>4. CASE A!FinishRule(p)
  BY <1>4, RecordKeepsInv DEF A!FinishRule, Acts
<1>5. CASE A!RollBack(p)
  BY <1>5, IdleCall, HoldsNoMore DEF A!RollBack
<1> QED
  BY <1>1, <1>2, <1>3, <1>4, <1>5

LEMMA TimesPlus == \A k, x, y \in Nat : k * (x + y) = k * x + k * y
OBVIOUS

LEMMA AutoCommitKeepsInv ==
  ASSUME AutoInv, NEW p \in Processes, A!Commit(p)
  PROVE  AutoInv'
<1> DEFINE c == call[p]
<1>1. /\ c.at = "rule" /\ c.rule \notin A!RuleIds
      /\ executions' = [r \in A!RuleIds |-> [s \in A!ExecutionStatuses |->
                          executions[r][s] + c.ran[r][s]]]
      /\ credits' = [r \in A!RuleIds |-> credits[r] + c.credited[r]]
      /\ referenced' = [f \in A!References |-> referenced[f] + c.referenced[f]]
      /\ accountFrozen' = (accountFrozen \/ c.freezes)
      /\ call' = [call EXCEPT ![p] = A!Idle] /\ UNCHANGED risky
  BY DEF A!Commit
<1>2. /\ c \in AutoCall /\ InOrder(c) /\ c.freezes \in BOOLEAN /\ c.ran \in Tally
      /\ c.credited \in [A!RuleIds -> Nat] /\ c.referenced \in [A!References -> Nat]
      /\ c.rule \in Nat /\ c.rule > 0
  BY <1>1 DEF AutoInv, AutoTypes, AutoCall, InOrder
<1>3. /\ executions \in Tally /\ credits \in [A!RuleIds -> Nat]
      /\ referenced \in [A!References -> Nat] /\ accountFrozen \in BOOLEAN /\ risky \in BOOLEAN
      /\ call \in [Processes -> AutoCall]
  BY DEF AutoInv, AutoTypes
<1> HIDE DEF c
<1>4. \A q \in Processes : call'[q] = IF q = p THEN A!Idle ELSE call[q]
  BY <1>1, <1>3
<1>5. \A r \in A!RuleIds : r < c.rule /\ ~ (r > c.rule)
  BY <1>1, <1>2, RulesAreFinite
<1>6. /\ \A r \in A!RuleIds, s \in A!ExecutionStatuses :
           executions'[r][s] = executions[r][s] + c.ran[r][s]
      /\ \A r \in A!RuleIds : credits'[r] = credits[r] + c.credited[r]
      /\ \A f \in A!References : referenced'[f] = referenced[f] + c.referenced[f]
  BY <1>1
<1>7. AutoTypes'
  <2>1. executions' \in Tally
    BY <1>1, <1>2, <1>3 DEF Tally
  <2>2. credits' \in [A!RuleIds -> Nat] /\ referenced' \in [A!References -> Nat]
    BY <1>1, <1>2, <1>3
  <2>3. accountFrozen' \in BOOLEAN /\ risky' \in BOOLEAN
    BY <1>1, <1>2, <1>3
  <2>4. call' \in [Processes -> AutoCall]
    BY <1>1, <1>3, IdleCall
  <2> QED
    BY <2>1, <2>2, <2>3, <2>4 DEF AutoTypes
<1>8. \A q \in Processes : InOrder(call'[q])
  BY <1>4, IdleCall DEF AutoInv
<1>9. OneHolder'
  <2> SUFFICES ASSUME NEW f \in A!References
               PROVE  /\ referenced'[f] <= 1
                      /\ \A q \in Processes : call'[q].referenced[f] > 0 =>
                           /\ call'[q].referenced[f] = 1 /\ referenced'[f] = 0
                           /\ \A o \in Processes \ {q} : call'[o].referenced[f] = 0
    BY DEF OneHolder
  <2>1. /\ referenced[f] \in Nat /\ c.referenced[f] \in Nat /\ referenced[f] <= 1
        /\ \A q \in Processes : call[q].referenced[f] \in Nat
        /\ \A q \in Processes : call[q].referenced[f] > 0 =>
             /\ call[q].referenced[f] = 1 /\ referenced[f] = 0
             /\ \A o \in Processes \ {q} : call[o].referenced[f] = 0
    BY <1>2, <1>3 DEF AutoInv, OneHolder, AutoCall
  <2>2. referenced'[f] = referenced[f] + c.referenced[f]
        /\ A!Idle.referenced[f] = 0
    BY <1>6, IdleCall
  <2>3. CASE c.referenced[f] > 0
    BY <1>4, <2>1, <2>2, <2>3 DEF c
  <2>4. CASE c.referenced[f] = 0
    BY <1>4, <2>1, <2>2, <2>4
  <2> QED
    BY <2>1, <2>3, <2>4
<1>10. MaximumLeft'
  <2> SUFFICES ASSUME NEW r \in A!RuleIds, AutoRules[r].max # None
               PROVE  executions'[r]["success"] + Cardinality(Counting(r)')
                        <= AutoRules[r].max + Cardinality(Processes) - 1
    BY DEF MaximumLeft
  <2>1. /\ executions[r]["success"] \in Nat /\ c.ran[r]["success"] \in Nat
        /\ AutoRules[r].max \in Nat /\ c.ran[r]["success"] <= 1
        /\ executions[r]["success"] + Cardinality(Counting(r))
             <= AutoRules[r].max + Cardinality(Processes) - 1
    <3>1. executions[r]["success"] \in Nat /\ c.ran[r]["success"] \in Nat
      BY <1>2, <1>3 DEF Tally, A!ExecutionStatuses
    <3>2. c.ran[r]["success"] <= 1
      BY <1>2, <1>5 DEF InOrder, WroteInOrder
    <3> QED
      BY <3>1, <3>2, RulesAreFinite DEF AutoInv, MaximumLeft
  <2>2. executions'[r]["success"] = executions[r]["success"] + c.ran[r]["success"]
    BY <1>6 DEF A!ExecutionStatuses
  <2>3. Counting(r)' = Counting(r) \ {p}
    BY <1>4, IdleCall DEF Counting
  <2>4. /\ Cardinality(Counting(r)) \in Nat /\ IsFiniteSet(Counting(r))
        /\ Cardinality(Processes) \in Nat
    BY CountingIsFinite
  <2>5. CASE p \in Counting(r)
    <3>1. Cardinality(Counting(r)') = Cardinality(Counting(r)) - 1
      BY <2>3, <2>4, <2>5, FS_RemoveElement
    <3> QED
      BY <2>1, <2>2, <2>4, <3>1
  <2>6. CASE p \notin Counting(r)
    <3>1. Counting(r)' = Counting(r)
      BY <2>3, <2>6
    <3>2. c.ran[r]["success"] = 0
      BY <2>1, <2>6 DEF Counting, Counts, c
    <3>3. Cardinality(Counting(r)') = Cardinality(Counting(r))
      BY <3>1, Zenon
    <3> QED
      BY <2>1, <2>2, <2>4, <3>2, <3>3
  <2> QED
    BY <2>5, <2>6
<1>11. CreditsExplained'
  <2> SUFFICES ASSUME NEW r \in A!RuleIds
               PROVE  credits'[r] <= Cardinality(CreditSteps(r)) *
                                       (executions'[r]["success"] + executions'[r]["failed"])
    BY DEF CreditsExplained
  <2> DEFINE k == Cardinality(CreditSteps(r))
             x == executions[r]["success"] + executions[r]["failed"]
             y == c.ran[r]["success"] + c.ran[r]["failed"]
  <2>1. k \in Nat /\ x \in Nat /\ y \in Nat /\ credits[r] \in Nat /\ c.credited[r] \in Nat
    <3>1. executions[r]["success"] \in Nat /\ executions[r]["failed"] \in Nat
          /\ c.ran[r]["success"] \in Nat /\ c.ran[r]["failed"] \in Nat
      BY <1>2, <1>3 DEF Tally, A!ExecutionStatuses
    <3>2. k \in Nat
      BY RulesAreFinite
    <3>3. credits[r] \in Nat /\ c.credited[r] \in Nat
      BY <1>2, <1>3
    <3> QED
      BY <3>1, <3>2, <3>3
  <2>2. executions'[r]["success"] + executions'[r]["failed"] = x + y
    <3>1. executions[r]["success"] \in Nat /\ executions[r]["failed"] \in Nat
          /\ c.ran[r]["success"] \in Nat /\ c.ran[r]["failed"] \in Nat
      BY <1>2, <1>3 DEF Tally, A!ExecutionStatuses
    <3> QED
      BY <1>6, <3>1 DEF A!ExecutionStatuses
  <2>3. credits[r] <= k * x
    BY DEF AutoInv, CreditsExplained
  <2>4. c.credited[r] <= k * y
    BY <1>2, <1>5 DEF InOrder, WroteInOrder
  <2>5. credits'[r] = credits[r] + c.credited[r]
    BY <1>6
  <2>6. k * (x + y) = k * x + k * y
    BY <2>1, TimesPlus
  <2>7. k * x \in Nat /\ k * y \in Nat
    BY <2>1
  <2>8. credits'[r] <= k * (x + y)
    <3> HIDE DEF k, x, y
    <3> QED
      BY <2>1, <2>3, <2>4, <2>5, <2>6, <2>7
  <2> QED
    BY <2>2, <2>8
<1> QED
  BY <1>7, <1>8, <1>9, <1>10, <1>11 DEF AutoInv

LEMMA AutoNext == AutoInv /\ [A!Next]_(A!vars) => AutoInv'
<1> SUFFICES ASSUME AutoInv, [A!Next]_(A!vars) PROVE AutoInv'
  OBVIOUS
<1>1. CASE /\ UNCHANGED <<executions, credits, referenced, accountFrozen, call>>
           /\ risky' \in BOOLEAN
  <2>1. MaximumLeft' /\ OneHolder' /\ CreditsExplained'
    BY <1>1 DEF AutoInv, MaximumLeft, Counting, OneHolder, CreditsExplained
  <2> QED
    BY <1>1, <2>1 DEF AutoInv, AutoTypes
<1>2. CASE UNCHANGED A!vars
  BY <1>1, <1>2 DEF A!vars, AutoInv, AutoTypes
<1>3. CASE A!ScoreChanges
  BY <1>1, <1>3 DEF A!ScoreChanges, AutoInv, AutoTypes
<1> QED
  BY <1>2, <1>3, EmitKeepsInv, StartRuleKeepsInv, CreditKeepsInv, OtherActionsKeepInv,
     AutoCommitKeepsInv DEF A!Next

\* For any rules and processes: a rule's maximum is exceeded by less than the
\* processes there are, every credit is explained by an execution on record,
\* and a reference is credited once.
THEOREM AutomationIsSound == A!Spec => []A!AutomationSound
<1>1. AutoInv => A!AutomationSound
  <2> SUFFICES ASSUME AutoInv PROVE A!AutomationSound
    OBVIOUS
  <2>1. A!TypeOK
    BY DEF AutoInv, AutoTypes, AutoCall, Tally, A!TypeOK, A!Counts
  <2>2. A!MaxExecutionsOvershoot
    <3> SUFFICES ASSUME NEW r \in A!RuleIds, AutoRules[r].max # None
                 PROVE  executions[r]["success"] <= AutoRules[r].max + Cardinality(Processes) - 1
      BY SameCountA DEF A!MaxExecutionsOvershoot
    <3>1. executions[r]["success"] \in Nat /\ AutoRules[r].max \in Nat
          /\ Cardinality(Counting(r)) \in Nat /\ Cardinality(Processes) \in Nat
      BY RulesAreFinite, CountingIsFinite DEF AutoInv, AutoTypes, Tally, A!ExecutionStatuses
    <3> QED
      BY <3>1 DEF AutoInv, MaximumLeft
  <2>3. A!CreditsAreRecorded
    BY SameCountA DEF AutoInv, CreditsExplained, CreditSteps, A!CreditsAreRecorded, A!CreditActions
  <2>4. A!ReferenceCreditedOnce
    BY DEF AutoInv, OneHolder, A!ReferenceCreditedOnce
  <2> QED
    BY <2>1, <2>2, <2>3, <2>4 DEF A!AutomationSound
<1> QED
  BY <1>1, AutoInit, AutoNext, PTL DEF A!Spec

-----------------------------------------------------------------------------
(* Accounts                                                                *)

ReferralRows == [referrer : Emails, status : {"registered", "qualified"}]

RequestRecords ==
  [at : {"idle", "creates", "wallet", "commits"}, email : Emails \union {None},
   given : Codes \union {None}, code : Codes \union {None}, item : 1..Len(Items) + 1,
   new : SUBSET C!AllItems, referral : {None} \union ReferralRows]

\* Its transaction has inserted a user.
Registers(q) == q.at \in {"wallet", "commits"} /\ q.code # None

\* A request in its transaction, given the rows that are committed.
RequestSound(q, us, rows) ==
  /\ q.at = "creates" => q.email \in Emails /\ q.item = 1 /\ q.new = {} /\ q.code = None /\ q.referral = None
  /\ q.at \in {"wallet", "commits"} =>
       /\ q.email \in Emails
       /\ rows[q.email] = {} => \A k \in 1..q.item - 1 : Items[k] \in q.new
       /\ q.code = None => q.given = None /\ q.referral = None
       /\ q.code # None => us[q.email] = None /\ \A e \in Emails : us[e] # q.code
       /\ q.referral # None => us[q.referral.referrer] # None
  /\ q.at = "wallet" => q.referral = None
  /\ q.at = "commits" => q.item = Len(Items) + 1

\* What two transactions have inserted is not the same user or code.
Differ(p, q) == Registers(p) /\ Registers(q) => p.email # q.email /\ p.code # q.code

\* An order of registration, in which the referrer comes first.
Ordered(f, n, us, refs) ==
  /\ \A d \in Emails : us[d] # None => f[d] < n
  /\ \A d \in Emails : refs[d] # None =>
       /\ us[d] # None /\ us[refs[d].referrer] # None
       /\ f[refs[d].referrer] < f[d]

\* The unique columns speak of committed rows and the generator looks at them
\* only, so the invariant says what transactions in progress have inserted.
AccountsInv ==
  /\ users \in [Emails -> Codes \union {None}]
  /\ wallet \in [Emails -> SUBSET C!AllItems]
  /\ referral \in [Emails -> {None} \union ReferralRows]
  /\ served \in 0..MaxRequests
  /\ conversions \in [Emails -> Nat] /\ \A e \in Emails : conversions[e] <= served
  /\ C!WalletsComplete /\ C!CodesUnique
  /\ request \in [Requests -> RequestRecords]
  /\ \A r \in Requests : RequestSound(request[r], users, wallet)
  /\ \A r, x \in Requests : r # x => Differ(request[r], request[x])
  /\ \E f \in [Emails -> Nat], n \in Nat : Ordered(f, n, users, referral)

LEMMA AccountsInit == C!Init => AccountsInv
<1> SUFFICES ASSUME C!Init PROVE AccountsInv
  OBVIOUS
<1>1. Len(Items) \in Nat
  BY AccountsConstants, LenProperties
<1>2. C!Idle \in RequestRecords /\ C!Idle.at = "idle"
  BY <1>1 DEF C!Idle, RequestRecords
<1>3. /\ request \in [Requests -> RequestRecords]
      /\ \A r \in Requests : RequestSound(request[r], users, wallet)
      /\ \A r, x \in Requests : r # x => Differ(request[r], request[x])
  BY <1>2 DEF C!Init, RequestSound, Differ, Registers
<1>4. \E f \in [Emails -> Nat], n \in Nat : Ordered(f, n, users, referral)
  <2>1. [e \in Emails |-> 0] \in [Emails -> Nat] /\ Ordered([e \in Emails |-> 0], 0, users, referral)
    BY DEF C!Init, Ordered
  <2> QED
    BY <2>1
<1>5. C!WalletsComplete /\ C!CodesUnique
  BY DEF C!Init, C!WalletsComplete, C!CodesUnique
<1>6. /\ users \in [Emails -> Codes \union {None}]
      /\ wallet \in [Emails -> SUBSET C!AllItems]
      /\ referral \in [Emails -> {None} \union ReferralRows]
      /\ served \in 0..MaxRequests
      /\ conversions \in [Emails -> Nat] /\ \A e \in Emails : conversions[e] <= served
  BY AccountsConstants DEF C!Init
<1> QED
  BY <1>3, <1>4, <1>5, <1>6 DEF AccountsInv

\* A request goes on, and nothing is committed.
LEMMA RequestGoes ==
  ASSUME AccountsInv, NEW r \in Requests, NEW q \in RequestRecords,
         request' = [request EXCEPT ![r] = q],
         UNCHANGED <<users, wallet, referral, conversions>>,
         served' \in 0..MaxRequests, served <= served',
         RequestSound(q, users, wallet),
         \A x \in Requests \ {r} : Differ(request[x], q)
  PROVE  AccountsInv'
<1>1. request' \in [Requests -> RequestRecords]
  BY DEF AccountsInv
<1>2. \A x \in Requests : request'[x] = IF x = r THEN q ELSE request[x]
  BY DEF AccountsInv
<1>3. \A x \in Requests : RequestSound(request'[x], users', wallet')
  BY <1>2, Zenon DEF AccountsInv
<1>4. \A x, y \in Requests : x # y => Differ(request'[x], request'[y])
  <2>1. \A x \in Requests \ {r} : Differ(q, request[x])
    BY Zenon DEF Differ
  <2> QED
    BY <1>2, <2>1, Zenon DEF AccountsInv
<1>5. \A e \in Emails : conversions'[e] <= served'
  BY DEF AccountsInv
<1> QED
  BY <1>1, <1>3, <1>4, <1>5 DEF AccountsInv, C!WalletsComplete, C!CodesUnique

LEMMA RequestsServe ==
  ASSUME AccountsInv, C!Serve
  PROVE  served' \in 0..MaxRequests /\ served <= served' /\ served' = served + 1
BY AccountsConstants DEF AccountsInv, C!Serve

\* A user is added, last in the order of registration, with a referrer who was
\* there or with none.
LEMMA Registration ==
  ASSUME AccountsInv, NEW e \in Emails, users[e] = None,
         NEW c, users' = [users EXCEPT ![e] = c],
         NEW ref, ref # None => ref \in ReferralRows /\ users[ref.referrer] # None,
         referral' = [referral EXCEPT ![e] = ref],
         ref # None => c # None
  PROVE  \E f \in [Emails -> Nat], n \in Nat : Ordered(f, n, users', referral')
<1>1. PICK f \in [Emails -> Nat], n \in Nat : Ordered(f, n, users, referral)
  BY DEF AccountsInv
<1> DEFINE g == [f EXCEPT ![e] = n]
<1>2. /\ g \in [Emails -> Nat] /\ n + 1 \in Nat
      /\ g[e] = n /\ \A d \in Emails \ {e} : g[d] = f[d]
  OBVIOUS
<1> HIDE DEF g
<1>3. /\ users'[e] = c /\ \A d \in Emails \ {e} : users'[d] = users[d]
      /\ referral'[e] = ref /\ \A d \in Emails \ {e} : referral'[d] = referral[d]
  BY DEF AccountsInv
<1>4. ASSUME NEW d \in Emails, users'[d] # None PROVE g[d] < n + 1
  <2>1. CASE d = e
    BY <1>2, <2>1
  <2>2. CASE d # e
    <3>1. f[d] < n /\ g[d] = f[d] /\ f[d] \in Nat
      BY <1>1, <1>2, <1>3, <1>4, <2>2 DEF Ordered
    <3> QED
      BY <3>1
  <2> QED
    BY <2>1, <2>2
<1>5. ASSUME NEW d \in Emails, referral'[d] # None
      PROVE  /\ users'[d] # None /\ users'[referral'[d].referrer] # None
             /\ g[referral'[d].referrer] < g[d]
  <2>1. CASE d = e
    <3>1. /\ ref # None /\ ref.referrer \in Emails \ {e} /\ users[ref.referrer] # None
          /\ c # None
      BY <1>3, <1>5, <2>1 DEF ReferralRows
    <3>2. f[ref.referrer] < n
      BY <1>1, <3>1 DEF Ordered
    <3>3. g[ref.referrer] = f[ref.referrer] /\ g[e] = n
      BY <1>2, <3>1
    <3>4. g[ref.referrer] < g[e]
      BY <3>2, <3>3
    <3> QED
      BY <1>3, <2>1, <3>1, <3>4
  <2>2. CASE d # e
    <3>1. referral'[d] = referral[d] /\ referral[d] # None /\ referral[d] \in ReferralRows
      BY <1>3, <1>5, <2>2 DEF AccountsInv
    <3>2. /\ users[d] # None /\ users[referral[d].referrer] # None
          /\ f[referral[d].referrer] < f[d]
      BY <1>1, <3>1 DEF Ordered
    <3>3. referral[d].referrer \in Emails \ {e}
      BY <3>1, <3>2 DEF ReferralRows
    <3>4. g[referral[d].referrer] = f[referral[d].referrer] /\ g[d] = f[d]
      BY <1>2, <2>2, <3>3
    <3>5. g[referral[d].referrer] < g[d]
      BY <3>2, <3>4
    <3> QED
      BY <1>3, <2>2, <3>1, <3>2, <3>3, <3>5
  <2> QED
    BY <2>1, <2>2
<1>6. Ordered(g, n + 1, users', referral')
  BY <1>4, <1>5, Zenon DEF Ordered
<1> QED
  BY <1>2, <1>6

LEMMA AccountsNext == AccountsInv /\ [C!Next]_(C!vars) => AccountsInv'
<1> SUFFICES ASSUME AccountsInv, [C!Next]_(C!vars) PROVE AccountsInv'
  OBVIOUS
<1>0. Len(Items) \in Nat /\ C!Idle \in RequestRecords /\ C!Idle.at = "idle"
  BY AccountsConstants, LenProperties DEF C!Idle, RequestRecords
<1>00. served \in 0..MaxRequests /\ served <= served
  BY DEF AccountsInv
<1>1. ASSUME NEW r \in Requests, NEW e \in Emails, NEW given \in Codes \union {None}, C!Validate(r, e, given)
      PROVE  AccountsInv'
  <2> DEFINE q == [C!Idle EXCEPT !.at = "creates", !.email = e, !.given = given]
  <2>1. /\ q \in RequestRecords /\ q.at = "creates" /\ q.email = e /\ q.item = 1
        /\ q.new = {} /\ q.code = None /\ q.referral = None
    BY <1>0 DEF C!Idle, RequestRecords
  <2>2. request' = [request EXCEPT ![r] = q] /\ UNCHANGED <<users, wallet, referral, conversions>>
    BY <1>1 DEF C!Validate
  <2>3. served' \in 0..MaxRequests /\ served <= served'
    BY <1>1, RequestsServe DEF C!Validate
  <2> HIDE DEF q
  <2>4. RequestSound(q, users, wallet) /\ \A x \in Requests \ {r} : Differ(request[x], q)
    BY <2>1 DEF RequestSound, Differ, Registers
  <2> QED
    BY <2>1, <2>2, <2>3, <2>4, RequestGoes
<1>2. ASSUME NEW r \in Requests, NEW e \in Emails, C!NeedWallet(r, e)
      PROVE  AccountsInv'
  <2> DEFINE q == [C!Idle EXCEPT !.at = "wallet", !.email = e]
  <2>1. /\ q \in RequestRecords /\ q.at = "wallet" /\ q.email = e /\ q.item = 1
        /\ q.new = {} /\ q.code = None /\ q.referral = None /\ q.given = None
    BY <1>0 DEF C!Idle, RequestRecords
  <2>2. request' = [request EXCEPT ![r] = q] /\ UNCHANGED <<users, wallet, referral, conversions>>
    BY <1>2 DEF C!NeedWallet
  <2>3. served' \in 0..MaxRequests /\ served <= served'
    BY <1>2, RequestsServe DEF C!NeedWallet
  <2> HIDE DEF q
  <2>4. RequestSound(q, users, wallet) /\ \A x \in Requests \ {r} : Differ(request[x], q)
    BY <2>1 DEF RequestSound, Differ, Registers
  <2> QED
    BY <2>1, <2>2, <2>3, <2>4, RequestGoes
<1>3. ASSUME NEW r \in Requests, C!RollBack(r) \/ (C!CreateUser(r) /\ C!Goes(r, C!Idle))
      PROVE  AccountsInv'
  <2>1. request' = [request EXCEPT ![r] = C!Idle] /\ UNCHANGED <<users, wallet, referral, conversions, served>>
    BY <1>3 DEF C!RollBack, C!Goes
  <2>2. RequestSound(C!Idle, users, wallet) /\ \A x \in Requests \ {r} : Differ(request[x], C!Idle)
    BY <1>0 DEF RequestSound, Differ, Registers
  <2> QED
    BY <1>0, <1>00, <2>1, <2>2, RequestGoes
<1>4. ASSUME NEW r \in Requests, C!CreateUser(r) PROVE AccountsInv'
  <2> DEFINE q == request[r]
  <2>0. q \in RequestRecords /\ RequestSound(q, users, wallet) /\ q.at = "creates"
    BY <1>4 DEF AccountsInv, C!CreateUser
  <2>1. CASE C!Goes(r, C!Idle)
    BY <1>3, <1>4, <2>1
  <2>2. ASSUME users[q.email] = None, ~ C!Inserting(Requests \ {r}, "email", q.email),
               NEW c \in Codes \ C!CodesInUse, ~ C!Inserting(Requests \ {r}, "code", c),
               C!Goes(r, [q EXCEPT !.at = "wallet", !.code = c])
        PROVE AccountsInv'
    <3> DEFINE p == [q EXCEPT !.at = "wallet", !.code = c]
    <3>1. /\ p \in RequestRecords /\ p.at = "wallet" /\ p.email = q.email /\ p.item = q.item
          /\ p.new = q.new /\ p.code = c /\ p.referral = q.referral /\ p.given = q.given
      BY <2>0, <2>2 DEF RequestRecords
    <3>2. /\ request' = [request EXCEPT ![r] = p]
          /\ UNCHANGED <<users, wallet, referral, conversions, served>>
      BY <2>2 DEF C!Goes
    <3>3. q.email \in Emails /\ q.item = 1 /\ q.new = {} /\ q.referral = None
      BY <2>0 DEF RequestSound
    <3>4. c # None /\ \A e \in Emails : users[e] # c
      BY <2>2, AccountsConstants DEF C!CodesInUse
    <3> HIDE DEF p, q
    <3>5. RequestSound(p, users, wallet)
      BY <2>2, <3>1, <3>3, <3>4 DEF RequestSound
    <3>6. \A x \in Requests \ {r} : Differ(request[x], p)
      <4> SUFFICES ASSUME NEW x \in Requests \ {r}, Registers(request[x])
                   PROVE  request[x].email # p.email /\ request[x].code # p.code
        BY DEF Differ
      <4>1. request[x].at # "creates"
        BY DEF Registers
      <4>2. request[x].email # q.email /\ request[x].code # c
        <5>1. request[x]["email"] # q.email /\ request[x]["code"] # c
          BY <2>2, <4>1, Zenon DEF C!Inserting
        <5> QED
          BY <5>1
      <4> QED
        BY <3>1, <4>2
    <3> QED
      BY <1>00, <3>1, <3>2, <3>5, <3>6, RequestGoes
  <2> QED
    BY <1>4, <2>1, <2>2 DEF C!CreateUser
<1>5. ASSUME NEW r \in Requests, C!EnsureItem(r) PROVE AccountsInv'
  <2> DEFINE q == request[r]
             i == Items[q.item]
             new == IF i \in wallet[q.email] THEN q.new ELSE q.new \union {i}
             p == [q EXCEPT !.item = q.item + 1, !.new = new]
  <2>0. /\ q \in RequestRecords /\ RequestSound(q, users, wallet) /\ q.at = "wallet"
        /\ q.item <= Len(Items)
    BY <1>5 DEF AccountsInv, C!EnsureItem
  <2>1. /\ request' = [request EXCEPT ![r] = p]
        /\ UNCHANGED <<users, wallet, referral, conversions, served>>
    BY <1>5 DEF C!EnsureItem, C!Goes
  <2>2. q.item \in 1..Len(Items) /\ i \in C!AllItems /\ q.new \in SUBSET C!AllItems
    <3>1. q.item \in 1..Len(Items) /\ q.new \in SUBSET C!AllItems
      BY <1>0, <2>0 DEF RequestRecords
    <3>2. i \in C!AllItems
      BY <3>1, AccountsConstants, ElementOfSeq
    <3> QED
      BY <3>1, <3>2
  <2>3. new \in SUBSET C!AllItems
    BY <2>2
  <2> HIDE DEF new
  <2>4. /\ p \in RequestRecords /\ p.at = "wallet" /\ p.email = q.email /\ p.item = q.item + 1
        /\ p.new = new /\ p.code = q.code /\ p.referral = q.referral /\ p.given = q.given
    <3>1. q.item + 1 \in 1..Len(Items) + 1
      BY <1>0, <2>2
    <3> HIDE DEF q
    <3> QED
      BY <2>0, <2>3, <3>1 DEF RequestRecords
  <2>5. ASSUME wallet[q.email] = {}, NEW k \in 1..p.item - 1 PROVE Items[k] \in p.new
    <3>1. k \in 1..q.item - 1 \/ k = q.item
      BY <2>2, <2>4
    <3>2. k \in 1..q.item - 1 => Items[k] \in q.new
      BY <2>0, <2>5 DEF RequestSound
    <3>3. q.new \union {i} = new
      BY <2>5 DEF new
    <3> QED
      BY <2>4, <3>1, <3>2, <3>3
  <2> HIDE DEF p, q, i
  <2>6. RequestSound(p, users, wallet)
    BY <2>0, <2>4, <2>5 DEF RequestSound
  <2>7. \A x \in Requests \ {r} : Differ(request[x], p)
    <3>1. \A x \in Requests \ {r} : Differ(request[x], q)
      BY DEF AccountsInv, q
    <3> QED
      BY <2>0, <2>4, <3>1 DEF Differ, Registers
  <2> QED
    BY <1>00, <2>1, <2>4, <2>6, <2>7, RequestGoes
<1>6. ASSUME NEW r \in Requests, C!AttachReferral(r) PROVE AccountsInv'
  <2> DEFINE q == request[r]
             ref == IF C!Referrer(q) = {} THEN None
                    ELSE [referrer |-> CHOOSE e \in C!Referrer(q) : TRUE, status |-> "registered"]
             p == [q EXCEPT !.at = "commits", !.referral = ref]
  <2>0. /\ q \in RequestRecords /\ RequestSound(q, users, wallet) /\ q.at = "wallet"
        /\ q.item > Len(Items)
    BY <1>6 DEF AccountsInv, C!AttachReferral
  <2>1. /\ request' = [request EXCEPT ![r] = p]
        /\ UNCHANGED <<users, wallet, referral, conversions, served>>
    BY <1>6 DEF C!AttachReferral, C!Goes
  <2>2. ref # None => /\ ref \in ReferralRows /\ users[ref.referrer] # None /\ q.given # None
    <3> SUFFICES ASSUME C!Referrer(q) # {}
                 PROVE  ref \in ReferralRows /\ users[ref.referrer] # None /\ q.given # None
      OBVIOUS
    <3>1. PICK e : e \in C!Referrer(q) /\ ref = [referrer |-> e, status |-> "registered"]
      OBVIOUS
    <3>2. e \in Emails /\ q.given # None /\ C!Code(q, e) = q.given /\ e # q.email
      BY <3>1 DEF C!Referrer
    <3>3. users[e] # None
      BY <3>2 DEF C!Code
    <3> QED
      BY <3>1, <3>2, <3>3 DEF ReferralRows
  <2>3. ref \in {None} \union ReferralRows
    BY <2>2
  <2> HIDE DEF ref
  <2>4. /\ p \in RequestRecords /\ p.at = "commits" /\ p.email = q.email /\ p.item = q.item
        /\ p.new = q.new /\ p.code = q.code /\ p.referral = ref /\ p.given = q.given
    BY <2>0, <2>3 DEF RequestRecords
  <2>5. q.item = Len(Items) + 1
    BY <1>0, <2>0 DEF RequestRecords
  <2> HIDE DEF p, q
  <2>6. RequestSound(p, users, wallet)
    BY <2>0, <2>2, <2>4, <2>5 DEF RequestSound
  <2>7. \A x \in Requests \ {r} : Differ(request[x], p)
    <3>1. \A x \in Requests \ {r} : Differ(request[x], q)
      BY DEF AccountsInv, q
    <3> QED
      BY <2>0, <2>4, <3>1 DEF Differ, Registers
  <2> QED
    BY <1>00, <2>1, <2>4, <2>6, <2>7, RequestGoes
<1>7. ASSUME NEW r \in Requests, C!Commit(r) PROVE AccountsInv'
  <2> DEFINE q == request[r]
  <2>0. /\ q \in RequestRecords /\ RequestSound(q, users, wallet) /\ q.at = "commits"
        /\ q.email \in Emails /\ q.item = Len(Items) + 1 /\ q.new \subseteq C!AllItems
    BY <1>7 DEF AccountsInv, C!Commit, RequestSound, RequestRecords
  <2>1. /\ users' = [users EXCEPT ![q.email] = IF q.code = None THEN users[q.email] ELSE q.code]
        /\ wallet' = [wallet EXCEPT ![q.email] = wallet[q.email] \union q.new]
        /\ referral' = [referral EXCEPT ![q.email] =
                          IF q.referral = None THEN referral[q.email] ELSE q.referral]
        /\ request' = [request EXCEPT ![r] = C!Idle] /\ UNCHANGED <<conversions, served>>
    BY <1>7 DEF C!Commit
  <2>2. wallet[q.email] \union q.new \in {{}, C!AllItems}
    <3>1. CASE wallet[q.email] = {}
      <4>1. \A k \in 1..Len(Items) : Items[k] \in q.new
        BY <1>0, <2>0, <3>1 DEF RequestSound
      <4>2. DOMAIN Items = 1..Len(Items)
        BY AccountsConstants, LenProperties
      <4>3. C!AllItems \subseteq q.new
        BY <4>1, <4>2 DEF C!AllItems
      <4> QED
        BY <2>0, <3>1, <4>3
    <3>2. CASE wallet[q.email] = C!AllItems
      BY <2>0, <3>2
    <3> QED
      BY <2>0, <3>1, <3>2 DEF AccountsInv, C!WalletsComplete
  <2>3. /\ \A x \in Requests : request'[x] = IF x = r THEN C!Idle ELSE request[x]
        /\ request' \in [Requests -> RequestRecords]
    BY <1>0, <2>1 DEF AccountsInv
  <2>4. \A x, y \in Requests : x # y => Differ(request'[x], request'[y])
    <3>1. \A x \in Requests : Differ(request[x], C!Idle) /\ Differ(C!Idle, request[x])
      BY <1>0 DEF Differ, Registers
    <3> QED
      BY <2>3, <3>1, Zenon DEF AccountsInv
  <2>5. \A x \in Requests \ {r} : Differ(q, request[x]) /\ RequestSound(request[x], users, wallet)
    BY DEF AccountsInv
  <2> HIDE DEF q
  <2>6. /\ wallet' \in [Emails -> SUBSET C!AllItems] /\ C!WalletsComplete'
        /\ \A e \in Emails : wallet'[e] = {} => wallet[e] = {}
    BY <2>0, <2>1, <2>2 DEF AccountsInv, C!WalletsComplete
  <2>7. CASE q.code = None
    <3>1. q.referral = None
      BY <2>0, <2>7 DEF RequestSound
    <3>2. users' = users /\ referral' = referral
      BY <2>0, <2>1, <2>7, <3>1 DEF AccountsInv
    <3>3. \A x \in Requests : RequestSound(request'[x], users', wallet')
      <4>1. RequestSound(C!Idle, users', wallet')
        BY <1>0 DEF RequestSound
      <4>2. ASSUME NEW x \in Requests \ {r} PROVE RequestSound(request[x], users', wallet')
        BY <2>5, <2>6, <3>2 DEF RequestSound
      <4> QED
        BY <2>3, <4>1, <4>2
    <3> QED
      <4>1. \E f \in [Emails -> Nat], n \in Nat : Ordered(f, n, users', referral')
        BY <3>2, Zenon DEF AccountsInv
      <4>2. C!CodesUnique'
        BY <3>2 DEF AccountsInv, C!CodesUnique
      <4>3. /\ users' \in [Emails -> Codes \union {None}]
            /\ referral' \in [Emails -> {None} \union ReferralRows]
            /\ served' \in 0..MaxRequests
            /\ conversions' \in [Emails -> Nat] /\ \A e \in Emails : conversions'[e] <= served'
        BY <2>1, <3>2 DEF AccountsInv
      <4> QED
        BY <2>3, <2>4, <2>6, <3>3, <4>1, <4>2, <4>3, Zenon DEF AccountsInv
  <2>8. CASE q.code # None
    <3>1. /\ users[q.email] = None /\ q.code \in Codes /\ \A e \in Emails : users[e] # q.code
          /\ q.referral \in {None} \union ReferralRows
          /\ q.referral # None => users[q.referral.referrer] # None
      BY <2>0, <2>8 DEF RequestSound, RequestRecords
    <3>2. referral[q.email] = None
      <4>1. PICK f \in [Emails -> Nat], n \in Nat : Ordered(f, n, users, referral)
        BY DEF AccountsInv
      <4> QED
        BY <2>0, <3>1, <4>1 DEF Ordered
    <3>3. /\ users' = [users EXCEPT ![q.email] = q.code]
          /\ referral' = [referral EXCEPT ![q.email] = q.referral]
      BY <2>0, <2>1, <2>8, <3>2 DEF AccountsInv
    <3>4. \E f \in [Emails -> Nat], n \in Nat : Ordered(f, n, users', referral')
      BY <2>0, <2>8, <3>1, <3>3, Registration
    <3>5. /\ users' \in [Emails -> Codes \union {None}]
          /\ referral' \in [Emails -> {None} \union ReferralRows]
          /\ \A e \in Emails : users'[e] = IF e = q.email THEN q.code ELSE users[e]
      BY <3>1, <3>3 DEF AccountsInv
    <3>6. C!CodesUnique'
      BY <2>0, <3>1, <3>5 DEF AccountsInv, C!CodesUnique
    <3>7. \A x \in Requests : RequestSound(request'[x], users', wallet')
      <4>1. RequestSound(C!Idle, users', wallet')
        BY <1>0 DEF RequestSound
      <4>2. ASSUME NEW x \in Requests \ {r} PROVE RequestSound(request[x], users', wallet')
        <5>1. RequestSound(request[x], users, wallet)
          BY <2>5
        <5>2. request[x].at \in {"wallet", "commits"} /\ request[x].code # None =>
                request[x].email # q.email /\ request[x].code # q.code
          BY <2>0, <2>5, <2>8 DEF Differ, Registers
        <5>3. \A e \in Emails : users[e] # None => users'[e] # None
          BY <2>8, <3>5
        <5>4. request[x].at \in {"wallet", "commits"} =>
                (request[x].code # None => users'[request[x].email] = None
                                          /\ \A e \in Emails : users'[e] # request[x].code)
          BY <3>5, <5>1, <5>2 DEF RequestSound
        <5>5. request[x].referral # None => request[x].referral.referrer \in Emails
          BY DEF AccountsInv, RequestRecords, ReferralRows
        <5> QED
          BY <2>6, <5>1, <5>3, <5>4, <5>5 DEF RequestSound
      <4> QED
        BY <2>3, <4>1, <4>2
    <3> QED
      BY <2>1, <2>3, <2>4, <2>6, <3>4, <3>5, <3>6, <3>7 DEF AccountsInv
  <2> QED
    BY <2>7, <2>8
<1>8. ASSUME NEW e \in Emails, C!CreateWithoutWallet(e) PROVE AccountsInv'
  <2>1. PICK c \in Codes \ C!CodesInUse :
          /\ users[e] = None /\ ~ C!Inserting(Requests, "email", e)
          /\ ~ C!Inserting(Requests, "code", c)
          /\ users' = [users EXCEPT ![e] = c]
    BY <1>8 DEF C!CreateWithoutWallet
  <2>2. UNCHANGED <<wallet, referral, conversions, request>> /\ served' \in 0..MaxRequests /\ served <= served'
    BY <1>8, RequestsServe DEF C!CreateWithoutWallet
  <2>3. c # None /\ \A d \in Emails : users[d] # c
    BY AccountsConstants DEF C!CodesInUse
  <2>4. referral[e] = None /\ referral' = [referral EXCEPT ![e] = None]
    <3>1. PICK f \in [Emails -> Nat], n \in Nat : Ordered(f, n, users, referral)
      BY DEF AccountsInv
    <3>2. referral[e] = None
      BY <2>1, <3>1 DEF Ordered
    <3> QED
      BY <2>2, <3>2 DEF AccountsInv
  <2>5. \E f \in [Emails -> Nat], n \in Nat : Ordered(f, n, users', referral')
    BY <2>1, <2>3, <2>4, Registration
  <2>6. /\ users' \in [Emails -> Codes \union {None}]
        /\ \A d \in Emails : users'[d] = IF d = e THEN c ELSE users[d]
    BY <2>1 DEF AccountsInv
  <2>7. C!CodesUnique'
    BY <2>3, <2>6 DEF AccountsInv, C!CodesUnique
  <2>8. ASSUME NEW x \in Requests PROVE RequestSound(request'[x], users', wallet')
    <3>1. RequestSound(request[x], users, wallet) /\ request'[x] = request[x] /\ wallet' = wallet
      BY <2>2 DEF AccountsInv
    <3>2. request[x].at \in {"wallet", "commits"} => request[x].email # e /\ request[x].code # c
      <4>1. request[x].at # "creates" => request[x]["email"] # e /\ request[x]["code"] # c
        BY <2>1, Zenon DEF C!Inserting
      <4> QED
        BY <4>1
    <3>3. \A d \in Emails : users[d] # None => users'[d] # None
      BY <2>3, <2>6
    <3>4. request[x].at \in {"wallet", "commits"} =>
            (request[x].code # None => users'[request[x].email] = None
                                       /\ \A d \in Emails : users'[d] # request[x].code)
      BY <2>6, <3>1, <3>2 DEF RequestSound
    <3>5. request[x].referral # None => request[x].referral.referrer \in Emails
      BY DEF AccountsInv, RequestRecords, ReferralRows
    <3> QED
      BY <3>1, <3>3, <3>4, <3>5 DEF RequestSound
  <2>9. \A d \in Emails : conversions'[d] <= served'
    BY <2>2 DEF AccountsInv
  <2> QED
    BY <2>2, <2>5, <2>6, <2>7, <2>8, <2>9 DEF AccountsInv, C!WalletsComplete
<1>9. ASSUME NEW e \in Emails, NEW earns \in BOOLEAN, C!RecordConversion(e, earns) PROVE AccountsInv'
  <2>1. /\ referral[e] # None /\ UNCHANGED <<users, wallet, request>>
        /\ served' \in 0..MaxRequests /\ served' = served + 1
    BY <1>9, RequestsServe DEF C!RecordConversion
  <2>2. CASE UNCHANGED <<referral, conversions>>
    <3>1. \A d \in Emails : conversions'[d] <= served'
      BY <2>1, <2>2 DEF AccountsInv
    <3> QED
      BY <2>1, <2>2, <3>1 DEF AccountsInv, C!WalletsComplete, C!CodesUnique
  <2>3. CASE /\ conversions' = [conversions EXCEPT ![e] = conversions[e] + 1]
             /\ referral' = [referral EXCEPT ![e] = [referral[e] EXCEPT !.status = "qualified"]]
    <3>1. referral[e] \in ReferralRows
      BY <2>1 DEF AccountsInv
    <3>2. /\ [referral[e] EXCEPT !.status = "qualified"] \in ReferralRows
          /\ [referral[e] EXCEPT !.status = "qualified"].referrer = referral[e].referrer
      BY <3>1 DEF ReferralRows
    <3>3. /\ referral' \in [Emails -> {None} \union ReferralRows]
          /\ \A d \in Emails : referral'[d] # None =>
               referral[d] # None /\ referral'[d].referrer = referral[d].referrer
      BY <2>1, <2>3, <3>2 DEF AccountsInv
    <3>4. \E f \in [Emails -> Nat], n \in Nat : Ordered(f, n, users', referral')
      <4>1. PICK f \in [Emails -> Nat], n \in Nat : Ordered(f, n, users, referral)
        BY DEF AccountsInv
      <4>2. Ordered(f, n, users', referral')
        BY <2>1, <3>3, <4>1 DEF Ordered
      <4> QED
        BY <4>2
    <3>5. /\ conversions' \in [Emails -> Nat] /\ \A d \in Emails : conversions'[d] <= served'
      BY <2>1, <2>3 DEF AccountsInv
    <3> QED
      BY <2>1, <3>3, <3>4, <3>5 DEF AccountsInv, C!WalletsComplete, C!CodesUnique
  <2> QED
    BY <1>9, <2>2, <2>3 DEF C!RecordConversion
<1>10. CASE UNCHANGED C!vars
  BY <1>10 DEF C!vars, AccountsInv, C!WalletsComplete, C!CodesUnique
<1> QED
  BY <1>1, <1>2, <1>3, <1>4, <1>5, <1>6, <1>7, <1>8, <1>9, <1>10 DEF C!Next

\* In every group the first to register was referred by nobody of the group.
LEMMA FirstOfGroup ==
  ASSUME AccountsInv, NEW group \in SUBSET Emails, group # {}
  PROVE  \E e \in group : referral[e] = None \/ referral[e].referrer \notin group
<1>1. PICK f \in [Emails -> Nat], n \in Nat : Ordered(f, n, users, referral)
  BY DEF AccountsInv
<1> DEFINE Ranks == {f[e] : e \in group}
<1>2. Ranks \subseteq Nat /\ Ranks # {}
  OBVIOUS
<1>3. PICK k \in Ranks : \A j \in Ranks : k <= j
  <2> HIDE DEF Ranks
  <2>1. PICK k \in Ranks : \A j \in Ranks : <<j, k>> \notin OpToRel(<, Nat)
    BY <1>2, NatLessThanWellFounded, WFMin
  <2> QED
    <3> SUFFICES ASSUME NEW j \in Ranks, ~ (k <= j) PROVE FALSE
      OBVIOUS
    <3>1. j \in Nat /\ k \in Nat /\ j < k
      BY <1>2
    <3>2. <<j, k>> \in OpToRel(<, Nat)
      BY <3>1 DEF OpToRel
    <3> QED
      BY <2>1, <3>2, Zenon
<1>4. PICK e \in group : f[e] = k
  OBVIOUS
<1>5. ASSUME referral[e] # None, referral[e].referrer \in group PROVE FALSE
  <2>1. f[referral[e].referrer] < f[e] /\ f[referral[e].referrer] \in Ranks
    BY <1>1, <1>5 DEF Ordered
  <2>2. f[e] <= f[referral[e].referrer]
    BY <1>3, <1>4, <2>1
  <2> QED
    BY <1>2, <2>1, <2>2
<1> QED
  BY <1>4, <1>5

\* For any users, codes and requests in flight: a wallet is complete or not
\* there, a code names one user, and nobody is referred by somebody they
\* brought in.
THEOREM AccountsAreSound == C!Spec => []C!AccountsSound
<1>1. AccountsInv => C!AccountsSound
  <2> SUFFICES ASSUME AccountsInv PROVE C!TypeOK /\ C!NoReferralCycle
    BY DEF AccountsInv, C!AccountsSound
  <2>1. conversions \in [Emails -> 0..MaxRequests]
    BY AccountsConstants DEF AccountsInv
  <2>2. \A r \in Requests : request[r].at \in {"idle", "creates", "wallet", "commits"}
    BY DEF AccountsInv, RequestRecords
  <2>3. C!TypeOK
    BY <2>1, <2>2 DEF AccountsInv, C!TypeOK, ReferralRows
  <2>4. C!NoReferralCycle
    BY FirstOfGroup DEF C!NoReferralCycle
  <2> QED
    BY <2>3, <2>4
<1> QED
  BY <1>1, AccountsInit, AccountsNext, PTL DEF C!Spec

-----------------------------------------------------------------------------
(* Risk                                                                    *)

LEMMA SameSum == \A f, S : R!SumFunctionOnSet(f, S) = SumFunctionOnSet(f, S)
BY DEF R!SumFunctionOnSet, SumFunctionOnSet, R!FoldFunctionOnSet, FoldFunctionOnSet,
   R!MapThenFoldSet, MapThenFoldSet

LEMMA SameCountR == \A X : R!Cardinality(X) = Cardinality(X)
BY DEF R!Cardinality, Cardinality

\* One entry of a table of numbers is set.
LEMMA EntrySet ==
  ASSUME NEW X, NEW Y, NEW f \in [X -> [Y -> Nat]], NEW x \in X, NEW y \in Y, NEW n \in Nat,
         NEW g, g = [f EXCEPT ![x][y] = n]
  PROVE  /\ g \in [X -> [Y -> Nat]]
         /\ \A v \in X, z \in Y : g[v][z] = IF v = x /\ z = y THEN n ELSE f[v][z]
<1>1. f[x] \in [Y -> Nat]
  OBVIOUS
<1>2. [f[x] EXCEPT ![y] = n] \in [Y -> Nat]
  BY <1>1
<1>3. g = [f EXCEPT ![x] = [f[x] EXCEPT ![y] = n]]
  OBVIOUS
<1> QED
  BY <1>1, <1>2, <1>3

SweepRecords ==
  [at : {"idle", "checks", "records", "rules"}, todo : SUBSET (RiskUsers \X R!KindSet),
   item : {None} \union (RiskUsers \X R!KindSet), wasFrozen : BOOLEAN, score : 0..100,
   age : 0..MaxAge, rule : 0..Len(RiskRules) + 1, freezes : BOOLEAN, adds : SUBSET R!Restrictable]

\* The events that count, with one more of kind new.
EventCounts(u, new, op, re) ==
  [k \in R!KindSet |-> op[u][k] + re[u][k] + (IF k = new THEN 1 ELSE 0)]

Points(counts) == SumFunctionOnSet([k \in R!KindSet |-> Weight[k] * counts[k]], R!KindSet)

Capped(counts) == IF Points(counts) > 100 THEN 100 ELSE Points(counts)

LEMMA ScoreIsCapped ==
  ASSUME NEW u \in RiskUsers, NEW new
  PROVE  R!ScoreWith(u, new) = Capped(EventCounts(u, new, open, reviewing))
<1> DEFINE worth == [k \in R!KindSet |->
             Weight[k] * (R!Open(u, k) + (IF k = new THEN 1 ELSE 0))]
           c == EventCounts(u, new, open, reviewing)
<1>1. worth = [k \in R!KindSet |-> Weight[k] * c[k]]
  BY DEF EventCounts, R!Open
<1>2. R!ScoreWith(u, new) = IF R!SumFunctionOnSet(worth, R!KindSet) > 100 THEN 100
                            ELSE R!SumFunctionOnSet(worth, R!KindSet)
  BY DEF R!ScoreWith
<1> HIDE DEF worth
<1>3. R!SumFunctionOnSet(worth, R!KindSet) = SumFunctionOnSet(worth, R!KindSet)
  BY SameSum
<1>4. SumFunctionOnSet(worth, R!KindSet) = Points(c)
  BY <1>1, Zenon DEF Points
<1> HIDE DEF c
<1>5. R!ScoreWith(u, new) = Capped(c)
  BY <1>2, <1>3, <1>4, Zenon DEF Capped
<1> QED
  BY <1>5 DEF c

LEMMA KindsFinite == IsFiniteSet(R!KindSet)
<1>1. DOMAIN Kinds = 1..Len(Kinds) /\ Len(Kinds) \in Nat
  BY RiskConstants, LenProperties
<1>2. Kinds \in [1..Len(Kinds) -> R!KindSet]
  BY <1>1, RiskConstants, ElementOfSeq, LenProperties
<1>3. \A k \in R!KindSet : \E i \in 1..Len(Kinds) : Kinds[i] = k
  BY <1>1 DEF R!KindSet
<1>4. Kinds \in Surjection(1..Len(Kinds), R!KindSet)
  BY <1>2, <1>3 DEF Surjection
<1>5. IsFiniteSet(1..Len(Kinds))
  BY <1>1, FS_Interval
<1> QED
  BY <1>4, <1>5, FS_Surjection

\* More events do not lower a score.
LEMMA CappedGrows ==
  ASSUME NEW c \in [R!KindSet -> Nat], NEW d \in [R!KindSet -> Nat],
         \A k \in R!KindSet : c[k] <= d[k]
  PROVE  Capped(c) \in 0..100 /\ Capped(d) \in 0..100 /\ Capped(c) <= Capped(d)
<1> DEFINE f == [k \in R!KindSet |-> Weight[k] * c[k]]
           g == [k \in R!KindSet |-> Weight[k] * d[k]]
<1>1. ASSUME NEW k \in R!KindSet PROVE f[k] \in Nat /\ g[k] \in Nat /\ f[k] <= g[k]
  <2>1. Weight[k] \in Nat /\ c[k] \in Nat /\ d[k] \in Nat /\ c[k] <= d[k]
    BY RiskConstants
  <2>2. \A w, m, n \in Nat : m <= n => w * m \in Nat /\ w * n \in Nat /\ w * m <= w * n
    <3> SUFFICES ASSUME NEW w \in Nat, NEW m \in Nat, NEW n \in Nat, m <= n
                 PROVE  w * m \in Nat /\ w * n \in Nat /\ w * m <= w * n
      OBVIOUS
    <3>1. PICK e \in Nat : n = m + e
      BY n - m \in Nat, n = m + (n - m)
    <3>2. w * n = w * m + w * e /\ w * m \in Nat /\ w * e \in Nat
      BY <3>1
    <3> QED
      BY <3>2
  <2> QED
    BY <2>1, <2>2
<1> HIDE DEF f, g
<1>2. /\ SumFunctionOnSet(f, R!KindSet) \in Nat /\ SumFunctionOnSet(g, R!KindSet) \in Nat
      /\ SumFunctionOnSet(f, R!KindSet) <= SumFunctionOnSet(g, R!KindSet)
  BY <1>1, KindsFinite, SumMonotone
<1>3. Points(c) = SumFunctionOnSet(f, R!KindSet) /\ Points(d) = SumFunctionOnSet(g, R!KindSet)
  BY Zenon DEF Points, f, g
<1> QED
  BY <1>2, <1>3 DEF Capped

(***************************************************************************)
(* Who does what: one sweep at a time holds a user's profile.              *)
(***************************************************************************)
SweepSound(q) ==
  /\ q.at \in {"records", "rules"} => q.item \in RiskUsers \X R!KindSet
  /\ q.at # "rules" => q.adds = {}
  /\ q.at = "rules" => q.rule >= 1

RiskBase ==
  /\ R!TypeOK
  /\ \A w \in SweepWorkers : SweepSound(sweep[w])
  /\ \A v, w \in SweepWorkers :
       (v # w /\ sweep[v].at = "rules" /\ sweep[w].at = "rules") => sweep[v].item[1] # sweep[w].item[1]

\* A sweep looks and finds no open event of the kind.
Raises(q) == q.at = "records" /\ open[q.item[1]][q.item[2]] = 0

\* It takes the profile, and has its score.
Rescores(p, q) ==
  /\ p.at = "records" /\ q.at = "rules" /\ q.item = p.item /\ q.rule = 1 /\ q.adds = {}
  /\ \A w \in SweepWorkers : sweep[w].at = "rules" => sweep[w].item[1] # q.item[1]
  /\ q.score = Capped(EventCounts(q.item[1], q.item[2], open, reviewing))

\* A rule acts, or does not match.
Imposes(p, q) ==
  /\ p.at = "rules" /\ p.rule <= Len(RiskRules)
  /\ q.at = "rules" /\ q.item = p.item /\ q.score = p.score /\ q.age = p.age
  /\ q.rule = p.rule + 1
  /\ LET t == RiskRules[p.rule].action IN
       /\ (t \in R!Restrictable /\ R!Matches(RiskRules[p.rule], p.score, p.age)) =>
            active[q.item[1]][t] > 0 \/ t \in q.adds
       /\ \/ q.adds = p.adds
          \/ t \in R!Restrictable /\ q.adds = p.adds \union {t} /\ active[q.item[1]][t] = 0

SweepGoes(w, q) ==
  /\ sweep' = [sweep EXCEPT ![w] = q]
  /\ UNCHANGED <<open, reviewing, score, age, judged, frozen, active, lifted, form>>
  /\ q \in SweepRecords /\ SweepSound(q)
  /\ \/ q.at \in {"idle", "checks"} \/ Raises(q) \/ Rescores(sweep[w], q) \/ Imposes(sweep[w], q)

RulesType == Len(RiskRules) \in Nat /\ DOMAIN RiskRules = 1..Len(RiskRules)

LEMMA RulesTyped == RulesType
BY RiskConstants, LenProperties DEF RulesType

LEMMA IdleSweep == R!Idle \in SweepRecords /\ R!Idle.at = "idle" /\ R!Idle.adds = {}
                   /\ R!Idle.item = None
BY RulesTyped, RiskConstants DEF R!Idle, SweepRecords, RulesType

LEMMA CountsTyped ==
  ASSUME RiskBase, NEW u \in RiskUsers, NEW new
  PROVE  EventCounts(u, new, open, reviewing) \in [R!KindSet -> Nat]
BY DEF RiskBase, R!TypeOK, R!Table, EventCounts

LEMMA SweepsGo ==
  ASSUME RiskBase, NEW w \in SweepWorkers,
         \/ \E s \in SUBSET (RiskUsers \X R!KindSet) : R!StartSweep(w, s)
         \/ R!Check(w) \/ R!Recalculate(w) \/ R!ApplyRule(w) \/ R!WorkerDies(w)
  PROVE  \E q : SweepGoes(w, q)
<1>0. sweep \in [SweepWorkers -> SweepRecords] /\ sweep[w] \in SweepRecords /\ SweepSound(sweep[w])
  BY DEF RiskBase, R!TypeOK, SweepRecords
<1>1. ASSUME NEW s \in SUBSET (RiskUsers \X R!KindSet), R!StartSweep(w, s)
      PROVE  \E q : SweepGoes(w, q)
  <2> DEFINE q == [R!Idle EXCEPT !.at = "checks", !.todo = s]
  <2>1. q \in SweepRecords /\ q.at = "checks" /\ q.adds = {}
    BY <1>1, IdleSweep DEF SweepRecords
  <2>2. /\ sweep' = [sweep EXCEPT ![w] = q]
        /\ UNCHANGED <<open, reviewing, score, age, judged, frozen, active, lifted, form>>
    BY <1>1 DEF R!StartSweep
  <2> HIDE DEF q
  <2> QED
    BY <2>1, <2>2 DEF SweepGoes, SweepSound
<1>2. ASSUME R!WorkerDies(w) PROVE \E q : SweepGoes(w, q)
  <2>1. SweepGoes(w, R!Idle)
    BY <1>2, IdleSweep DEF SweepGoes, SweepSound, R!WorkerDies
  <2> QED
    BY <2>1
<1>3. ASSUME R!Check(w) PROVE \E q : SweepGoes(w, q)
  <2>0. UNCHANGED <<open, reviewing, score, age, judged, frozen, active, lifted, form>> /\ sweep[w].at = "checks"
    BY <1>3 DEF R!Check
  <2>1. CASE sweep' = [sweep EXCEPT ![w] = R!Idle]
    BY <2>0, <2>1, IdleSweep DEF SweepGoes, SweepSound
  <2>2. ASSUME NEW i \in sweep[w].todo, ~ R!IsKnown(i[1], i[2]),
               sweep' = [sweep EXCEPT ![w] =
                      [R!Idle EXCEPT !.at = "records", !.item = i,
                                   !.todo = sweep[w].todo \ {i},
                                   !.wasFrozen = frozen[i[1]]]]
        PROVE \E q : SweepGoes(w, q)
    <3> DEFINE q == [R!Idle EXCEPT !.at = "records", !.item = i,
                                   !.todo = sweep[w].todo \ {i},
                                   !.wasFrozen = frozen[i[1]]]
    <3>1. i \in RiskUsers \X R!KindSet /\ sweep[w].todo \in SUBSET (RiskUsers \X R!KindSet)
      BY <1>0, <2>2 DEF SweepRecords
    <3>2. i[1] \in RiskUsers /\ i[2] \in R!KindSet /\ frozen[i[1]] \in BOOLEAN
      BY <3>1 DEF RiskBase, R!TypeOK
    <3>3. q \in SweepRecords /\ q.at = "records" /\ q.adds = {} /\ q.item = i
      BY <3>1, <3>2, IdleSweep DEF SweepRecords
    <3> HIDE DEF q
    <3>4. open[i[1]][i[2]] = 0
      BY <2>2, <3>2 DEF R!IsKnown, RiskBase, R!TypeOK, R!Table
    <3>5. SweepGoes(w, q)
      BY <2>0, <2>2, <3>1, <3>3, <3>4 DEF SweepGoes, SweepSound, Raises, q
    <3> QED
      BY <3>5
  <2>3. ASSUME NEW i \in sweep[w].todo,
               sweep' = [sweep EXCEPT ![w].todo = sweep[w].todo \ {i}]
        PROVE \E q : SweepGoes(w, q)
    <3> DEFINE q == [sweep[w] EXCEPT !.todo = sweep[w].todo \ {i}]
    <3>1. q \in SweepRecords /\ q.at = "checks" /\ q.adds = sweep[w].adds
      BY <1>0, <2>0 DEF SweepRecords
    <3>2. sweep' = [sweep EXCEPT ![w] = q]
      BY <2>3
    <3>3. q.adds = {}
      BY <1>0, <2>0, <3>1 DEF SweepSound
    <3> HIDE DEF q
    <3>4. SweepGoes(w, q)
      BY <2>0, <3>1, <3>2, <3>3 DEF SweepGoes, SweepSound
    <3> QED
      BY <3>4
  <2> QED
    BY <1>3, <2>1, <2>2, <2>3 DEF R!Check, R!NextItems
<1>4. ASSUME R!Recalculate(w) PROVE \E q : SweepGoes(w, q)
  <2> DEFINE p == sweep[w]
             new == R!ScoreWith(p.item[1], p.item[2])
             q == [p EXCEPT !.at = "rules", !.rule = 1, !.score = new, !.age = age[p.item[1]]]
  <2>0. /\ UNCHANGED <<open, reviewing, score, age, judged, frozen, active, lifted, form>> /\ p.at = "records"
        /\ sweep' = [sweep EXCEPT ![w].at = "rules", ![w].rule = 1, ![w].score = new,
                                  ![w].age = age[p.item[1]]]
        /\ ~ R!Locked(p.item[1])
    BY <1>4 DEF R!Recalculate
  <2>1. p.item[1] \in RiskUsers /\ p.item[2] \in R!KindSet /\ p.item \in RiskUsers \X R!KindSet
        /\ p.adds = {}
    BY <1>0, <2>0 DEF SweepSound
  <2>2. new = Capped(EventCounts(p.item[1], p.item[2], open, reviewing)) /\ new \in 0..100
    <3>1. new = Capped(EventCounts(p.item[1], p.item[2], open, reviewing))
      BY <2>1, ScoreIsCapped
    <3>2. EventCounts(p.item[1], p.item[2], open, reviewing) \in [R!KindSet -> Nat]
      BY <2>1, CountsTyped
    <3>3. Capped(EventCounts(p.item[1], p.item[2], open, reviewing)) \in 0..100
      <4> DEFINE c == EventCounts(p.item[1], p.item[2], open, reviewing)
      <4> HIDE DEF c
      <4>1. c \in [R!KindSet -> Nat]
        BY <3>2 DEF c
      <4>2. \A k \in R!KindSet : c[k] <= c[k]
        BY <4>1
      <4>3. Capped(c) \in 0..100
        BY <4>1, <4>2, CappedGrows
      <4> QED
        BY <4>3 DEF c
    <3> QED
      BY <3>1, <3>3
  <2> HIDE DEF new
  <2>3. sweep' = [sweep EXCEPT ![w] = q]
    BY <1>0, <2>0
  <2>4. 1 \in 0..Len(RiskRules) + 1 /\ age[p.item[1]] \in 0..MaxAge
    BY <2>1, RulesTyped DEF RulesType, RiskBase, R!TypeOK
  <2>5. /\ q \in SweepRecords /\ q.at = "rules" /\ q.item = p.item /\ q.adds = p.adds
        /\ q.rule = 1 /\ q.score = new
    BY <1>0, <2>2, <2>4 DEF SweepRecords
  <2> HIDE DEF q, p
  <2>6. \A v \in SweepWorkers : sweep[v].at = "rules" => sweep[v].item[1] # q.item[1]
    BY <2>0, <2>5 DEF R!Locked
  <2>7. Rescores(p, q)
    BY <2>0, <2>1, <2>2, <2>5, <2>6 DEF Rescores
  <2>8. SweepSound(q)
    BY <2>1, <2>5 DEF SweepSound
  <2> QED
    BY <2>0, <2>3, <2>5, <2>7, <2>8 DEF SweepGoes, p
<1>5. ASSUME R!ApplyRule(w) PROVE \E q : SweepGoes(w, q)
  <2> DEFINE p == sweep[w]
             u == p.item[1]
             rule == RiskRules[p.rule]
             next == [p EXCEPT !.rule = p.rule + 1]
  <2>0. UNCHANGED <<open, reviewing, score, age, judged, frozen, active, lifted, form>> /\ p.at = "rules"
        /\ p.rule <= Len(RiskRules)
    BY <1>5 DEF R!ApplyRule
  <2>1. /\ p \in SweepRecords /\ p.rule \in 1..Len(RiskRules) /\ p.rule + 1 \in 0..Len(RiskRules) + 1
        /\ p.item \in RiskUsers \X R!KindSet /\ u \in RiskUsers
    BY <1>0, <2>0, RulesTyped DEF SweepRecords, SweepSound, RulesType
  <2>2. /\ next \in SweepRecords /\ next.at = "rules" /\ next.item = p.item /\ next.score = p.score
        /\ next.age = p.age /\ next.rule = p.rule + 1 /\ next.adds = p.adds
    BY <2>0, <2>1 DEF SweepRecords
  <2> HIDE DEF next
  <2>3. ASSUME sweep' = [sweep EXCEPT ![w] = next],
               (rule.action \in R!Restrictable /\ R!Matches(rule, p.score, p.age)) => R!Found(w, rule.action) = 1
        PROVE  \E q : SweepGoes(w, q)
    <3>1. SweepSound(next)
      BY <2>1, <2>2 DEF SweepSound
    <3>2. ASSUME rule.action \in R!Restrictable, R!Matches(rule, p.score, p.age)
          PROVE  active[u][rule.action] > 0 \/ rule.action \in p.adds
      <4>1. active[u][rule.action] \in Nat
        BY <2>1, <3>2 DEF RiskBase, R!TypeOK, R!Table
      <4> QED
        BY <2>3, <3>2, <4>1 DEF R!Found
    <3>3. Imposes(p, next)
      BY <2>0, <2>2, <3>2, Zenon DEF Imposes
    <3>4. SweepGoes(w, next)
      BY <2>0, <2>2, <2>3, <3>1, <3>3, Zenon DEF SweepGoes
    <3> QED
      BY <3>4
  <2>4. CASE ~ R!Matches(rule, p.score, p.age)
    <3>1. sweep' = [sweep EXCEPT ![w] = next]
      BY <1>5, <2>4 DEF R!ApplyRule, next
    <3> QED
      BY <2>3, <2>4, <3>1
  <2>5. CASE R!Matches(rule, p.score, p.age) /\ rule.action \in R!Restrictable
    <3>0. sweep' = [sweep EXCEPT ![w] =
             IF R!Found(w, rule.action) > 1 THEN R!Idle
             ELSE IF R!Found(w, rule.action) = 1 THEN next
             ELSE [next EXCEPT !.adds = next.adds \union {rule.action}]]
      BY <1>5, <2>5 DEF R!ApplyRule, R!Acted, R!Restrictable, next
    <3>1. R!Found(w, rule.action) \in Nat /\ active[u][rule.action] \in Nat
      BY <2>1, <2>5 DEF RiskBase, R!TypeOK, R!Table, R!Found
    <3>2. CASE R!Found(w, rule.action) > 1
      <4>1. sweep' = [sweep EXCEPT ![w] = R!Idle]
        BY <3>0, <3>2
      <4>2. SweepGoes(w, R!Idle)
        BY <2>0, <4>1, IdleSweep DEF SweepGoes, SweepSound
      <4> QED
        BY <4>2
    <3>3. CASE R!Found(w, rule.action) = 1
      <4>1. sweep' = [sweep EXCEPT ![w] = next]
        BY <3>0, <3>3
      <4> QED
        BY <2>3, <3>3, <4>1
    <3>4. CASE R!Found(w, rule.action) = 0
      <4> DEFINE q == [next EXCEPT !.adds = next.adds \union {rule.action}]
      <4>1. sweep' = [sweep EXCEPT ![w] = q]
        BY <3>0, <3>4
      <4>2. /\ q \in SweepRecords /\ q.at = "rules" /\ q.item = p.item /\ q.score = p.score
            /\ q.age = p.age /\ q.rule = p.rule + 1 /\ q.adds = p.adds \union {rule.action}
        BY <2>2, <2>5 DEF SweepRecords
      <4> HIDE DEF q
      <4>3. active[u][rule.action] = 0
        BY <3>1, <3>4 DEF R!Found
      <4>4. SweepSound(q)
        BY <2>1, <4>2 DEF SweepSound
      <4>5. Imposes(p, q)
        BY <2>0, <2>5, <4>2, <4>3, Zenon DEF Imposes
      <4>6. SweepGoes(w, q)
        BY <2>0, <4>1, <4>2, <4>4, <4>5, Zenon DEF SweepGoes
      <4> QED
        BY <4>6
    <3> QED
      BY <3>1, <3>2, <3>3, <3>4
  <2>6. CASE R!Matches(rule, p.score, p.age) /\ rule.action \notin R!Restrictable /\ rule.action = "freeze_account"
    <3> DEFINE q == [next EXCEPT !.freezes = next.freezes \/ ~ p.wasFrozen]
    <3>1. sweep' = [sweep EXCEPT ![w] = q]
      <4>1. next.freezes = p.freezes
        BY <2>1 DEF next, SweepRecords
      <4>2. sweep' = [sweep EXCEPT ![w] = [next EXCEPT !.freezes = @ \/ ~ sweep[w].wasFrozen]]
        BY <1>5, <2>6 DEF R!ApplyRule, R!Acted, next
      <4> QED
        BY <4>1, <4>2
    <3>2. next.freezes \in BOOLEAN /\ (next.freezes \/ ~ p.wasFrozen) \in BOOLEAN
      BY <2>2 DEF SweepRecords
    <3>3. /\ q \in SweepRecords /\ q.at = "rules" /\ q.item = p.item /\ q.score = p.score
          /\ q.age = p.age /\ q.rule = p.rule + 1 /\ q.adds = p.adds
      BY <2>2, <3>2 DEF SweepRecords
    <3> HIDE DEF q
    <3>4. SweepSound(q)
      BY <2>1, <3>3 DEF SweepSound
    <3>5. Imposes(p, q)
      BY <2>0, <2>6, <3>3, Zenon DEF Imposes
    <3>6. SweepGoes(w, q)
      BY <2>0, <3>1, <3>3, <3>4, <3>5, Zenon DEF SweepGoes
    <3> QED
      BY <3>6
  <2>7. CASE R!Matches(rule, p.score, p.age) /\ rule.action \notin R!Restrictable /\ rule.action # "freeze_account"
    <3>1. sweep' = [sweep EXCEPT ![w] = next]
      BY <1>5, <2>7 DEF R!ApplyRule, R!Acted, next
    <3> QED
      BY <2>3, <2>7, <3>1
  <2> QED
    BY <2>4, <2>5, <2>6, <2>7
<1> QED
  BY <1>1, <1>2, <1>3, <1>4, <1>5

LEMMA SweepStays ==
  ASSUME RiskBase, NEW w \in SweepWorkers, NEW q, SweepGoes(w, q)
  PROVE  RiskBase' /\ \A v \in SweepWorkers : sweep'[v] = IF v = w THEN q ELSE sweep[v]
<1>1. /\ sweep' \in [SweepWorkers -> SweepRecords]
      /\ \A v \in SweepWorkers : sweep'[v] = IF v = w THEN q ELSE sweep[v]
  BY DEF SweepGoes, RiskBase, R!TypeOK, SweepRecords
<1>2. R!TypeOK'
  BY <1>1 DEF SweepGoes, RiskBase, R!TypeOK, SweepRecords, R!Table
<1>3. \A v \in SweepWorkers : SweepSound(sweep'[v])
  BY <1>1 DEF SweepGoes, RiskBase
<1>4. ASSUME q.at = "rules", NEW v \in SweepWorkers \ {w}, sweep[v].at = "rules"
      PROVE  sweep[v].item[1] # q.item[1]
  <2>1. CASE Rescores(sweep[w], q)
    BY <1>4, <2>1 DEF Rescores
  <2>2. CASE Imposes(sweep[w], q)
    BY <1>4, <2>2 DEF Imposes, RiskBase
  <2> QED
    BY <1>4, <2>1, <2>2 DEF SweepGoes, Raises
<1>5. \A v, x \in SweepWorkers :
       (v # x /\ sweep'[v].at = "rules" /\ sweep'[x].at = "rules") => sweep'[v].item[1] # sweep'[x].item[1]
  BY <1>1, <1>4 DEF RiskBase
<1> QED
  BY <1>1, <1>2, <1>3, <1>5 DEF RiskBase

\* The state after a sweep commits.
Commits(w, u, k, q) ==
  /\ u = sweep[w].item[1] /\ k = sweep[w].item[2] /\ u \in RiskUsers /\ k \in R!KindSet
  /\ sweep[w].at = "rules" /\ sweep[w].rule = Len(RiskRules) + 1
  /\ sweep' = [sweep EXCEPT ![w] = q] /\ q \in SweepRecords /\ q.at = "checks" /\ q.adds = {}
  /\ \A v \in RiskUsers, j \in R!KindSet :
       open'[v][j] = IF v = u /\ j = k THEN open[v][j] + 1 ELSE open[v][j]
  /\ \A v \in RiskUsers, t \in R!Restrictable :
       active'[v][t] = IF v = u /\ t \in sweep[w].adds THEN active[v][t] + 1 ELSE active[v][t]
  /\ \A v \in RiskUsers : score'[v] = IF v = u THEN sweep[w].score ELSE score[v]
  /\ \A v \in RiskUsers : judged'[v] = IF v = u THEN sweep[w].age ELSE judged[v]
  /\ UNCHANGED <<reviewing, lifted, form>>

LEMMA CommitIs ==
  ASSUME RiskBase, NEW w \in SweepWorkers, R!Commit(w)
  PROVE  RiskBase' /\ \E u, k, q : Commits(w, u, k, q)
<1> DEFINE p == sweep[w]
           u == p.item[1]
           k == p.item[2]
           q == [R!Idle EXCEPT !.at = "checks", !.todo = p.todo]
           now == [t \in R!Restrictable |-> active[u][t] + (IF t \in p.adds THEN 1 ELSE 0)]
<1>0. p \in SweepRecords /\ SweepSound(p) /\ p.at = "rules" /\ p.rule > Len(RiskRules)
  BY DEF RiskBase, R!TypeOK, SweepRecords, R!Commit
<1>1. /\ u \in RiskUsers /\ k \in R!KindSet /\ p.rule = Len(RiskRules) + 1 /\ p.score \in 0..100
      /\ p.age \in 0..MaxAge /\ p.adds \in SUBSET R!Restrictable /\ p.freezes \in BOOLEAN
      /\ p.todo \in SUBSET (RiskUsers \X R!KindSet)
  BY <1>0, RulesTyped DEF SweepSound, SweepRecords, RulesType
<1>2. /\ open' = [open EXCEPT ![u][k] = open[u][k] + 1]
      /\ score' = [score EXCEPT ![u] = p.score]
      /\ judged' = [judged EXCEPT ![u] = p.age] /\ UNCHANGED age
      /\ frozen' = [frozen EXCEPT ![u] = frozen[u] \/ p.freezes]
      /\ active' = [active EXCEPT ![u] = now]
      /\ sweep' = [sweep EXCEPT ![w] = q]
      /\ UNCHANGED <<reviewing, lifted, form>>
  BY DEF R!Commit
<1>3. q \in SweepRecords /\ q.at = "checks" /\ q.adds = {}
  BY <1>1, IdleSweep DEF SweepRecords
<1>4. /\ open' \in [RiskUsers -> [R!KindSet -> Nat]]
      /\ \A v \in RiskUsers, j \in R!KindSet :
            open'[v][j] = IF v = u /\ j = k THEN open[u][k] + 1 ELSE open[v][j]
  <2>1. open \in [RiskUsers -> [R!KindSet -> Nat]]
    BY DEF RiskBase, R!TypeOK, R!Table
  <2>2. open[u][k] + 1 \in Nat
    BY <1>1, <2>1
  <2> HIDE DEF u, k
  <2> QED
    BY <1>1, <1>2, <2>1, <2>2, EntrySet
<1>5. active \in [RiskUsers -> [R!Restrictable -> Nat]]
  BY DEF RiskBase, R!TypeOK, R!Table
<1>6. now \in [R!Restrictable -> Nat]
  BY <1>1, <1>5
<1> HIDE DEF q
<1>7. /\ active' \in [RiskUsers -> [R!Restrictable -> Nat]]
      /\ \A v \in RiskUsers : active'[v] = IF v = u THEN now ELSE active[v]
  BY <1>1, <1>2, <1>5, <1>6
<1>8. \A v \in RiskUsers, t \in R!Restrictable :
       active'[v][t] = IF v = u /\ t \in p.adds THEN active[v][t] + 1 ELSE active[v][t]
  BY <1>5, <1>7
<1>9. /\ score' \in [RiskUsers -> 0..100] /\ frozen' \in [RiskUsers -> BOOLEAN]
      /\ judged' \in [RiskUsers -> 0..MaxAge]
      /\ \A v \in RiskUsers : score'[v] = IF v = u THEN p.score ELSE score[v]
      /\ \A v \in RiskUsers : judged'[v] = IF v = u THEN p.age ELSE judged[v]
  <2>1. (frozen[u] \/ p.freezes) \in BOOLEAN
    OBVIOUS
  <2>2. /\ score \in [RiskUsers -> 0..100] /\ frozen \in [RiskUsers -> BOOLEAN]
        /\ judged \in [RiskUsers -> 0..MaxAge]
    BY DEF RiskBase, R!TypeOK
  <2> HIDE DEF u, p
  <2>3. frozen' \in [RiskUsers -> BOOLEAN]
    BY <1>2, <2>1, <2>2
  <2>4. /\ score' \in [RiskUsers -> 0..100]
        /\ \A v \in RiskUsers : score'[v] = IF v = u THEN p.score ELSE score[v]
    BY <1>1, <1>2, <2>2
  <2>5. /\ judged' \in [RiskUsers -> 0..MaxAge]
        /\ \A v \in RiskUsers : judged'[v] = IF v = u THEN p.age ELSE judged[v]
    BY <1>1, <1>2, <2>2
  <2> QED
    BY <2>3, <2>4, <2>5
<1>10. /\ sweep' \in [SweepWorkers -> SweepRecords]
       /\ \A v \in SweepWorkers : sweep'[v] = IF v = w THEN q ELSE sweep[v]
  BY <1>2, <1>3 DEF RiskBase, R!TypeOK, SweepRecords
<1> HIDE DEF now
<1>11. Commits(w, u, k, q)
  BY <1>0, <1>1, <1>2, <1>3, <1>4, <1>8, <1>9 DEF Commits
<1>12. R!TypeOK'
  BY <1>2, <1>4, <1>7, <1>9, <1>10 DEF RiskBase, R!TypeOK, SweepRecords, R!Table
<1>13. SweepSound(q)
  BY <1>3 DEF SweepSound
<1>14. RiskBase'
  BY <1>3, <1>10, <1>12, <1>13 DEF RiskBase
<1> QED
  BY <1>11, <1>14

\* Events are worked forward: no user's count of a kind grows, and no more are open.
Reviews ==
  /\ open' \in [RiskUsers -> [R!KindSet -> Nat]] /\ reviewing' \in [RiskUsers -> [R!KindSet -> Nat]]
  /\ \A v \in RiskUsers, j \in R!KindSet :
       /\ open'[v][j] <= open[v][j]
       /\ open'[v][j] + reviewing'[v][j] <= open[v][j] + reviewing[v][j]
  /\ UNCHANGED <<score, age, judged, frozen, active, lifted, sweep, form>>

LEMMA ReviewIs ==
  ASSUME RiskBase, NEW u \in RiskUsers, NEW k \in R!KindSet, R!Review(u, k) \/ R!Resolve(u, k)
  PROVE  Reviews
<1>0. /\ open \in [RiskUsers -> [R!KindSet -> Nat]] /\ reviewing \in [RiskUsers -> [R!KindSet -> Nat]]
      /\ open[u][k] \in Nat /\ reviewing[u][k] \in Nat
      /\ UNCHANGED <<score, age, judged, frozen, active, lifted, sweep, form>>
  BY DEF RiskBase, R!TypeOK, R!Table, R!Review, R!Resolve
<1>1. CASE /\ open[u][k] > 0 /\ open' = [open EXCEPT ![u][k] = open[u][k] - 1]
           /\ \/ reviewing' = [reviewing EXCEPT ![u][k] = reviewing[u][k] + 1]
              \/ UNCHANGED reviewing
  <2>1. open[u][k] - 1 \in Nat
    BY <1>0, <1>1
  <2>2. /\ open' \in [RiskUsers -> [R!KindSet -> Nat]]
        /\ \A v \in RiskUsers, j \in R!KindSet :
            open'[v][j] = IF v = u /\ j = k THEN open[u][k] - 1 ELSE open[v][j]
    BY <1>0, <1>1, <2>1, EntrySet
  <2>3. CASE reviewing' = [reviewing EXCEPT ![u][k] = reviewing[u][k] + 1]
    <3>1. /\ reviewing' \in [RiskUsers -> [R!KindSet -> Nat]]
          /\ \A v \in RiskUsers, j \in R!KindSet :
            reviewing'[v][j] = IF v = u /\ j = k THEN reviewing[u][k] + 1 ELSE reviewing[v][j]
      BY <1>0, <2>3, EntrySet
    <3> QED
      BY <1>0, <2>2, <3>1 DEF Reviews
  <2>4. CASE UNCHANGED reviewing
    BY <1>0, <2>2, <2>4 DEF Reviews
  <2> QED
    BY <1>1, <2>3, <2>4
<1>2. CASE reviewing[u][k] > 0 /\ reviewing' = [reviewing EXCEPT ![u][k] = reviewing[u][k] - 1]
           /\ UNCHANGED open
  <2>1. reviewing[u][k] - 1 \in Nat
    BY <1>0, <1>2
  <2>2. /\ reviewing' \in [RiskUsers -> [R!KindSet -> Nat]]
        /\ \A v \in RiskUsers, j \in R!KindSet :
            reviewing'[v][j] = IF v = u /\ j = k THEN reviewing[u][k] - 1 ELSE reviewing[v][j]
    BY <1>0, <1>2, <2>1, EntrySet
  <2> QED
    BY <1>0, <1>2, <2>2 DEF Reviews
<1> QED
  BY <1>1, <1>2 DEF R!Review, R!Resolve

\* A restriction is asked for, added or lifted.
Asks(a, u, t) ==
  /\ a \in RiskAdmins /\ u \in RiskUsers /\ t \in R!Restrictable
  /\ form[a] = R!NoForm /\ active[u][t] = 0
  /\ form' = [form EXCEPT ![a] = [user |-> u, type |-> t]] /\ UNCHANGED <<active, lifted>>

Adds(a, u, t) ==
  /\ a \in RiskAdmins /\ u \in RiskUsers /\ t \in R!Restrictable
  /\ form[a] = [user |-> u, type |-> t] /\ form' = [form EXCEPT ![a] = R!NoForm]
  /\ \A v \in RiskUsers, s \in R!Restrictable :
       active'[v][s] = IF v = u /\ s = t THEN active[v][s] + 1 ELSE active[v][s]
  /\ UNCHANGED lifted

Lifts(u, t) ==
  /\ u \in RiskUsers /\ t \in R!Restrictable /\ active[u][t] > 0
  /\ \A v \in RiskUsers, s \in R!Restrictable :
       /\ active'[v][s] = IF v = u /\ s = t THEN active[v][s] - 1 ELSE active[v][s]
       /\ lifted'[v][s] = IF v = u /\ s = t THEN lifted[v][s] + 1 ELSE lifted[v][s]
  /\ UNCHANGED form

Administers ==
  /\ UNCHANGED <<open, reviewing, score, judged, sweep>>
  /\ \/ \E a, u, t : Asks(a, u, t) \/ Adds(a, u, t)
     \/ \E u, t : Lifts(u, t)
     \/ UNCHANGED <<active, lifted, form>>

LEMMA StaffKeepTypes ==
  ASSUME RiskBase, Reviews
  PROVE  RiskBase'
<1>1. R!TypeOK'
  BY DEF RiskBase, R!TypeOK, R!Table, Reviews
<1> QED
  BY <1>1 DEF RiskBase, Reviews

LEMMA AdministrationIs ==
  ASSUME RiskBase,
         \/ \E u \in RiskUsers, f \in BOOLEAN : R!SetFrozen(u, f)
         \/ \E a \in RiskAdmins, u \in RiskUsers, t \in R!Restrictable : R!RestrictReads(a, u, t)
         \/ \E a \in RiskAdmins : R!RestrictCreates(a)
         \/ \E u \in RiskUsers, t \in R!Restrictable : R!Unrestrict(u, t)
         \/ \E u \in RiskUsers : R!DayPasses(u)
         \/ UNCHANGED R!vars
  PROVE  RiskBase' /\ Administers
<1>0. /\ active \in [RiskUsers -> [R!Restrictable -> Nat]] /\ lifted \in [RiskUsers -> [R!Restrictable -> Nat]]
      /\ form \in [RiskAdmins -> {R!NoForm} \union [user : RiskUsers, type : R!Restrictable]]
  BY DEF RiskBase, R!TypeOK, R!Table
<1>1. ASSUME NEW u \in RiskUsers, NEW f \in BOOLEAN, R!SetFrozen(u, f) PROVE RiskBase' /\ Administers
  <2>1. R!TypeOK'
    BY <1>1 DEF R!SetFrozen, RiskBase, R!TypeOK, R!Table
  <2> QED
    BY <1>1, <2>1 DEF R!SetFrozen, RiskBase, Administers
<1>2. ASSUME NEW a \in RiskAdmins, NEW u \in RiskUsers, NEW t \in R!Restrictable, R!RestrictReads(a, u, t)
      PROVE  RiskBase' /\ Administers
  <2>1. R!TypeOK'
    BY <1>2 DEF R!RestrictReads, RiskBase, R!TypeOK, R!Table
  <2>2. Asks(a, u, t)
    BY <1>2 DEF R!RestrictReads, Asks
  <2>3. Administers
    BY <1>2, <2>2 DEF Administers, R!RestrictReads
  <2> QED
    BY <1>2, <2>1, <2>3 DEF R!RestrictReads, RiskBase
<1>3. ASSUME NEW a \in RiskAdmins, R!RestrictCreates(a) PROVE RiskBase' /\ Administers
  <2>1. PICK u \in RiskUsers, t \in R!Restrictable : form[a] = [user |-> u, type |-> t]
    BY <1>0, <1>3 DEF R!RestrictCreates
  <2>2. form[a].user = u /\ form[a].type = t /\ active[u][t] \in Nat /\ active[u][t] + 1 \in Nat
    BY <1>0, <2>1
  <2>3. /\ active' = [active EXCEPT ![u][t] = active[u][t] + 1]
        /\ form' = [form EXCEPT ![a] = R!NoForm]
        /\ UNCHANGED <<open, reviewing, score, age, judged, frozen, lifted, sweep>>
    BY <1>3, <2>2 DEF R!RestrictCreates
  <2>4. /\ active' \in [RiskUsers -> [R!Restrictable -> Nat]]
        /\ \A v \in RiskUsers, s \in R!Restrictable :
             active'[v][s] = IF v = u /\ s = t THEN active[u][t] + 1 ELSE active[v][s]
    BY <1>0, <2>2, <2>3, EntrySet
  <2>5. R!TypeOK'
    BY <1>0, <2>3, <2>4 DEF RiskBase, R!TypeOK, R!Table
  <2>6. Adds(a, u, t)
    BY <2>1, <2>3, <2>4 DEF Adds
  <2> QED
    BY <2>3, <2>5, <2>6 DEF RiskBase, Administers
<1>4. ASSUME NEW u \in RiskUsers, NEW t \in R!Restrictable, R!Unrestrict(u, t) PROVE RiskBase' /\ Administers
  <2>1. /\ active' = [active EXCEPT ![u][t] = active[u][t] - 1] /\ active[u][t] > 0
        /\ lifted' = [lifted EXCEPT ![u][t] = lifted[u][t] + 1]
        /\ UNCHANGED <<open, reviewing, score, age, judged, frozen, sweep, form>>
    BY <1>4 DEF R!Unrestrict
  <2>2. active[u][t] - 1 \in Nat /\ lifted[u][t] + 1 \in Nat
    BY <1>0, <2>1
  <2>3. /\ active' \in [RiskUsers -> [R!Restrictable -> Nat]]
        /\ \A v \in RiskUsers, s \in R!Restrictable :
             active'[v][s] = IF v = u /\ s = t THEN active[u][t] - 1 ELSE active[v][s]
    BY <1>0, <2>1, <2>2, EntrySet
  <2>4. /\ lifted' \in [RiskUsers -> [R!Restrictable -> Nat]]
        /\ \A v \in RiskUsers, s \in R!Restrictable :
             lifted'[v][s] = IF v = u /\ s = t THEN lifted[u][t] + 1 ELSE lifted[v][s]
    BY <1>0, <2>1, <2>2, EntrySet
  <2>5. R!TypeOK'
    BY <2>1, <2>3, <2>4 DEF RiskBase, R!TypeOK, R!Table
  <2>6. Lifts(u, t)
    BY <2>1, <2>3, <2>4 DEF Lifts
  <2> QED
    BY <2>1, <2>5, <2>6 DEF RiskBase, Administers
<1>5. ASSUME NEW u \in RiskUsers, R!DayPasses(u) PROVE RiskBase' /\ Administers
  <2>1. /\ age' = [age EXCEPT ![u] = age[u] + 1] /\ age[u] < MaxAge
        /\ UNCHANGED <<open, reviewing, score, judged, frozen, active, lifted, sweep, form>>
    BY <1>5 DEF R!DayPasses
  <2>2. age' \in [RiskUsers -> 0..MaxAge]
    BY <2>1, RiskConstants DEF RiskBase, R!TypeOK
  <2>3. R!TypeOK'
    BY <2>1, <2>2 DEF RiskBase, R!TypeOK, R!Table
  <2> QED
    BY <2>1, <2>3 DEF RiskBase, Administers
<1>6. CASE UNCHANGED R!vars
  <2>1. R!TypeOK'
    BY <1>6 DEF R!vars, RiskBase, R!TypeOK, R!Table
  <2> QED
    BY <1>6, <2>1 DEF R!vars, RiskBase, Administers
<1> QED
  BY <1>1, <1>2, <1>3, <1>4, <1>5, <1>6

\* What a step is.
LEMMA RiskSteps ==
  ASSUME RiskBase, [R!Next]_(R!vars)
  PROVE  /\ RiskBase'
         /\ \/ \E w \in SweepWorkers : \E q : SweepGoes(w, q)
            \/ \E w \in SweepWorkers : \E u, k, q : Commits(w, u, k, q)
            \/ Reviews
            \/ Administers
<1>1. ASSUME NEW w \in SweepWorkers,
             \/ \E s \in SUBSET (RiskUsers \X R!KindSet) : R!StartSweep(w, s)
             \/ R!Check(w) \/ R!Recalculate(w) \/ R!ApplyRule(w) \/ R!WorkerDies(w)
      PROVE  RiskBase' /\ \E q : SweepGoes(w, q)
  <2>1. PICK q : SweepGoes(w, q)
    BY <1>1, SweepsGo
  <2> QED
    BY <2>1, SweepStays
<1>2. ASSUME NEW w \in SweepWorkers, R!Commit(w)
      PROVE  RiskBase' /\ \E u, k, q : Commits(w, u, k, q)
  BY <1>2, CommitIs
<1>3. ASSUME NEW u \in RiskUsers, NEW k \in R!KindSet, R!Review(u, k) \/ R!Resolve(u, k)
      PROVE  RiskBase' /\ Reviews
  BY <1>3, ReviewIs, StaffKeepTypes
<1> QED
  BY <1>1, <1>2, <1>3, AdministrationIs, Zenon DEF R!Next

(***************************************************************************)
(* The score covers the open events.                                       *)
(***************************************************************************)
ScoreInv ==
  /\ \A u \in RiskUsers : Capped(EventCounts(u, None, open, reviewing)) <= score[u]
  /\ \A w \in SweepWorkers : sweep[w].at = "rules" =>
       Capped(EventCounts(sweep[w].item[1], sweep[w].item[2], open, reviewing)) <= sweep[w].score

\* Fewer events, of a user whose score is s.
LEMMA FewerEvents ==
  ASSUME RiskBase, RiskBase', NEW u \in RiskUsers, NEW k, NEW j, NEW s \in Nat,
         Capped(EventCounts(u, k, open, reviewing)) <= s,
         \A i \in R!KindSet : EventCounts(u, j, open', reviewing')[i] <= EventCounts(u, k, open, reviewing)[i]
  PROVE  Capped(EventCounts(u, j, open', reviewing')) <= s
<1> DEFINE c == EventCounts(u, j, open', reviewing')
           d == EventCounts(u, k, open, reviewing)
<1>1. c \in [R!KindSet -> Nat] /\ d \in [R!KindSet -> Nat]
  BY DEF RiskBase, R!TypeOK, R!Table, EventCounts
<1>2. \A i \in R!KindSet : c[i] <= d[i]
  OBVIOUS
<1>3. Capped(d) <= s
  OBVIOUS
<1> HIDE DEF c, d
<1>4. Capped(c) \in 0..100 /\ Capped(d) \in 0..100 /\ Capped(c) <= Capped(d)
  BY <1>1, <1>2, CappedGrows
<1>5. Capped(c) <= s
  BY <1>3, <1>4
<1> QED
  BY <1>5 DEF c

LEMMA ScoreNext ==
  ASSUME RiskBase, RiskBase', ScoreInv, [R!Next]_(R!vars)
  PROVE  ScoreInv'
<1>0. /\ score \in [RiskUsers -> 0..100] /\ sweep \in [SweepWorkers -> SweepRecords]
      /\ \A w \in SweepWorkers : /\ sweep[w].score \in Nat
                                 /\ sweep[w].at = "rules" => sweep[w].item[1] \in RiskUsers
  <2>1. score \in [RiskUsers -> 0..100] /\ sweep \in [SweepWorkers -> SweepRecords]
    BY DEF RiskBase, R!TypeOK, SweepRecords
  <2>2. \A w \in SweepWorkers : sweep[w].score \in 0..100
    BY <2>1 DEF SweepRecords
  <2>3. \A w \in SweepWorkers : sweep[w].at = "rules" => sweep[w].item[1] \in RiskUsers
    BY DEF RiskBase, SweepSound
  <2> QED
    BY <2>1, <2>2, <2>3
<1>1. ASSUME NEW w \in SweepWorkers, NEW q, SweepGoes(w, q) PROVE ScoreInv'
  <2>1. /\ UNCHANGED <<open, reviewing, score>>
        /\ \A v \in SweepWorkers : sweep'[v] = IF v = w THEN q ELSE sweep[v]
    BY <1>0, <1>1 DEF SweepGoes
  <2>2. ASSUME q.at = "rules"
        PROVE  Capped(EventCounts(q.item[1], q.item[2], open, reviewing)) <= q.score
    <3>1. CASE Rescores(sweep[w], q)
      <4>1. q.score = Capped(EventCounts(q.item[1], q.item[2], open, reviewing)) /\ q.score \in 0..100
        BY <1>1, <3>1 DEF Rescores, SweepGoes, SweepRecords
      <4> QED
        BY <4>1
    <3>2. CASE Imposes(sweep[w], q)
      <4>1. sweep[w].at = "rules" /\ q.item = sweep[w].item /\ q.score = sweep[w].score
        BY <3>2 DEF Imposes
      <4>2. Capped(EventCounts(sweep[w].item[1], sweep[w].item[2], open, reviewing)) <= sweep[w].score
        BY <4>1 DEF ScoreInv
      <4> QED
        BY <4>1, <4>2, Zenon
    <3> QED
      BY <1>1, <2>2, <3>1, <3>2 DEF SweepGoes, Raises
  <2> QED
    BY <2>1, <2>2, Zenon DEF ScoreInv
<1>2. ASSUME NEW w \in SweepWorkers, NEW u, NEW k, NEW q, Commits(w, u, k, q) PROVE ScoreInv'
  <2>1. /\ u = sweep[w].item[1] /\ k = sweep[w].item[2] /\ u \in RiskUsers /\ k \in R!KindSet
        /\ sweep[w].at = "rules" /\ q.at = "checks"
        /\ \A v \in SweepWorkers : sweep'[v] = IF v = w THEN q ELSE sweep[v]
        /\ \A v \in RiskUsers : score'[v] = IF v = u THEN sweep[w].score ELSE score[v]
        /\ UNCHANGED reviewing
    BY <1>0, <1>2 DEF Commits
  <2>2. open \in [RiskUsers -> [R!KindSet -> Nat]] /\ reviewing \in [RiskUsers -> [R!KindSet -> Nat]]
    BY DEF RiskBase, R!TypeOK, R!Table
  <2>3. \A v \in RiskUsers, j \in R!KindSet :
          open'[v][j] = IF v = u /\ j = k THEN open[v][j] + 1 ELSE open[v][j]
    BY <1>2 DEF Commits
  <2>4. ASSUME NEW v \in RiskUsers PROVE Capped(EventCounts(v, None, open', reviewing')) <= score'[v]
    <3>1. CASE v = u
      <4>1. Capped(EventCounts(v, k, open, reviewing)) <= sweep[w].score
        BY <2>1, <3>1 DEF ScoreInv
      <4>2. ASSUME NEW i \in R!KindSet
            PROVE  EventCounts(v, None, open', reviewing')[i] <= EventCounts(v, k, open, reviewing)[i]
        <5>1. open[v][i] \in Nat /\ reviewing[v][i] \in Nat /\ reviewing' = reviewing
          BY <2>1, <2>2
        <5>2. open'[v][i] = IF i = k THEN open[v][i] + 1 ELSE open[v][i]
          BY <2>3, <3>1
        <5>3. i # None
          BY RiskConstants
        <5> QED
          BY <5>1, <5>2, <5>3 DEF EventCounts
      <4>3. Capped(EventCounts(v, None, open', reviewing')) <= sweep[w].score
        BY <1>0, <4>1, <4>2, FewerEvents
      <4> QED
        BY <2>1, <3>1, <4>3
    <3>2. CASE v # u
      <4>1. Capped(EventCounts(v, None, open, reviewing)) <= score[v] /\ score[v] \in Nat
        BY <1>0 DEF ScoreInv
      <4>2. ASSUME NEW i \in R!KindSet
            PROVE  EventCounts(v, None, open', reviewing')[i] <= EventCounts(v, None, open, reviewing)[i]
        BY <2>1, <2>2, <2>3, <3>2 DEF EventCounts
      <4>3. Capped(EventCounts(v, None, open', reviewing')) <= score[v]
        BY <4>1, <4>2, FewerEvents
      <4> QED
        BY <2>1, <3>2, <4>3
    <3> QED
      BY <3>1, <3>2
  <2>5. ASSUME NEW x \in SweepWorkers, sweep'[x].at = "rules"
        PROVE  Capped(EventCounts(sweep'[x].item[1], sweep'[x].item[2], open', reviewing')) <= sweep'[x].score
    <3>1. x # w /\ sweep'[x] = sweep[x] /\ sweep[x].at = "rules"
      BY <2>1, <2>5
    <3>2. sweep[x].item[1] # u /\ sweep[x].item[1] \in RiskUsers /\ sweep[x].score \in Nat
      BY <1>0, <2>1, <3>1 DEF RiskBase
    <3> DEFINE v == sweep[x].item[1]
               j == sweep[x].item[2]
    <3>3. Capped(EventCounts(v, j, open, reviewing)) <= sweep[x].score
      BY <3>1 DEF ScoreInv
    <3>4. v # u /\ v \in RiskUsers
      BY <3>2
    <3> HIDE DEF v, j
    <3>5. ASSUME NEW i \in R!KindSet
          PROVE  EventCounts(v, j, open', reviewing')[i] <= EventCounts(v, j, open, reviewing)[i]
      BY <2>1, <2>2, <2>3, <3>4 DEF EventCounts
    <3>6. Capped(EventCounts(v, j, open', reviewing')) <= sweep[x].score
      BY <3>2, <3>3, <3>4, <3>5, FewerEvents
    <3> QED
      BY <3>1, <3>6, Zenon DEF v, j
  <2> QED
    BY <2>4, <2>5, Zenon DEF ScoreInv
<1>3. CASE Reviews
  <2>1. /\ open' \in [RiskUsers -> [R!KindSet -> Nat]] /\ reviewing' \in [RiskUsers -> [R!KindSet -> Nat]]
        /\ open \in [RiskUsers -> [R!KindSet -> Nat]] /\ reviewing \in [RiskUsers -> [R!KindSet -> Nat]]
        /\ \A v \in RiskUsers, j \in R!KindSet :
             open'[v][j] + reviewing'[v][j] <= open[v][j] + reviewing[v][j]
        /\ score' = score /\ sweep' = sweep
    BY <1>3 DEF Reviews, RiskBase, R!TypeOK, R!Table
  <2>2. ASSUME NEW v \in RiskUsers, NEW j, NEW i \in R!KindSet
        PROVE  EventCounts(v, j, open', reviewing')[i] <= EventCounts(v, j, open, reviewing)[i]
    <3>1. /\ open[v][i] \in Nat /\ reviewing[v][i] \in Nat
          /\ open'[v][i] \in Nat /\ reviewing'[v][i] \in Nat
          /\ open'[v][i] + reviewing'[v][i] <= open[v][i] + reviewing[v][i]
      BY <2>1
    <3> QED
      BY <3>1 DEF EventCounts
  <2>3. ASSUME NEW v \in RiskUsers PROVE Capped(EventCounts(v, None, open', reviewing')) <= score'[v]
    <3>1. Capped(EventCounts(v, None, open, reviewing)) <= score[v] /\ score[v] \in Nat
      BY <1>0 DEF ScoreInv
    <3> QED
      BY <2>1, <2>2, <3>1, FewerEvents
  <2>4. ASSUME NEW x \in SweepWorkers, sweep[x].at = "rules"
        PROVE  Capped(EventCounts(sweep[x].item[1], sweep[x].item[2], open', reviewing')) <= sweep[x].score
    <3>1. /\ Capped(EventCounts(sweep[x].item[1], sweep[x].item[2], open, reviewing)) <= sweep[x].score
          /\ sweep[x].item[1] \in RiskUsers /\ sweep[x].score \in Nat
      BY <1>0, <2>4 DEF ScoreInv
    <3> QED
      BY <2>2, <3>1, FewerEvents
  <2> QED
    BY <2>1, <2>3, <2>4, Zenon DEF ScoreInv
<1>4. CASE Administers
  BY <1>4 DEF Administers, ScoreInv
<1> QED
  BY <1>1, <1>2, <1>3, <1>4, RiskSteps

(***************************************************************************)
(* Who scores high enough is restricted.                                   *)
(***************************************************************************)
Imposed(u, t) == active[u][t] + lifted[u][t] > 0

Calls(i, s, a) == RiskRules[i].action \in R!Restrictable /\ R!Matches(RiskRules[i], s, a)

RulesInv ==
  /\ \A u \in RiskUsers : \A i \in DOMAIN RiskRules :
       score[u] > 0 /\ Calls(i, score[u], judged[u]) => Imposed(u, RiskRules[i].action)
  /\ \A w \in SweepWorkers : sweep[w].at = "rules" =>
       \A i \in 1..sweep[w].rule - 1 :
         Calls(i, sweep[w].score, sweep[w].age) => \/ Imposed(sweep[w].item[1], RiskRules[i].action)
                                     \/ RiskRules[i].action \in sweep[w].adds

LEMMA RulesNext ==
  ASSUME RiskBase, RiskBase', RulesInv, [R!Next]_(R!vars)
  PROVE  RulesInv'
<1>0. /\ score \in [RiskUsers -> 0..100] /\ sweep \in [SweepWorkers -> SweepRecords]
      /\ active \in [RiskUsers -> [R!Restrictable -> Nat]] /\ lifted \in [RiskUsers -> [R!Restrictable -> Nat]]
      /\ \A w \in SweepWorkers : sweep[w].at = "rules" =>
            sweep[w].item[1] \in RiskUsers /\ sweep[w].rule \in 1..Len(RiskRules) + 1
  BY RulesTyped DEF RiskBase, R!TypeOK, R!Table, SweepRecords, SweepSound, RulesType
<1>1. ASSUME NEW w \in SweepWorkers, NEW q, SweepGoes(w, q) PROVE RulesInv'
  <2>1. /\ UNCHANGED <<score, judged, active, lifted>>
        /\ \A v \in SweepWorkers : sweep'[v] = IF v = w THEN q ELSE sweep[v]
    BY <1>0, <1>1 DEF SweepGoes
  <2>2. ASSUME q.at = "rules", NEW i \in 1..q.rule - 1, Calls(i, q.score, q.age)
        PROVE  Imposed(q.item[1], RiskRules[i].action) \/ RiskRules[i].action \in q.adds
    <3>1. CASE Rescores(sweep[w], q)
      BY <2>2, <3>1 DEF Rescores
    <3>2. CASE Imposes(sweep[w], q)
      <4>1. /\ sweep[w].at = "rules" /\ q.item = sweep[w].item /\ q.score = sweep[w].score
            /\ q.age = sweep[w].age
            /\ q.rule = sweep[w].rule + 1 /\ sweep[w].adds \subseteq q.adds
            /\ sweep[w].rule \in Nat /\ q.item[1] \in RiskUsers
        BY <1>0, <3>2 DEF Imposes
      <4>2. CASE i = sweep[w].rule
        <5>1. \/ active[q.item[1]][RiskRules[i].action] > 0
              \/ RiskRules[i].action \in q.adds
          BY <2>2, <3>2, <4>1, <4>2 DEF Imposes, Calls
        <5>2. RiskRules[i].action \in R!Restrictable
          BY <2>2 DEF Calls
        <5>3. /\ active[q.item[1]][RiskRules[i].action] \in Nat
              /\ lifted[q.item[1]][RiskRules[i].action] \in Nat
          BY <1>0, <4>1, <5>2
        <5> QED
          BY <5>1, <5>3 DEF Imposed
      <4>3. CASE i # sweep[w].rule
        <5>1. i \in 1..sweep[w].rule - 1
          BY <2>2, <4>1, <4>3
        <5> QED
          BY <2>2, <4>1, <5>1 DEF RulesInv
      <4> QED
        BY <4>2, <4>3
    <3> QED
      BY <1>1, <2>2, <3>1, <3>2 DEF SweepGoes, Raises
  <2> QED
    BY <2>1, <2>2, Zenon DEF RulesInv, Imposed
<1>2. ASSUME NEW w \in SweepWorkers, NEW u, NEW k, NEW q, Commits(w, u, k, q) PROVE RulesInv'
  <2>1. /\ u = sweep[w].item[1] /\ u \in RiskUsers
        /\ sweep[w].at = "rules" /\ sweep[w].rule = Len(RiskRules) + 1 /\ q.at = "checks"
        /\ \A v \in SweepWorkers : sweep'[v] = IF v = w THEN q ELSE sweep[v]
        /\ \A v \in RiskUsers : score'[v] = IF v = u THEN sweep[w].score ELSE score[v]
        /\ \A v \in RiskUsers : judged'[v] = IF v = u THEN sweep[w].age ELSE judged[v]
        /\ \A v \in RiskUsers, t \in R!Restrictable :
             active'[v][t] = IF v = u /\ t \in sweep[w].adds THEN active[v][t] + 1 ELSE active[v][t]
        /\ UNCHANGED lifted
    BY <1>0, <1>2 DEF Commits
  <2>2. ASSUME NEW v \in RiskUsers, NEW t \in R!Restrictable,
               Imposed(v, t) \/ (v = u /\ t \in sweep[w].adds)
        PROVE  Imposed(v, t)'
    <3>1. active[v][t] \in Nat /\ lifted[v][t] \in Nat /\ lifted' = lifted
      BY <1>0, <2>1
    <3>2. active'[v][t] = IF v = u /\ t \in sweep[w].adds THEN active[v][t] + 1 ELSE active[v][t]
      BY <2>1
    <3> QED
      BY <2>2, <3>1, <3>2 DEF Imposed
  <2>3. ASSUME NEW v \in RiskUsers, NEW i \in DOMAIN RiskRules, score'[v] > 0, Calls(i, score'[v], judged'[v])
        PROVE  Imposed(v, RiskRules[i].action)'
    <3>0. RiskRules[i].action \in R!Restrictable
      BY <2>3 DEF Calls
    <3>1. CASE v = u
      <4>0. score'[v] = sweep[w].score /\ judged'[v] = sweep[w].age
        BY <2>1, <3>1
      <4>1. Calls(i, sweep[w].score, sweep[w].age) /\ i \in 1..sweep[w].rule - 1
        <5>1. i \in 1..sweep[w].rule - 1
          BY <2>1, RulesTyped DEF RulesType
        <5> QED
          BY <2>3, <4>0, <5>1, Zenon
      <4>2. Imposed(u, RiskRules[i].action) \/ RiskRules[i].action \in sweep[w].adds
        BY <2>1, <4>1 DEF RulesInv
      <4> QED
        BY <2>2, <3>0, <3>1, <4>2
    <3>2. CASE v # u
      <4>1. score'[v] = score[v] /\ judged'[v] = judged[v]
        BY <2>1, <3>2
      <4>2. Imposed(v, RiskRules[i].action)
        BY <2>3, <4>1, Zenon DEF RulesInv
      <4> QED
        BY <2>2, <3>0, <4>2
    <3> QED
      BY <3>1, <3>2
  <2>4. ASSUME NEW x \in SweepWorkers, sweep'[x].at = "rules", NEW i \in 1..sweep'[x].rule - 1,
               Calls(i, sweep'[x].score, sweep'[x].age)
        PROVE  \/ active'[sweep'[x].item[1]][RiskRules[i].action]
                    + lifted'[sweep'[x].item[1]][RiskRules[i].action] > 0
               \/ RiskRules[i].action \in sweep'[x].adds
    <3>1. sweep'[x] = sweep[x] /\ sweep[x].at = "rules"
      BY <2>1, <2>4
    <3>2. Imposed(sweep[x].item[1], RiskRules[i].action) \/ RiskRules[i].action \in sweep[x].adds
      BY <2>4, <3>1 DEF RulesInv
    <3>3. RiskRules[i].action \in R!Restrictable /\ sweep[x].item[1] \in RiskUsers
      BY <1>0, <2>4, <3>1 DEF Calls
    <3>4. Imposed(sweep[x].item[1], RiskRules[i].action) =>
            active'[sweep[x].item[1]][RiskRules[i].action] + lifted'[sweep[x].item[1]][RiskRules[i].action] > 0
      BY <2>2, <3>3 DEF Imposed
    <3> QED
      BY <3>1, <3>2, <3>4
  <2> QED
    BY <2>3, <2>4, Zenon DEF RulesInv, Imposed
<1>3. CASE Reviews
  BY <1>3, Zenon DEF Reviews, RulesInv, Imposed
<1>4. CASE Administers
  <2>1. score' = score /\ judged' = judged /\ sweep' = sweep
    BY <1>4 DEF Administers
  <2>2. ASSUME NEW v \in RiskUsers, NEW t \in R!Restrictable, Imposed(v, t) PROVE Imposed(v, t)'
    <3>0. active[v][t] \in Nat /\ lifted[v][t] \in Nat
      BY <1>0
    <3>1. ASSUME NEW a, NEW u, NEW s, Asks(a, u, s) PROVE Imposed(v, t)'
      BY <2>2, <3>1 DEF Asks, Imposed
    <3>2. ASSUME NEW a, NEW u, NEW s, Adds(a, u, s) PROVE Imposed(v, t)'
      BY <2>2, <3>0, <3>2 DEF Adds, Imposed
    <3>3. ASSUME NEW u, NEW s, Lifts(u, s) PROVE Imposed(v, t)'
      BY <2>2, <3>0, <3>3 DEF Lifts, Imposed
    <3> QED
      BY <1>4, <2>2, <3>1, <3>2, <3>3 DEF Administers, Imposed
  <2>3. ASSUME NEW v \in RiskUsers, NEW i \in DOMAIN RiskRules, score[v] > 0, Calls(i, score[v], judged[v])
        PROVE  Imposed(v, RiskRules[i].action)'
    BY <2>2, <2>3 DEF RulesInv, Calls
  <2>4. ASSUME NEW x \in SweepWorkers, sweep[x].at = "rules", NEW i \in 1..sweep[x].rule - 1,
               Calls(i, sweep[x].score, sweep[x].age)
        PROVE  Imposed(sweep[x].item[1], RiskRules[i].action)' \/ RiskRules[i].action \in sweep[x].adds
    <3>1. Imposed(sweep[x].item[1], RiskRules[i].action) \/ RiskRules[i].action \in sweep[x].adds
      BY <2>4 DEF RulesInv
    <3>2. RiskRules[i].action \in R!Restrictable /\ sweep[x].item[1] \in RiskUsers
      BY <1>0, <2>4 DEF Calls
    <3>3. Imposed(sweep[x].item[1], RiskRules[i].action) =>
            active'[sweep[x].item[1]][RiskRules[i].action] + lifted'[sweep[x].item[1]][RiskRules[i].action] > 0
      BY <2>2, <3>2 DEF Imposed
    <3> QED
      BY <2>1, <3>1, <3>3 DEF Imposed
  <2> QED
    BY <2>1, <2>3, <2>4 DEF RulesInv, Imposed
<1> QED
  BY <1>1, <1>2, <1>3, <1>4, RiskSteps

(***************************************************************************)
(* Restrictions: new rows are decided on where there is no active one.     *)
(***************************************************************************)
Asking(u, t) == {a \in RiskAdmins : form[a] = [user |-> u, type |-> t]}

Writing(u, t) ==
  \E w \in SweepWorkers : sweep[w].at = "rules" /\ sweep[w].item[1] = u /\ t \in sweep[w].adds

One(b) == IF b THEN 1 ELSE 0

RowsInv ==
  \A u \in RiskUsers, t \in R!Restrictable :
    active[u][t] + Cardinality(Asking(u, t)) + One(Writing(u, t)) <= Cardinality(RiskAdmins) + 1

LEMMA AdminsCounted ==
  ASSUME NEW S \in SUBSET RiskAdmins
  PROVE  /\ IsFiniteSet(S) /\ Cardinality(S) \in Nat /\ Cardinality(RiskAdmins) \in Nat
         /\ Cardinality(S) <= Cardinality(RiskAdmins)
BY RiskConstants, FewerCalls

LEMMA WorkersCounted ==
  ASSUME NEW S \in SUBSET SweepWorkers
  PROVE  /\ IsFiniteSet(S) /\ Cardinality(S) \in Nat /\ Cardinality(SweepWorkers) \in Nat
         /\ Cardinality(S) <= Cardinality(SweepWorkers)
BY RiskConstants, FewerCalls

\* No more rows, requests for one or transactions with one: the sum is no more.
LEMMA FewerRows ==
  ASSUME NEW a \in Nat, NEW b \in Nat, NEW m \in Nat, NEW n \in Nat, NEW x \in BOOLEAN, NEW y \in BOOLEAN,
         NEW c \in Nat, a + m + One(x) <= c + 1, b <= a, n <= m, y => x
  PROVE  b + n + One(y) <= c + 1
BY DEF One

LEMMA RowsNext ==
  ASSUME RiskBase, RiskBase', RowsInv, [R!Next]_(R!vars)
  PROVE  RowsInv'
<1>0. /\ active \in [RiskUsers -> [R!Restrictable -> Nat]] /\ active' \in [RiskUsers -> [R!Restrictable -> Nat]]
      /\ sweep \in [SweepWorkers -> SweepRecords]
      /\ form \in [RiskAdmins -> {R!NoForm} \union [user : RiskUsers, type : R!Restrictable]]
  BY DEF RiskBase, R!TypeOK, R!Table, SweepRecords
<1> SUFFICES ASSUME NEW v \in RiskUsers, NEW s \in R!Restrictable
             PROVE  active'[v][s] + Cardinality(Asking(v, s)') + One(Writing(v, s)')
                      <= Cardinality(RiskAdmins) + 1
  BY Zenon DEF RowsInv
<1> DEFINE asks == Asking(v, s)
           asked == Asking(v, s)'
<1>01. /\ asks \in SUBSET RiskAdmins /\ asked \in SUBSET RiskAdmins
       /\ Writing(v, s) \in BOOLEAN /\ Writing(v, s)' \in BOOLEAN
  BY DEF Asking, Writing
<1>02. asked = {a \in RiskAdmins : form'[a] = [user |-> v, type |-> s]}
  BY DEF Asking
<1>03. asks = {a \in RiskAdmins : form[a] = [user |-> v, type |-> s]}
  BY DEF Asking
<1> HIDE DEF asks, asked
<1>04. /\ Cardinality(asks) \in Nat /\ Cardinality(asked) \in Nat /\ Cardinality(RiskAdmins) \in Nat
       /\ Cardinality(asked) <= Cardinality(RiskAdmins)
       /\ IsFiniteSet(asks)
       /\ active[v][s] \in Nat /\ active'[v][s] \in Nat
  BY <1>0, <1>01, AdminsCounted
<1>05. active[v][s] + Cardinality(asks) + One(Writing(v, s)) <= Cardinality(RiskAdmins) + 1
  BY DEF RowsInv, asks
\* Where nothing was active, everybody may add a row.
<1>06. ASSUME active'[v][s] = 0
       PROVE  active'[v][s] + Cardinality(asked) + One(Writing(v, s)') <= Cardinality(RiskAdmins) + 1
  BY <1>04, <1>06 DEF One
<1>07. ASSUME active'[v][s] <= active[v][s], asked \subseteq asks, Writing(v, s)' => Writing(v, s)
       PROVE  active'[v][s] + Cardinality(asked) + One(Writing(v, s)') <= Cardinality(RiskAdmins) + 1
  <2>1. Cardinality(asked) <= Cardinality(asks)
    BY <1>04, <1>07, FewerCalls
  <2> QED
    BY <1>01, <1>04, <1>05, <1>07, <2>1, FewerRows
<1>1. ASSUME NEW w \in SweepWorkers, NEW q, SweepGoes(w, q)
      PROVE  active'[v][s] + Cardinality(asked) + One(Writing(v, s)') <= Cardinality(RiskAdmins) + 1
  <2>1. /\ active' = active /\ form' = form
        /\ \A x \in SweepWorkers : sweep'[x] = IF x = w THEN q ELSE sweep[x]
    BY <1>0, <1>1 DEF SweepGoes
  <2>2. asked = asks
    BY <1>02, <1>03, <2>1
  <2>3. CASE active[v][s] = 0
    BY <1>06, <2>1, <2>3
  <2>4. CASE active[v][s] # 0
    <3>1. ASSUME q.at = "rules", q.item[1] = v, s \in q.adds PROVE Writing(v, s)
      <4>1. Imposes(sweep[w], q)
        BY <1>1, <3>1 DEF SweepGoes, Raises, Rescores
      <4>2. s \in sweep[w].adds /\ sweep[w].at = "rules" /\ sweep[w].item[1] = v
        BY <2>4, <3>1, <4>1 DEF Imposes
      <4> QED
        BY <4>2 DEF Writing
    <3>2. Writing(v, s)' => Writing(v, s)
      BY <2>1, <3>1 DEF Writing
    <3>3. active'[v][s] <= active[v][s] /\ asked \subseteq asks
      BY <1>04, <2>1, <2>2
    <3> QED
      BY <1>07, <3>2, <3>3
  <2> QED
    BY <2>3, <2>4
<1>2. ASSUME NEW w \in SweepWorkers, NEW u, NEW k, NEW q, Commits(w, u, k, q)
      PROVE  active'[v][s] + Cardinality(asked) + One(Writing(v, s)') <= Cardinality(RiskAdmins) + 1
  <2>1. /\ u = sweep[w].item[1] /\ sweep[w].at = "rules" /\ q.at = "checks"
        /\ \A x \in SweepWorkers : sweep'[x] = IF x = w THEN q ELSE sweep[x]
        /\ active'[v][s] = IF v = u /\ s \in sweep[w].adds THEN active[v][s] + 1 ELSE active[v][s]
        /\ form' = form
    BY <1>0, <1>2 DEF Commits
  <2>2. asked = asks
    BY <1>02, <1>03, <2>1
  <2>3. Writing(v, s)' => Writing(v, s)
    BY <2>1 DEF Writing
  <2>4. CASE v = u /\ s \in sweep[w].adds
    <3>1. Writing(v, s)
      BY <2>1, <2>4 DEF Writing
    <3>2. ~ Writing(v, s)'
      <4> SUFFICES ASSUME NEW x \in SweepWorkers, sweep'[x].at = "rules", sweep'[x].item[1] = v
                   PROVE  FALSE
        BY DEF Writing
      <4>1. x # w /\ sweep[x].at = "rules" /\ sweep[x].item[1] = u
        BY <2>1, <2>4
      <4> QED
        BY <2>1, <4>1 DEF RiskBase
    <3>3. active[v][s] + Cardinality(asks) + 1 <= Cardinality(RiskAdmins) + 1
      BY <1>05, <3>1 DEF One
    <3>4. One(Writing(v, s)') = 0
      BY <3>2 DEF One
    <3>5. active'[v][s] = active[v][s] + 1 /\ Cardinality(asked) = Cardinality(asks)
      BY <2>1, <2>2, <2>4
    <3> QED
      BY <1>04, <3>3, <3>4, <3>5
  <2>5. CASE ~ (v = u /\ s \in sweep[w].adds)
    <3>1. active'[v][s] <= active[v][s] /\ asked \subseteq asks
      BY <1>04, <2>1, <2>2, <2>5
    <3> QED
      BY <1>07, <2>3, <3>1
  <2> QED
    BY <2>4, <2>5
<1>3. ASSUME Reviews
      PROVE  active'[v][s] + Cardinality(asked) + One(Writing(v, s)') <= Cardinality(RiskAdmins) + 1
  <2>1. active' = active /\ form' = form /\ sweep' = sweep
    BY <1>3 DEF Reviews
  <2>2. active'[v][s] <= active[v][s] /\ asked \subseteq asks /\ (Writing(v, s)' => Writing(v, s))
    BY <1>02, <1>03, <1>04, <2>1 DEF Writing
  <2> QED
    BY <1>07, <2>2, Zenon
<1>4. ASSUME Administers
      PROVE  active'[v][s] + Cardinality(asked) + One(Writing(v, s)') <= Cardinality(RiskAdmins) + 1
  <2>0. sweep' = sweep /\ (Writing(v, s)' <=> Writing(v, s))
    BY <1>4 DEF Administers, Writing
  <2>1. ASSUME NEW a, NEW u, NEW t, Asks(a, u, t)
        PROVE  active'[v][s] + Cardinality(asked) + One(Writing(v, s)') <= Cardinality(RiskAdmins) + 1
    <3>1. active' = active /\ active[u][t] = 0 /\ form' = [form EXCEPT ![a] = [user |-> u, type |-> t]]
      BY <2>1 DEF Asks
    <3>2. CASE v = u /\ s = t
      <4>1. active'[v][s] = 0
        BY <3>1, <3>2
      <4> QED
        BY <1>06, <4>1
    <3>3. CASE ~ (v = u /\ s = t)
      <4>1. [user |-> u, type |-> t] # [user |-> v, type |-> s]
        BY <3>3
      <4>2. asked \subseteq asks
        BY <1>0, <1>02, <1>03, <3>1, <4>1
      <4>3. active'[v][s] <= active[v][s]
        BY <1>04, <3>1
      <4> QED
        BY <1>07, <2>0, <4>2, <4>3
    <3> QED
      BY <3>2, <3>3
  <2>2. ASSUME NEW a, NEW u, NEW t, Adds(a, u, t)
        PROVE  active'[v][s] + Cardinality(asked) + One(Writing(v, s)') <= Cardinality(RiskAdmins) + 1
    <3>1. /\ a \in RiskAdmins /\ u \in RiskUsers /\ form[a] = [user |-> u, type |-> t]
          /\ form' = [form EXCEPT ![a] = R!NoForm]
          /\ active'[v][s] = IF v = u /\ s = t THEN active[v][s] + 1 ELSE active[v][s]
      BY <2>2 DEF Adds
    <3>2. R!NoForm # [user |-> v, type |-> s]
      <4>1. R!NoForm.user = None /\ [user |-> v, type |-> s].user = v
        BY DEF R!NoForm
      <4> QED
        BY <4>1, RiskConstants
    <3>3. asked = asks \ {a}
      BY <1>0, <1>02, <1>03, <3>1, <3>2
    <3>4. CASE v = u /\ s = t
      <4>1. a \in asks
        BY <1>03, <3>1, <3>4
      <4>2. Cardinality(asked) = Cardinality(asks) - 1
        BY <1>04, <3>3, <4>1, FS_RemoveElement
      <4>3. One(Writing(v, s)') = One(Writing(v, s)) /\ One(Writing(v, s)) \in Nat
        BY <2>0 DEF One
      <4>4. active'[v][s] = active[v][s] + 1
        BY <3>1, <3>4
      <4> QED
        BY <1>04, <1>05, <4>2, <4>3, <4>4
    <3>5. CASE ~ (v = u /\ s = t)
      <4>1. active'[v][s] <= active[v][s] /\ asked \subseteq asks
        BY <1>04, <3>1, <3>3, <3>5
      <4> QED
        BY <1>07, <2>0, <4>1
    <3> QED
      BY <3>4, <3>5
  <2>3. ASSUME NEW u, NEW t, Lifts(u, t)
        PROVE  active'[v][s] + Cardinality(asked) + One(Writing(v, s)') <= Cardinality(RiskAdmins) + 1
    <3>1. /\ active'[v][s] = IF v = u /\ s = t THEN active[v][s] - 1 ELSE active[v][s]
          /\ form' = form
      BY <2>3 DEF Lifts
    <3>2. active'[v][s] <= active[v][s] /\ asked \subseteq asks
      BY <1>02, <1>03, <1>04, <3>1
    <3> QED
      BY <1>07, <2>0, <3>2
  <2>4. CASE UNCHANGED <<active, lifted, form>>
    <3>1. active'[v][s] <= active[v][s] /\ asked \subseteq asks
      BY <1>02, <1>03, <1>04, <2>4
    <3> QED
      BY <1>07, <2>0, <3>1, Zenon
  <2> QED
    BY <1>4, <2>1, <2>2, <2>3, <2>4, Zenon DEF Administers
<1>5. active'[v][s] + Cardinality(asked) + One(Writing(v, s)') <= Cardinality(RiskAdmins) + 1
  BY <1>1, <1>2, <1>3, <1>4, RiskSteps, Zenon
<1> QED
  BY <1>5 DEF asked

(***************************************************************************)
(* Signals: a sweep records one where it saw none open.                    *)
(***************************************************************************)
Raising(u, k) ==
  {w \in SweepWorkers : sweep[w].at \in {"records", "rules"} /\ sweep[w].item = <<u, k>>}

SignalsInv ==
  \A u \in RiskUsers, k \in R!KindSet :
    open[u][k] + Cardinality(Raising(u, k)) <= Cardinality(SweepWorkers)

LEMMA SignalsNext ==
  ASSUME RiskBase, RiskBase', SignalsInv, [R!Next]_(R!vars)
  PROVE  SignalsInv'
<1>0. /\ open \in [RiskUsers -> [R!KindSet -> Nat]] /\ open' \in [RiskUsers -> [R!KindSet -> Nat]]
      /\ sweep \in [SweepWorkers -> SweepRecords]
  BY DEF RiskBase, R!TypeOK, R!Table, SweepRecords
<1> SUFFICES ASSUME NEW v \in RiskUsers, NEW j \in R!KindSet
             PROVE  open'[v][j] + Cardinality(Raising(v, j)') <= Cardinality(SweepWorkers)
  BY Zenon DEF SignalsInv
<1> DEFINE old == Raising(v, j)
           new == Raising(v, j)'
<1>01. old \in SUBSET SweepWorkers /\ new \in SUBSET SweepWorkers
  BY DEF Raising
<1>02. new = {w \in SweepWorkers : sweep'[w].at \in {"records", "rules"} /\ sweep'[w].item = <<v, j>>}
  BY DEF Raising
<1>03. old = {w \in SweepWorkers : sweep[w].at \in {"records", "rules"} /\ sweep[w].item = <<v, j>>}
  BY DEF Raising
<1>04. open[v][j] + Cardinality(old) <= Cardinality(SweepWorkers)
  BY DEF SignalsInv
<1> HIDE DEF old, new
<1>05. /\ Cardinality(old) \in Nat /\ Cardinality(new) \in Nat /\ Cardinality(SweepWorkers) \in Nat
       /\ Cardinality(new) <= Cardinality(SweepWorkers) /\ IsFiniteSet(old)
       /\ open[v][j] \in Nat /\ open'[v][j] \in Nat
  BY <1>0, <1>01, WorkersCounted
<1>06. ASSUME open'[v][j] <= open[v][j], new \subseteq old
       PROVE  open'[v][j] + Cardinality(new) <= Cardinality(SweepWorkers)
  <2>1. Cardinality(new) <= Cardinality(old)
    BY <1>05, <1>06, FewerCalls
  <2> QED
    BY <1>04, <1>05, <1>06, <2>1
<1>1. ASSUME NEW w \in SweepWorkers, NEW q, SweepGoes(w, q)
      PROVE  open'[v][j] + Cardinality(new) <= Cardinality(SweepWorkers)
  <2>1. /\ open' = open
        /\ \A x \in SweepWorkers : sweep'[x] = IF x = w THEN q ELSE sweep[x]
    BY <1>0, <1>1 DEF SweepGoes
  <2>2. CASE open[v][j] = 0
    BY <1>05, <2>1, <2>2
  <2>3. CASE open[v][j] # 0
    <3>1. ASSUME q.at \in {"records", "rules"}, q.item = <<v, j>> PROVE w \in old
      <4>1. ~ Raises(q)
        BY <2>3, <3>1 DEF Raises
      <4>2. sweep[w].at \in {"records", "rules"} /\ sweep[w].item = q.item
        BY <1>1, <3>1, <4>1 DEF SweepGoes, Rescores, Imposes
      <4> QED
        BY <1>03, <3>1, <4>2
    <3>2. new \subseteq old
      BY <1>02, <1>03, <2>1, <3>1
    <3>3. open'[v][j] <= open[v][j]
      BY <1>05, <2>1
    <3> QED
      BY <1>06, <3>2, <3>3
  <2> QED
    BY <2>2, <2>3
<1>2. ASSUME NEW w \in SweepWorkers, NEW u, NEW k, NEW q, Commits(w, u, k, q)
      PROVE  open'[v][j] + Cardinality(new) <= Cardinality(SweepWorkers)
  <2>1. /\ u = sweep[w].item[1] /\ k = sweep[w].item[2] /\ sweep[w].at = "rules" /\ q.at = "checks"
        /\ \A x \in SweepWorkers : sweep'[x] = IF x = w THEN q ELSE sweep[x]
        /\ open'[v][j] = IF v = u /\ j = k THEN open[v][j] + 1 ELSE open[v][j]
    BY <1>0, <1>2 DEF Commits
  <2>2. sweep[w].item = <<u, k>>
    BY <2>1 DEF RiskBase, SweepSound
  <2>3. new = old \ {w}
    BY <1>02, <1>03, <2>1
  <2>4. CASE v = u /\ j = k
    <3>1. w \in old
      BY <1>03, <2>1, <2>2, <2>4
    <3>2. Cardinality(new) = Cardinality(old) - 1
      BY <1>05, <2>3, <3>1, FS_RemoveElement
    <3> QED
      BY <1>04, <1>05, <2>1, <2>4, <3>2
  <2>5. CASE ~ (v = u /\ j = k)
    <3>1. open'[v][j] <= open[v][j] /\ new \subseteq old
      BY <1>05, <2>1, <2>3, <2>5
    <3> QED
      BY <1>06, <3>1
  <2> QED
    BY <2>4, <2>5
<1>3. ASSUME Reviews
      PROVE  open'[v][j] + Cardinality(new) <= Cardinality(SweepWorkers)
  <2>1. open'[v][j] <= open[v][j] /\ sweep' = sweep
    BY <1>3 DEF Reviews
  <2> QED
    <3>1. new \subseteq old
      BY <1>02, <1>03, <2>1
    <3> QED
      BY <1>06, <2>1, <3>1, Zenon
<1>4. ASSUME Administers
      PROVE  open'[v][j] + Cardinality(new) <= Cardinality(SweepWorkers)
  <2>1. open'[v][j] <= open[v][j] /\ sweep' = sweep
    BY <1>05, <1>4 DEF Administers
  <2> QED
    <3>1. new \subseteq old
      BY <1>02, <1>03, <2>1
    <3> QED
      BY <1>06, <2>1, <3>1, Zenon
<1>5. open'[v][j] + Cardinality(new) <= Cardinality(SweepWorkers)
  BY <1>1, <1>2, <1>3, <1>4, RiskSteps, Zenon
<1> QED
  BY <1>5 DEF new

\* What is proved is inductive with what the sweeps, the forms and the
\* transactions in progress hold.
RiskInv == RiskBase /\ ScoreInv /\ RulesInv /\ RowsInv /\ SignalsInv

LEMMA RiskInit == R!Init => RiskInv
<1> SUFFICES ASSUME R!Init PROVE RiskInv
  OBVIOUS
<1>1. sweep = [w \in SweepWorkers |-> R!Idle] /\ form = [a \in RiskAdmins |-> R!NoForm]
  BY DEF R!Init
<1>2. /\ \A u \in RiskUsers, k \in R!KindSet : open[u][k] = 0 /\ reviewing[u][k] = 0
      /\ \A u \in RiskUsers, t \in R!Restrictable : active[u][t] = 0 /\ lifted[u][t] = 0
      /\ \A u \in RiskUsers : score[u] = 0
  BY DEF R!Init
<1>3. R!TypeOK
  <2>1. /\ open \in R!Table(R!KindSet, Nat) /\ reviewing \in R!Table(R!KindSet, Nat)
        /\ active \in R!Table(R!Restrictable, Nat) /\ lifted \in R!Table(R!Restrictable, Nat)
        /\ score \in [RiskUsers -> 0..100] /\ frozen \in [RiskUsers -> BOOLEAN]
        /\ age \in [RiskUsers -> 0..MaxAge] /\ judged \in [RiskUsers -> 0..MaxAge]
    BY RiskConstants DEF R!Init, R!Table
  <2>2. form \in [RiskAdmins -> {R!NoForm} \union [user : RiskUsers, type : R!Restrictable]]
    BY <1>1
  <2>3. sweep \in [SweepWorkers -> SweepRecords]
    BY <1>1, IdleSweep
  <2> QED
    BY <2>1, <2>2, <2>3 DEF R!TypeOK, SweepRecords
<1>4. RiskBase
  BY <1>1, <1>3, IdleSweep DEF RiskBase, SweepSound
<1>5. ScoreInv
  <2>1. ASSUME NEW u \in RiskUsers PROVE Capped(EventCounts(u, None, open, reviewing)) <= score[u]
    <3> DEFINE f == [k \in R!KindSet |-> Weight[k] * EventCounts(u, None, open, reviewing)[k]]
    <3>1. ASSUME NEW k \in R!KindSet PROVE f[k] = 0
      <4>1. EventCounts(u, None, open, reviewing)[k] = 0
        BY <1>2, RiskConstants DEF EventCounts
      <4>2. Weight[k] \in Nat
        BY RiskConstants
      <4> QED
        BY <4>1, <4>2
    <3> HIDE DEF f
    <3>2. SumFunctionOnSet(f, R!KindSet) = 0
      BY <3>1, KindsFinite, SumZero
    <3>3. Points(EventCounts(u, None, open, reviewing)) = 0
      BY <3>2, Zenon DEF Points, f
    <3>4. Capped(EventCounts(u, None, open, reviewing)) = 0
      BY <3>3 DEF Capped
    <3> QED
      BY <1>2, <3>4
  <2> QED
    BY <1>1, <2>1, IdleSweep DEF ScoreInv
<1>6. RulesInv
  BY <1>1, <1>2, IdleSweep DEF RulesInv
<1>7. RowsInv
  <2> SUFFICES ASSUME NEW u \in RiskUsers, NEW t \in R!Restrictable
               PROVE  active[u][t] + Cardinality(Asking(u, t)) + One(Writing(u, t)) <= Cardinality(RiskAdmins) + 1
    BY Zenon DEF RowsInv
  <2>1. ~ Writing(u, t)
    BY <1>1, IdleSweep DEF Writing
  <2>2. Asking(u, t) \in SUBSET RiskAdmins
    BY DEF Asking
  <2>3. /\ Cardinality(Asking(u, t)) \in Nat /\ Cardinality(RiskAdmins) \in Nat
        /\ Cardinality(Asking(u, t)) <= Cardinality(RiskAdmins)
    BY <2>2, AdminsCounted
  <2> QED
    BY <1>2, <2>1, <2>3 DEF One
<1>8. SignalsInv
  <2> SUFFICES ASSUME NEW u \in RiskUsers, NEW k \in R!KindSet
               PROVE  open[u][k] + Cardinality(Raising(u, k)) <= Cardinality(SweepWorkers)
    BY Zenon DEF SignalsInv
  <2>1. Raising(u, k) \in SUBSET SweepWorkers
    BY DEF Raising
  <2>2. /\ Cardinality(Raising(u, k)) \in Nat /\ Cardinality(SweepWorkers) \in Nat
        /\ Cardinality(Raising(u, k)) <= Cardinality(SweepWorkers)
    BY <2>1, WorkersCounted
  <2> QED
    BY <1>2, <2>2
<1> QED
  BY <1>4, <1>5, <1>6, <1>7, <1>8 DEF RiskInv

LEMMA RiskNext == RiskInv /\ [R!Next]_(R!vars) => RiskInv'
<1> SUFFICES ASSUME RiskInv, [R!Next]_(R!vars) PROVE RiskInv'
  OBVIOUS
<1>1. RiskBase'
  BY RiskSteps DEF RiskInv
<1> QED
  BY <1>1, ScoreNext, RulesNext, RowsNext, SignalsNext DEF RiskInv

LEMMA RiskIsSafe == RiskInv => R!RiskSound
<1> SUFFICES ASSUME RiskInv PROVE R!RiskSound
  OBVIOUS
<1>1. R!TypeOK
  BY DEF RiskInv, RiskBase
<1>2. R!ScoreCoversEvents
  <2> SUFFICES ASSUME NEW u \in RiskUsers PROVE score[u] >= R!ScoreWith(u, None)
    BY DEF R!ScoreCoversEvents
  <2>1. R!ScoreWith(u, None) <= score[u]
    BY ScoreIsCapped DEF RiskInv, ScoreInv
  <2>2. R!ScoreWith(u, None) \in 0..100
    <3> DEFINE c == EventCounts(u, None, open, reviewing)
    <3>1. c \in [R!KindSet -> Nat]
      BY CountsTyped DEF RiskInv
    <3>2. R!ScoreWith(u, None) = Capped(c)
      BY ScoreIsCapped
    <3> HIDE DEF c
    <3>3. \A k \in R!KindSet : c[k] <= c[k]
      BY <3>1
    <3> QED
      BY <3>1, <3>2, <3>3, CappedGrows
  <2>3. score[u] \in 0..100
    BY <1>1 DEF R!TypeOK
  <2> QED
    BY <2>1, <2>2, <2>3
<1>3. R!RestrictionRowsBounded
  <2> SUFFICES ASSUME NEW u \in RiskUsers, NEW t \in R!Restrictable
               PROVE  active[u][t] <= R!Cardinality(RiskAdmins) + 1
    BY DEF R!RestrictionRowsBounded
  <2>1. Asking(u, t) \in SUBSET RiskAdmins
    BY DEF Asking
  <2>2. Cardinality(Asking(u, t)) \in Nat /\ Cardinality(RiskAdmins) \in Nat
    BY <2>1, AdminsCounted
  <2>3. One(Writing(u, t)) \in {0, 1}
    BY DEF One
  <2>4. active[u][t] \in Nat
    BY <1>1 DEF R!TypeOK, R!Table
  <2>5. active[u][t] + Cardinality(Asking(u, t)) + One(Writing(u, t)) <= Cardinality(RiskAdmins) + 1
    BY DEF RiskInv, RowsInv
  <2>6. active[u][t] <= Cardinality(RiskAdmins) + 1
    BY <2>2, <2>3, <2>4, <2>5
  <2> QED
    BY <2>6, SameCountR
<1>4. R!OpenSignalsBounded
  <2> SUFFICES ASSUME NEW u \in RiskUsers, NEW k \in R!KindSet
               PROVE  open[u][k] <= R!Cardinality(SweepWorkers)
    BY DEF R!OpenSignalsBounded
  <2>1. Raising(u, k) \in SUBSET SweepWorkers
    BY DEF Raising
  <2>2. Cardinality(Raising(u, k)) \in Nat /\ Cardinality(SweepWorkers) \in Nat
    BY <2>1, WorkersCounted
  <2>3. open[u][k] \in Nat
    BY <1>1 DEF R!TypeOK, R!Table
  <2>4. open[u][k] + Cardinality(Raising(u, k)) <= Cardinality(SweepWorkers)
    BY DEF RiskInv, SignalsInv
  <2>5. open[u][k] <= Cardinality(SweepWorkers)
    BY <2>2, <2>3, <2>4
  <2> QED
    BY <2>5, SameCountR
<1> QED
  BY <1>1, <1>2, <1>3, <1>4 DEF R!RiskSound

\* For any signals, rules, workers and administrators: a stored score is worth
\* the user's open events, and restrictions and signals stay within what requests
\* that see no other can add.
THEOREM RiskIsSound == R!Spec => []R!RiskSound
BY RiskInit, RiskNext, RiskIsSafe, PTL DEF R!Spec

\* For any rules, by score and by the age of the account, and whichever of them
\* act before: who was judged to match one that restricts has been restricted,
\* though sweeps overlap, die, and find rows an administrator added.
THEOREM RulesAreImposed == R!Spec => []R!RestrictedWhenHigh
<1>1. RiskInv => R!RestrictedWhenHigh
  BY DEF RiskInv, RulesInv, Calls, Imposed, R!RestrictedWhenHigh
<1> QED
  BY <1>1, RiskInit, RiskNext, PTL DEF R!Spec

-----------------------------------------------------------------------------
(* The parts in a behaviour of the whole: a step of another part, or of the *)
(* whole that touches nothing, is a stutter of each                         *)

LEMMA KycIsPart == Spec => K!Spec
<1>1. Init => K!Init
  BY DEF Init
<1>2. [Next]_vars => [K!Next]_(K!vars)
  BY DEF Next, vars, serverVars, kycVars, K!vars
<1> QED
  BY <1>1, <1>2, PTL DEF Spec, K!Spec

LEMMA AutomationIsPart == Spec => A!Spec
<1>1. Init => A!Init
  BY DEF Init
<1>2. [Next]_vars => [A!Next]_(A!vars)
  BY DEF Next, vars, serverVars, automationVars, A!vars
<1> QED
  BY <1>1, <1>2, PTL DEF Spec, A!Spec

LEMMA GamesArePart == Spec => G!Spec
<1>1. Init => G!Init
  BY DEF Init
<1>2. [Next]_vars => [G!Next]_(G!vars)
  BY DEF Next, vars, serverVars, gameVars, G!vars
<1> QED
  BY <1>1, <1>2, PTL DEF Spec, G!Spec

LEMMA AccountsArePart == Spec => C!Spec
<1>1. Init => C!Init
  BY DEF Init
<1>2. [Next]_vars => [C!Next]_(C!vars)
  BY DEF Next, vars, serverVars, accountVars, C!vars
<1> QED
  BY <1>1, <1>2, PTL DEF Spec, C!Spec

LEMMA RiskIsPart == Spec => R!Spec
<1>1. Init => R!Init
  BY DEF Init
<1>2. [Next]_vars => [R!Next]_(R!vars)
  BY DEF Next, vars, serverVars, riskVars, R!vars
<1> QED
  BY <1>1, <1>2, PTL DEF Spec, R!Spec

LEMMA SnakeIsPart == Spec => N!Spec
<1>1. Init => N!Init
  BY DEF Init
<1>2. [Next]_vars => [N!Next]_(N!vars)
  BY DEF Next, vars, serverVars, snakeVars, N!vars
<1> QED
  BY <1>1, <1>2, PTL DEF Spec, N!Spec

LEMMA MemoryIsPart == Spec => M!Spec
<1>1. Init => M!Init
  BY DEF Init
<1>2. [Next]_vars => [M!Next]_(M!vars)
  BY DEF Next, vars, serverVars, memoryVars, M!vars
<1> QED
  BY <1>1, <1>2, PTL DEF Spec, M!Spec

LEMMA TapIsPart == Spec => T!Spec
<1>1. Init => T!Init
  BY DEF Init
<1>2. [Next]_vars => [T!Next]_(T!vars)
  BY DEF Next, vars, serverVars, tapVars, T!vars
<1> QED
  BY <1>1, <1>2, PTL DEF Spec, T!Spec

\* Whatever else happens on the platform, sessions and the three games keep
\* true what they say they do: rewards are earned, the daily limit is passed
\* by no more than the requests that see no other, the snake does not turn on
\* itself, cards and targets score once.
THEOREM SessionsAreSound == Spec => []SessionsSound
BY GamesArePart, GamesTyped, OnlyEarned, DailyLimitPassedByFew, SnakeIsPart, SnakeIsSound,
   MemoryIsPart, MemoryIsSound, TapIsPart, TapIsSound, PTL
   DEF SessionsSound, G!SessionsSound

\* Whatever else happens on the platform, a rule pays no session within its
\* cooldown, nor beyond its counts of the day and the month.
THEOREM LimitsAreKept == Spec => []RewardLimitsKept
BY GamesArePart, LimitsOfRulesAreKept, PTL DEF RewardLimitsKept

\* Whatever else happens on the platform, rules and their credits keep to
\* their maxima and references, and the identity row is sound.
THEOREM RulesAndIdentity == Spec => []AutomationSound
BY AutomationIsPart, AutomationIsSound, KycIsPart, KycRowIsSound, PTL DEF AutomationSound

\* Whatever else happens on the platform, wallets are complete, codes name one
\* user and referrals have no cycle.
THEOREM RegistrationIsSound == Spec => []AccountsSound
BY AccountsArePart, AccountsAreSound, PTL DEF AccountsSound

\* Whatever else happens on the platform, scores cover open events, and
\* restrictions and signals do not multiply.
THEOREM RiskIsKept == Spec => []RiskSound
BY RiskIsPart, RiskIsSound, PTL DEF RiskSound

\* Whatever else happens on the platform, who was judged to match a rule that
\* restricts has been restricted.
THEOREM RulesStayImposed == Spec => []RestrictedWhenHigh
BY RiskIsPart, RulesAreImposed, PTL DEF RestrictedWhenHigh

\* Whatever else happens on the platform, a verified user stops being verified
\* only by a reviewer's rejection or by a submission saved over an old read.
THEOREM VerifiedStays == Spec => VerifiedIsUndoneByReview
BY KycIsPart, KycVerifiedStays DEF VerifiedIsUndoneByReview

\* Whatever else happens on the platform, a game session that ended is never
\* written again.
THEOREM ClosedIsClosed == Spec => ClosedStaysClosed
BY GamesArePart, ClosedForGood DEF ClosedStaysClosed
=============================================================================
