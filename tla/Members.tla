------------------------------- MODULE Members -------------------------------
(***************************************************************************)
(* What the platform decides about its members: registration, identity,    *)
(* risk, automation, sessions and the games they play.  These share no     *)
(* state that their properties read, so a behaviour follows one of them,   *)
(* chosen at the start, and the others stay as they are.                   *)
(***************************************************************************)
EXTENDS Integers, Sequences, FiniteSets

CONSTANTS
  None,
  \* of Risk
  RiskUsers, Kinds, Weight, RiskRules, SweepWorkers, RiskAdmins, MaxRows, MaxSweeps,
  MaxStaff, MaxAge,
  \* of Kyc
  Tabs, Reviewers, MaxSubmissions, MaxReviews,
  \* of Automation
  AutoRules, Processes, MaxEmits,
  \* of Accounts
  Emails, Codes, Items, Requests, MaxRequests,
  \* of Games
  Clients, MaxSessions, GameWorkers, Scores, GameRules, MinDuration, MaxDaily,
  DayLength, MonthLength, GameRounds, MaxTime, MaxEvents,
  \* of Snake, MemoryMatch and TapTarget
  CELLS, Start, SnakeSeconds, MaxScore, SnakeRounds,
  SYMBOLS, PerPair, PerMove, MaxMoves, MemoryRounds,
  TapSeconds, MaxTargets, TapRounds

VARIABLES
  part,
  open, reviewing, score, age, judged, frozen, active, lifted, sweep, form, sweeps, staff,
  kyc, tab, review, submissions, reviews,
  executions, credits, referenced, accountFrozen, risky, call, emits,
  users, wallet, referral, conversions, request, served,
  session, calls, round, running, connected, token, clock, events,
  body, direction, nextDirection, food, snakeScore, snakeTime, snakeRunning,
  snakeConnected, snakeRound, snakeIntervals, snakeSent,
  shown, done, firstCard, lock, matched, moves, memoryRunning,
  memoryConnected, memoryRound, timers, memorySent,
  tapScore, tapTime, tapRunning, tapConnected, tapRound, tapIntervals,
  made, before, target, lifetimes, tapSent

R == INSTANCE Risk WITH
  Users <- RiskUsers, Workers <- SweepWorkers, Admins <- RiskAdmins

K == INSTANCE Kyc

A == INSTANCE Automation

C == INSTANCE Accounts

G == INSTANCE Games WITH
  Workers <- GameWorkers, Rules <- GameRules, MaxRounds <- GameRounds

N == INSTANCE Snake WITH
  ROUND_SECONDS <- SnakeSeconds, MaxRounds <- SnakeRounds,
  score <- snakeScore, timeLeft <- snakeTime, running <- snakeRunning,
  connected <- snakeConnected, round <- snakeRound, intervals <- snakeIntervals,
  sent <- snakeSent

M == INSTANCE MemoryMatch WITH
  MaxRounds <- MemoryRounds,
  open <- shown, running <- memoryRunning, connected <- memoryConnected,
  round <- memoryRound, sent <- memorySent

T == INSTANCE TapTarget WITH
  ROUND_SECONDS <- TapSeconds, MaxRounds <- TapRounds,
  score <- tapScore, timeLeft <- tapTime, running <- tapRunning,
  connected <- tapConnected, round <- tapRound, intervals <- tapIntervals, sent <- tapSent

ASSUME RiskConstants ==
  /\ IsFiniteSet(SweepWorkers) /\ SweepWorkers # {} /\ IsFiniteSet(RiskAdmins)
  /\ None \notin RiskUsers
  /\ Kinds \in Seq(R!KindSet) /\ None \notin R!KindSet
  /\ Weight \in [R!KindSet -> Nat]
  /\ MaxAge \in Nat
  /\ RiskRules \in Seq([min : Nat \union {None}, max : Nat \union {None},
                       ageLt : Nat \union {None}, ageGte : Nat \union {None}, action : STRING])

ASSUME KycConstants == MaxSubmissions \in Nat

\* Somebody emits events; maxima are numbers, and actions are of the kinds
\* the engine tells apart.
ASSUME AutomationConstants ==
  /\ IsFiniteSet(Processes) /\ Processes # {}
  /\ AutoRules \in
       Seq([max : Nat \union {None}, riskLt : BOOLEAN,
            actions : Seq([do : {"credit", "freeze", "other", "raises"},
                           reference : A!References \union {None}])])

ASSUME GamesConstants ==
  /\ MaxSessions \in Nat /\ MaxTime \in Nat /\ MaxEvents \in Nat /\ MinDuration \in Nat
  /\ GameRules \in Seq(G!Rule)
  /\ GameWorkers \in Nat \ {0} /\ MaxDaily \in Nat /\ DayLength \in Nat \ {0}
  /\ None \notin Nat /\ None \notin G!SessionRow

\* A round begins with a snake that lies on the board, heading right.
ASSUME SnakeConstants ==
  /\ CELLS \in Nat /\ SnakeSeconds \in Nat \ {0} /\ MaxScore \in Nat /\ SnakeRounds \in Nat
  /\ Start \in Seq(N!Cells) /\ Len(Start) >= 2
  /\ \A i, j \in 1..Len(Start) : i # j => Start[i] # Start[j]
  /\ \A i \in 2..Len(Start) :
       <<Start[i - 1][1] - Start[i][1], Start[i - 1][2] - Start[i][2]>> \in N!Directions
  /\ Start[1][1] = Start[2][1] + 1 /\ Start[1][2] = Start[2][2]

ASSUME AccountsConstants ==
  MaxRequests \in Nat /\ None \notin Codes /\ Items \in Seq(C!AllItems)

ASSUME MemoryConstants ==
  /\ IsFiniteSet(SYMBOLS) /\ SYMBOLS # {} /\ None \notin M!Cards
  /\ PerPair \in Nat /\ PerMove \in Nat /\ MaxMoves \in Nat /\ MemoryRounds \in Nat

ASSUME TapConstants ==
  TapSeconds \in Nat \ {0} /\ MaxTargets \in Nat /\ TapRounds \in Nat /\ None \notin Nat

riskVars ==
  <<open, reviewing, score, age, judged, frozen, active, lifted, sweep, form, sweeps, staff>>
kycVars == <<kyc, tab, review, submissions, reviews>>
automationVars == <<executions, credits, referenced, accountFrozen, risky, call, emits>>
accountVars == <<users, wallet, referral, conversions, request, served>>
gameVars == <<session, calls, round, running, connected, token, clock, events>>
snakeVars == <<body, direction, nextDirection, food, snakeScore, snakeTime, snakeRunning,
               snakeConnected, snakeRound, snakeIntervals, snakeSent>>
memoryVars == <<shown, done, firstCard, lock, matched, moves, memoryRunning,
                memoryConnected, memoryRound, timers, memorySent>>
tapVars == <<tapScore, tapTime, tapRunning, tapConnected, tapRound, tapIntervals,
             made, before, target, lifetimes, tapSent>>
serverVars == <<riskVars, kycVars, automationVars, accountVars, gameVars>>
vars == <<part, serverVars, snakeVars, memoryVars, tapVars>>

Init ==
  /\ part \in {"risk", "kyc", "automation", "accounts", "games", "snake", "memory", "tap"}
  /\ R!Init /\ K!Init /\ A!Init /\ C!Init /\ G!Init /\ N!Init /\ M!Init /\ T!Init

Next ==
  /\ UNCHANGED part
  /\ \/ /\ part = "risk" /\ R!Next
        /\ UNCHANGED <<kycVars, automationVars, accountVars, gameVars, snakeVars, memoryVars, tapVars>>
     \/ /\ part = "kyc" /\ K!Next
        /\ UNCHANGED <<riskVars, automationVars, accountVars, gameVars, snakeVars, memoryVars, tapVars>>
     \/ /\ part = "automation" /\ A!Next
        /\ UNCHANGED <<riskVars, kycVars, accountVars, gameVars, snakeVars, memoryVars, tapVars>>
     \/ /\ part = "accounts" /\ C!Next
        /\ UNCHANGED <<riskVars, kycVars, automationVars, gameVars, snakeVars, memoryVars, tapVars>>
     \/ /\ part = "games" /\ G!Next
        /\ UNCHANGED <<riskVars, kycVars, automationVars, accountVars, snakeVars, memoryVars, tapVars>>
     \/ /\ part = "snake" /\ N!Next
        /\ UNCHANGED <<serverVars, memoryVars, tapVars>>
     \/ /\ part = "memory" /\ M!Next
        /\ UNCHANGED <<serverVars, snakeVars, tapVars>>
     \/ /\ part = "tap" /\ T!Next
        /\ UNCHANGED <<serverVars, snakeVars, memoryVars>>

Spec == Init /\ [][Next]_vars

\* Signals, scores, restrictions: stated in Risk.
RiskSound == R!RiskSound
RestrictedWhenHigh == R!RestrictedWhenHigh

\* Rules and their credits: AutomationSound, stated in Automation; and the
\* identity row: KycSound, stated in Kyc.
AutomationSound == A!AutomationSound /\ K!KycSound

\* Users, wallets, referrals: AccountsSound, stated in Accounts.
AccountsSound == C!AccountsSound

\* Stated in Kyc.
VerifiedIsUndoneByReview == K!VerifiedIsUndoneByReview

\* Sessions and the games that open them: stated in Games, Snake, MemoryMatch
\* and TapTarget.
SessionsSound == G!SessionsSound /\ N!SnakeSound /\ M!MemorySound /\ T!TapSound

\* Stated in Games.
RewardLimitsKept == G!RewardLimitsKept
ClosedStaysClosed == G!ClosedStaysClosed
=============================================================================
