------------------------------ MODULE TapTarget ------------------------------
(***************************************************************************)
(* games/tap-target: targets that come and go while a round lasts.         *)
(*                                                                         *)
(* An interval replaces the target and another counts the seconds; every   *)
(* target also has a timer of its own, which nobody cancels and which may  *)
(* fire after the target was hit, replaced or the round ended.  Callbacks  *)
(* run one at a time, in any order.                                        *)
(***************************************************************************)
EXTENDS Integers, FiniteSets

CONSTANTS
  ROUND_SECONDS,
  MaxTargets,     \* bound
  MaxRounds,      \* bound
  None

VARIABLES
  score, timeLeft,
  running,        \* as opposed to: the overlay with its start button is shown
  connected,
  round,          \* rounds started
  intervals,      \* live intervals: what they do and the round they are of
  made,           \* targets made, and ...
  before,         \* ... made before this round
  target,         \* currentTarget: its number, or None
  lifetimes,      \* targets whose timer is pending
  sent            \* calls of endSession

vars == <<score, timeLeft, running, connected, round, intervals, made, before, target,
          lifetimes, sent>>

Init ==
  /\ score = 0 /\ timeLeft = ROUND_SECONDS
  /\ running = FALSE /\ connected \in BOOLEAN
  /\ round = 0 /\ intervals = {}
  /\ made = 0 /\ before = 0 /\ target = None /\ lifetimes = {} /\ sent = 0

\* spawn: a new target in the place of the old one.
MakeTarget ==
  /\ made < MaxTargets
  /\ made' = made + 1
  /\ target' = made'
  /\ lifetimes' = lifetimes \union {made'}

StartGame ==
  /\ ~running /\ round < MaxRounds
  /\ score' = 0 /\ timeLeft' = ROUND_SECONDS
  /\ running' = TRUE /\ round' = round + 1
  /\ intervals' = intervals \union {<<"tick", round'>>, <<"spawn", round'>>}
  /\ before' = made
  /\ MakeTarget
  /\ UNCHANGED <<connected, sent>>

\* The platform refuses the session: the round goes on, unreported.
SessionFails ==
  /\ connected /\ round > 0
  /\ connected' = FALSE
  /\ UNCHANGED <<score, timeLeft, running, round, intervals, made, before, target,
                 lifetimes, sent>>

Spawn ==
  /\ <<"spawn", round>> \in intervals /\ running
  /\ MakeTarget
  /\ UNCHANGED <<score, timeLeft, running, connected, round, intervals, before, sent>>

\* A timer removes its target if that is still the one on the board.
Expire(i) ==
  /\ lifetimes' = lifetimes \ {i}
  /\ target' = IF target = i THEN None ELSE target
  /\ UNCHANGED <<score, timeLeft, running, connected, round, intervals, made, before, sent>>

Hit ==
  /\ running /\ target # None
  /\ score' = score + 1
  /\ target' = None
  /\ UNCHANGED <<timeLeft, running, connected, round, intervals, made, before, lifetimes, sent>>

EndGame ==
  /\ running' = FALSE
  /\ intervals' = intervals \ {<<"tick", round>>, <<"spawn", round>>}
  /\ target' = None
  /\ sent' = IF connected THEN sent + 1 ELSE sent

Tick ==
  /\ <<"tick", round>> \in intervals
  /\ timeLeft' = timeLeft - 1
  /\ IF timeLeft' <= 0 THEN EndGame ELSE UNCHANGED <<running, intervals, target, sent>>
  /\ UNCHANGED <<score, connected, round, made, before, lifetimes>>

Next ==
  \/ StartGame \/ SessionFails \/ Spawn \/ Hit \/ Tick
  \/ \E i \in lifetimes : Expire(i)

Spec == Init /\ [][Next]_vars

(***************************************************************************)
(* Properties.                                                             *)
(***************************************************************************)
TypeOK ==
  /\ score \in Nat /\ timeLeft \in 0..ROUND_SECONDS
  /\ target \in 1..MaxTargets \union {None} /\ lifetimes \subseteq 1..made
  /\ round \in 0..MaxRounds /\ sent \in 0..MaxRounds

\* A target counts once: the score is what has been made in this round, less
\* what is on the board, at most.
ScoreIsEarned == score + (IF target = None THEN 0 ELSE 1) <= made - before

\* The target on the board is the newest, of this round, and its own timer
\* is still to come: an older target's never removes it.
TargetIsNewest ==
  target # None => running /\ target = made /\ target > before /\ target \in lifetimes

\* No interval outlives its round and a round is reported once.
RoundsEndOnce ==
  /\ intervals = IF running THEN {<<"tick", round>>, <<"spawn", round>>} ELSE {}
  /\ sent <= IF running THEN round - 1 ELSE round

\* What the game keeps true, part by part above.
TapSound == TypeOK /\ ScoreIsEarned /\ TargetIsNewest /\ RoundsEndOnce
=============================================================================
