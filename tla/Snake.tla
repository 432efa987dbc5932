-------------------------------- MODULE Snake --------------------------------
(***************************************************************************)
(* games/snake: the round, its two intervals and the keys.                 *)
(*                                                                         *)
(* Callbacks run one at a time, in any order: the interval that moves the  *)
(* snake, the one that counts the seconds, keys and swipes, and the answer *)
(* to startSession.  Either interval may end the round.                    *)
(***************************************************************************)
EXTENDS Integers, Sequences, SequencesExt

CONSTANTS
  CELLS,          \* of a side of the board
  Start,          \* the body a round begins with, head first
  ROUND_SECONDS,
  MaxScore,       \* bound: less than what fills the board
  MaxRounds       \* bound

Cells == (0..CELLS - 1) \X (0..CELLS - 1)
Directions == {<<1, 0>>, <<-1, 0>>, <<0, 1>>, <<0, -1>>}

VARIABLES
  body, direction, nextDirection, food, score, timeLeft,
  running,        \* as opposed to: the overlay with its start button is shown
  connected,
  round,          \* rounds started
  intervals,      \* live intervals: what they do and the round they are of
  sent            \* calls of endSession

vars == <<body, direction, nextDirection, food, score, timeLeft,
          running, connected, round, intervals, sent>>

Init ==
  /\ body = Start
  /\ direction = <<1, 0>> /\ nextDirection = <<1, 0>>
  /\ food \in Cells \ ToSet(Start)
  /\ score = 0 /\ timeLeft = ROUND_SECONDS
  /\ running = FALSE /\ connected \in BOOLEAN
  /\ round = 0 /\ intervals = {} /\ sent = 0

Reset ==
  /\ body' = Start
  /\ direction' = <<1, 0>> /\ nextDirection' = <<1, 0>>
  /\ food' \in Cells \ ToSet(Start)
  /\ score' = 0 /\ timeLeft' = ROUND_SECONDS

StartGame ==
  /\ ~running /\ round < MaxRounds
  /\ Reset
  /\ running' = TRUE /\ round' = round + 1
  /\ intervals' = intervals \union {<<"step", round'>>, <<"second", round'>>}
  /\ UNCHANGED <<connected, sent>>

\* The platform refuses the session: the round goes on, unreported.
SessionFails ==
  /\ connected /\ round > 0
  /\ connected' = FALSE
  /\ UNCHANGED <<body, direction, nextDirection, food, score, timeLeft,
                 running, round, intervals, sent>>

Finish ==
  /\ running' = FALSE
  /\ intervals' = intervals \ {<<"step", round>>, <<"second", round>>}
  /\ sent' = IF connected THEN sent + 1 ELSE sent

Plays == UNCHANGED <<running, intervals, sent>>

NewHead == <<body[1][1] + nextDirection[1], body[1][2] + nextDirection[2]>>

Crashes == NewHead \notin Cells \/ NewHead \in ToSet(body)

\* The snake's next move: it crashes, eats or goes on.
Step ==
  /\ <<"step", round>> \in intervals /\ running
  /\ direction' = nextDirection
  /\ \/ Crashes /\ Finish /\ UNCHANGED <<body, score, food>>
     \/ /\ ~Crashes /\ NewHead = food /\ score < MaxScore
        /\ body' = <<NewHead>> \o body
        /\ score' = score + 1
        /\ food' \in Cells \ ToSet(body')
        /\ Plays
     \/ /\ ~Crashes /\ NewHead # food
        /\ body' = <<NewHead>> \o Front(body)
        /\ Plays /\ UNCHANGED <<score, food>>
  /\ UNCHANGED <<nextDirection, timeLeft, connected, round>>

\* A key or a swipe; the opposite of the last move is ignored.
Turn(d) ==
  /\ running /\ direction # <<-d[1], -d[2]>>
  /\ nextDirection' = d
  /\ UNCHANGED <<body, direction, food, score, timeLeft, connected, round>>
  /\ Plays

Second ==
  /\ <<"second", round>> \in intervals
  /\ timeLeft' = timeLeft - 1
  /\ IF timeLeft' <= 0 THEN Finish ELSE Plays
  /\ UNCHANGED <<body, direction, nextDirection, food, score, connected, round>>

Next == StartGame \/ SessionFails \/ Step \/ (\E d \in Directions : Turn(d)) \/ Second

Spec == Init /\ [][Next]_vars

(***************************************************************************)
(* Properties.                                                             *)
(***************************************************************************)
TypeOK ==
  /\ direction \in Directions /\ nextDirection \in Directions
  /\ score \in 0..MaxScore /\ timeLeft \in 0..ROUND_SECONDS
  /\ round \in 0..MaxRounds /\ sent \in 0..MaxRounds

\* The body is a path of distinct cells of the board, as long as the score
\* says, and the food is never under it.
BodyIsAPath ==
  /\ Len(body) = Len(Start) + score
  /\ ToSet(body) \subseteq Cells \ {food}
  /\ \A i, j \in DOMAIN body : i # j => body[i] # body[j]
  /\ \A i \in 2..Len(body) :
       <<body[i - 1][1] - body[i][1], body[i - 1][2] - body[i][2]>> \in Directions

\* However many keys are hit between two moves, the snake does not turn on
\* its own neck (turn compares with the last move, not with the last key).
NeckIsSafe == NewHead # body[2]

\* No interval outlives its round, so none moves the next one's snake, and a
\* round is reported once, whichever interval ends it.
RoundsEndOnce ==
  /\ intervals = IF running THEN {<<"step", round>>, <<"second", round>>} ELSE {}
  /\ sent <= IF running THEN round - 1 ELSE round

\* What the game keeps true, part by part above.
SnakeSound == TypeOK /\ BodyIsAPath /\ NeckIsSafe /\ RoundsEndOnce
=============================================================================
