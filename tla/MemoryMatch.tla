----------------------------- MODULE MemoryMatch -----------------------------
(***************************************************************************)
(* games/memory-match: cards, the timer that covers two again, the score.  *)
(*                                                                         *)
(* Clicks, timers and answers are callbacks that run one at a time, in any *)
(* order.  A new round builds new cards; the timers of an old one would    *)
(* still hold the old cards, but reset the lock of the new round.          *)
(***************************************************************************)
EXTENDS Integers, FiniteSets

CONSTANTS
  SYMBOLS,        \* one per pair
  PerPair,        \* points for a pair
  PerMove,        \* points lost for a move beyond the minimum
  MaxMoves,       \* bound
  MaxRounds,      \* bound
  None

PAIR_COUNT == Cardinality(SYMBOLS)
Cards == SYMBOLS \X {1, 2}

VARIABLES
  open, done,     \* cards with that class
  firstCard, lock, matched, moves,
  running,        \* as opposed to: the overlay with its start button is shown
  connected,
  round,          \* rounds started
  timers,         \* pending: the cards to cover and their round
  sent            \* calls of endSession

vars == <<open, done, firstCard, lock, matched, moves, running, connected, round, timers, sent>>

Init ==
  /\ open = {} /\ done = {}
  /\ firstCard = None /\ lock = FALSE /\ matched = 0 /\ moves = 0
  /\ running = FALSE /\ connected \in BOOLEAN
  /\ round = 0 /\ timers = {} /\ sent = 0

Larger(a, b) == IF a > b THEN a ELSE b

Score == Larger(0, matched * PerPair - Larger(0, moves - PAIR_COUNT) * PerMove)

StartGame ==
  /\ ~running /\ round < MaxRounds
  /\ open' = {} /\ done' = {}
  /\ firstCard' = None /\ lock' = FALSE /\ matched' = 0 /\ moves' = 0
  /\ running' = TRUE /\ round' = round + 1
  /\ UNCHANGED <<connected, timers, sent>>

\* The platform refuses the session: the round goes on, unreported.
SessionFails ==
  /\ connected /\ round > 0
  /\ connected' = FALSE
  /\ UNCHANGED <<open, done, firstCard, lock, matched, moves, running, round, timers, sent>>

Revealed(card) ==
  /\ running /\ ~lock /\ card \notin open \union done
  /\ open' = open \union {card}
  /\ UNCHANGED <<connected, round>>

RevealFirst(card) ==
  /\ firstCard = None /\ Revealed(card)
  /\ firstCard' = card
  /\ UNCHANGED <<done, lock, matched, moves, running, timers, sent>>

\* The second card of a pair; the last pair ends the round.
RevealPair(card) ==
  /\ firstCard # None /\ firstCard[1] = card[1] /\ Revealed(card) /\ moves < MaxMoves
  /\ moves' = moves + 1 /\ matched' = matched + 1
  /\ done' = done \union {firstCard, card}
  /\ firstCard' = None
  /\ running' = (matched' # PAIR_COUNT)
  /\ sent' = IF connected /\ ~running' THEN sent + 1 ELSE sent
  /\ UNCHANGED <<lock, timers>>

RevealOther(card) ==
  /\ firstCard # None /\ firstCard[1] # card[1] /\ Revealed(card) /\ moves < MaxMoves
  /\ moves' = moves + 1
  /\ lock' = TRUE
  /\ timers' = timers \union {[cards |-> {firstCard, card}, round |-> round]}
  /\ firstCard' = None
  /\ UNCHANGED <<done, matched, running, sent>>

\* REVEAL_MS later the two cards are covered again.
Cover(t) ==
  /\ timers' = timers \ {t}
  /\ open' = IF t.round = round THEN open \ t.cards ELSE open
  /\ lock' = FALSE
  /\ UNCHANGED <<done, firstCard, matched, moves, running, connected, round, sent>>

Next ==
  \/ StartGame \/ SessionFails
  \/ \E c \in Cards : RevealFirst(c) \/ RevealPair(c) \/ RevealOther(c)
  \/ \E t \in timers : Cover(t)

Spec == Init /\ [][Next]_vars

(***************************************************************************)
(* Properties.                                                             *)
(***************************************************************************)
TypeOK ==
  /\ open \subseteq Cards /\ done \subseteq Cards
  /\ firstCard \in Cards \union {None}
  /\ moves \in 0..MaxMoves /\ round \in 0..MaxRounds /\ sent \in 0..MaxRounds

\* The lock is held exactly while one timer of this round is pending, and
\* every card that shows is matched, waits for its pair or for that timer:
\* no timer unlocks another round or covers a card that was matched since.
ShownIsAccountedFor ==
  LET waiting == UNION {t.cards : t \in timers} IN
    /\ lock <=> timers # {}
    /\ Cardinality(timers) <= 1 /\ \A t \in timers : t.round = round /\ running
    /\ open = done \union waiting \union (IF firstCard = None THEN {} ELSE {firstCard})
    /\ done \intersect waiting = {}

\* A round ends with every pair found, in at least as many moves, and is
\* reported once, with a score that lies between nothing and full marks.
RoundsEndOnce ==
  /\ Cardinality(done) = 2 * matched /\ matched <= moves
  /\ round > 0 => (running <=> matched < PAIR_COUNT)
  /\ Score \in 0..PAIR_COUNT * PerPair
  /\ sent <= IF running THEN round - 1 ELSE round

\* What the game keeps true, part by part above.
MemorySound == TypeOK /\ ShownIsAccountedFor /\ RoundsEndOnce
=============================================================================
