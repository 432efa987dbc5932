------------------------------ MODULE AdgemToken ------------------------------
(***************************************************************************)
(* The access token of the AdGem adapter (apps/cpa/providers/adgem.py).    *)
(*                                                                         *)
(* Every sync and connection test takes the token from the cache, or       *)
(* exchanges the refresh token for a new one and caches that for a little  *)
(* less than AdGem says it lasts, counted from when the answer arrived.    *)
(* A 401 drops whatever is cached.  Nothing is locked.  The Prism token    *)
(* has the same life under a key of its own.                               *)
(***************************************************************************)
EXTENDS Naturals, Sequences

CONSTANTS
  Processes,
  Lifetimes,      \* expires_in of the tokens, Floor + Timeout at least
  Margin,         \* a token is cached for expires_in - Margin, ...
  Floor,          \* ... and for Floor at least
  Timeout,        \* no call to AdGem lasts longer: DEFAULT_TIMEOUT <= Margin
  MaxTime,        \* bound
  MaxTokens,      \* bound
  None

VARIABLES
  tokens,         \* AdGem's: until when each token issued is accepted
  revoked,        \* tokens AdGem has withdrawn before that
  cached,         \* the cached token and when its entry expires, or None
  call,           \* what each process is doing
  now

vars == <<tokens, revoked, cached, call, now>>

Idle == [at |-> "idle", token |-> 0, lifetime |-> 0, since |-> 0]

Init ==
  /\ tokens = <<>> /\ revoked = {}
  /\ cached = None
  /\ call = [p \in Processes |-> Idle]
  /\ now = 0

Larger(a, b) == IF a > b THEN a ELSE b

\* How long a token is cached.
CachedFor(lifetime) == Larger(Floor, lifetime - Margin)

Live == cached # None /\ now < cached.expires

\* _get_access_token: the cached one ...
TakeToken(p) ==
  /\ call[p] = Idle /\ Live
  /\ call' = [call EXCEPT ![p] = [at |-> "ready", token |-> cached.token,
                                  lifetime |-> 0, since |-> now]]
  /\ UNCHANGED <<tokens, revoked, cached, now>>

\* ... or one AdGem issues for the refresh token ...
Exchange(p, lifetime) ==
  /\ call[p] = Idle /\ ~Live /\ Len(tokens) < MaxTokens
  /\ tokens' = Append(tokens, now + lifetime)
  /\ call' = [call EXCEPT ![p] = [at |-> "issued", token |-> Len(tokens) + 1,
                                  lifetime |-> lifetime, since |-> now]]
  /\ UNCHANGED <<revoked, cached, now>>

\* ... and that is cached when the answer arrives.
StoreToken(p) ==
  /\ call[p].at = "issued"
  /\ cached' = [token |-> call[p].token, expires |-> now + CachedFor(call[p].lifetime)]
  /\ call' = [call EXCEPT ![p].at = "ready", ![p].since = now]
  /\ UNCHANGED <<tokens, revoked, now>>

Accepted(t) == t \notin revoked /\ now < tokens[t]

\* _request: an accepted token is answered ...
Answered(p) ==
  /\ call[p].at = "ready" /\ Accepted(call[p].token)
  /\ call' = [call EXCEPT ![p] = Idle]
  /\ UNCHANGED <<tokens, revoked, cached, now>>

\* ... another gets a 401, which drops the cached token, whichever it is ...
Unauthorized(p) ==
  /\ call[p].at = "ready" /\ ~Accepted(call[p].token)
  /\ cached' = None
  /\ call' = [call EXCEPT ![p] = Idle]
  /\ UNCHANGED <<tokens, revoked, now>>

\* ... and any call may fail, or its process be killed.
Fails(p) ==
  /\ call[p] # Idle
  /\ call' = [call EXCEPT ![p] = Idle]
  /\ UNCHANGED <<tokens, revoked, cached, now>>

Revoke(t) ==
  /\ t \notin revoked
  /\ revoked' = revoked \union {t}
  /\ UNCHANGED <<tokens, cached, call, now>>

\* Time passes; no call outlives its timeout.
Tick ==
  /\ now < MaxTime
  /\ \A p \in Processes : call[p] # Idle => now < call[p].since + Timeout
  /\ now' = now + 1
  /\ UNCHANGED <<tokens, revoked, cached, call>>

Next ==
  \/ \E p \in Processes :
       \/ TakeToken(p) \/ (\E t \in Lifetimes : Exchange(p, t)) \/ StoreToken(p)
       \/ Answered(p) \/ Unauthorized(p) \/ Fails(p)
  \/ \E t \in DOMAIN tokens : Revoke(t)
  \/ Tick

Spec == Init /\ [][Next]_vars

(***************************************************************************)
(* Properties.                                                             *)
(***************************************************************************)
Steps == {"idle", "issued", "ready"}

TypeOK ==
  /\ \A t \in DOMAIN tokens : tokens[t] \in Nat
  /\ revoked \subseteq DOMAIN tokens
  /\ cached # None => cached.token \in DOMAIN tokens /\ cached.expires \in Nat
  /\ \A p \in Processes : call[p].at \in Steps /\ call[p].token \in 0..MaxTokens
  /\ now \in 0..MaxTime

\* A live entry holds a token that AdGem still accepts unless it withdrew
\* it, however late the answer that brought it arrived and whichever of two
\* processes stored its own last.
CachedTokenIsAccepted == Live => now < tokens[cached.token]

\* And every call holds one it may still use when it began to.
CallsBeginAccepted ==
  \A p \in Processes : call[p].at = "ready" => call[p].since < tokens[call[p].token]

\* What the token cache keeps true, part by part above.
TokenSound == TypeOK /\ CachedTokenIsAccepted /\ CallsBeginAccepted
=============================================================================
