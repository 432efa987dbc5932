--------------------------------- MODULE Ads ---------------------------------
(***************************************************************************)
(* Advertisements of one placement: apps/advertising and the page that     *)
(* pauses campaigns.  serve_ad counts what the user has been shown, picks  *)
(* a campaign and records the impression, without a lock and inside the    *)
(* request's transaction: the impression is counted by others once the     *)
(* request has committed.                                                  *)
(***************************************************************************)
EXTENDS Integers, Sequences, FiniteSets

CONSTANTS
  Campaigns,
  Users,
  Requests,       \* requests served at the same time
  Window,         \* when each campaign starts and ends
  max_per_hour, max_per_day, min_interval,
  Hour, Day,      \* in the clock's unit
  MaxTime,        \* bound
  MaxShown,       \* bound: impressions
  None

VARIABLES
  active,         \* campaigns with status ACTIVE
  providerOn,     \* AdProvider.is_enabled
  shown,          \* committed AdImpression rows, and whether they were clicked
  request,        \* what each request is doing
  now

vars == <<active, providerOn, shown, request, now>>

Idle == [at |-> "idle"]

Init ==
  /\ active = Campaigns /\ providerOn = TRUE
  /\ shown = <<>>
  /\ request = [r \in Requests |-> Idle]
  /\ now = 0

\* Impressions of c to u that were created at one of some times.
Shown(c, u, times) ==
  Cardinality({i \in DOMAIN shown :
    shown[i].campaign = c /\ shown[i].user = u /\ shown[i].created \in times})

DayOf(d) == Day * d .. Day * d + Day - 1

\* Faulty variant: a cap is compared as if the impression counted already.
FrequencyOkAtCap(c, u) ==
  u # None =>
    /\ Shown(c, u, now - Hour .. now) <= max_per_hour
    /\ Shown(c, u, DayOf(now \div Day)) <= max_per_day
    /\ Shown(c, u, now - min_interval + 1 .. now) = 0

\* _frequency_ok: visitors who are not logged in are never refused.
FrequencyOk(c, u) ==
  u # None =>
    /\ Shown(c, u, now - Hour .. now) < max_per_hour
    /\ Shown(c, u, DayOf(now \div Day)) < max_per_day
    /\ Shown(c, u, now - min_interval + 1 .. now) = 0

Eligible(u) ==
  {c \in active : /\ providerOn
                  /\ now \in Window[c].starts .. Window[c].ends
                  /\ FrequencyOk(c, u)}

\* select_campaign: one of those eligible, by weight (of 1 at least).
Select(r, u) ==
  /\ request[r] = Idle /\ Len(shown) < MaxShown
  /\ \E c \in Eligible(u) :
       request' = [request EXCEPT ![r] = [at |-> "selected", campaign |-> c, user |-> u]]
  /\ UNCHANGED <<active, providerOn, shown, now>>

\* record_impression ...
Record(r) ==
  /\ request[r].at = "selected"
  /\ request' = [request EXCEPT ![r] =
       [at |-> "recorded", campaign |-> @.campaign, user |-> @.user, created |-> now]]
  /\ UNCHANGED <<active, providerOn, shown, now>>

\* ... is visible when the page's request commits.
Commit(r) ==
  /\ request[r].at = "recorded"
  /\ shown' = Append(shown, [campaign |-> request[r].campaign, user |-> request[r].user,
                             created |-> request[r].created, clicked |-> FALSE])
  /\ request' = [request EXCEPT ![r] = Idle]
  /\ UNCHANGED <<active, providerOn, now>>

Abort(r) ==
  /\ request[r] # Idle
  /\ request' = [request EXCEPT ![r] = Idle]
  /\ UNCHANGED <<active, providerOn, shown, now>>

\* ad_click: of a paused campaign as well.
Click(i) ==
  /\ shown' = [shown EXCEPT ![i].clicked = TRUE]
  /\ UNCHANGED <<active, providerOn, request, now>>

\* Staff pause and resume campaigns, and switch the provider.
ToggleCampaign(c) ==
  /\ active' = IF c \in active THEN active \ {c} ELSE active \union {c}
  /\ UNCHANGED <<providerOn, shown, request, now>>

ToggleProvider ==
  /\ providerOn' = ~providerOn
  /\ UNCHANGED <<active, shown, request, now>>

Tick ==
  /\ now < MaxTime /\ now' = now + 1
  /\ UNCHANGED <<active, providerOn, shown, request>>

Next ==
  \/ \E r \in Requests :
       \/ \E u \in Users \union {None} : Select(r, u)
       \/ Record(r) \/ Commit(r) \/ Abort(r)
  \/ \E i \in DOMAIN shown : Click(i)
  \/ \E c \in Campaigns : ToggleCampaign(c)
  \/ ToggleProvider
  \/ Tick

Spec == Init /\ [][Next]_vars

(***************************************************************************)
(* Properties.                                                             *)
(***************************************************************************)
TypeOK ==
  /\ active \subseteq Campaigns /\ providerOn \in BOOLEAN /\ now \in 0..MaxTime
  /\ \A i \in DOMAIN shown : shown[i] \in
       [campaign : Campaigns, user : Users \union {None}, created : 0..MaxTime,
        clicked : BOOLEAN]
  /\ \A r \in Requests : request[r].at \in {"idle", "selected", "recorded"}

Overshoot == Cardinality(Requests) - 1

\* Nobody is shown a campaign more often within any hour, any day or any
\* interval than it allows, but for the requests served at the same time.
CapsOvershootBounded ==
  \A c \in Campaigns, u \in Users, t \in 0..MaxTime :
    /\ Shown(c, u, t .. t + Hour) <= max_per_hour + Overshoot
    /\ Shown(c, u, DayOf(t)) <= max_per_day + Overshoot
    /\ min_interval > 0 =>
         Shown(c, u, t .. t + min_interval - 1) <= 1 + Overshoot

\* What the advertisements keep true, part by part above.
AdsSound == TypeOK /\ CapsOvershootBounded
=============================================================================
