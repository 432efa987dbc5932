------------------------------- MODULE Platform -------------------------------
(***************************************************************************)
(* What the platform runs on: settings, provider catalogs and tokens, the  *)
(* price of an event, surveys, advertisements, daily figures and exports.  *)
(* They share no state that their properties read, so a behaviour follows  *)
(* one of them, chosen at the start, and the others stay as they are.      *)
(***************************************************************************)
EXTENDS Integers, Sequences, FiniteSets

CONSTANTS
  None,
  \* of Settings
  Processes, CacheOf, Values, Default, CACHE_TTL, Timeout, MaxTime, MaxEdits,
  \* of Catalog
  Items, Syncs, MaxSyncs, MaxStaff,
  \* of AdgemToken
  TokenProcesses, Lifetimes, Margin, Floor, TokenTimeout, TokenMaxTime, MaxTokens,
  \* of Pricing
  Rules, Fields, Events, Rates, RateScale, Hundred, Thousand, PerPoint,
  \* of Ads
  Campaigns, Visitors, AdRequests, Window, max_per_hour, max_per_day, min_interval,
  Hour, Day, AdMaxTime, MaxShown,
  \* of Surveys
  Users, SurveyIds, Completions, Workers, MaxSessions, MaxReports,
  \* of Statistics
  Keys, Writers, Runners, MaxDay, MaxDated, MaxHeld, MaxRuns,
  \* of Reports
  ReportKinds, Built, Admins, MaxJobs, MaxExported

VARIABLES
  part,
  row, versions, flag, audit, cache, locked, process, heldUntil, clock, edits,
  enabled, health, listing, offers, complete, stopped, sync, syncs, staff,
  tokens, revoked, cached, tokenCall, tokenClock,
  activeRules, rate, last,
  campaigns, providerOn, shown, request, adClock,
  offered, sessions, finished, rows, credited, report, reports,
  dated, onTime, rejected, pending, statistics, run, today, runs,
  exported, files, jobs, asking

S == INSTANCE Settings WITH call <- process, now <- clock

C == INSTANCE Catalog

T == INSTANCE AdgemToken WITH
  Processes <- TokenProcesses, Timeout <- TokenTimeout, MaxTime <- TokenMaxTime,
  call <- tokenCall, now <- tokenClock

P == INSTANCE Pricing WITH active <- activeRules

A == INSTANCE Ads WITH
  Users <- Visitors, Requests <- AdRequests, MaxTime <- AdMaxTime,
  active <- campaigns, now <- adClock

V == INSTANCE Surveys WITH Catalog <- SurveyIds, call <- report

D == INSTANCE Statistics

E == INSTANCE Reports

ASSUME SettingsConstants ==
  Default \in Values /\ CACHE_TTL \in Nat /\ Timeout \in Nat /\ MaxTime \in Nat /\ MaxEdits \in Nat

ASSUME CatalogConstants ==
  /\ MaxSyncs \in Nat /\ MaxStaff \in Nat
  /\ None \notin [status : {"active", "paused"}, quota : BOOLEAN]

\* A call to AdGem ends inside the margin that the cache leaves, and AdGem's
\* tokens last longer than the shortest entry and a call together.
ASSUME TokenConstants ==
  /\ TokenTimeout \in Nat /\ TokenMaxTime \in Nat /\ MaxTokens \in Nat
  /\ Margin \in Nat /\ TokenTimeout <= Margin /\ Floor \in Nat \ {0}
  /\ Lifetimes \subseteq Nat /\ \A l \in Lifetimes : l >= Floor + TokenTimeout
  /\ None \notin [token : 0..MaxTokens, expires : Nat]

ASSUME StatisticsConstants ==
  /\ MaxDay \in Nat /\ Keys \in Seq(D!KeySet) /\ None \notin Nat
  /\ \A i, j \in DOMAIN Keys : Keys[i] = Keys[j] => i = j

\* Revenue is reported in dollars; amounts are never negative, and a rate is
\* positive (convert refuses any other).
ASSUME PricingConstants ==
  /\ Hundred \in Nat \ {0} /\ Thousand \in Nat \ {0} /\ PerPoint \in Nat \ {0}
  /\ Rates \subseteq Nat \ {0} /\ RateScale \in Nat \ {0} /\ None \notin Int
  /\ DOMAIN Rules \subseteq Nat
  /\ \A i \in DOMAIN Rules :
       /\ Rules[i].percentage \in Nat /\ Rules[i].fixed \in Nat
       /\ Rules[i].pointsPercentage \in Nat /\ Rules[i].fixedPoints \in Nat
       /\ Rules[i].multiplier \in Nat /\ Rules[i].cap \in Nat \union {None}
       /\ Rules[i].currency \in {"USD", "PKR"}
  /\ \A e \in Events : e.gross \in Nat \union {None} /\ e.currency = "USD"

\* Finitely many requests, at least one, are served at a time; a day lasts.
ASSUME AdsConstants ==
  /\ IsFiniteSet(AdRequests) /\ AdRequests # {}
  /\ max_per_hour \in Nat /\ max_per_day \in Nat /\ min_interval \in Nat
  /\ Hour \in Nat /\ Day \in Nat \ {0} /\ AdMaxTime \in Nat
  /\ None \notin Visitors

\* Requests are served by finitely many workers; no row and nothing the
\* provider knows is taken for the absence of one.
ASSUME SurveyConstants ==
  /\ IsFiniteSet(Workers) /\ MaxSessions \in Nat /\ MaxReports \in Nat
  /\ None \notin [user : Users, session : Nat, status : {"approved", "rejected"}]
  /\ None \notin V!Known

settingsVars == <<row, versions, flag, audit, cache, locked, process, heldUntil, clock, edits>>
catalogVars == <<enabled, health, listing, offers, complete, stopped, sync, syncs, staff>>
tokenVars == <<tokens, revoked, cached, tokenCall, tokenClock>>
pricingVars == <<activeRules, rate, last>>
adsVars == <<campaigns, providerOn, shown, request, adClock>>
surveyVars == <<offered, sessions, finished, rows, credited, report, reports>>
eventVars == <<pricingVars, adsVars, surveyVars>>
statisticsVars == <<dated, onTime, rejected, pending, statistics, run, today, runs>>
reportVars == <<exported, files, jobs, asking>>
vars == <<part, settingsVars, catalogVars, tokenVars, eventVars, statisticsVars, reportVars>>

Init ==
  /\ part \in {"settings", "catalog", "token", "pricing", "ads", "surveys", "statistics", "reports"}
  /\ S!Init /\ C!Init /\ T!Init /\ P!Init /\ A!Init /\ V!Init /\ D!Init /\ E!Init

Next ==
  /\ UNCHANGED part
  /\ \/ /\ part = "settings" /\ S!Next
        /\ UNCHANGED <<catalogVars, tokenVars, eventVars, statisticsVars, reportVars>>
     \/ /\ part = "catalog" /\ C!Next
        /\ UNCHANGED <<settingsVars, tokenVars, eventVars, statisticsVars, reportVars>>
     \/ /\ part = "token" /\ T!Next
        /\ UNCHANGED <<settingsVars, catalogVars, eventVars, statisticsVars, reportVars>>
     \/ /\ part = "pricing" /\ P!Next
        /\ UNCHANGED <<settingsVars, catalogVars, tokenVars, adsVars, surveyVars, statisticsVars, reportVars>>
     \/ /\ part = "ads" /\ A!Next
        /\ UNCHANGED <<settingsVars, catalogVars, tokenVars, pricingVars, surveyVars, statisticsVars, reportVars>>
     \/ /\ part = "surveys" /\ V!Next
        /\ UNCHANGED <<settingsVars, catalogVars, tokenVars, pricingVars, adsVars, statisticsVars, reportVars>>
     \/ /\ part = "statistics" /\ D!Next
        /\ UNCHANGED <<settingsVars, catalogVars, tokenVars, eventVars, reportVars>>
     \/ /\ part = "reports" /\ E!Next
        /\ UNCHANGED <<settingsVars, catalogVars, tokenVars, eventVars, statisticsVars>>

Spec == Init /\ [][Next]_vars

\* What administrators set and the exports they are given: stated in Settings
\* and Reports.
SettingsSound == S!SettingsSound /\ E!ReportsSound

\* Stated in Statistics.
StatisticsSound == D!StatisticsSound

\* A provider's offers and its token: stated in Catalog and AdgemToken.
CatalogSound == C!CatalogSound /\ T!TokenSound

\* What events are worth and how surveys are answered: stated in Pricing and
\* Surveys.
EventsSound == P!PricingSound /\ V!SurveysSound

\* Stated in Ads.
AdsSound == A!AdsSound

\* Stated in Surveys.
SurveysPayOnce == V!ImplementsPayOnce
=============================================================================
