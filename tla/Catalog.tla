------------------------------- MODULE Catalog -------------------------------
(***************************************************************************)
(* The catalog of one provider: sync_offers (and sync_surveys, which has   *)
(* no quotas and is otherwise the same), and what the providers page does. *)
(*                                                                         *)
(* The scheduled sync commits statement by statement and may stop after    *)
(* any of them; the one an administrator starts is a single transaction.   *)
(* The adapter's calls are in AdgemToken: here they answer or fail.        *)
(***************************************************************************)
EXTENDS Naturals, FiniteSets

CONSTANTS
  Items,          \* external ids
  Syncs,          \* processes that sync
  MaxSyncs,       \* bound
  MaxStaff,       \* bound: what staff and the provider change
  None

Healths == {"unknown", "healthy", "down"}

VARIABLES
  enabled,        \* CPAProvider.is_enabled
  health,
  listing,        \* what the provider offers now
  offers,         \* Offer rows, with or without their CampaignQuota
  complete,       \* items of the syncs that ended HEALTHY
  stopped,        \* offers that staff paused and did not resume
  sync,           \* what each process is doing
  syncs, staff

vars == <<enabled, health, listing, offers, complete, stopped, sync, syncs, staff>>

Idle == [at |-> "idle", kind |-> None, todo |-> {}, reply |-> {}, item |-> None]

Init ==
  /\ enabled \in BOOLEAN /\ health = "unknown"
  /\ listing = Items
  /\ offers = [i \in Items |-> None]
  /\ complete = {} /\ stopped = {}
  /\ sync = [p \in Syncs |-> Idle]
  /\ syncs = 0 /\ staff = 0

\* A sync looks at the enabled providers.
Begin(p, kind) ==
  /\ sync[p] = Idle /\ syncs < MaxSyncs /\ enabled
  /\ syncs' = syncs + 1
  /\ sync' = [sync EXCEPT ![p].at = "asking", ![p].kind = kind]
  /\ UNCHANGED <<enabled, health, listing, offers, complete, stopped, staff>>

\* The adapter returns the listing, normalized.
Answered(p) ==
  /\ sync[p].at = "asking"
  /\ sync' = [sync EXCEPT ![p].at = "writing", ![p].todo = listing, ![p].reply = listing]
  /\ UNCHANGED <<enabled, health, listing, offers, complete, stopped, syncs, staff>>

\* The adapter, or a write of the task, raises: what was written before
\* stays, and the provider is DOWN (in a request: CommitPart).
Fails(p) ==
  /\ sync[p].at # "idle" /\ (sync[p].kind = "request" => sync[p].at = "asking")
  /\ health' = "down"
  /\ sync' = [sync EXCEPT ![p] = Idle]
  /\ UNCHANGED <<enabled, listing, offers, complete, stopped, syncs, staff>>

New == [status |-> "active", quota |-> FALSE]

\* update_or_create: everything but the status is overwritten.
Upserted(o) == IF o = None THEN New ELSE o

\* Faulty variant: a quota only for the offers this sync created.
WriteOfferQuotaIfNew(p, i) ==
  /\ sync[p].at = "writing" /\ sync[p].kind = "task" /\ i \in sync[p].todo
  /\ offers' = [offers EXCEPT ![i] = Upserted(@)]
  /\ sync' = [sync EXCEPT ![p].at = IF offers[i] = None THEN "quota" ELSE "writing",
                          ![p].todo = @ \ {i}, ![p].item = i]
  /\ UNCHANGED <<enabled, health, listing, complete, stopped, syncs, staff>>

\* The task writes the offer of one item ...
WriteOffer(p, i) ==
  /\ sync[p].at = "writing" /\ sync[p].kind = "task" /\ i \in sync[p].todo
  /\ offers' = [offers EXCEPT ![i] = Upserted(@)]
  /\ sync' = [sync EXCEPT ![p].at = "quota", ![p].todo = @ \ {i}, ![p].item = i]
  /\ UNCHANGED <<enabled, health, listing, complete, stopped, syncs, staff>>

\* ... and then its quota, if it has none.
WriteQuota(p) ==
  /\ sync[p].at = "quota"
  /\ offers' = [offers EXCEPT ![sync[p].item].quota = TRUE]
  /\ sync' = [sync EXCEPT ![p].at = "writing"]
  /\ UNCHANGED <<enabled, health, listing, complete, stopped, syncs, staff>>

Healthy(p) ==
  /\ health' = "healthy"
  /\ complete' = complete \union sync[p].reply
  /\ sync' = [sync EXCEPT ![p] = Idle]
  /\ UNCHANGED <<enabled, listing, stopped, syncs, staff>>

\* All items written: HEALTHY.
Finish(p) ==
  /\ sync[p].at = "writing" /\ sync[p].kind = "task" /\ sync[p].todo = {}
  /\ UNCHANGED offers
  /\ Healthy(p)

\* The offers after some items are written, with their quotas.
With(done) == [i \in Items |-> IF i \in done
                               THEN [Upserted(offers[i]) EXCEPT !.quota = TRUE]
                               ELSE offers[i]]

\* The administrator's sync commits all of it at once ...
CommitRequest(p) ==
  /\ sync[p].at = "writing" /\ sync[p].kind = "request"
  /\ offers' = With(sync[p].reply)
  /\ Healthy(p)

\* ... or, when an item raises, the items before it together with DOWN.
CommitPart(p) ==
  /\ sync[p].at = "writing" /\ sync[p].kind = "request"
  /\ \E done \in SUBSET sync[p].reply : offers' = With(done)
  /\ health' = "down"
  /\ sync' = [sync EXCEPT ![p] = Idle]
  /\ UNCHANGED <<enabled, listing, complete, stopped, syncs, staff>>

\* A process is killed, or the request's transaction fails.
Killed(p) ==
  /\ sync[p] # Idle
  /\ sync' = [sync EXCEPT ![p] = Idle]
  /\ UNCHANGED <<enabled, health, listing, offers, complete, stopped, syncs, staff>>

\* The page switches the provider; a sync already begun goes on.
ToggleProvider ==
  /\ staff < MaxStaff /\ staff' = staff + 1
  /\ enabled' = ~enabled
  /\ UNCHANGED <<health, listing, offers, complete, stopped, sync, syncs>>

\* Staff pause an offer, or resume one.
ToggleOffer(i) ==
  /\ staff < MaxStaff /\ staff' = staff + 1
  /\ offers[i] # None
  /\ LET pausing == offers[i].status = "active" IN
       /\ offers' = [offers EXCEPT ![i].status = IF pausing THEN "paused" ELSE "active"]
       /\ stopped' = IF pausing THEN stopped \union {i} ELSE stopped \ {i}
  /\ UNCHANGED <<enabled, health, listing, complete, sync, syncs>>

\* The provider withdraws an offer or lists it again.
ListingChanges(i) ==
  /\ staff < MaxStaff /\ staff' = staff + 1
  /\ listing' = IF i \in listing THEN listing \ {i} ELSE listing \union {i}
  /\ UNCHANGED <<enabled, health, offers, complete, stopped, sync, syncs>>

Next ==
  \/ \E p \in Syncs :
       \/ Begin(p, "task") \/ Begin(p, "request")
       \/ Answered(p) \/ Fails(p)
       \/ (\E i \in Items : WriteOffer(p, i)) \/ WriteQuota(p) \/ Finish(p)
       \/ CommitRequest(p) \/ CommitPart(p) \/ Killed(p)
  \/ ToggleProvider
  \/ \E i \in Items : ToggleOffer(i) \/ ListingChanges(i)

Spec == Init /\ [][Next]_vars

(***************************************************************************)
(* Properties.                                                             *)
(***************************************************************************)
TypeOK ==
  /\ enabled \in BOOLEAN /\ health \in Healths
  /\ listing \subseteq Items /\ complete \subseteq Items /\ stopped \subseteq Items
  /\ offers \in [Items -> {None} \union [status : {"active", "paused"}, quota : BOOLEAN]]
  /\ \A p \in Syncs : sync[p].todo \subseteq sync[p].reply /\ sync[p].reply \subseteq Items
  /\ syncs \in 0..MaxSyncs /\ staff \in 0..MaxStaff

\* What a HEALTHY sync reported is there with its quota, whatever syncs that
\* were stopped half way have left of the same offers before.
HealthyMeansComplete == \A i \in complete : offers[i] # None /\ offers[i].quota

\* An offer that staff paused stays paused until they resume it, whichever
\* sync had it in hand.
StoppedStaysStopped ==
  \A i \in Items : i \in stopped <=> (offers[i] # None /\ offers[i].status = "paused")

\* What the catalog keeps true, part by part above.
CatalogSound == TypeOK /\ HealthyMeansComplete /\ StoppedStaysStopped
=============================================================================
