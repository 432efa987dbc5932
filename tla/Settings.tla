------------------------------- MODULE Settings -------------------------------
(***************************************************************************)
(* Runtime settings and switches: apps/adminpanel/settings.py, the         *)
(* settings, flags and providers pages of the panel, and the audit log.    *)
(*                                                                         *)
(* One key is followed.  get_setting caches what it reads for CACHE_TTL;   *)
(* set_setting clears the cache of its own process, inside the request's   *)
(* transaction and so before the new value is visible.  Processes share    *)
(* one cache (Redis) or have one each (LocMemCache, without REDIS_URL).    *)
(* A flag, a provider and an advertisement are switched alike: read,       *)
(* negate, save, log.                                                      *)
(***************************************************************************)
EXTENDS Naturals, Sequences

CONSTANTS
  Processes,
  CacheOf,        \* the cache each process uses
  Values,
  Default,        \* PLATFORM_DEFAULTS, or what the caller gives
  CACHE_TTL,
  Timeout,        \* a request that lasts longer is killed (gunicorn)
  MaxTime,        \* bound
  MaxEdits,       \* bound: settings saved and switches switched
  None

Caches == {CacheOf[p] : p \in Processes}

VARIABLES
  row,            \* the committed PlatformSetting row: its value, or None
  versions,       \* ConfigurationVersion rows
  flag,           \* FeatureFlag.is_enabled (a provider's, a campaign's)
  audit,          \* new_value of the AuditLog rows of the flag
  cache,          \* in each cache: None, or the value and when it expires
  locked,         \* "row" or "flag" -> process whose transaction has saved it
  call,           \* what each process is doing
  heldUntil,      \* when each value was last in force
  now,
  edits

vars == <<row, versions, flag, audit, cache, locked, call, heldUntil, now, edits>>

Idle == [at |-> "idle"]

Init ==
  /\ row = None /\ versions = <<>>
  /\ flag = FALSE /\ audit = <<>>
  /\ cache = [c \in Caches |-> None]
  /\ locked = [x \in {"row", "flag"} |-> None]
  /\ call = [p \in Processes |-> Idle]
  /\ heldUntil = [v \in Values |-> 0]
  /\ now = 0 /\ edits = 0

Stored == IF row = None THEN Default ELSE row

Live(entry) == entry # None /\ now < entry.expires

\* get_setting without a live entry reads the row; with one it answers at once.
ReadRow(p) ==
  /\ call[p] = Idle /\ ~Live(cache[CacheOf[p]])
  /\ call' = [call EXCEPT ![p] = [at |-> "read", value |-> Stored, since |-> now]]
  /\ UNCHANGED <<row, versions, flag, audit, cache, locked, heldUntil, now, edits>>

\* Faulty variant: entries never expire while the platform runs.
EntryForGood(value) == [value |-> value, expires |-> MaxTime + 1]

Entry(value) == [value |-> value, expires |-> now + CACHE_TTL]

FillCache(p) ==
  /\ call[p].at = "read"
  /\ cache' = [cache EXCEPT ![CacheOf[p]] = Entry(call[p].value)]
  /\ call' = [call EXCEPT ![p] = Idle]
  /\ UNCHANGED <<row, versions, flag, audit, locked, heldUntil, now, edits>>

\* set_setting: the row is loaded (a missing one is created, with an empty
\* value, and holds the unique key from then on) ...
LoadRow(p, v) ==
  /\ call[p] = Idle /\ edits < MaxEdits
  /\ row = None => locked["row"] = None
  /\ edits' = edits + 1
  /\ locked' = IF row = None THEN [locked EXCEPT !["row"] = p] ELSE locked
  /\ call' = [call EXCEPT ![p] = [at |-> "loaded", old |-> row, new |-> v, since |-> now]]
  /\ UNCHANGED <<row, versions, flag, audit, cache, heldUntil, now>>

\* ... and saved, which waits for another transaction that saved it ...
SaveRow(p) ==
  /\ call[p].at = "loaded" /\ locked["row"] \in {None, p}
  /\ locked' = [locked EXCEPT !["row"] = p]
  /\ call' = [call EXCEPT ![p].at = "saved"]
  /\ UNCHANGED <<row, versions, flag, audit, cache, heldUntil, now, edits>>

\* ... the cache is cleared ...
ClearCache(p) ==
  /\ call[p].at = "saved"
  /\ cache' = [cache EXCEPT ![CacheOf[p]] = None]
  /\ call' = [call EXCEPT ![p].at = "cleared"]
  /\ UNCHANGED <<row, versions, flag, audit, locked, heldUntil, now, edits>>

\* ... and the request commits the row, its version and its log entry.
CommitRow(p) ==
  /\ call[p].at = "cleared"
  /\ heldUntil' = [heldUntil EXCEPT ![Stored] = now]
  /\ row' = call[p].new
  /\ versions' = Append(versions, [old |-> call[p].old, new |-> call[p].new])
  /\ locked' = [locked EXCEPT !["row"] = None]
  /\ call' = [call EXCEPT ![p] = Idle]
  /\ UNCHANGED <<flag, audit, cache, now, edits>>

\* A switch: read and negated in memory ...
ReadFlag(p) ==
  /\ call[p] = Idle /\ edits < MaxEdits
  /\ edits' = edits + 1
  /\ call' = [call EXCEPT ![p] = [at |-> "toggling", new |-> ~flag, since |-> now]]
  /\ UNCHANGED <<row, versions, flag, audit, cache, locked, heldUntil, now>>

\* ... saved ...
SaveFlag(p) ==
  /\ call[p].at = "toggling" /\ locked["flag"] = None
  /\ locked' = [locked EXCEPT !["flag"] = p]
  /\ call' = [call EXCEPT ![p].at = "toggled"]
  /\ UNCHANGED <<row, versions, flag, audit, cache, heldUntil, now, edits>>

\* ... logged and committed.
CommitFlag(p) ==
  /\ call[p].at = "toggled"
  /\ flag' = call[p].new
  /\ audit' = Append(audit, call[p].new)
  /\ locked' = [locked EXCEPT !["flag"] = None]
  /\ call' = [call EXCEPT ![p] = Idle]
  /\ UNCHANGED <<row, versions, cache, heldUntil, now, edits>>

\* A request fails or is killed: the transaction is gone, what it did to the
\* cache is not.
Abort(p) ==
  /\ call[p] # Idle
  /\ locked' = [x \in DOMAIN locked |-> IF locked[x] = p THEN None ELSE locked[x]]
  /\ call' = [call EXCEPT ![p] = Idle]
  /\ UNCHANGED <<row, versions, flag, audit, cache, heldUntil, now, edits>>

\* Time passes; no request outlives its timeout.
Tick ==
  /\ now < MaxTime
  /\ \A p \in Processes : call[p] # Idle => now < call[p].since + Timeout
  /\ now' = now + 1
  /\ UNCHANGED <<row, versions, flag, audit, cache, locked, call, heldUntil, edits>>

Next ==
  \/ \E p \in Processes :
       \/ ReadRow(p) \/ FillCache(p)
       \/ (\E v \in Values : LoadRow(p, v)) \/ SaveRow(p) \/ ClearCache(p) \/ CommitRow(p)
       \/ ReadFlag(p) \/ SaveFlag(p) \/ CommitFlag(p)
       \/ Abort(p)
  \/ Tick

Spec == Init /\ [][Next]_vars

(***************************************************************************)
(* Properties.                                                             *)
(***************************************************************************)
Phases == {"idle", "read", "loaded", "saved", "cleared", "toggling", "toggled"}

TypeOK ==
  /\ row \in Values \union {None} /\ flag \in BOOLEAN
  /\ \A i \in DOMAIN versions : versions[i].new \in Values
  /\ \A c \in Caches : cache[c] # None => cache[c].value \in Values
  /\ locked \in [{"row", "flag"} -> Processes \union {None}]
  /\ \A p \in Processes : call[p].at \in Phases
  /\ now \in 0..MaxTime /\ edits \in 0..MaxEdits

\* A process acts on a value no longer than CACHE_TTL, and the time one
\* request takes, after it was replaced: an emergency switch bites by then,
\* in every process, whether the caches are shared or not.
StalenessBounded ==
  \A c \in Caches : Live(cache[c]) =>
    \/ cache[c].value = Stored
    \/ now <= heldUntil[cache[c].value] + CACHE_TTL + Timeout

\* The history and the audit log end at what is in force, however the saves
\* of two administrators interleave.
HistoryEndsAtValue ==
  /\ row # None => Len(versions) > 0 /\ versions[Len(versions)].new = row
  /\ Len(audit) > 0 => audit[Len(audit)] = flag

\* What the settings keep true, part by part above.
SettingsSound == TypeOK /\ StalenessBounded /\ HistoryEndsAtValue
=============================================================================
