# Reward platform: formal models, checks and proofs

TLA+ models of the platform in `src/` (Django, Postgres, Celery, browser games):
what pays money in and out, what decides about members and offers, and what the
rest runs on. TLC checks them on small instances, TLAPS proves every
safety property the runs check for all instances. `PROJECT.json` maps each definition to its lines
of source, and lists the hazards the properties are for.

## 1. The system

| Component | State it keeps | Operations | What makes it correct |
|---|---|---|---|
| ledger (`apps/ledger`) | `LedgerTransaction`, `LedgerEntry`, unique `idempotency_key` | `post_transaction`, `reverse_transaction` | entries balance per currency; cached balance = sum of entries; one row per key; REVERSED iff compensated |
| wallets (`apps/wallets`) | `Wallet`, `WalletAccount` | `get_wallet`, `ensure_accounts`, `adjust_balance` | a wallet is complete or absent; balances change only through the ledger |
| rewards (`apps/rewards`) | `Reward`, `RewardRule` | `award`, `award_fixed`, `approve`, `hold`, `reject`, `reverse`; `process_pending_rewards` | one reward per reference and user; movements match the status; settled is final; shares add up |
| withdrawals (`apps/withdrawals`) | `Withdrawal` | `request_withdrawal`, `approve_withdrawal`, `mark_paid`, `reject_withdrawal` | no balance spent twice; paid xor refunded; dual approval |
| offers (`apps/offers`) | `Offer`, `CampaignQuota`, `OfferConversion`, clicks | `process_postback`, `evaluate_offer`, `bump_quota`, `recalculate_campaign_quotas`, `OfferStartView` | a conversion is rewarded once; limits; a stopped offer stays stopped; a paused one resumes |
| cpa providers (`apps/cpa`) | `CPAProvider`, cached tokens | `sync_offers`, health, `_get_access_token` | a HEALTHY sync is complete; a cached token is accepted |
| deposits, payments | `Deposit`, `PaymentTransaction`, the provider's invoices | `create_deposit`, `payment_webhook`, `confirm_deposit`, `expire_deposits`, `convert` | credited once, only when the provider confirmed; no deposit waits for ever |
| games (`apps/games`, `games/`, game SDK) | `GameSession`, the round in the browser | `start_session`, `report_event`, `end_session`; timers, keys, messages | daily starts; cooldowns and limits of reward rules; an ended session is final; a round is reported once |
| surveys (`apps/surveys`) | `SurveySession`, `SurveyCompletion` | `start_session`, `process_completion`, `sync_surveys` | a completion is credited once, to somebody who started it |
| automation (`apps/automation`) | `AutomationRule`, `AutomationExecution` | `emit_event` | limits per user; every credit has an execution |
| accounts, referrals | `User`, `Referral`, `ReferralConversion` | registration, `attach_referral`, `record_conversion` | unique codes; no cycle of referrers |
| fraud, risk | events, profiles, restrictions | `run_fraud_analysis`, `recalculate_user_risk`, `apply_risk_rules`, staff actions | no event is forgotten; who matches a rule is restricted |
| kyc (`apps/kyc`) | `KYCVerification` | `submit_verification`, `approve_verification`, `reject_verification` | a verification is undone by a review only |
| settings, admin panel | `PlatformSetting`, `ConfigurationVersion`, `FeatureFlag`, cache | `get_setting`, `set_setting`, switches | a change is seen within a bounded time; the history ends at the value |
| advertising | `AdCampaign`, `AdImpression` | `serve_ad`, `ad_click`, switches | frequency caps |
| analytics (`apps/analytics`) | `DailyStatistic` | `generate_daily_statistics` | a day's figures miss no row but those of transactions open across midnight; a day with its last key has all |
| reports (`apps/reports`) | `ReportJob`, its file | `run_report_job`, `generate_report` | a job is settled when it is seen; its file is its own and complete |
| the rest | bonuses, notifications, content, support | single rows, pages | outside the decisions above |

How they interact: every earning component calls `RewardService`; it, withdrawals,
deposits and `adjust_balance` call `post_transaction`; most emit events, which may
award again in the same database transaction. Risk and KYC decide what offers and
withdrawals accept; settings switch all of them. There is no messaging: the
shared state is the database. A web request is one transaction (`ATOMIC_REQUESTS`,
READ COMMITTED), a Celery task commits after each statement or service call and is
acknowledged late, so a killed run is delivered again. In the browser the game,
its host page and the server exchange messages whose answers come in any order.

What is hard: reads made before a lock is taken, or with no lock, and used after
it (limits, caps, statuses, work lists, cached settings); rows read,
changed and saved whole; unique indexes deciding races, and the error that aborts
the transaction it is handled in; row locks in no fixed order; notifications that
are repeated, late and out of order; timers that outlive their round. The
list with lines is `hazards` in `PROJECT.json`.

## 2. The modules

Money:

| Module | Models | Run |
|---|---|---|
| `LedgerRows`, `LedgerPosting` | `apps/ledger/services.py` statement by statement, under row locks, unique index, savepoints and the deadlock detector | `LedgerPosting*` |
| `Ledger` | the promise: a transaction appends a balanced batch and moves each balance by it, in one step | abstract, of `LedgerPosting` |
| `Rewards` | `RewardService` and `process_pending_rewards` | `Rewards*` |
| `Pricing` | `resolve_rule`, `calculate_reward_parts`, the arithmetic of `award`, `convert` | `Platform` |
| `Withdrawals` | `apps/withdrawals/services.py`, `WithdrawalActionView`, `adjust_balance` | `WithdrawalsSafety` |
| `Offers` | clicks, postbacks, eligibility, quotas and the quota task | `Offers*` |
| `Deposits` | `apps/deposits`, the webhooks, the invoices of the provider | `Deposits` |
| `Surveys` | `apps/surveys` | `Platform` |
| `PayOnce` | the promise: what happened outside is credited once at most and stays credited | abstract, of `Offers`, `Deposits`, `Surveys` |

Members and games:

| Module | Models | Run |
|---|---|---|
| `Accounts` | registration, `get_wallet`, referrals | `Members` |
| `Risk` | the fraud sweep, scores, rules by score and by the age of the account, staff decisions | `Members` |
| `Kyc` | submissions and reviews of one row | `Members` |
| `Automation` | `emit_event`, its rules and actions | `Members` |
| `Games` | sessions on the server, requests, the host page | `Members` |
| `Snake`, `MemoryMatch`, `TapTarget` | the three games: rounds, intervals, timers | `Members` |

What they run on:

| Module | Models | Run |
|---|---|---|
| `Settings` | cached settings, versions, switches, audit log | `Platform` |
| `Catalog` | `sync_offers`, `sync_surveys`, provider health and switching | `Platform` |
| `AdgemToken` | the life of AdGem's access tokens | `Platform` |
| `Ads` | `serve_ad`, clicks, switches | `Platform` |
| `Statistics` | `generate_daily_statistics` key by key, over rows that are dated when written and counted once the transaction, with all its rows, has committed | `Platform` |
| `Reports` | export jobs inside the request that asks for them, and their files | `Platform` |
| `Members`, `Platform` | the parts above side by side, for any constants, with the assumptions on these | `Members`, `Platform` |

Definitions named "faulty variant" are what a plausible mistake in the code would
look like; `mutants` in `PROJECT.json` says which property notices which.

### How actions correspond to code

One step is what the database or the browser makes atomic. A handler that holds
its lock from its first statement is one action (`Approve`, `Bump`, `Webhook`).
One that reads first and writes later is several, and anything may happen in
between: `RequestValidated` / `RequestReserves` in `Withdrawals`; `Receive`,
`Evaluate`, `Record` in `Offers`, where the insert of the conversion, the reward
and the quota's counters are committed together; `StartReads`, `StartInserts` and
`EndReads`, `EndCommits` in `Games`; `SubmitReads`, `SubmitSaves` in `Kyc`. A step
that may fail has an action that leaves nothing behind (`Rollback`, `Abort`,
`Fail`), because the transaction is undone.

`LedgerPosting` is the finest: a *session* is a database transaction, `pc` its
place in the code, `rows`, `cache` and `added` what it has not committed,
`owner` the row locks, `journal` and `balance` what is committed. It shows that a
post is atomic, happens once per key and moves balances by its entries; the
modules above the ledger rely on that: a post is one step there, and what was
posted is kept as *legs*, one per idempotency key (`reward:{id}:pending`, ...),
or as a count (`credited`, `rewards`) that the key would bound but does not have to.

In `Rewards`, `attempt` is an award between its duplicate lookup and its insert and
`todo` the rest of a task run's list. In `Offers`, `seen` is the status of the offer as
the request read it, `rows` and `seen` of `task` those a task run listed. In `Deposits`
creation takes three steps, because the provider's invoice exists before the row
does; `sent` holds every notification ever sent, and any of them may arrive at any
time, again or never. In `Risk` tables are counts of equal rows. In `Settings` and
`AdgemToken` a clock says how long entries live and no request outlives its timeout.
In `Games` `calls` are the requests in flight of several open pages. `end_session`
locks with `select_for_update().select_related("game", "user")`, without `of=`, so the
rows of the game and of the user are locked as well as that of the session: `EndReads` waits until no other
end of the user is between its locks and its commit. In `Risk` a sweep judges a user
by the age of the account at that moment (`judged`), and every rule that matches acts.
In `Statistics` a transaction holds any number of rows per key and day (`pending`), and
`onTime` counts those that committed on their own day.

### Parts

The components in `Members` and in `Platform` share no state their properties
read, so a behaviour follows one of them: `part` is chosen by `Init`, and the other
variables keep their initial values. The properties of every part are checked in
every state. Interleaving two parts would only multiply the states. Both modules
leave their constants open and the theorems are about them; `MCMembers` and
`MCPlatform` give the constants values and fix what a part that is not followed
might start as (`MCInit`).

## 3. What the runs check

| Run | Question | Result |
|---|---|---|
| `LedgerPostingSafety` | Do balances, journal, keys and reversals stay consistent, and is each commit one atomic batch (`ImplementsLedger`)? | holds |
| `LedgerPostingLiveness` | Does every transaction end, although locks are taken in any order? | holds |
| `LedgerPostingDuplicateKey` | Does the loser of a race for a key get the existing row, as the docstring and L5 say? | no: it raises |
| `RewardsSafety` | Are movements and buckets those of the statuses, references paid once, settled rewards final? | holds |
| `RewardsLiveness` | Is every reward the task may approve settled? | holds |
| `RewardsHeld` | Is a held reward never approved automatically (R8)? | no: `held` is read before, not under the lock |
| `WithdrawalsSafety` | Can a balance be spent twice, a withdrawal be paid and refunded, one admin approve twice? | no: holds |
| `OffersSafety` | Is a conversion rewarded once, are limits passed by no more than the requests in flight, do counters claim only what was approved, who undoes a compliance stop? | holds, with these bounds |
| `OffersLiveness` | Does an offer paused for its quota resume, is a repeated report recorded? | holds |
| `Deposits` | Is a deposit credited once, only when the provider confirmed it, do the books agree, does each deposit end? | holds |
| `Members` | Risk, KYC, automation, accounts, sessions, games | holds, with the bounds below |
| `Platform` | Settings, daily figures, exports, catalogs, tokens, prices, surveys, advertisements | holds, with the bounds below |

Several counts in this code are made without a lock, so the exact limit does not
hold. The properties then state the bound that does: completions
(`LimitOvershootBounded`), impressions (`CapsOvershootBounded`, in `AdsSound`), daily
sessions (`DailyLimitOvershoot`, in `SessionsSound`), executions of a rule
(`MaxExecutionsOvershoot`, in `AutomationSound`), restrictions
(`RestrictionRowsBounded`, in `RiskSound`). The mutants of `LimitOvershootBounded`,
`AdsSound` and `SessionsSound` break these very bounds; those of
`AutomationSound` and `RiskSound` break another of the conjuncts, and say nothing of how
tight these two bounds are. In the same way
`StopsUndoneOnlyByStaleReads`, `VerifiedIsUndoneByReview` and `StalenessBounded` say who
may still act on what was true before. The limits of reward rules in games are
counted under the user's row lock and hold exactly (`RewardLimitsKept`); with a lock
on the session alone they would not, which is the mutant.

A property named `...Sound` is the conjunction of what one part keeps true, the type
invariant included. It has one mutant, which breaks one of its conjuncts; the theorems
of section 4 cover all of them.

### Bounds

- *Ledger*: two sessions, three journal rows, two caller keys, four accounts (three
  in PKR, one in USD), balanced movements and two lists that are refused. Two
  sessions make every race and deadlock between two parties; three rows allow a
  post, its reversal and a reversal of that. The liveness run has two rows.
- *Rewards*: two rewards of one user, two awarding workers, two task runs, one kill. One
  reference can be awarded twice; one award carries cash and points without a
  reference; one resolves to zero. The liveness run has one worker.
- *Withdrawals*: one user, two withdrawals, two concurrent requests, three admins,
  amounts on both sides of the KYC, dual approval and automatic payout limits.
- *Offers*: one user and one offer, known or not at first; three conversions, one of
  them tracked by a click; two requests at a time; two days of one hour, so that
  caps are reached, reset and reached again; one failure, killed run or change by
  staff (1.6 million states). The liveness run has two conversions.
- *Deposits*: one deposit of three units asked in either currency for a wallet in either;
  rates 1/2, 2 and 5/2 (below one, whole, and such that halves are rounded); a window of
  two ticks; three failures or changes.
- *Members* (1.4 million states): one user with two kinds of signal, an account that
  ages over the bound of two of its five risk rules, two sweeps and an administrator; two pages and two reviewers of one KYC row; three automation rules
  (one that fails after crediting, two with the same reference) in two
  transactions; two e-mails, three codes, two requests; two pages of a player with
  two reward rules, days of one tick and months of four; a board of three by three,
  two pairs of cards, five targets, two rounds each.
- *Platform* (1.5 million states): two processes that share a cache and one with its own;
  two offers in two syncs; two token lifetimes; five rules, rates of 1/2, 3/2 and 3 rupees,
  revenues around the rules' bounds; two users, two surveys and two completions reported
  by two workers; one campaign shown by two requests; two statistics keys, one
  transaction at a time with up to two rows of each, and two runs of the task over two
  days (two writers double the states and add only sums of what one may hold; the
  theorem is for any number); two kinds of report, one of them with a builder, asked for by
  two administrators.
- Symmetry is used over sessions, ids, workers, task runs, admins and callers in
  safety runs only, where no module tells them apart.

`MaxEvents`, `MaxRounds`, `MaxTime` and their like bound counters that the code does not
bound. `CHECK_DEADLOCK FALSE` is set where these bounds let everything come to an
end: Rewards, Offers, Deposits, Members, Platform. The ledger and the withdrawals are
checked for deadlock.

`AdgemToken` assumes tokens that last for the cache's minimum and one request at least
(`Lifetimes`): with shorter ones the cache would keep a token AdGem no longer accepts,
because the code never caches for less than a minute.

### Fairness

- `LedgerPosting`: lock and insert steps are strongly fair, as Postgres queues waiters;
  the deadlock detector and running code are weakly fair; `Commit` is strongly fair,
  because a caller makes finitely many calls and then returns.
- `Rewards`: the task's steps are weakly fair, because beat starts it every five minutes.
- `Offers`: requests and the quota task run to their end or are undone (weak fairness of
  `WorkerStep` and `TaskStep`), time passes, and the provider repeats a report until it is
  recorded (strong fairness of `Receive`, which is not possible while all workers are busy).
- `Deposits`: time passes, beat runs `expire_deposits`, a request that began ends,
  the provider repeats what it sent (weak fairness).

Nothing is assumed of users, staff, kills or of what the provider decides. The other
modules claim no liveness: their steps wait for people.

## 4. What is proved

Every safety property of a passing run, action properties and refinements included, is
a theorem for all values of the constants; type correctness is proved everywhere and
checked by TLC where it is part of a run's property or of a proof's invariant. What is assumed of these is named:
`AccountsFinite`, `CurrencyOfType`, `KeysDistinct`, `RequestsType` and their like in the
money modules, `UsersFinite` in `Withdrawals`, `WorkersFinite` in `Offers`, one assumption
for each part in `Members` and `Platform` (`RiskConstants`, `GamesConstants`,
`PricingConstants`, ...). They say that bounds, amounts and durations are numbers, that what is served
at the same time is finite, that tables are lists of well-formed rows, and that NULL
differs from real values; TLC evaluates them in every run. Three say more: `TokenConstants`
that a call ends inside the margin the cache leaves and that AdGem's tokens last for the
shortest cache entry and a call (see Bounds), `PricingConstants` that revenue is reported
in dollars, while the rate may be any positive rational (a numerator over `RateScale`), `SnakeConstants` that the snake starts
as a path that lies to the left of its head.

| Module | Theorems | Argument |
|---|---|---|
| `SumTheorems` | what sums over finite sets are: empty, one element more or less, unions, pointwise sums, one changed value, monotonicity | the library's induction takes an operator, so `SubsetsInduction` is proved from a minimal counterexample in a well-founded order and stated over a set of subsets |
| `LedgerPostingProofs` | `TypeCorrect`, `BalancesAreEntrySums`, `MoneyIsConserved`, `KeysAreUsedOnce`, `ReversalsCompensate`, `ServiceImplementsLedger` | "balance = sum of entries" needs `LockDiscipline` (a cached balance of a locked account is the committed one plus what the session added) and the same of savepoints; that books add up needs it of what sessions and savepoints have not committed (`SumsInv`); a commit is then one batch of `Ledger`, any other step a stutter |
| `RewardsProofs` | `TypeCorrect`, `LegsFollowStatus`, `BucketsFollowStatus`, `ReferencesArePaidOnce`, `SettledIsFinal` | each action changes one reward, so a bucket's sum changes by that reward's part |
| `WithdrawalsProofs` | `TypeCorrect`, `LockedIsReserved`, `PaidXorRefunded`, `DualApproval`, `ReservesAreCovered`, `SettledForGood` | dual approval needs "a second approver implies another first one"; LOCKED is a sum over open rows, of which a step settles one |
| `OffersProofs` | `TypeCorrect`, `OvershootIsBounded`, `CampaignsAreSound`, `RewardedOnce` (implements `PayOnce`), `StopsHold` | a conversion has a reward iff it is approved; what a request evaluated as approved it read as active; approved conversions and requests about to approve are together within the limit and the workers (`LimitInv`); counters claim what is backed by approvals, in the task's hands too (`BackedInv`) |
| `DepositsProofs` | `BooksAlwaysAgree`, `OnlyConfirmedIsCredited`, `CreditedOnce` (implements `PayOnce`) | `RowsAgree` relates the four rows of a deposit: confirmed iff credited, and a notification that confirms only of an invoice that was confirmed; `RoundedIsNear` bounds the rounding |
| `MembersProofs` | `RiskIsKept`, `RulesStayImposed`, `RulesAndIdentity`, `VerifiedStays`, `RegistrationIsSound`, `SessionsAreSound`, `LimitsAreKept`, `ClosedIsClosed` | part by part, below |
| `PlatformProofs` | `AdministratorsAreServed`, `FiguresServe`, `CatalogServes`, `EventsAreSound`, `AdsServe`, `CreditedOncePerCompletion` (implements `PayOnce`) | part by part, below |

A part has its own inductive invariant and a theorem about its own specification
(`RiskIsSound`, `AdsAreSound`, ...); a behaviour of the whole is a behaviour of every part
(`RiskIsPart`, `AdsArePart`, ...), because a step of another part is a stutter of this one.
None of the properties is inductive as it stands. What is added:

- *Risk*: at most one sweep holds a profile (`RiskBase`); the stored score and what the
  sweep in "rules" is about to store cover the events (`ScoreInv`); restrictions and
  signals are counted with those that forms and sweeps are about to add (`RowsInv`, `SignalsInv`);
  what the rules judged so far call for is in force or about to be written by the sweep
  that judges (`RulesInv`).
- *Automation*: executions and credits are counted with those of transactions in
  progress, and what a rollback takes away is known (`AutoInv`).
- *KYC*: the rows reviewers have read are well formed too, and what a page submits was
  allowed when it was read.
- *Accounts*: users and wallets in flight differ from each other and from committed ones;
  there is an order of registration in which a referrer comes first (`AccountsInv`).
  `NoReferralCycle` says that every nonempty group of users has a member whom no member
  referred, which for finitely many users is the absence of a cycle, and is proved
  from that order; a transitive closure would be a recursion.
- *Games*: a request that is closing a session holds its lock, so the row is still active and
  no other request is closing one of the user's; rows are numbered without gaps; starts of
  a day and requests about to add one are counted together (`CrowdInv`); what is about to
  be written is the last to end and allowed by all that ended before, and rewarded
  sessions end at different times (`LimitsInv`).
- *Snake, memory, tap*: the direction of the last move is where the neck is not, the
  sets of intervals and timers are those of the round that runs.
- *Settings*: what a process read was in force when it began or since, so what it caches
  expires a lifetime and a timeout after it was replaced.
- *Statistics*: a figure is at most what there is of its day and at least what committed
  on that day (`Near`, `StoredAreNear`), since a run counts days that are over. *Reports*: an asking request's file is its own.
- *Catalog, token*: what a sync has written so far is there; an entry ends before its token does.
- *Surveys*: an open session has not been used, so those that use it had all picked it
  before the first of them recorded (`UseInv`).
- *Advertisements*: for every hour, day and interval alike (`Windows`), impressions in it
  and requests that may yet add one are together within the cap and the requests
  (`Within`); a check in a window sees all of it that has passed (`CheckSees`).
- *Pricing*: the properties are inductive; the work is arithmetic over fractions. Rounding, halves to
  even, is near, monotone, exact on multiples and the same for a fraction multiplied above
  and below (`RoundedNear`, `RoundedMonotone`, `RoundedExact`, `RoundedScaled`); from these
  follow what is kept after one conversion and after two (`KeptInDollars`,
  `KeptOverConversions`), that no more than the revenue is paid (`NoMoreThanAll`), and that
  converting there and back does not add where a dollar is a rupee at least (`NoneComesBack`).

Only model-checked: liveness (`EveryTransactionEnds`, `PendingIsSettled`, `QuotaPauseEnds`,
`ReportsAreRecorded`, `DepositsEnd`), which speaks of fairness and so of ENABLED, out
of the prover's reach; and the two runs that show a disagreement between the code and
its documents.

## 5. What the models show besides

Facts about the code met while modelling, without a run of their own:

- `reverse_transaction` assigns `reverses` in memory only: the column stays NULL (L7).
- Rewards are approved at once or by the next run of the task: nothing waits the 30
  minutes of R8 and ADR-010.
- A deposit is credited when the provider calls the transfer `confirmed`
  (`nowpayments.py:41`, `webhook_views.py:55`), before `sending` and `finished`, and no amount
  is compared: a transfer that turns out too small afterwards is credited in full, where the
  checklist (`NOWPAYMENTS.md:53`) wants an underpaid one to stay in `confirming` without
  credit. A payment that fails or is refunded after it was confirmed stays credited too.
- A deposit asked for in PKR on a wallet in USD is invoiced at the rate and credited as the
  same number of dollars: `confirm_deposit` posts the amount without its currency.
- The docstring of `apply_risk_rules` (`fraud/services.py:76`) promises the "first matching
  active rule per action type": every matching rule acts. What a restriction or a freeze
  does twice is the same as once, alerts are repeated.
- A sync started from the admin panel that fails at an item commits the items before it
  together with DOWN (`CommitPart`), because the exception is caught inside the request.
- An award that comes to nothing raises and stores no reward (`Award`). The two
  conversions of one award read the rate separately (`rewards/services.py:167`, `182`); the
  model takes one rate for both, so a change between the two is outside `SharesAddUp`.
- The cooldown of withdrawals is read before the lock: two simultaneous requests pass it
  (W4). The payout mode ignores the risk level (W5). APPROVED (W1) is never set.
- A deposit to a wallet in PKR can be paid and is never credited: the platform account
  is the one in USD, entries do not balance, the notification is refused each time and
  the deposit expires.
- Offers provisioned by a postback have a quota without caps.
- `process_completion` and `record_conversion` have no caller in this commit;
  `record_conversion` stores a tuple where it means a reward.
- `check_ip_risk` gives a constant answer, and several trigger names of automation rules
  match no emitted event.
- A campaign's `budget` and `spent` are never read and EXPIRED is never set.
- The reports page says exports "expire after 24 hours" (`reports.html:17`): `expires_at` is
  set and nothing reads it.
- Without `REDIS_URL` each process has a cache of its own, so a setting that was changed
  is stale in the others for the entry's whole life.

## 6. Not modelled, and what is left

Left out for good: HTTP, templates, translations, signature checks, the parsing of
payloads, e-mail, login and verification codes (single-row writes), payout methods,
withdrawal fees (they do not enter the ledger), notifications, content, support
(single rows and pages), bonuses (`services.py` is a stub), and the generic admin forms,
which can overwrite any column of any row. `report_event` of games appends telemetry that
nothing reads. Currencies other than PKR and USD, which
`convert` refuses, are not modelled. Of the games the drawing is left out, and the
SDK's table of pending promises.

Left for later:

1. A composed platform: rewards, deposits and withdrawals over one ledger, showing that
   a CASH account is funded by what was approved or confirmed. Each of them is shown
   to keep its own legs in line; the composition would add that the keys of different
   services never meet.
2. `Offers` with two users, whose country caps then interact, once a symmetry or a
   smaller clock makes room for them.
