# A TLA+ verification of the container-tracking backend

The repository is a FastAPI service that sells container tracking: a customer's
organisation pays one credit per lookup, a lookup asks a chain of scrapers where
a container is, the result is kept in a database row and announced by webhooks.
This directory models the parts of it in which order, failure and concurrency
decide whether it is right, checks them with TLC and proves part of it with TLAPS.

Paths below are relative to the repository root (`src/` here).

## 1. Inventory

| Component | State it keeps | Operations | Talks to |
|---|---|---|---|
| Container lifecycle (`app/services/container_service.py`, `app/repositories/containers.py`, `app/models/container.py`) | `TrackedContainer` rows: status of the scrape, message, active flag, `updated_at`, `last_polled_at` | `track`, `get_or_refresh`, `request_refresh`, `queue_bulk`, `stop_tracking`, the scrape itself | metering (call), provider chain (await), webhooks (await), Redis (await) |
| Scrape worker and sweep (`app/workers/tasks/scrape.py`, `app/workers/arq_app.py`) | jobs in Redis, running coroutines | `scrape_container`, cron `sweep_stuck_scrapes` | container rows |
| Credit metering (`app/services/usage_service.py`, `app/repositories/usage.py`) | `CreditBalance`, `UsageEvent` ledger | `charge`, `add_credits`, `set_plan_allotment` | called by lifecycle and billing |
| Webhook delivery (`app/services/webhook_service.py`, `app/workers/tasks/webhook_delivery.py`, `app/repositories/webhooks.py`) | `WebhookEndpoint`, `WebhookDelivery`, jobs in Redis | endpoint create / update / delete, `trigger`, `deliver_webhook` | Redis, the customer's server |
| Billing (`app/services/billing_service.py`, `app/routers/v1/billing.py`) | `Plan`, `Subscription`, the balance | Stripe webhook (subscription, invoice, checkout), checkout sessions | Stripe, metering |
| Provider registry (`app/providers/registry.py`) | the chain, GoComet's semaphore, one tracker per executor thread | `track`: Romeu for its own numbers, then GoComet; warm-ups | providers (threads of the default executor) |
| GoComet tracker (`app/providers/gocomet_http.py`) | a session, the tracking ids it paid for; the id on the container's row | create, announce, poll, resume, rotate | GoComet, the row |
| Preview routes (`app/routers/searates_debug.py`, `app/services/bulk_tracking_service.py`, `app/providers/gocomet_pool.py`, `app/repositories/container_cache.py`) | a pool of trackers, `container_results` | batch and single lookups through `track_with_cache` | GoComet |
| SeaRates and browser providers | sessions | HTTP, parsing; `build_default_registry` registers none of them | carriers |
| Accounts and sessions (`app/services/auth_service.py`) | users, OAuth identities, refresh and reset tokens | sign-up, login, Google sign-in, refresh with rotation, logout, switch, forgot, reset | e-mail |
| Organisations and API keys (`app/routers/v1/organizations.py`, `app/services/api_key_service.py`) | memberships, keys | add, change role, remove; create, revoke, rotate | - |
| HTTP surface, e-mail, migrations | settings | read-only or one message each | - |

What is hard in it:

* **Interleaving.** SQLAlchemy is synchronous and the container routes are
  `async def`, so code between two `await`s owns its event loop; the API runs on
  Cloud Run, which starts several processes (`cloudbuild.yaml:34-54`), and the
  worker is one more. Every read-then-write over two transactions is open to the
  other processes.
* **Stale state.** A session loads a row, awaits a provider for minutes and then
  writes the columns *that differ from what it loaded*. The sweep reads rows in
  one statement and updates them by id in another.
* **Failure.** A process dies between two commits; Redis fails after the row was
  committed; arq cancels a job at its timeout, in any `await`; arq runs a webhook
  job again after a crash, but a scrape job never (`max_tries=1`).
* **Time.** The stuck threshold (480 s) against the job timeout (240 s), and
  against scrapes that have no timeout: those inside an API request.

What makes each component correct:

* *lifecycle and worker* - one scrape of a number at a time, charged once; a
  charge reaches the providers; a pending row is settled in the end; what the
  customer reads agrees with what happened; only abandoned rows are swept;
* *metering* - never below zero, nothing unpaid, a ledger that adds up;
* *webhooks* - every endpoint gets its row, every row its attempts, no more than
  the maximum, and none is forgotten;
* *billing* - the local plan follows Stripe's, a paid period is refilled once, a
  purchase is credited once, in whatever order and number events arrive;
* *provider chain* - every lookup is answered though calls hang; permits, threads
  and trackers survive failures; no thread works for nobody;
* *GoComet* - a lookup pays for one record; a paid record is not thrown away;
* *preview routes* - each number gets its own answer, a fetched result is stored,
  the pool keeps its size;
* *sessions and keys* - a refresh token is good for one rotation, and none survives
  a reset; a key has one working successor; *organisations* - an owner remains.

`PROJECT.json` lists every component with its status, and every hazard at its line.

## 2. Modules

| Module | What it is |
|---|---|
| `PaidLookups` | What metering promises, without rows, jobs or failures: a lookup is paid once, out of credits that exist, and calls the providers at most once, after it was paid. |
| `ContainerTracking` | The lifecycle of one organisation's containers: five endpoints, scrape jobs, sweep, credits, time and crashes. Implements `PaidLookups`. |
| `MCContainerTracking` | Its symmetry for TLC. |
| `ContainerTracking_proofs` | Theorems about it, for any number of API processes. |
| `OneServer_proofs` | Theorems about it where a single process serves the API. |
| `WebhookDelivery` | Endpoints, fan-out and delivery attempts, arq's at-least-once runs. |
| `MCWebhookDelivery` | Its symmetry for TLC. |
| `WebhookDelivery_proofs` | Theorems about it. |
| `StripeBilling` | Stripe's events, the handler that mirrors them, refills and purchases. |
| `MCStripeBilling` | Its plans for TLC. |
| `StripeBilling_proofs` | Theorems about it. |
| `TrackingProvider` | What a provider with records of its own promises its caller: an answer rests on a record that was handed in or announced before; a record is announced once. |
| `GoCometLookups` | Lookups of one container through GoComet: coroutine, thread, the row's saved id, GoComet's records. Implements `TrackingProvider`. |
| `GoCometLookups_proofs` | Theorems about it. |
| `ProviderChain` | The registry's chain, its permits, its timeout, the executor's threads and their trackers. |
| `MCProviderChain` | Its trackers for TLC. |
| `ProviderChain_proofs` | Theorems about it. |
| `BulkTracking` | The preview routes: the tracker pool, a batch's workers, single lookups, `track_with_cache`. |
| `MCBulkTracking` | Its batch for TLC. |
| `BulkTracking_proofs` | Theorems about it. |
| `Accounts` | Accounts, sessions, members and API keys. |
| `MCAccounts` | Its symmetry for TLC. |
| `Accounts_proofs` | Theorems about it. |

The modules meet where the code does. `ContainerTracking` sees a provider call as a
scrape that ends with any result, at any time, or hangs, and as a thread that may
commit a tracking id after its coroutine has gone (`TrackingIdSaved`);
`ProviderChain` is the inside of that call and sees GoComet's work as a thread that
hits, misses, raises or hangs; `GoCometLookups` is the inside of that work.

### ContainerTracking and the code

`row[n]` is the `TrackedContainer` of number `n`: `here` (the row exists), `gen`
(tells a row that was deleted and inserted again from the first one; it stands
for the primary key), `status`, `msg`, `active`, `age` (`now - updated_at`, in
ticks), `fresh` (`last_polled_at` within the cache period). The event timeline and
the summary columns that a result fills are data no property here looks at.

A request is one call of an endpoint; its identifier is used once, so
`Requests` bounds the calls of a behaviour. `pc[r]` names the transaction it runs
next:

| `pc` | Code |
|---|---|
| `create` | `get_or_create`'s INSERT with `try_deduct_credits`' commit (`track` of an unknown number) |
| `deduct`, `record` | the two commits of `charge` |
| `undo` | `db.delete(container)` after a failed charge |
| `mark` | commit of `IN_PROGRESS`, reload, call of the provider chain |
| `queue`, `enqueue` | commit of `QUEUED`, then `_enqueue_scrapes` |
| `next`, `look`, `insert` | the loop of `queue_bulk` and its `get_or_create` |
| `scrape`, `notify` | awaiting the provider; awaiting Redis inside `webhooks.trigger` |
| `done`, `dead`, `lost` | answered; the process died; it died between the two commits of a charge |

A slot of the worker runs one job (`idle`, `scrape`, `notify`); `queue` is the
jobs in Redis, a set, so they may start in any order and after any delay.
`LoopFree(r)` is the event loop: a request takes a step only while no other
request of its process stands between two `await`s. Requests of different
processes (`host`) interleave at every transaction. The sweep runs on the
worker's loop, so no job steps between its read and its write, but requests do.

Three history variables only serve properties: `paid` and `scraped` count charges and
provider calls by lookup, `disowned` marks the lookups that the row no longer tells
of: its scrape was taken for stuck, or overtaken by another scrape or a sweep. A
sweep contradicts the live lookups of a row that still is what the sweep read, and
all its lookups, ended ones too, if the row has settled or was queued anew meanwhile.

Writes follow the ORM: `Apply` leaves a status column out of the UPDATE when it
equals what the session loaded before the call (`snap`), `BulkQueue` likewise,
`SweptRow` likewise for the message. An UPDATE of a row that is gone raises and
takes the error path.

Steps that the code takes in two statements and the model in one: the
`IN_PROGRESS` commit and the reload after it, the read and the write of
`stop_tracking`, and of the handler that writes `FAILED`. Nothing the properties
tell apart can happen between them, except that another process may write the
same columns there, which the orders already modelled produce as well.

Time is a `Tick`: it does not pass while a request stands between two `await`s or
the sweep between its read and its write (milliseconds against minutes), nor
beyond the timeout of a running job. `JobTimeout = 1` and `StuckAfter = 2` keep
the source's 240 s : 480 s. A scrape inside a request has no timeout and may
outlast any number of ticks. `CacheExpires` is nondeterministic: the cache period
is 600 s in production and six hours by default, before or after the threshold.

A GoComet lookup may commit a new tracking id from its own thread
(`TrackingIdSaved`), at any time, even after the coroutine that started it is
gone; it moves `updated_at`. Which lookups do is a choice of `BeginScrape`.

### WebhookDelivery and the code

A delivery is an event for an endpoint; `delivery` holds its status and
`attempt_count`. `trig` follows `trigger` through its awaits, `run[s]` follows
`deliver_webhook`: `post` (loaded, request to be sent), `record` (answered),
`retry` (FAILED committed, next job to be enqueued), `finish` (returned, arq has
not ended the job yet). `seen` is the `attempt_count` it loaded before the request
and writes back plus one; `was` is the status it loaded, which the ORM leaves out of
the UPDATE when the attempt ends with the same one. A crash leaves jobs in Redis and empties the slots; a
job runs at most `MaxTries` times (arq's default is five). A job that hits arq's
timeout is not run again. Back-off is left out: a job may start at any time, which
includes every delay. `active`, `unsubscribed` and `disabled` are the
combinations of `is_active` and `event_types` that the code tells apart.

arq itself is not in the repository; `UsedUp`, `PostHangs`, `JobsKept`,
`Running` and `CrashWorker` are modelled from how the worker is configured and
marked external.

### StripeBilling and the code

`stripe` is what Stripe knows of the organisation's subscriptions, `events` what it
has to tell, `acked` and `refused` what it got a 200 for, `{"received": True}` or
`{"received": False}`; an event in neither may be delivered at any time, to any process,
and while another process still has it.
These, and the customer's deeds (`Modify`, `Renew`, `Cancel`), are external.
`h[s]` is the handler of process `s`: the route is an `async def` that calls the
database synchronously, so it has one event at a time and every statement of it
interleaves only with other processes:

| `pc` | Code |
|---|---|
| `commit` | `upsert_subscription_from_stripe_object` has read the row; its commit is next |
| `load`, `allot` | the SELECT and the UPDATE of `set_plan_allotment` |
| `answer` | the work is done, the 200 is not sent yet |
| `refuse` | the signature did not verify (`routers/v1/billing.py:97-99`): nothing is done, the 200 is not sent yet |

Any event may be refused at any delivery - a rotated secret, a timestamp out of
tolerance - and Stripe, which sees a 200, does not repeat it. `cut` is history: a process
died between the row's commit and its refill, and nothing has refilled since.

An UPDATE writes the columns that differ from what was read; an INSERT that meets
the row of another process fails on `organization_id` and the event is sent again.
A price that only `stripe_price_id_usd` names (`Unmapped`) is `NotFoundError`: a
step that changes nothing, hence no action, and its events stay unanswered. The
same holds for a status outside `SubscriptionStatus`, which is not enumerated; of
that enumeration two values stand for all, since no property tells more apart.
`charge` and purchases act on the same `CreditBalance` as in `ContainerTracking`,
where a purchase is `AddCredits`; that module has no refills, so its ledger adds up
within one billing period.

### GoCometLookups and the code

`record[i]` is a tracking record of GoComet, created by a POST out of a monthly
quota; `row` is `TrackedContainer.provider_tracking_id`. `call[l]` is the coroutine
`GoCometHttpProvider.track`, `thread[l]` is `GoCometTracker.track` in its worker
thread, which outlives the coroutine when `wait_for` gives up:

| `thread[l].pc` | Code |
|---|---|
| `resume` | poll of the id that the row had |
| `create` | POST, also after every rotation that has no id to go on with |
| `announce`, `report` | `on_created`, before any poll; `report` if the POST was answered at once |
| `poll` | poll of the record that this lookup created |
| `ended` | returned or raised |

`limited` remembers that a lookup was rate-limited while it resumed (it then creates,
which the code does as well). `told` is history: the ids handed in or announced.
GoComet itself - answering, dropping a record, losing a response - is external.
`phase`, `known` and `basis` of `TrackingProvider` are `call`, `told` and the id of
`answer`. In the code the chain passes the row's id to GoComet only; a miss returns
nothing to the row.

### ProviderChain and the code

`work` is the queue of the default executor, `thread[t]` what a thread of it does,
`local[t]` the tracker in its `threading.local()`, `permits` and `line` the
semaphore (first come, first served). `lookup[l].pc` is where
`ProviderRegistry.track` stands: with Romeu, in the semaphore's line, with GoComet.
A lookup that gives up (`TimeOut`) or is cancelled takes its work back if no thread
has begun it, and gives its permit back in either case: a thread that has begun goes
on alone. Romeu has no permit and no timeout, but its requests have, so that
`RomeuRequest` is fair and `GoCometCall` is not. The process starts with every permit
held by a warm-up. `raised` is history: trackers whose call raised.

### BulkTracking and the code

`idle`, `building`, `opened` and `blocked` are the pool: `acquire` waits *on the event
loop*, so while `blocked = a` nobody but `a` and the threads moves. `actor[a]` is a
worker of the batch or a single lookup with its tracker, `thread[l]` the thread that
runs `track_with_cache` for item or lookup `l`, `cache` the rows of
`container_results`. A tracker is a number that is used again once nobody has it.
`other` is a row that does not answer, because it is stale or of another shape.

### Accounts and the code

The routes are plain `def`s in a thread pool, on several instances, so every request
is what it read (the values in `call[c]`) and what it commits:

| `pc` | Code |
|---|---|
| `read` | everything is read, the commit is next |
| `asked` | a member route has the caller's role (`_require_manager`), not yet the row of the user it is about |
| `list` | the removal of an owner, before `list_members` |
| `update` | a reset whose bulk UPDATE has begun: `rows` are those it saw (READ COMMITTED) |
| `locked` | it holds them, less those revoked meanwhile, until its commit |
| `issue` | sign-in's second commit, which inserts the refresh token |

The three reads of a removal are three statements. `Seen` is what the second and the third
return: a row that the session has loaded before keeps the role that was read first.
Unique constraints refuse the second of two inserts; a DELETE of a row that is gone does
nothing, an UPDATE of it raises (`gone`). `line` names the sign-in that a session, or
the creation that a key, descends from; `after`, `forked`, `ended`, `respawned` are
history for the properties. Access tokens are JWTs that nothing ends before their
time: they give no state; a reset token that expires is one that nobody presents.

## 3. Runs

Passing runs (TLC, `-workers 2`, each below five minutes):

| Run | Instance | Shows |
|---|---|---|
| `one_api` | 1 number, 3 requests, 1 API process, all endpoints, 2+1 credits | `SingleFlight`, `LoneJobNotSwept`, `QueuedRowSurvives`, `SettledMessage` |
| `two_api` | 1 number, 2 requests, 2 API processes, no credits but 2 purchases, one crash of each kind, Redis may fail | `TypeOK`, `LedgerBalanced`, `ChargeInOnePlace`, `PaysOnceScrapesOnce` |
| `bulk_payload` | 2 numbers, 2 requests (track, bulk, stop), 1 process, Redis works | `HandedOver` |
| `settles` | 1 number, 2 requests, 1 process, one crash of each kind, Redis may fail, `FairSpec` | `PendingSettles`, `PaidLookupHappens` |
| `webhook_runs` | 1 endpoint, 2 slots, 3 attempts, 2 tries, 2 crashes, Redis may fail, `FairSpec` | `TypeOK`, `NoneForgotten`, `AttemptsCounted`, `AnswerRecorded`, `FinishedStays`, `DeliverySettles` |
| `billing` | 2 plans, 1 subscription, 2 processes, 3 events, any of them refused, one late answer or crash, `FairSpec` | `TypeOK`, `OnePlanOneRefill`, `NothingStacks`, `PurchasesCounted`, `AllotmentFollowsPlan`, `FirstInvoiceCovered`, `EventsSettle` |
| `gocomet` | 2 lookups, 1 rotation, 3 records, 1 crash, `FairSpec` | `OneLiveRecord`, `SavedRecordKept`, `LookupsEnd`, `KeepsProtocol` |
| `chain` | 4 lookups (one of Romeu's), 2 threads, 1 permit, 3 requests to Romeu, `FairSpec` | `TrackersFit`, `OnlyAwaitedWorkStarts`, `GoCometAlwaysAnswers`, `RomuAnswered` |
| `bulk_pool` | 2 numbers, a batch of both, 1 single lookup of the first, 2 actors, pool of 1, `FairSpec` | `AnswersMatch`, `TrackersAccountedFor`, `LostOnlyToTwin`, `BatchEnds` |
| `accounts` | 2 users (one or both own an organisation at first), 3 overlapping requests, 4 sessions | `ResetEndsSessions`, `OneCredentialPerLine`, `OwnerStays` |

What the properties say:

* `SingleFlight` - `track`, `get` and `refresh` never charge for a number that has a
  charged scrape to come or under way, unless the row had stopped saying so. It
  holds because the code from the read to the commit of the new status has no
  `await`, on *one* process; `queue_bulk` does not look and is exempt.
* `QueuedRowSurvives` - a job finds the row it was paid for.
* `LoneJobNotSwept` - the threshold's margin over the job timeout is enough for a
  job that is alone on its row.
* `SettledMessage` - `tracking_message` agrees with `tracking_status` on rows that
  had one scrape at a time, although both are written column by column.
* `LedgerBalanced` - credits left and spent add up to credits bought; the ledger
  lacks exactly the charges standing, or killed, between their two commits.
* `ChargeInOnePlace` - a charge is made once per request and number, held by one
  holder (the request, a committed row, a job) and spent at most once.
* `PaysOnceScrapesOnce` - refinement of `PaidLookups`.
* `HandedOver` - a request that answered left no charge behind.
* `PendingSettles` - no row pends for ever: the sweep fails those whose owner died and
  those that Redis failed to take after their commit. `PaidLookupHappens` - a charge
  that the request spends itself reaches the providers, and so does every job that Redis
  took, unless the request died before or tracking was stopped. That a request which
  answered has handed its charges to Redis is `HandedOver`; a charge whose enqueueing
  failed buys nothing, and the sweep says so on its row.
* `NoneForgotten` - an unfinished delivery has a job, or lost one in a named way.
* `AttemptsCounted`, `FinishedStays` - while no worker died: at most `MaxAttempts`
  requests, one run at a time, finished means finished.
* `AnswerRecorded` - success means 2xx was answered, and, without crashes, the
  converse.
* `DeliverySettles` - deliveries end. `EveryoneHasARow` - a fan-out that ended without an
  exception left no endpoint out; no run checks it, it is proved (section 4).

* `OnePlanOneRefill` - on one plan, subscription events refill once, although two
  processes may insert the row and events repeat.
* `NothingStacks` - a refill resets; only purchases add.
* `PurchasesCounted` - of the purchases that Stripe counts as delivered only those are
  lost whose event was refused, and the surplus is at most the faults: a purchase is not
  idempotent.
* `AllotmentFollowsPlan` - whenever no handler runs the allotment is the mirrored plan's,
  also after refusals and after crashes at other points, unless two worked at once or a
  refill was cut off by a crash (`cut`).
  `FirstInvoiceCovered` - an invoice that came too early is made up for as soon as one
  subscription event was answered with `{"received": True}`, at the first subscription and
  unless `cut`. Each of these conditions is needed: without it TLC finds a
  counterexample, which is what the hazards of `PROJECT.json` say.
* `EventsSettle` - every event of a known price and status is answered, by its effect or
  by a refusal.

* `OneLiveRecord` - of the records a lookup announced at most one is still alive,
  however often it was limited, dropped or timed out.
* `SavedRecordKept` - the row lets go of a paid record only when GoComet dropped it,
  or for a lookup that was limited while it resumed it or had begun before.
* `KeepsProtocol` - refinement of `TrackingProvider`. `LookupsEnd` - every coroutine
  is answered and every thread ends: rotations are counted everywhere.
* `TrackersFit` - no two threads work with one tracker, none with one that raised.
* `OnlyAwaitedWorkStarts` - a thread begins no work whose lookup has given up.
* `GoCometAlwaysAnswers` - a permit always comes back, though every call may hang.
  `RomuAnswered` - Romeu's lookups, which have no timeout, are answered *if* hanging
  GoComet calls leave a thread free time and again; the premise is needed.
* `AnswersMatch` - no number gets the result of another. `TrackersAccountedFor` - no
  tracker has two threads, or a thread while it is ready for another, and the pool
  does not shrink. `LostOnlyToTwin` - a fetched result is lost only to the lookup that
  stored the first row of its number. `BatchEnds` - though every thread hangs.
* `ResetEndsSessions` - no session that was there when a reset's UPDATE began outlives
  it, however refreshes, logouts and other resets race with it. `OneCredentialPerLine` -
  no refresh or rotation multiplies a credential, two named races and re-rotation excepted.
  `OwnerStays` - an organisation is left without owner only through a change of role,
  which nothing checks, or a removal that took somebody for an owner who was none any
  more, or the reverse (`Misjudges`).

Two runs that TLC must find violated (the quotes are in `PROJECT.json`, "findings"):

* `bad_double_charge` - two API processes both read "not pending" and both charge for
  the same number, although refresh is called idempotent.
* `bad_stays_queued` - `container_service.py:341-343` says that a row which fails to
  enqueue "stays `queued` until the customer manually re-scrapes it", and
  `arq_app.py:88-90` that there is no background sweep. There is one again
  (`arq_app.py:99`, `scrape.py:48-83`): it fails such a row after the threshold, which is
  what `PendingSettles` rests on. The comments are out of date.

Also seen while modelling; the modules behave this way, the properties above are
worded around it, and no run is spent on it:

* *container* - `track`, out of credits, deletes "its" unpaid row by id
  (`container_service.py:141`), also after a bulk request of another process has
  charged for it and queued it. A scrape that settles a row between the sweep's read
  and its UPDATE is failed all the same (`scrape.py:79-80`), whose docstring wants only
  stuck rows. A crash between the two commits of `charge` loses the ledger row
  (`LedgerBalanced` says exactly when). A GET serves a row that the sweep failed while
  `last_polled_at` is fresh (`container_service.py:236`), although the sweep's docstring
  says the next request retries it. POST of a stopped container scrapes and charges but
  leaves it inactive. A scrape inside a request may outlast the threshold and be swept.
  A timeout in the webhook fan-out turns a committed COMPLETED row into FAILED.
  With two API processes the INSERT of one number of a payload may fail (IntegrityError)
  after another process inserted its row: the number is charged and never looked up, and
  the loop goes on ("one item's failure must not sink the batch").
  A FAILED row may have no message: the sweep reads a row whose message is "timeout",
  the row settles and is queued anew, which clears the message, and the sweep's UPDATE
  leaves the message out because it equals what the sweep had loaded (`scrape.py:79-80`).
* *webhooks* - Redis fails after a failed attempt was recorded
  (`webhook_delivery.py:93`): attempts remain, but no job. After a worker crash an
  exhausted delivery may be attempted once more.
* *billing* - an event whose signature does not verify gets a 200 and no effect
  (`routers/v1/billing.py:97-99`), so Stripe does not repeat it: a purchase is lost, or the
  `created` event that should make up for an early invoice. A second subscription to the plan that the row already has: its invoice
  comes first and is skipped, its `created` event finds the plan unchanged, and nothing
  refills (`billing_service.py:413`, `:443`). A late `subscription.updated` puts an older
  plan back. `customer.subscription.deleted` has no branch (`routers/v1/billing.py:101`),
  so the row keeps its last status.
* *accounts* - a refresh that read its token before a reset's UPDATE and commits after
  the UPDATE began mints a session that survives the reset; of two refreshes of one token
  that overlap each mints one; a revoked key that is rotated again yields another working
  key; two owners who remove each other at once leave none.
* *providers* - a lookup that ends in a miss hands back neither the carrier nor the
  tracking id that GoComet's miss carried: `ProviderRegistry.track` builds a miss of its
  own (`registry.py:640-643`), although the adapter keeps them as "worth carrying
  through" (`registry.py:442-446`). A permit is released at the timeout while the
  thread's connection lives on, against the cap "how many live connections ... THIS
  PROCESS will have open at once" (`registry.py:181-186`).
* *results* - an event is told by its code and date alone, so a planned event that
  comes back as an actual one is skipped, and the summary, which asks for actual
  events, never sees it (`repositories/containers.py:187-190`). Two scrapes of one row
  that overlap both append an event that both found absent: nothing makes it unique.
  Events are not modelled.

### Bounds, and why they are enough

Races here are between two actors over one row: a second and a third request, a
job, the sweep. Three requests give the row a past (an earlier result, an earlier
failure) before two others race; one number is enough for everything but the
payload loop, which has two. Two processes are enough for every pairwise race. One
worker slot suffices for the container runs since jobs of one row exclude nothing
in each other; the webhook run has two, to let a re-run and its retry overlap. Each
property has a mutant of the code (`PROJECT.json`, "mutants") that violates it
under the same bounds, so none holds because its case is out of reach.
`MaxTopUps`, `MaxApiCrashes`, `MaxJobCrashes`, `MaxCrashes` bound counters only.
Deadlock is checked for `ContainerTracking`, where time can always pass; not for
`WebhookDelivery`, which is over when every event was triggered and every delivery
settled, nor for `StripeBilling`, which is over when every event was answered.
There `MaxEvents = 3` is a subscription (two events) and one deed more - a change of
plan, a renewal, a cancellation, a purchase - each in every order. Allotments of 1 and 2, 1 free credit and packs of 1
keep every comparison of the properties strict somewhere.

In `gocomet`, two lookups are enough for a thread that outlives its lookup to meet
the next one, and three records for one that is dropped, one that is paid for twice
and the one in force; `MaxRecords` and `MaxCrashes` bound counters. In `chain`, one
permit and two threads let hung calls fill both threads while the permit circulates,
and four lookups let that happen with one more in line. In `bulk_pool`, two actors are
two workers, or a worker beside a lookup of one of its numbers: `MaxActors` excludes
all three at once; `Trackers` is never exhausted. In `accounts`, three requests are
two that race and a third that profits; `MaxSessions` is what they can issue at the
most. None of these four checks deadlock: their histories end when all is answered.

### Fairness

Weak fairness for the code of a request, for the end of a provider call (every
provider has timeouts), for a free slot taking a job, for cron's sweep and for time;
in `WebhookDelivery` for trigger's loop and for the runs of the worker. None for
clients, purchases, crashes, cache expiry, the GoComet thread or the customer's
edits. In `StripeBilling` the handler's steps are fair, and so is the delivery of
each event to a handler that accepts its signature: Stripe repeats what is not answered,
and no event has to be refused. `PendingSettles` rests on the sweep: a row whose owner
died, or whose job Redis did not take, is failed by cron.

In `GoCometLookups` a thread's steps are fair, since every request has a timeout, and
so is the coroutine; GoComet's answers and droppings are not. In `ProviderChain` the
event loop, free threads, Romeu's requests and warm-ups are fair, a call to GoComet is
not: it may poll for minutes and the properties should not need its end. In
`BulkTracking` workers and lookups are fair - the event loop runs, `acquire` and
`wait_for` have timeouts - and neither threads nor builds are. `Accounts` has no
fairness: its requests promise no progress.

## 4. Proofs

`ContainerTracking_proofs` proves, for every set of numbers, requests, processes and
slots, any credits, timeouts and bounds (`ConstantsAssumption`: the types of the
constants, requests and slots disjoint, numbers and requests finite):

| Theorem | States |
|---|---|
| `TypeCorrect` | `Spec => []TypeOK` - among others, the balance never goes below zero |
| `ChargesNeverDuplicate` | `Spec => []ChargeInOnePlace` |
| `ImplementsPaidLookups` | `Spec => PaysOnceScrapesOnce` |
| `LedgerNeverDrifts` | `Spec => []LedgerBalanced` |

*The argument.* `TypeOK` is not inductive: a request that steps from `deduct` to
`record` must have a number. `PlaceOK` adds what each `pc` implies about `num`,
and `TypeInv == TypeOK /\ PlaceOK` is. `ChargeInOnePlace` is inductive given
`TypeInv`: `ChargedOnce` bars a second charge for a token (a bulk request takes a
number out of `todo` before it deducts), `HeldUnspent` makes each holder's token
paid and unscraped, and `HeldByOne` bars a second holder, so that spending from one
leaves none. The refinement follows: a deduction is `Pay` (the token is new by
`ChargedOnce`, the balance suffices by the guard), a start of a scrape is `Scrape`
(paid and unscraped by `HeldUnspent`), a purchase is `AddCredit`, everything else
stutters. `LedgerBalanced` needs `ChargedOnce` too: the cardinality of `paid` grows
by one with each deduction only if the token is new.

`OneServer_proofs` proves the rest of the container properties where one process
serves the API (`OneServer`: any two members of `Servers` are equal), for everything
else as general as above; the worker is still a process of its own, whose jobs and
sweep interleave with every request:

| Theorem | States | Further hypotheses |
|---|---|---|
| `QueuedRowsSurvive` | `Spec => []QueuedRowSurvives` | |
| `ChargesAreHandedOver` | `Spec => []HandedOver` | Redis does not fail |
| `OneScrapeAtATime` | `Spec => SingleFlight` | |
| `MessagesAgree` | `Spec => []SettledMessage` | |
| `LoneJobsAreNotSwept` | `Spec => LoneJobNotSwept` | no process dies, `JobTimeout <= StuckAfter` |

*The argument.* A step of a request is taken while no other stands between two awaits
(`Alone`), so what it read before is still so, and only the worker and the sweep
interleave. `RowsOK` says that the rows are there for whoever will need them: a row
is deleted by the request that inserted it, before its loop lets anybody else see it.
That is `QueuedRowSurvives` and spares every later proof the error path of a missing
row. `Placed` follows a charge from hand to hand for `HandedOver`. `FlightOK` says that
a live scrape whose row does not say so is disowned, and so is one that a request has
already read past; with `SpentOK`, that no two scrapes spend one charge, it is kept by
the steps that settle a row, and a charge is then made only where nothing undisowned
is under way. For `SettledMessage`, `OneHolder` shows that a number which never had
two live scrapes has one holder of an unspent charge, and `MessageOK` that what its
scraper loaded is what is still there (so that a column left out of the UPDATE has the
right value already) and that a message left by a sweep is the sign of an earlier
charge: the sweep's partial UPDATE that leaves a FAILED row without a message then
needs a second lookup, which `Clean` excludes. For `LoneJobNotSwept`, `YoungOK`: a row
in progress has a scraper, and is not older than a job that is alone with it.

The hypotheses are needed: TLC refutes `QueuedRowSurvives`, `HandedOver` and
`SingleFlight` with two processes (the last is the run `bad_double_charge`), `HandedOver`
with a Redis that fails, and `LoneJobNotSwept` with one crash of the API or of the
worker - a row left in progress by the dead is not touched by the next job, which is
swept with it. For `SettledMessage` and `LoneJobNotSwept` with two processes a search
through some millions of states found no counterexample, and nothing is claimed.

`WebhookDelivery_proofs` proves all its safety properties (`Types`,
`NoneForgottenHolds`, `AttemptsCountedHolds`, `AnswerRecordedHolds`,
`EveryoneHasARowHolds`, `FinishedStaysHolds`) for any endpoints, events, slots, attempts,
tries and crashes (`WebhookAssumption`, where `"none"` is no endpoint's name). In `Inv`,
`JobsOK` makes a job known by its delivery and number and gives every run a job of its
own; `TriggerOK` says that `trigger` meets every endpoint once, so that a delivery it is
about to enqueue is `Unsent`; `RowsOK` ties a success to a 2xx. What holds only while no
worker died is one conjunct, `crashes = 0 => Alone`: a delivery has one open job, which
knows how often it was attempted. `Alone` is what `FinishedStays` and `AttemptsCounted`
rest on, and fails after a crash, when arq runs a job again whose successor is already
queued. `AllKept` says of a delivery that is neither finished nor lost in a named way
that a job of it is still to try it (`WillTry`), or its trigger about to enqueue one
(`Kept`).

`StripeBilling_proofs` proves, for any plans, subscriptions, processes, events and
faults (`BillingAssumption`), `BillingTypeCorrect` (`Spec => []TypeOK`) and
`RefillsNeverStack` (`Spec => []NothingStacks`). `BillingInv` adds to both where a
plan comes from: the row's and each handler's plan is one that Stripe told of
(`Told`), a handler's event exists, events carry the subscription they are about
(`EventsOK`), and a handler that read a row finds one at its commit, which makes the
row that a column-wise UPDATE leaves a whole one. A refill then leaves an allotment
of a told plan or less than before, and a purchase moves both sides of the bound.

On top of `BillingInv` stand the other four. `OnePlanRefillsOnce`: as long as every
subscription event names one plan, at most one handler is about to refill and only
while none has (`RefillOK`), because a refill follows a change of the row's plan.
`PurchasesAreCounted`: the purchases that were answered True or are in work with an effect
(`Taken`; a handler at `refuse` is not one) bound what was added from both sides
(`BoughtOK`), each late answer and each crash being worth
one more. `AllotmentIsThePlans`: while no two handlers ever overlapped and no refill is
cut off, the one that is busy has read what is there, and an allotment that is not the
row's plan's is about to be set (`AllotOK`). `FirstInvoiceIsCovered`: a subscription event
that got to its answer (not to its refusal) found or wrote the row, so that with one
subscription an invoice skipped before is owed only until the row's first refill, which
only `cut` can keep away (`CoverOK`).

`GoCometLookups_proofs` proves, for any lookups, rotations, records and crashes
(`GoCometAssumption`), `Types`, `OneLiveRecordHolds`, `SavedRecordKeptHolds` and
`ProtocolKept` (the refinement of `TrackingProvider`). `Inv` ties a thread to history:
what it holds was handed in or announced, unless it is about to be (`HoldsTold`); while
it creates, nothing it announced lives, and while it polls, only what it polls
(`OneAlive`); a record about to be announced is nobody else's (`Unclaimed`), and the
row's was announced (`RowTold`). `OneAlive` is what a rotation needs: it may go back to
`create` only from a record that is gone. `Unclaimed` makes each announcement one of the
abstract `Announce`. The row's change needs one thing more, that a record which is gone stays gone.

`ProviderChain_proofs` proves `TrackersFitHolds` (`Spec => []TrackersFit`), for any
lookups, threads, permits and retries, given at least as many trackers as threads
(`ChainAssumption`). A thread works with the tracker it keeps (`OwnTracker`) and no two
keep the same, nor one that raised (`Kept`); that a thread without one finds a free one
is a count: the others keep at most `Cardinality(Threads) - 1`. `Shape` is as much of
the type as this needs.

`OnlyAwaitedWorkStartsHolds` (`Spec => OnlyAwaitedWorkStarts`) needs `QueueInv`: the
executor's queue and the semaphore's line hold each lookup once, where its `pc` says that
it is and while it has no outcome yet (`InQueue`, `InLine`), and what a thread has taken
is not in the queue any more (`Begun`), so that its outcome ends no other wait. `Drops`
and the lemmas `DropsTail` and `DropsWithout` say what `Tail` and `Without` leave of a
sequence. `Without` is written with `SubSeq`: what `SelectSeq` keeps is out of the
provers' reach, and one element at the most is ever to be withdrawn.

`BulkTracking_proofs` proves `Types`, `AnswersMatchHolds`, `TrackersAccountedForHolds`
and `LostOnlyToTwinHolds`, for any batch, lookups, workers and pool
(`BulkAssumption`). A worker's result is of the item it holds (`ActorOK`); a tracker has
one actor and one thread, and an actor has its thread's tracker only while it waits for
that thread (`ThreadOK`, `Distinct`); every tracker that leaves an actor goes to the
queue or is replaced by a build (`PoolOK`, on the cardinalities of `idle` and `Held`); a
thread that will insert found no row (`LostOK`). `TypeOK` takes part in the induction.

`Accounts_proofs` proves `TypesHold`, `ResetEndsSessionsHolds`,
`OneCredentialPerLineHolds` and `OwnerStaysHolds`, for any users, sessions and finitely
many requests (`AccountsAssumption`). `ResetOK` counts: an active session was issued
after all resets of its user but those that stand between the beginning of their UPDATE
and their commit and pass it over (`Missing`); locking drops only rows that are revoked, so
it leaves `Missing` alone for active ones (`Resetting`). `LineOK` and `KeyOK` keep one active credential of a line
and none of a line that was ended, unless it was named `forked` or `respawned`;
`RequestOK` is what a request in flight refers to, among others that a removal is that of
a member and, if of an owner, in the sight of another (`Granted`): if the last owner goes
nevertheless, one of the two roles it went by is no longer so (`Misjudges`). `OwnerStays`
is an action property of one step and follows from it.

Every safety invariant and action property of the passing runs is thus a theorem, with
the hypotheses above, and `EveryoneHasARow`, which has no run, too. Model-checked only are the liveness properties (`PendingSettles`,
`PaidLookupHappens`, `DeliverySettles`, `EventsSettle`, `LookupsEnd`,
`GoCometAlwaysAnswers`, `RomuAnswered`, `BatchEnds`): fairness is out of the prover's
reach. No module here declares a RECURSIVE operator, and no theorem is about data that
would need induction.

## 5. Not modelled, and why

Of billing, the calls to Stripe (checkout, portal, invoices) appear only by the events
they cause, and `seed_default_plans` not at all: plans do not change at run time. Of
the container rows, the event timeline and the summary that `apply_provider_result`
merges; of GoComet, the resolution of a carrier, headers and parsing, and `close_all` at
the end of the process. SeaRates and the browser adapters are not registered in the
chain, so nothing calls them on a lookup, and `tracking_service.get_or_track` has no
caller. The deprecated routes of `app/routers/tracking.py` need no actions of their own:
`POST /v1/track` is a sequence of `track` requests, `GET /v1/track/{number}` is a `get`
of a known number and a `track` of an unknown one, with no `await` between the two
reads. Of organisations, names, slugs and listings. Parsers, browser
automation, e-mail, logging, error formatting and migrations hold no state of their own, or none that outlives a call. Payload
contents, the signatures of outgoing webhooks and back-off times change no property
stated here; whether an incoming Stripe event verifies does, and is a choice of
`Receive`. The
database is taken to be what it is: each statement atomic, READ COMMITTED, a commit
durable.

## 6. Plan

1. Done: `PaidLookups`, `ContainerTracking`, `WebhookDelivery`, `StripeBilling`,
   `TrackingProvider`, `GoCometLookups`, `ProviderChain`, `BulkTracking`, `Accounts`, and
   a theorem for every safety property that their runs check.
2. Proofs: `SettledMessage` and `LoneJobNotSwept` for several API processes, or a
   counterexample; a theorem on permits in `ProviderChain` (free, held and warming ones
   add up to `MaxConcurrent`).
3. `EventTimeline`: `apply_provider_result` as operators checked against a reference
   (no event twice, the summary is that of the latest actual event).
