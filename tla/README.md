# Zentropy Scout: a TLA+ verification project

Zentropy Scout finds job postings for a user's personas, scores them, and writes
resumes and cover letters with LLM calls that the user pays for from a prepaid
balance. The back end is one FastAPI process per server (`src/backend/app`) over
PostgreSQL, with three background workers in the same event loop; the front end
is a Next.js application. This directory holds TLA+ models of the parts of the
back end where concurrency, failure and money meet, the TLC runs that check them
and the TLAPS proofs about them.

All paths below are relative to `src/backend/app/` unless they start with `src/`.

## 1. Inventory

| Component | State it keeps | Operations | Interacts with | What is hard | What makes it correct |
|---|---|---|---|---|---|
| **LLM metering** `services/billing/metering_service.py`, `providers/metered_provider.py`, `api/deps.py`, `core/database.py` | `users.balance_usd`, `users.held_balance_usd`, `usage_reservations`, `credit_transactions`, `llm_usage_records`, and the open transaction of the request | balance gate, reserve, provider call, release, persist metadata, settle, commit or rollback of the request | the sweep (same rows), administrators (prices), Stripe (balance), PostgreSQL locks | one transaction spans the provider call; swallowed errors; an aborted transaction that "commits" as a rollback | held balance = held estimates; balance = ledger; one debit per settled reservation; a resolved reservation stays resolved |
| **Reservation sweep** `services/billing/reservation_sweep.py` | the same rows; a batch in memory | select stale (SKIP LOCKED), settle again, settle at the estimate, release as stale, commit; drift checks | metering, a second process's sweep | races with late settlements, deadlocks of two sweeps, vanished prices, crash of a pass | as above; every committed hold is resolved; no call is forgiven without a failure |
| **Stripe billing** `services/billing/stripe_service.py`, `services/billing/stripe_webhook_service.py`, `repositories/stripe_repository.py`, `repositories/credit_repository.py`, `api/v1/webhooks.py`, `api/v1/credits.py` | `stripe_purchases`, `users.stripe_customer_id`, `credit_transactions.stripe_event_id`, balance | checkout, completed, expired, refunded | Stripe (sessions, events delivered at least once, in any order), metering (the users row) | duplicate and concurrent deliveries, handlers that never raise, refunds computed from a stale read | credited once, exactly when completed; refunds exact; status only moves forward; what is paid is credited |
| **Administration** `services/admin/*`, `api/v1/admin.py` | model registry, pricing, routing, administrators, packs, system configuration | create, update, delete, toggle | metering looks up route, model and price up to three times in a call; a toggle ends the sessions of sign-in | checks against rows of other tables that nobody locks; two administrators at once; midnight; two lookups of one route | a route leads to a registered model; an active model keeps a price; an administrator remains; what is held can be charged |
| **Sign-in** `core/auth.py`, `core/account_linking.py`, `api/v1/auth*.py` | users, linked accounts, verification tokens, `token_invalidated_before`, the session cookie | register, verify a link, OAuth callback, sign in by password, change password, end all sessions, sign out, signup grant; an administrator's toggle | billing (grant), administration (toggle) | single-use links under concurrency; a fault between the commit of the user and the grant; times cut to whole seconds | no sign-in with a link that was spent before; a new user is granted; no session issued after the cut is refused; an account stays with its user |
| **Job discovery** `services/discovery/*` | `job_postings` (shared pool), `persona_jobs`, `polling_configurations`, the watermark and the first-run flag in memory | due selection, poll, deduplicate, surface, quarantine and release | source adapters, scoring, two workers and user requests | watermark by time against commit order, limits, races on UNIQUE constraints, waits for open transactions | an eligible posting is surfaced; a poll links everything it saw; a submission is held until its time is over or a scouter has met it; who is overdue is polled |
| **Job ingest** `services/ingest_token_store.py`, `api/v1/job_postings.py` | in-memory preview tokens with expiry | direct submission, preview, confirm | metering, job pool | token consumed before the insert; the posting appears in between | a submission is held back; it is linked once |
| **Applications and materials** `api/v1/{job_variants,base_resumes,cover_letters,applications}.py` | variants, base resumes, letters, applications | create, edit, approve, archive, restore, generate, apply | generation, rendering | check-then-act across requests, no row locks, partial UPDATEs of the ORM | approved text is frozen; one variant in use; an application keeps what it was sent with |
| **Onboarding** `services/onboarding/*` | persona and its children, `onboarding_complete` | finalise (FOR UPDATE NOWAIT) | metering | concurrent finalisation | at most one finalisation |
| **Scoring**, **generation**, **rendering** | none shared | pure computations, prompts, files | | | unit tests |
| **Embeddings** | bounded LRU cache per process | get, put, invalidate | providers | staleness by version | an entry is as fresh as its key says |
| **LLM, embedding and source adapters** | HTTP clients | one call each | vendors | retries inside SDKs | |
| **Chat agent** | graph checkpoints | one turn | LLM, API | | |
| **API layer, repositories, schema** | | validation, queries, migrations | all | | |
| **Frontend** `src/frontend/src` | React state, one SSE connection | pages, reconnect | API | timers of the SSE client | |

The hazards of these components, each at its source line, are the `hazards` of
`PROJECT.json`, with the properties that would catch them. Those without a
property say why.

## 2. Modules

| Module | What it is |
|---|---|
| `Amounts` | sums of amounts over rows, defined by cardinality so that TLC evaluates them and TLAPS can reason about them without induction |
| `CreditLedger` | the abstract specification of billing: committed reservations, balances and held amounts, and the one rule of a committed transaction |
| `Metering` | the metering pipeline and the sweep over two-version rows; implements `CreditLedger` |
| `CreditPurchases` | the abstract specification of purchases: what the buyer of credits is promised, without deliveries, handlers, retries or crashes |
| `StripeBilling` | checkout, webhooks and refunds around an external Stripe; implements `CreditPurchases` |
| `SignIn` | users, links, accounts, sessions and the signup grant |
| `JobPool` | the shared postings and links, what the deduplication looks for in the rows it can see, and the quarantine |
| `PollScheduler` | extends `JobPool`: passes of the scheduler and the polls, one open transaction per persona |
| `PoolSurfacing` | extends `PollScheduler`: the surfacing worker with its watermark, and submissions by hand |
| `JobDiscovery` | composes the three with the clock and restarts of the process; the properties |
| `Administration` | models, prices, routes and administrators, and the metered calls that look them up |
| `Materials` | variants, base resumes, letters and applications as several tabs change them |
| `MCMetering`, `MCStripeBilling`, `MCSignIn`, `MCJobDiscovery`, `MCAdministration`, `MCMaterials` | small instances for TLC |
| `AmountsProofs` | lemmas on sums: their type, one row more, one row less, and that only the summed rows matter |
| `MeteringProofs` | theorems about `Metering`: types, books, single debits, resolved rows, and that with one sweep only a failure forgives a call |
| `MeteringLedgerProofs` | held amounts equal held reservations; `Metering` implements `CreditLedger` |
| `StripeBillingProofs` | types, single credits, exact refunds, status forward; `StripeBilling` implements `CreditPurchases` |
| `SignInProofs` | the five safety properties of `SignIn` and its types |
| `JobDiscoveryProofs` | the five safety properties of `JobDiscovery`, its types among them |
| `MaterialsProofs` | types, approval dates, and what only a named race can break: frozen text, one variant in use, kept and restored variants |
| `AdministrationProofs` | the five properties of `Administration` |

### Metering: how the state and actions correspond to the code

*Two versions of a row.* A request has one database session from its first query
to the commit in `get_db`, the provider call included. What it writes is not
visible to anybody else until then. So each users row and each reservation row
has a **tip** (`acct`, `rsv`), the version its writer sees, and a **committed**
version (`dbAcct`, `dbRsv`), the one everybody else sees and the one a crash
leaves behind. `lock` and `rowLock` say whose transaction has the row.
`Publish` is COMMIT, `Undo` is ROLLBACK. The properties are about the committed
version.

*Requests.* `Gate` is `require_sufficient_balance`: it reads the committed row
without a lock; most LLM endpoints depend on it, `create_variant_for_job` calls it
for its AI path (`api/v1/job_variants.py:376`). `Reserve` inserts the row and adds the
hold; from here the users row stays locked until the request ends, so a second
metered request of the user waits at its own `Reserve`. `ProviderAnswers` and
`ProviderFails` are the adapter; on failure `release()` runs, or meets an error
and swallows it (`ReleaseFails`). `Persist`/`PersistFails` and
`Settle`/`SettleFails` are the two steps after an answer. A handler makes up to
`MaxCalls` calls and then returns (`Commit`) or ends with an exception, a
cancellation or a crash (`Abort`). `poisoned` holds the requests whose
transaction PostgreSQL has aborted because `persist_response_metadata()` met a
server error outside of a savepoint: their next savepoint fails, that failure is
swallowed by `settle()`, and their COMMIT is a ROLLBACK.

*Sweep.* `SweepSelect` is the SELECT with SKIP LOCKED and a limit; `SweepNext`
takes the next row and decides whether it may be settled again. `RetrySettle`,
`RetryAtEstimate` and `ReleaseStale` are the tiers 1 to 3, each in a savepoint.
`RetryUnpriced`, `TierFails` and `DeadlockVictim` are the ways a tier ends
without effect and falls through. `SweepCommit` ends the pass. `SweepCrash` is
the end of the session without a commit, which also stands for an error outside
of the savepoints (such as `db.refresh`): `run_once` rolls back and the loop goes
on.

*One step.* Inside a savepoint only the session itself sees the effects, and
PostgreSQL undoes them together, so a savepoint block is one action. The
reservation's `actual`, `debits` and the account's `ledger` are written where the
code inserts the debit row: `ledger` is `SUM(credit_transactions)` and `debits`
counts the debit rows of a reservation.

*Data.* An amount is a natural number of the smallest unit, a response is a token
count or `Unpriced` (the model name in the answer has no pricing row of its own),
and a price is units per token. Rounding is outside of the model.

*Around it.* `Age` lets a committed hold pass the TTL. `TopUp` is another
transaction that moves the balance (a purchase, a grant or a refund) and waits
for the users row. `SetPrice` is the administrator; a price may vanish because a
model can be deactivated. `embed()` follows the steps of `complete()`. `stream()`
of the metered provider is used by no endpoint.

### CreditLedger: the abstract specification

A reservation is created once, leaves "held" at most once, and only a settled one
carries a charge. `Transact` is a committed transaction that may move any number
of reservations: the balance of each user falls by exactly the charges that
became settled in it, and the held amount of each user is exactly the sum of the
estimates still held. `Adjust` moves one balance. `Metering` maps its committed
rows onto it (`ImplementsLedger`).

### StripeBilling: how the state and actions correspond to the code

`checkout` is where a POST /credits/checkout request is: `ReadCustomer`,
`CreateCustomer` and `CreateSession` follow `get_or_create_customer` and
`create_checkout_session` with an await between each, `CommitCheckout` is the
insert of the pending purchase with the commit of `get_db`, and `FailCheckout`
is a failure that leaves a session at Stripe without a row. `session`, `refunded`,
`sent` and `acked` are Stripe's side: `Pay`, `Expire` and `Refund` emit events,
and an event is delivered until it is answered, possibly again afterwards, to any
handler, in any order.

A webhook handler is two steps. `Receive` reads everything the early returns
depend on, and either answers at once (`Skipped`) or keeps what it has read in
`hand`, for a refund the amount already refunded. `Apply` is the savepoint with
the commit: ledger row with its UNIQUE event identifier, balance, purchase row,
and the answer. They are one step because nobody sees the writes before the
commit, and the users row that each handler updates makes the handlers of one
user write one after the other. `Refused` is the duplicate that meets the UNIQUE
constraint, `Swallows` a database error that the never-raise contract turns into
200, and `Crash` the end of the process, before the commit or between the commit
and the answer.

Abstractions: metadata validation and null guards are left out; a purchase has a
payment intent exactly when its status is in `Paid`; the total of a charge never
exceeds the price, so the `min` cap is idle; Stripe never sends both completed
and expired for one session; the commit of the checkout and its response are one
step, so a buyer pays only for a session whose purchase is committed.

### CreditPurchases: the abstract specification

A purchase is opened, charged and completed, or it lapses; it is completed once,
and the balance grows by the grant in that very step. `PayBack` is Stripe
returning money, `TakeBack` the purchase recording a new total and the balance
falling by the difference, never beyond what was paid back. Only a contested
purchase, one whose refunds were handled two at once, may take back more than it
records (`TakeBackTwice`; the finding `stripe_over_refund`). `StripeBilling` maps
its `charged` to the sessions that were paid, `repaid` to what Stripe refunded and
`contested` to `overlapped` (`ImplementsPurchases`); what is delivered, read,
refused, swallowed or lost is a stutter there.

### SignIn: how the state and actions correspond to the code

*Requests in steps.* Each browser has one request at a time. `req[b]` is what the
handler has decided and `req[b].step` what it does next; a handler is cut exactly
where another browser may commit in between. `Register` and `Callback`
(`find_or_create_user_for_oauth`) look the user up, `Insert` is the flush that
meets the UNIQUE constraints, `Commit` the commit, `Grant` or `GrantFails` the
signup grant in the second transaction. `OpenLink`, `DeleteLinks` and
`CommitLink` are `verify_magic_link` with its read of the token,
`delete_all_for_identifier` and its commit. `EndSessions`, `TakeCut` and
`WriteCut` are change-password and invalidate-sessions, which take the time and
write it in two steps. `StartToggle` and `WriteToggle` are the administrator's
PATCH. `Answer` promotes an address of `ADMIN_EMAILS` and sets the cookie.
`Fail` is an error, a cancelled request or a crash: what was not committed is
lost, and a grant that was still due is not tried again (`missed`).

*Locks.* `InsertFree` is the wait for another transaction that has inserted the
same UNIQUE value, `DeleteFree` the wait of a DELETE for the one that deletes the
same rows, `RowFree` the wait for an updated users row.

*Time.* One second is `Second` units of the clock, so two events may fall into
one second. PyJWT keeps `iat` and `exp` as whole seconds, and
`token_invalidated_before` is cut by the code (`Truncated`), except in
`toggle_admin`, which writes the full time. `at` and `cutAt` keep the exact times
for the properties.

*Left out.* Whether a password, a token or a state cookie is good is the guard
that the request was a good one; a request that is refused changes nothing. The
hash of a token is the token; names and pictures are data. The branch of
`verify_magic_link` that creates a user is never taken: a link is stored only
for a user that exists (`NothingWithoutUser`), and users are not deleted.

### Job discovery: how the state and actions correspond to the code

*Ads and postings.* An ad is what a source or a user shows of a job. Its key is
source and external identifier, its text the hash of the description, and
`Similar` stands for the similarity of title and description. A posting is named
after the ad it was created from. `Step` and `Hits` are the four steps of
`deduplicate_and_save`.

*Polls.* A poll is one transaction with its session open from the first query to
the commit. `work[p].rows` are the rows it has written; `View` is what it sees,
the committed rows and its own (READ COMMITTED). `Lookup` and the write
(`WriteExisting`, `Insert`, `RecoverInsert`, `BrokenPoll`) are two steps, because
another transaction may commit in between: then the insert of step 4 falls back
on the row of the other inside its savepoint, and a refused write outside of a
savepoint leaves the session unusable. Step 1 writes the source's date of an ad as
text into a DATE column (`DateRefused`), which the driver refuses: `Dated` are the
ads whose source tells a date, and a poll that meets one by its key is a
`BrokenPoll`. `RowFree`, `TextFree` and `InsertFree` are
the waits for open transactions: a write waits for a row another poll has written,
and for its UNIQUE text and key. An UPDATE holds two texts until its end, the new
one and the one a rollback would bring back (`TextsKept`). `created_at` is the
start of the transaction, not its commit, and so may lie behind the watermark.

*Scheduler.* `SchedulerPass` is `run_once` with `_get_due_personas`: the first
pass also takes personas without a time, and only it looks back no further than
`Lookback`. A pass takes at most `MaxDue` personas, those that are due longest. A
persona without a source is skipped (`SkipPoll`), and like one whose poll is broken
or fails it keeps its time and so its place. Nothing in the program creates rows of `polling_configurations`, so
`Init` takes them from `FirstTimes`, with none at all as one of the cases.

*Surfacing.* `StartPass` is the release of expired quarantines and the query,
`FinishPass` the scoring, the links, the commit and the watermark. `EmptyPass` is
both early returns, for no posting and for no onboarded persona, which end the
session without a commit and so undo the release. The watermark is in memory
(`Restart` loses it). `unlucky` and `sighted` are history: the postings a pass had
one of the named reasons to leave out, and those whose quarantine the commit of a
poll has ended.

*Submissions.* `Submit` is the direct way, `Ingest` and `Confirm` the preview;
`FinishForm` inserts, or links the posting that has taken the text since, or
answers 409; its insert waits for open polls as theirs do (`NotAwaited`).

### Materials: how the state and actions correspond to the code

Every handler is a SELECT with checks in Python (`ReadFor...`) and an UPDATE with
the commit (`Update`, `Delete`, `Approve`, `Restore`, `WriteBase`,
`WriteLetter`), and another tab's request may come in between. Approval has a
third step, the SELECT of the base resume (`LoadBase`). The ORM puts only those
columns into the UPDATE whose value differs from the one it loaded: `Updated`
writes over the row of today only what differed from the row of then. `Clash` is
the partial unique index on resume and posting, which counts the rows with
`archived_at` NULL; an UPDATE it refuses is a 500. `Create` is the INSERT, with
the text of the base resume or of the LLM. `Apply` is `create_application`: it
reads only that the rows are there, and nothing deletes one, so its INSERT stands
for it.

`late` records per variant which handlers wrote over a change they had not read,
`before` the status in which it was archived. The properties of this module hold
except for the races they name, and no others: the exceptions are what the code
allows, and section 5 describes them.

### Administration: how the state and actions correspond to the code

A request of an administrator is two steps. `ReadFor...` is `require_admin` and
the SELECTs of the service with the checks on them, the other action of the same
name is the flush and the commit of the endpoint; what the checks have seen is in
`req[u].seen`. Nothing in between is locked, so another request, a call or
midnight (`Tick`) may come first. The ORM writes only a value that differs from
the one it loaded, and an UPDATE or DELETE of a row that somebody has deleted
matches nothing (`Lost`); what an equal `INSERT` makes later is another row. A
UNIQUE constraint refuses the second of two equal inserts with a 500. The one of
`task_routing_config` is on provider and task, so two providers may each have a
route for a task.

A metered call looks up the route in `complete()` (`Dispatch`), again in
`reserve()` with model and price (`Hold`) and model and price once more in
`settle()` (`Settle`). What happens to money and locks in between is `Metering`.

`crossed`, `unpriced`, `outvoted` and `call[c].touched` are history: the changes
that were committed between a check and the write or the lookup that relied on it.
The properties hold but for these, which name the races the code leaves open.

Abstractions: `update_pricing` changes an amount (`Metering!SetPrice`) and no date;
display names and model types are data; the tokens of a toggled user are `SignIn`.

## 3. Runs

| Run | Instance | What it shows |
|---|---|---|
| `metering` | 1 user, 2 requests with up to 2 calls, 1 sweeper with a batch of 1, a priced and an unpriced answer, 2 faults, 1 price change, 1 top-up | `TypeOK`, `LedgerMatchesBalance`, `DebitedIffSettled`, `ForgivenOnlyAfterFault`, `ResolvedForGood`, and `ImplementsLedger`, which contains `HeldMatchesReservations` |
| `metering_sweepers` | 2 users with a request each, both gated, 2 calls, 2 sweepers with batches of 2, price 0 so that the estimate is the floor, fairness | `HeldMatchesReservations` with two sweeps and their deadlocks; `HoldsResolve` |
| `metering_overdraft` | 2 requests with 1 call, no faults | a counterexample to what `api/deps.py` says of the pipeline (finding) |
| `metering_free_usage` | the same | a counterexample to what REQ-030 says of free usage (finding) |
| `stripe` | 1 purchase of 3 cents, 2 handlers, 1 swallowed error, 1 crash, 1 repeated delivery, fairness | `TypeOK`, `CreditedOnce`, `RefundsExact`, `StatusForward`, `ImplementsPurchases`, `PaidIsCredited`, `FullRefundIsDebited` |
| `stripe_over_refund` | 1 purchase of 2 cents, 2 handlers, no failures | a counterexample to the cap on refunds (finding) |
| `stripe_customers` | 2 purchases of one user | a counterexample to one customer per user (finding) |
| `sign_in` | 2 browsers, 2 addresses (one of an administrator), 2 accounts (one whose address changes, one whose provider does not vouch), 2 links, 3 requests, 1 fault, clock 0..3 with 2 units per second, fairness | `TypeOK`, `NothingWithoutUser`, `VerifiedByProof`, `LinkSignsInOnce`, `CallerStaysSignedIn`, `LinkedForGood`, `NewUserIsGranted` |
| `discovery` | 3 personas (one overdue, one without a row, one without a source and overdue or without a time), 3 ads of which 2 share a text, 2 resemble each other and one is dated, one submitted by hand; clock 0..1, quarantine 1, two personas and one posting per pass, 1 failure or restart, fairness | `TypeOK`, `NotPassedOver`, `HeldForItsTime`, `OneRowPerJob`, `PollLinksAll`, `OverdueIsPolled`, `IsSurfaced` |
| `discovery_quarantine` | 2 personas, one of which submits a job that its own source shows, too; no failures | a counterexample to the confirmation by a different user (finding) |
| `materials` | 2 tabs, 1 resume, 1 posting, 2 variants, 1 letter, 2 texts, 6 requests | `TypeOK`, `ApprovedIsDated`, `ApprovedIsFrozen`, `OneInUse`, `SentIsKept`, `RestoredAsBefore` |
| `administration` | 2 administrators, 2 providers (one without an API key), 3 models, 1 task and the default, the routes of one provider at first, 3 requests, 1 call, 1 midnight | `TypeOK`, `RoutesAreRegistered`, `StaysPriced`, `SomeAdmin`, `HeldIsCharged` |

The properties, in short:

- `HeldMatchesReservations`, `LedgerMatchesBalance`: the two drift checks of the
  sweep worker, as invariants of every committed state.
- `DebitedIffSettled`, `ResolvedForGood`: the AF-01 race. Whoever resolves a
  reservation, it is resolved once, with one debit if settled and none otherwise.
- `ForgivenOnlyAfterFault`: as long as no database error or crash of a sweep
  occurs, a call the provider answered in a request that commits is charged or
  still held for a charge. Losing a price is not enough to make it free. This is
  for one sweep worker: the victim of a deadlock of two sweeps loses its tier as
  if by an error, and two such losses can forgive a call.
- `HoldsResolve`: every committed hold is settled or given back.
- `CreditedOnce`: one credit per purchase, exactly when its purchase is completed.
- `RefundsExact`: without overlapping refund events the user is debited what the
  purchase records, and no more than Stripe has paid back.
- `StatusForward`, `PaidIsCredited`, `FullRefundIsDebited`: out-of-order,
  repeated and crashed deliveries.
- `ImplementsPurchases`: all that in one: whatever Stripe's deliveries do, the
  rows and balances change only as a purchase of `CreditPurchases` may.
- `NothingWithoutUser`, `VerifiedByProof`, `LinkedForGood`: whoever creates the
  user, in whatever order registration, links and callbacks commit.
- `LinkSignsInOnce`: a request that opens a link after a sign-in with it finds it
  gone. Two that opened it before either committed may both sign in.
- `CallerStaysSignedIn`: cutting times to seconds never refuses a session that
  is younger than its user's last end of all sessions.
- `NewUserIsGranted`: a new user is granted unless a fault hit that very request.
- `NotPassedOver`, `IsSurfaced`: the watermark passes over a posting only for a
  reason the property names.
- `HeldForItsTime`: the pool shows a submission to nobody before its time is over
  or some scouter has met it, which is what the code promises: a release that was
  undone and a sighting by a poll that was lost do not count. `QuarantineHolds` is
  what the documents promise: the scouter is somebody else's.
- `OverdueIsPolled`: an overdue persona with a source is polled unless as many
  others as a pass takes are overdue before it. It holds whatever becomes of those
  others: refused, skipped, or polled and due again. Its premise has to name the
  limit, because a persona that is skipped or refused keeps its place for ever.
- `OneRowPerJob`: no two postings have one text, or one source and external
  identifier, although every writer looks first and writes later.
- `PollLinksAll`: a poll that commits has linked its persona to a posting of each
  ad it saw: one with the ad's key, or with its text, which another sighting of
  that posting may since have reworded. The run's ads are never reworded; the
  theorem is for all.
- `ApprovedIsDated`, `ApprovedIsFrozen`, `OneInUse`, `SentIsKept`,
  `RestoredAsBefore`: what interleaved handlers keep of a variant.
- `RoutesAreRegistered`, `StaysPriced`: the checks MODEL_IN_USE and LAST_PRICING
  fail only when what they looked at changes before the commit.
- `SomeAdmin`: only two administrators who remove each other at once leave none.
- `HeldIsCharged`: the adapter, the hold and the charge of a call are of one model,
  which can be charged, unless a change was committed during the call.

### Why these bounds

Two requests of one user give every order of gate, lock, commit and rollback that
two sessions can have; the second call of a request meets the hold, the aborted
transaction and the swallowed failure of the first. Two faults let one failure
happen while another is being repaired (a settlement that fails and then a tier
that fails, or a crash of the pass that repairs). One price change makes the price
vanish or differ between reservation and settlement, one top-up interleaves a
foreign commit. Two sweepers with two rows of two users are the smallest instance
with a deadlock. In `stripe`, a price of 3 cents gives two partial refunds before
the full one, and two handlers every overlap of two deliveries. Requests of
`metering` are interchangeable and that run checks no liveness, so it uses
symmetry.

In `sign_in` two browsers give every overlap of two requests, and the third
request lets one follow an overlap (a link opened again, a session ended after a
sign-in). Two units per second are the least with two times in one second. In
`discovery`, one tick separates a posting from the watermark and lets a
quarantine of one unit expire; a limit of one posting makes a pass leave one out;
the three ads make each of the four steps of the deduplication happen, and each
UNIQUE conflict, and the second sighting of the dated one a refused poll; with two
personas per pass the overdue persona may share its pass with the one that has no
source and keeps its place. In `materials`, a race on an archived row needs six requests
(create, approve, apply or delete, restore against another handler), and two
variants make the index refuse one. One exception of `ApprovedIsFrozen`, a late
restore, needs eight requests; the proof for every number of requests found it.
In `administration`, two requests make each race of a check
with a write, and the third prepares it (a second price, an active model without
routes) or follows it; two days give a price of today and one of tomorrow; one call
sees every change between its three lookups. The request bounds stop the browsers,
tabs and administrators, so these configurations do not check deadlock.

### Fairness

`Metering!FairSpec` assumes weak fairness of the steps of each request, of each
sweeper, and of `Age`. The event loop runs every ready task; a provider call ends
because its client has a timeout; the sweep loop catches every exception and goes
on; time passes. Faults, crashes, price changes and top-ups are not fair: nothing
forces them. `StripeBilling!FairSpec` assumes that a handler that has read goes on
(weak) and that Stripe's deliveries of an unanswered event are not refused for
ever (strong, because handlers are taken by other events in between). Stripe
itself gives up after days; the model does not. `SignIn!FairSpec` assumes that
the server goes on with a request it has taken (weak, per browser).
`JobDiscovery!FairSpec` assumes that each of the two workers goes on: they loop
for as long as the process lives, and they catch the errors of a pass.

## 4. What is proved

The two proof modules of metering prove, for all users, requests, sweepers, numbers of calls,
prices, batch limits and faults that satisfy the three named assumptions on
constants of `Metering` (and `IdleAssumption`):

- `TypeCorrect`: `Spec => []TypeOK`
- `BalanceIsLedger`: `Spec => []LedgerMatchesBalance`
- `ChargedExactlyOnce`: `Spec => []DebitedIffSettled`
- `ResolvedNeverReopened`: `Spec => ResolvedForGood`
- `HoldsAreBacked`: `Spec => []HeldMatchesReservations` (`MeteringLedgerProofs`)
- `MeteringImplementsLedger`: `Spec => ImplementsLedger` (`MeteringLedgerProofs`)
- `OneSweepForgivesNothing`: `Spec => []ForgivenOnlyAfterFault`, assuming `OneSweep`

The finiteness of `Users` and `Requests` in `UsersAssumption` is what the sums
need. None of the properties is inductive. `DebitedIffSettled` speaks of committed rows,
but a commit copies tips, so the invariant needs it of the tips, and needs to know
that whoever is about to commit a row is the one who changed it. The inductive
invariant `IInv` has five parts: `DbInv` (types of both versions; an unlocked row
has one version; a row locked by a sweep is held and a row locked by a request is
its own and not yet committed; the books and the debit count of both versions),
`SweptRows` (what a sweep works on it has locked), `CallRows` (a call in progress
has its reservation, locked by its request), `FutureRows` (a reservation not yet
made has no row), and `TypeRest`. There is a lemma per action. `Publish`, `Undo`,
`Charge` and `GiveBack`, which several actions share, have a lemma each
(`PublishKeepsDbInv`, ...). `ResolvedNeverReopened` follows from `OnlyHoldersPublish`: the
committed version of a row changes only by the commit of its lock holder, and by
`LockedRows` such a row was held or absent.

`OneSweepForgivesNothing` adds `FInv`, which follows an answer from the call
through the metadata its request writes to the sweep that reads them. As long as
nothing failed, no transaction is aborted, an answer that is not yet in its row
belongs to the call its request is at (`OpenUsage`), a recorded one stays in a row
that is held or settled, in the committed version too once the request is done
(`Recorded`), and a sweep reaches the tier that forgives only for a row without
metadata (`LastTier`). `OneSweep` (there is at most one sweeper)
is a hypothesis of this theorem alone, because without it the property is false:
the victim of a deadlock of two sweeps falls through its tiers without a fault.
The back end starts one sweep worker per process.

`HoldsAreBacked` adds `HInv`. The committed equation between a hold and its
reservations survives a commit only if the tips satisfy it too (`HeldTip`), and
only if the users row and the reservation rows of one change are committed
together: `DirtyRows` says that a session that has changed a reservation holds
that row and the users row of its owner. It is where the proof would break if
`settle()` or the sweep wrote a reservation before it had locked the users row.
`HoldAdded` and `HoldRemoved` say what one reservation does to a sum; they rest
on the lemmas of `AmountsProofs`, which obtain sums from the cardinality of
unions and so need no induction.

`MeteringImplementsLedger` adds `LInv`: what a session has made of a row is what
one ledger transaction may make of it (`RowMoves`), only a settled row has a cost
(`Charges`), and the two versions of a balance differ by the costs of the
settlements that are not committed (`PendingCharges`). With `DirtyRows` again,
`PublishIsTransact` shows that a commit publishes exactly those charges;
`TopUpIsAdjust` and `InvisibleStep` cover the other steps. Before they were
proved, TLC checked `IInv`, `FInv`, `HInv` and `LInv` on the instance of `metering`
with one call for each request; the theorems make a run of its own for them idle.

### Stripe billing

For all users, purchases, cents and handlers, from `BuyersAssumption`,
`CentsAssumption` and `IdleAssumption`: `PurchasesTyped` (`TypeOK`), `PaidOnce`
(`CreditedOnce`), `RefundsAddUp` (`RefundsExact`) and `PurchasesGoForward`
(`StatusForward`). None but the types is inductive. The invariant adds `Sessions`
(a purchase row exists exactly when its checkout is done, Stripe takes money only
for such a one, and its events are of the one kind its end has), `Credited` (the
credit, the ledger row of the completed event and the status agree), `InHand`
(that an event passed the early returns outlives what other handlers do) and
`Exact` (without overlap a charge has one refund handler at a time, what it has
read is still so, and debited = recorded, no more than refunded).

`StripeImplementsPurchases` proves `Spec => ImplementsPurchases` from the same
invariant. The commit of a checkout is an `Open`, a payment a `Charge`, a refund at
Stripe a `PayBack` (`CommitCheckoutIsOpen`, `PayIsCharge`, `RefundIsPayBack`). A
delivery that only reads is invisible or, when it finds another refund of the charge
in hand, a `Contest` (`ReceiveRefines`). A commit of a handler is one step of one
purchase (`WritesRefines`), and `WritesBalance` obtains what it does to the balance:
here `InHand` and `Exact` are needed, because the handler writes a difference to an
amount it read earlier. Everything else is `InvisibleStep`.

### Sign-in

From `UsersAssumption`, `NoneIsNoUser` and `TimeAssumption`: `SignInTyped`,
`NothingIsOrphaned`, `VerifiedMeansProved`, `LinksAreSpent`, `CallersStay` and
`AccountsStay`. The invariant `Inv` follows each request: `ForUser` (the user a
step relies on is there, or the request is the one that makes it), `ForLink` (the
link it opened is still there until a request deletes it, and then it is among
what this one deletes or gone) and `ForCut` (the cut it will write is the truncation of a time it
took). `OneCommits` says that no two requests are about to commit one account: it
is what the waits of PostgreSQL give, and the reason why an account is never moved.
`CallersStay` needs that truncation is monotone for seconds of any length
(`LaterSecond`).

### Job discovery

From `AdsAssumption`, `NoneAssumption`, `TimeAssumption`, `FeedsAssumption`,
`LimitsAssumption`, `SurfacingAssumption` and `SubmissionsAssumption`: every number
of personas, ads, polls, passes, failures and submissions, any feeds, fits,
similarity and frequencies. They ask that each ad of a source has a key and a
submission has none, and that no interval is longer than a week, as the
intervals of the code are. `TypeCorrect`, `NothingIsForgotten` (`NotPassedOver`),
`QuarantineIsKept` (`HeldForItsTime`), `PollsDropNothing` (`PollLinksAll`) and
`JobsAreNotDuplicated` (`OneRowPerJob`).

The properties speak of committed rows, but a commit publishes what a poll has
prepared, so `IInv` follows the open polls: `Polls` (what the lookup found is a row
the poll still sees and the ad's, and each ad it is done with has a link to such a
row), `OpenRows` (a row it has written keeps the committed times, of creation and of
the end of the quarantine, one it has created has the time of its start),
`Exclusive` (no two polls have written one row), `Postings` and `Forms` (where texts
come from, what a user's form has found, and that a submission that is not held may
be shown), and `Passes` (a running pass has each posting in hand, left out for its
limit, or already accounted for; what it is about to release is over its time).
`QuarantineIsKept` rests on `MayShowStays`: what may be shown may be shown from then
on, because the clock does not go back and no commit changes the end of a quarantine. `CommitCovers` derives `PollsDropNothing` from `Polls`.

`OneRowPerJob` needs `UInv` beside it: the committed postings are pairwise apart
in text and key, so are the rows each poll sees, and so are the rows of two open
polls together with the texts a rollback would bring back. It is preserved because
each write waits for the writers of the same value; the first attempt at this proof
failed on an UPDATE of step 1, for which the model had no such wait although the
UNIQUE index has: `TextsKept` and `TextFree` are the correction. Before they were
proved, TLC checked `IInv` and `UInv` on the instance of `discovery`.

### Materials

From `NoneIsNoRow` and `MaxRequestsAssumption`, for every number of tabs, rows,
texts and requests. `MaterialsProofs` has `TypeCorrect` and `ApprovedDated`:
`Inv` says of what each request has read that an approval date it saw is still
there, and so a partial UPDATE of an old reading over a new row keeps it.
Its second part derives `ApprovedFrozen`, `OnlyOneInUse`, `SentKept` and
`RestoreReturns` from `RaceInv`: `SeenOK` (what the check after the SELECT has
shown of the reading), `RowOK` (for each set of late writers, what a row still
satisfies: text and snapshot, `archived_at` and status, the status a restore
would give it), `IndexHolds` (what the partial unique index says) and `SentOK`.
For each handler one lemma says that its partial UPDATE keeps `RowOK`, with the
handler added to the late ones when its reading differs from the row.

### Administration

From `NamesAssumption`, `FirstAssumption` and `BoundsAssumption`, for every number
of administrators, models, providers, tasks, calls and requests: `TypeCorrect`,
`RoutesRegistered`, `AdminRemains`, `HeldCharged` and `PriceKept`. A property such as
`RoutesAreRegistered` is not inductive, because a commit does not repeat the check:
`SeenOK` says what the check of each open request has seen, and speaks only of what
was read, so it outlives what others commit; the write then either finds it so or
is recorded as having crossed a change. `CallOK` says what a call has looked up, as
long as nothing was committed under it. `ReadKeeps`, `DoneKeeps` and
`ConfiguredKeeps` treat the parts the actions share.

### Only model-checked

Liveness under fairness, which the proof system does not reach: `HoldsResolve`,
`PaidIsCredited`, `FullRefundIsDebited`, `NewUserIsGranted`, `OverdueIsPolled` and
`IsSurfaced`. Every invariant and every action property of the passing runs is
stated by a theorem, and so are both refinements.

## 5. Findings

1. `metering_overdraft`: the pipeline does not keep the balance from going
   negative, contrary to the docstring of `require_sufficient_balance`.
2. `metering_free_usage`: usage is free when the request ends with an exception
   after the provider answered, although neither persist nor settle failed.
3. `stripe_over_refund`: overlapping refund events of one charge debit the user
   more than the purchase.
4. `stripe_customers`: concurrent first checkouts give one user two customers.
5. `discovery_quarantine`: any scouter's sighting ends the quarantine of a
   submission (`global_dedup_service.py:236`), the submitter's own included.
   REQ-015:405 and two docstrings (`global_dedup_service.py:233-234`,
   `content_security.py:239`) ask for a different user's.

### Observations without a run of their own

These are visible in the models, as the exceptions the properties name, but for
`also_found_on`.

- An edit, an approval or a restore over an unread change leaves an Approved
  variant whose text is not its snapshot, contrary to REQ-002:425.
- An approval that races an archiving leaves an Approved variant with
  `archived_at` set, beside which the index lets a second one be made; a deletion
  that read the Archived row before a restore leaves a Draft with `archived_at`.
- `create_application` asks neither whether the variant is approved nor whether
  it is for the posting. A letter can be edited after its approval (REQ-002b:272).
  `generate` writes over a text that was saved while the LLM answered.
- No code creates rows of `polling_configurations`; without one a persona is
  polled once per start. The keys of `calculate_next_poll_time` are not the
  values `polling_frequency` has, so every interval is the default day.
- A refund event that is delivered before the purchase is completed finds no payment
  intent, is answered with 200 and is never debited (`stripe_webhook_service.py:198`).
  `FullRefundIsDebited` begins with a completed purchase.
- Two racing requests to end all sessions may write the older time last.
- `toggle_admin` (`admin_management_service.py:840`) keeps the fraction of a second, so
  a session the user opens later in that second is refused; `auth.py:297-298` cuts it
  for that reason. `CallerStaysSignedIn` excepts such a user (`byAdmin`).
- A submission whose quarantine expires is not shown to anybody: the pass that
  releases it (`pool_surfacing_service.py:244`) asks only for postings newer than its
  watermark, and undoes the release when there are none; REQ-015:407 says the release
  keeps legitimate jobs from being lost. `IsSurfaced` counts it as `unlucky`.
- Every sighting but the first of an ad whose source tells when it was posted breaks the
  poll (`DateRefused`; `global_dedup_service.py:144`, the date is text from
  `adapters/sources/base.py:130` on). The poll loses everything else it had found,
  against REQ-016:429 ("Log error, skip job, continue with others"), and
  `next_poll_at` stays, so the next pass takes the persona again and the same ad
  breaks it again.
- Such a persona, and one without an enabled source, keeps its place at the head of
  the due query, which takes 100 (`poll_scheduler_worker.py:276`). A hundred of them
  starve all others, against "Overflow is caught on the next scheduler cycle" (:49)
  and REQ-034:609, "One persona's poll failure does not affect others".
- Two polls that note themselves in `also_found_on` of one posting may lose one of
  the two (`global_dedup_service.py:166`); the column is not in the model.
- `get_routing_for_task` (`admin_config_service.py:119`) asks for at most one route
  over all providers, and the migrations insert one for each provider
  (`021_admin_pricing.py:80-117`), although its docstring (:102-103) promises
  "whichever provider is configured". A metered call of a fresh installation raises
  before it reserves. In `Administration` that is the outcome `ambiguous`; its
  instance starts with the routes of one provider, which is what is left once an
  administrator has deleted the others.
- Without a route, `complete()` turns to the default provider (REQ-028 4.3), but
  `reserve()` then refuses the call as unrouted, so the fallback never answers.

## 6. Not modelled

- Scoring: floating-point formulas over text and embeddings, without shared state.
- Generation, rendering, adapters, the chat agent: prompts, formats, vendor calls.
- Administration of packs and system configuration: each request writes one row
  that no check of another request looks at. The listings and the routing test
  write nothing.
- Onboarding finalisation, and the modules of discovery and applications that only
  tests call (`discovery_workflow`, `expiration_detection`, `source_selection`,
  `user_review`, `job_deduplication`, `application_workflow`, `persona_sync`,
  `retention_cleanup`, `agent_handoff`, `agent_message`): no endpoint or worker
  reaches them.
- Status, timeline and bulk archiving of applications, status and bulk changes of
  `persona_jobs`, archiving and rendering of base resumes, change flags: writes of
  single rows that nothing else depends on.
- API layer, generic repositories, schema, front end: validation, queries, pages.

## 7. Plan

The modules planned at first are written, and the safety properties of the runs are
theorems. What is left, in order: an abstract specification of sessions, which
`SignIn` implements; one of the shared pool, which `JobDiscovery` implements; the
change flags of a persona against two tabs; the reconnecting client for
server-sent events.
