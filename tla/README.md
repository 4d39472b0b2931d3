# KirimKode Partner Platform: specifications and proofs

TLA+ models of the partner platform (Next.js over Prisma and PostgreSQL), checked with TLC
and proved with TLAPS: a safety property that a run checks on a small instance is a theorem
for all instances (the two violations, the scan of an SMS text and the health alarm apart). Partners host phone numbers on
devices; the main KirimKode shop ("Main") reserves a number for a buyer through the Internal
API, the partner's agent forwards the SMS the number receives, the first OTP settles the order
and earns the partner a share, which is later paid out.

Paths below are relative to `src/` of the repository unless they start with `prisma/`.

## 1. The system

All state is in PostgreSQL. Handlers run concurrently in any number of Node processes, as
READ COMMITTED transactions of several statements: between two statements of one transaction
everything else can commit. Nothing is kept in memory across requests. What protects a handler
is a compare-and-set in its `updateMany`, a row lock, a unique index or a CHECK.

| Component | State | Operations | Interacts with |
|---|---|---|---|
| Order lifecycle (`application/orders`, `domain/order-state-machine`, `domain/order-listening-window`) | `partner_orders` (status, version, expiry, OTP, `completedAt`) and the number it holds | cancel, compensate, fail, timeout, complete, sweep | reads number and device rows; the SMS side writes the same order; two jobs call it under constant idempotency keys |
| SMS ingestion (`application/sms`, `domain/sms-matching-otp`) | `partner_sms`, order's OTP, earning | receive, match, first OTP, repeated OTP | called by agents; creates the earning and its ledger event in the order's transaction |
| Reservation and idempotency engine (`application/orders/reservation-service`, `application/internal-api/idempotency-engine`) | orders, numbers, `idempotency_records` | reserve, replay | called by Main, which repeats what it hears no answer to |
| Fleet (`application/{heartbeat,devices,numbers}`, `cron-jobs/offline-sweep-job`) | `partner_devices`, `partner_numbers` | heartbeat, sweep, register, disable, re-enable, move, delete, availability | orders take and release the same number rows |
| Earnings and ledger (`application/ledger`, `domain/task-5-6`) | `partner_earnings`, append-only ledger keyed by event | accrue, release, reverse | accrued by the SMS side, locked by payouts |
| Payouts (`application/payouts`) | `payouts`, `payout_allocations` | request, approve, process, pay, reject, fail | move the earnings and post to the ledger |
| Cron (`application/cron`, `infrastructure/database/job-lease-repository`) | `job_leases`: owner, expiry, cursor | acquire, batches by page, renew, release, health signal | an external scheduler posts; seven jobs run inside |
| API gate (`application/{internal-api,agent-api}`) | credentials, nonces, the principal of an idempotency record | authenticate, register nonce, issue, rotate, revoke | in front of Main's and the agents' requests |
| People (`application/{auth,members}`) | members, one-time tokens, sessions | register, verify, invite, change, revoke, log in, reset | in front of the portal |
| Rate limits (`infrastructure/database/prisma-rate-limit-store`) | a counter per key | check, consume, penalize, clear, prune | logins and both APIs; pruned by retention |
| Administration (`application/admin`) | partner status, admin sessions, audit events | approve, suspend, disable, reveal an SMS, recover an order | changes what the others read |
| Offers, catalog, configuration (`application/offers`) | `partner_offers`, `platform_configs`, `catalog_dimensions` | create, price, activate, withdraw, publish, declare, toggle, quote | read by the reservation |
| Reconciliation (`domain/task-16-4`, `domain/task-5-7`) | issues | compare one snapshot per partner | reads orders, numbers and money |
| Retention (`domain/task-5-7/retention`) | none of its own | redact, delete | walks under a job lease |
| Portal queries, observability, crypto, simulator, scripts | none of their own | | |

What is hard in it, and what makes each part correct:

* **Orders and numbers.** A command decides on rows read earlier. The buyer may cancel while
  the OTP arrives, while a job times the order out, while the device goes offline. Correct: a
  number is busy exactly for the one order that holds it, the partner earns exactly once per
  success, an ended order never changes again, and every order ends.
* **Windows.** Timeout is due at `expiresAt <= now`, the SMS window includes its end, the
  completion sweep starts strictly after it; jobs observe the instant of their listing. A job's
  idempotency key is constant per order, so an answer stored too early is replayed for ever.
  Correct: such a key is used only on an order the job is done with.
* **Number reuse.** A number goes to the next buyer within the same minute. Correct: an SMS
  received for the previous buyer never reaches the next one.
* **Retries.** Main repeats a request while the first copy runs. Correct: one order per key and
  reference, one definitive answer per key, record and effect together or not at all.
* **Fleet.** Five writers race on a number's status. Correct: nobody touches a number under an
  order, a phone number is active once, a disabled device stays disabled, a silent one goes
  offline.
* **Money.** Reads happen outside the transactions; the ledger's append under a used key is a
  silent no-op; a review does not look at how many earnings it moved. Correct: ledger and
  projection agree after every commit, no earning is paid twice or stranded.
* **Jobs.** Two runs of one job overlap whenever a run outlives its lease, and a statement of
  either may arrive late. Correct: the cursor moves only under the owner's name and from where
  the last batch left it, so that no row due is passed over for ever.
* **Requests.** The network repeats and delays a signed request, and a credential is rotated
  between a request and its retry. Correct: a request is let in once and has its effect once;
  after a revocation nothing enters with the old credential.
* **Prices.** Versions are published, dimensions toggled and offers changed while Main holds a
  quote. Correct: a version pins the price; one offer of a partner is active per dimension.
* **People.** A password is reset during a login, two clicks meet on one link, an owner revokes
  a member who is just verifying. Correct: no session of the old password outlives the reset, a
  token counts once, a disabled member stays out, nothing is shown without its audit event.

`PROJECT.json` lists every component with its status and every hazard with its line.

## 2. The modules

| Module | What it is |
|---|---|
| `NumberLease` | abstract: a number is leased to one order at a time, paid once, returned |
| `OrderLifecycle` | the orders, numbers, SMS and the two expiry jobs, as transactions of several steps |
| `AdminDisable` | `OrderLifecycle` with the one writer that does not compare |
| `OrderLifecycleProofs` | theorems about `OrderLifecycle`, its refinement of `NumberLease` and `ReconcileOrders` included |
| `PayoutBook` | abstract: each earning's money is in one place; payouts claim, pay or give back |
| `EarningPayout` | earnings, ledger, payouts and reviews |
| `EarningPayoutProofs` | theorems about `EarningPayout`, its refinement of `PayoutBook` and `ReconcileMoney` included |
| `Fleet`, `FleetProofs` | devices, heartbeats, sweep and the commands on numbers |
| `Reservation` | the reserve operation under retries, with row locks and unique indexes |
| `ReservationProofs` | theorems about `Reservation` |
| `JobLease`, `JobLeaseProofs` | one job's lease row, overlapping runs, passes and cursor, health signal |
| `ApiGate`, `ApiGateProofs` | signed requests, nonces, handlers and the credentials of devices and of Main |
| `Pricing` | the price of an offer as operators: configuration, overrides, guardrail, roundings |
| `Otp` | the scan of an SMS text for a service's code, over classes of characters |
| `CronHealth` | the health probe of all jobs, over deployments and their first probes |
| `Offers`, `OffersProofs` | offers, configuration versions, dimensions, quotes and reservations at a quote |
| `Sessions` | logins, session expiry and password resets of one account |
| `Accounts` | members of partners, invitations and one-time tokens |
| `Lifecycle` | a partner's status under several administrators, with its audit trail |
| `RateLimit` | one counter: windows, cooldown, concurrent merges, pruning |
| `AdminAccess` | `Sessions` of an administrator, reauthentication, disclosure, recovery, redaction |
| `Reconcile` | the reconciler's detectors as operators of a snapshot |
| `ReconcileOrders` | the detectors over the states of `OrderLifecycle` |
| `ReconcileMoney` | the detectors over the states of `EarningPayout` |
| `PeopleProofs` | theorems about `Sessions`, `Accounts`, `Lifecycle`, `RateLimit` and `AdminAccess` |
| `MCAccounts`, `MCPlatform` | modules without shared state side by side, one moving per behaviour |
| other `MC...` | symmetry sets and constants for TLC |

**How a transaction is modelled.** `tx[p]` is the transaction worker `p` runs: its step, its
command and what it has read. A handler is one action per group of statements other
transactions can come between: *read* (a snapshot of a row enters `tx`), *decide* (the domain
function on the snapshot), *commit* (the conditional updates, the history and the idempotency
record, all at once: from the first UPDATE on the rows are locked). A lost compare-and-set is
an action of its own (`...Contention`) that rolls back, and `Crash` abandons a transaction at
any step. Operators that model a compare-and-set (`OrderMatches`, `NumberMatches`, `AsRead`,
`Reviewable`, ...) stand on their own.

**`OrderLifecycle`.** `orders` are the rows of `partner_orders` (`since` is the reservation,
`expiresAt` is `since + OrderTimeout`; `done` is `completedAt`; `ver` the version column);
`numbers` status and `currentOrderId`; `fresh[n]` says the number's device is live; `jobKey` is
the idempotency record of each job on each order. `Reserve` is one step because the
transaction holds the number's row from selection to commit (its inside is `Reservation`).
`SubmitCommand`, `ReadNumber`, `ApplyCommand`, `AnswerCommand`, `CommandContention` are
`order-transition-service.ts`; `JobPicks` and `ReadOrder` are the jobs, whose command observes
the instant of the listing, earlier than the rows it reads, so that a device heard of in between has
a negative age and its number may be released to offline. `TimeoutCommands` tells Main's own
timeout (`POST /orders/{id}/timeout`) from the job's: Main names the instant it observed, any of
`Instants`, and has a key of its own, so its answer poisons nobody's. `SmsReceived` ... `SmsContention` are
`sms-ingestion-service.ts`. The fleet appears as steps on idle numbers.

**`Fleet`.** The same number rows from the side of their owners: `RegisterNumber` and
`RegisterOnDevice` insert them; `ReadNumber`, `CommitNumber` are the portal's and agents' commands
(and the release of an order), each with its rule: `DisableNumber`, `ReEnableNumber`,
`MoveNumberToDevice`, `DeleteNumber`, `SetAvailability`, `ReleaseNumber`; then `HeartbeatRead`,
`HeartbeatWrite`, `HeartbeatCommit` and `SweepLock`, `SweepCommit` with the row lock a device
update keeps until the end of its transaction. CHECK constraints of
`prisma/migrations` are guards (`UpdateAllowed`, `SlotFree`).

**`EarningPayout`.** `earning`, `payouts` are the projection; `share` and `posted` the ledger:
every transfer moves whole earnings, so the ledger is kept as the share each bucket has of each
earning's amount. A transfer with a used key posts nothing, as `ledger-repository.ts` does.

**`Reservation`.** `find`, `lock`, `present`, `select`, `create`, `insert` are the statements
of the reserve transaction inside `runIdempotent`; before them `RefuseEarly` answers an unknown
catalog entry or an expired quote (on record, being definitive) or fails for want of a
configuration (not on record); `replay` is the second transaction after a
lost race on the key. An unfinished transaction's order row makes others with that reference
wait (`RefPending`); a violated unique index aborts the transaction (`aborted`).

**`Otp`.** `body` is a text of up to `MaxLength` symbols: ASCII digits, digits of other scripts,
dashes, blanks, other marks, brand words, a decoy label. `Matches` is `matchAll` (from the left, on from
the end of each match), `Intact` its borders, `Parse` the answer of `parseServiceOtp`. `Numbers` is
what a reader sees, against which the property compares.

**`JobLease`.** `lease` is the row of `job_leases` (owner, ticks until expiry, cursor), `run[r]` a
run of `cron-batch-runner.ts` with the clock it sampled `lag` ticks ago, `due` the rows each pass
has to act on, `since` and `seen` what the scheduler and the health signal measure. `Acquire` and
`SkippedLocked` are the takeover's compare-and-set, `List`, `WorkRow`, `WorkPage`, `BatchEnds` one
batch, `Renew`, `LeaseLost`, `Release` its ends; a run may throw or crash at any of them. A
statement sampled before another's commit takes effect after it, which is what the lag is for.

**`CronHealth`.** `lease` are the rows of all jobs, `declared` the cadence table of the deployment,
`started` the moment its process built the service (at its first probe), `probe` a probe under way:
`ProbeStarts` samples the clock, `ReadsRows` and `ReadsOldest` are its two queries, `Answers` the
verdict. Dispatches and deployments come between any two of them.

**`ApiGate`.** `sent[n]` is the request a client signed under nonce `n`, delivered any number of
times; `gate[g]` a delivery in `authenticator` order: credential and status (`Arrive`), skew
(`ValidateReplay`), nonce (`RegisterNonce`), the handler with its idempotency record (`Handle`).
A principal is Main or the device, not the credential: a retry under a rotated one finds the
record. `CreateDevice`, `CommandBegins`, `RevokeCredential`, `RotateCredential` are
`device-management-service.ts`. The nonce registry is never pruned, as in the code.

**`Pricing`, `Offers`.** `configOf` are the published versions, `catalog` the dimensions (an
undeclared catalog serves the configuration's own), `offer` the rows with `activeDimensionKey` as
`key`. A portal command reads and decides in one step and writes the whole row it read in
another; `SlotIsFree` is the unique index. `shown` says whether the command's answer can be
priced, which the code does inside the transaction. `priced` is the history of prices told.

**`Sessions`, `Accounts`, `Lifecycle`, `RateLimit`, `AdminAccess`.** Each command is its read and
its transaction, apart: a login creates its session after it read the account; a token is read,
then spent by a compare-and-set; an administrator's status change compares the status it read and
writes its audit event with it; a rate-limited request decides on a counter it adds to later, in
an upsert that merges windows; a disclosure records its event before it shows. `AdminAccess`
instantiates `Sessions` on the administrators' tables; the confirmation of a password is in the
memory of the process, and `Restart` loses it.

**`Reconcile...`.** The job reads one partner in a REPEATABLE READ snapshot, which is a committed
state: the findings are operators of a state of the other models, applied to the sets the
gateway loads (`ActiveOrder` and `HeldNumbers`, `ProjectionBalances` and `LedgerBalances`).

## 3. The runs

| Run | Instance | Shows |
|---|---|---|
| `order_races` | 1 order, 2 SMS, 2 API workers, 1 job worker, clock to 2 | `HeldByItsOrder`, `PaidOncePerSuccess`, `SettledForGood`: any two requests, a job and two OTPs interleaved at every statement |
| `number_reuse` | 2 orders on 1 number, 1 SMS, 1 API and 1 job worker, clock to 3 | `DeliveredToHolder`, `UsedKeyIsFinal`, the inductive invariant `IInv`, `NoOrderAlarm` (the reconciler finds nothing, in any state), and `LeaseSpec`: the whole is a run of `NumberLease` |
| `holds_end` | 1 order, clock to 3, fairness | `HoldsEnd`: every waiting or listening order is closed |
| `job_sweeps` | 2 runs, 2 passes over 3 rows, pages of 1, lease of 2 ticks, statements up to 1 tick late, fairness | `HealthyWhileDispatched`: the health signal does not cry wolf; `CursorContinues`: a batch goes on where the last one stopped; `DueIsDone`: every due row is acted on |
| `accounts` | 2 of each: logins, people, tokens, admins, callers, desks; clocks of 1 to 5 | `ResetEndsSessions`, `TokenSpentOnce`, `DisabledStaysOut`, `TrailIsConnected`, `NoEventLost`, `BlockHolds`, `TrailIsTrue`, and the types |
| `fleet_races` | 2 devices, 1 number, 2 workers, 1 sweep, 2 orders | `DisabledStaysDisabled`, `BusyIsUntouched` |
| `silent_swept` | 1 device, 2 rows of one phone number, clock to 2, fairness | `OneActiveNumber`, `SilentIsSwept` |
| `payout_races` | 2 earnings, 2 payouts, 2 API workers and 1 job worker, fairness | `LedgerAgrees`, `ClaimedByOnePayout`, `SettledIsFinal`, `HoldIsReleased`, `NoMoneyAlarm` (the reconciler finds nothing), `BookSpec`: the whole is a run of `PayoutBook` |
| `reserve_retries` | 2 keys, 2 references, 2 numbers, 2 workers, batch of 1 | `RecordIsEffect`, `OneAnswerPerKey`, `SoldToOne` |
| `platform` | 2 deliveries of 2 nonces, 3 credentials, 2 commands; 2 offers, 2 portal commands, 2 publications; SMS texts; 2 jobs | `AcceptedOnce`, `EffectOnce`, `RevocationIsComplete`, `OneActiveOffer`, `PriceIsPinned`; `CodeIsTheNumber`: a text yields its one code or none, never a piece of another number; `AlarmIsTrue`: the probe blames only jobs that were silent for their threshold |
| `admin_disables_held` | 1 order, 1 admin | violation of `HeldIsNotDisabled`, see findings |
| `withdraw_offer` | as `platform` | violation of `WithdrawalIsPossible`, see findings |

**Bounds.** `MaxTime` stops the clock; `Reserve` needs `now + OrderTimeout < MaxTime`, so every
order's window opens, ends and is passed (the timeout is due at its end, the sweep one tick
later) before the clock stops. `OrderTimeout` and `CancelMinimum` are 1: what matters is the
order of the instants and their equality, and each comparison is met before, at and after its
boundary. `MaxOrders` (2) lets a number be sold again, so that a release of the first order
can meet the second. `LockLimit` is 1 for the code's 64: a limit below the stock is what
matters. `ver` needs no bound (an order is updated at most a few times per SMS and command).
Two workers are what a lost update needs; the theorems hold for any number of
workers, orders, numbers and instants. Symmetry is used over sets whose members are never
compared, and in no run with a liveness property.

`JobSweeps.cfg`: a page of one row and two batches per run make a pass end, and a run stop, in
the middle of the table; the lease (2) is longer than the cadence (1), so that a dispatch meets a
live lease, an expired one and its own. `Accounts.cfg`: the clocks reach every expiry; two of
each actor is what a lost update needs; what an owner gives is limited to the role and the
statuses that matter. `MCAccounts` and `MCPlatform` put modules that share no state in one
run: `focus` says which of them moves in a behaviour, so that their states add up and do not
multiply. Within `MCPlatform` a focus also says which commands overlap, because all at once is
too large: overlapping deliveries of one request (no command), retries of one key one after the
other (with rotations between), overlapping commands on three credentials (no request, two
credentials active), prices around one offer (one command at a time), two commands on two
offers (under one configuration). Texts have up to 7 symbols, two of them neither digit nor dash,
and codes of 3 digits, or 2 that may be split: enough for a code beside another number, labelled, cut by a dash or
bordered by a foreign digit. The probe sees two jobs, a clock to 3 and one deployment. The proofs
have no such limits.

**Deadlock** is checked in the runs of `Fleet`, `Reservation` and `JobLease`. The other runs stop:
orders, messages, earnings, payouts, tokens, nonces and versions are used up and the clocks stand
still.

**Fairness.** External scheduler and jobs only. `OrderLifecycle`: the clock runs (weak), each
job worker keeps taking what is due (weak), and a job's read and commit are strongly fair: its
transaction may crash or lose a race, not every time it is tried, as the scheduler posts every
minute for ever. `Fleet`: the same for the sweep, and a heartbeat's transaction ends, as Prisma
bounds its time (else it would keep the device's lock from `SKIP LOCKED` for ever).
`EarningPayout`: each due earning is listed, since the job walks them in id order. `JobLease`: all
weak: the clock runs, the scheduler dispatches within its cadence and no run hangs. It does not
say that runs succeed: `DueIsDone` asks for it in its premise (from some point on no run crashes,
throws or loses its lease), and is about what failed runs leave behind. Buyers,
agents, partners and admins have no fairness: every liveness property holds if nobody ever
calls.

**Mutants.** For each property of a passing run, `PROJECT.json` names a plausible bug, a
definition in the modules marked "Mutant:", that makes TLC find the property violated: a dropped
compare-and-set, a listing at the wrong side of a boundary, an unreleased allocation, a shared
event key, contention put on record as a stockout.

## 4. What is proved

The eight proof modules establish, for all values of the constants (the named assumptions:
times are naturals, numbers are ordered, `None` is not an id, the two kinds of workers are
disjoint, configurations are valid, and `HealthAssumption` below), theorems of the full
specification with no bound on workers, orders, numbers, messages, keys, earnings, payouts, runs,
rows, credentials, nonces, offers, devices, sessions, members, tokens or desks. Every inductive
invariant was first checked with TLC on the instances of section 3.

**Orders** (`OrderLifecycleProofs`): `Invariance` (`IInv`), `TypeCorrect`, `HoldsAreExclusive`
(`HeldByItsOrder`), `PaidExactlyOnce`, `KeysNeverPoisoned` (`UsedKeyIsFinal`), `Settled`
(`SettledForGood`), `NeverMisdelivered` (`DeliveredToHolder`) and `ImplementsLease`
(`LeaseSpec`).

None of the properties is inductive by itself: a commit with a stale snapshot would break it.
`IInv` adds what a transaction may rely on (`TxSound`): a snapshot of the order row has the
version it had, so an equal version means an equal row (`Seen`); what a snapshot shows to be
final still is; a job's listing stays true of its order (`JobListed`); a rejection or no-change
decided for a job is about an order with nothing left to do (`Decided`, `NothingLeft`); an SMS
in flight knows the holder at its receipt, and every other live order of its number is younger
than the message (`SmsInFlight`). The proof has one lemma for the types of each action, lemmas
that a transaction stays sound while another one moves an order row forward (`TxKept`), and
one step lemma per action; `Inductive` combines them. The refinement maps each step to a grant,
a payment, a return or a stutter.

**Money** (`EarningPayoutProofs`): `Invariance`, `LedgerAgreement`, `ClaimsAreExclusive`,
`SettledForGood` (`SettledIsFinal`) and `ImplementsBook` (`BookSpec`). `IInv` adds what the event
keys in use tell of each earning and payout (`KeysTell`), which is why the silent no-op never
loses a posting, that a payout id drawn by a request in flight is nobody else's (`FreshIds`),
and what a command relies on of the status it read (`TxSound`).

**Reservation** (`ReservationProofs`): `Invariance`, `TypeCorrect`, `EffectRecorded`
(`RecordIsEffect`), `AnsweredOnce` (`OneAnswerPerKey`) and `NeverSoldTwice` (`SoldToOne`). A
commit that met a number sold meanwhile, a reference used meanwhile or another record of its key
would break them. `IInv` adds that two transactions lock different rows and create orders of
different references (`Apart`), that locked rows are unsold, an uncommitted order's reference
unused and only an aborted transaction has met a used one (`TxSound`), and that only definitive
answers are on record (`RecordOK`). `TxOnly` covers the steps that write nothing, `Told` the
answers without an effect, and `CommitInv` the commit.

**Job lease** (`JobLeaseProofs`): `TypeCorrect`, `HolderCurrent`, `CursorContinuous`
(`CursorContinues`), `LiveNotTaken` and `HealthyJob` (`HealthyWhileDispatched`). `HolderIsCurrent` says that the run the row names stands
where the row's cursor is, whatever late statements are under way; it is inductive by itself. A
live lease is never taken from its owner, whenever the other run sampled its clock.

`HealthyJob` needs more: a dispatch that finds a live lease leaves no trace in the row, so the row's
age is bounded only by an argument over all dispatches under way. `HealthInv` says that a lease
ages with its row (`LeaseAge`), that the dispatch before any one under way touched the row, was
skipped for a lease that did, or is under way too and at most one cadence older (`BeforeIsKnown`),
and the same of the last dispatch (`LastIsKnown`); the oldest dispatch under way then bounds the
age. It holds under `HealthAssumption`, that lease, cadence and the latest statement fit into the
staleness bound: the code has a lease of 55 s (`cron-batch-runner.ts:97`), cadences from 60 s and
the multiplier 3 (`cron-liveness.ts:100`), which leaves a statement more than a minute.

**API gate** (`ApiGateProofs`): `GateInvariance`, `RequestAcceptedOnce` (`AcceptedOnce`),
`EffectHappensOnce` (`EffectOnce`) and `RevocationCompletes` (`RevocationIsComplete`). The
invariant counts: a nonce is on record exactly when its request was let in, a record exactly when
its effect happened, and a command under way knows of the credentials issued so far.

**Offers** (`OffersProofs`): `OffersInvariance`, `OneOfferActive` (`OneActiveOffer`),
`PricePinned` (`PriceIsPinned`) and `RetailLeast` (`RetailIsLeast`: the retail price is the least multiple of the
rounding unit that covers base price, fee and exact markup, for every valid configuration). The
invariant keeps `activeDimensionKey` true of its row, also in rows still to be written, and ties
each price told to the version and the overrides that gave it, neither of which ever changes.

**Fleet** (`FleetProofs`): `Invariance`, `NumbersAreUnique` (`OneActiveNumber`),
`DisabledDevicesStay` (`DisabledStaysDisabled`) and `BusyNumbersStay` (`BusyIsUntouched`). Two of
these depend on what a transaction read before others committed: `IInv` adds that the devices a
heartbeat or a sweep holds locked at its commit are not disabled (`LocksEnabled`), that a command on
a number writes only what its rule allows from a status that is not busy, and that only a release
takes a number from busy (`CommandSound`); by `BusyHasOrder` a busy row has served
an order, and the orders' foreign key refuses its deletion.

**People** (`PeopleProofs`), one inductive invariant per part, as the parts share no state
(`PeopleSpecIsParts` carries the types over to `PeopleSpec`, `PeopleTyped`):

* sessions: `ResetEnds` (`ResetEndsSessions`). A version belongs to one password, in the account, in
  the sessions and in the logins still under way (`Stamped`), so a session with the version of now
  has the password of now;
* members and tokens: `TokensSpentOnce` (`TokenSpentOnce`), `DisabledMembersStay`
  (`DisabledStaysOut`). Members and tokens that a request found it finds again (`Finds`,
  `TokensHaveOwners`), and what was redeemed is used (`Redeemed`);
* a partner's status: `TrailConnects` (`TrailIsConnected`), inductive with the moves under review;
* rate limits: `EventsAreCounted` (`NoEventLost`), `BlocksHold` (`BlockHolds`). The merge adds
  one to the row whatever the request read, a row that starts anew starts with the request's own
  count, which is at least one, and a merge keeps the later of two blocks;
* administrators: `TrailTrue` (`TrailIsTrue`), the two halves of a true trail. Nothing is shown
  without an event: an event exists for every disclosure made and, apart, for every desk that
  recorded one and has yet to show it (`EventsSuffice`, over the cardinality of those desks). No
  event tells a recovery that was not: a success a desk is about to record is what the order
  became, which is terminal (`DeskSound`).

**Reconciler**: `OrdersRaiseNoAlarm` (`NoOrderAlarm`, in `OrderLifecycleProofs`) from the invariant
of the orders, `MoneyRaisesNoAlarm` (`NoMoneyAlarm`, in `EarningPayoutProofs`) from the money's. The sums of a balance stay opaque: the two totals of a bucket are sums of one function.

**Only model-checked**: the liveness properties (`HoldsEnd`, `SilentIsSwept`, `HoldIsReleased`,
`DueIsDone`; TLAPS has no ENABLED or fairness), `CodeIsTheNumber` (the scan is a recursive
function over the text, what it returns for every text is an induction out of the prover's
reach), `AlarmIsTrue`, and the two violations of section 5.

## 5. Findings

* **A held number can be disabled** (`admin_disables_held`). The Main admin's `disableNumber`
  reads the status and updates by id alone (`admin-resource-gateway.ts:238`), unlike every
  other writer; a reservation that commits in between leaves a disabled number under a waiting
  order. From then on every command on that order is a rejection, and the timeout job stores its
  own under its constant key: the order never ends.
* **Supply that cannot be withdrawn** (`withdraw_offer`). `deactivateOffer` answers with a price it
  calculates inside its transaction (`offer-management-service.ts:385`), and the calculation
  throws when the base price is outside the guardrail in force. A new version that narrows the
  guardrail makes the owner's deactivation roll back; the offer stays active, and the inventory
  query and the reservation that select it throw as well (`inventory-query-service.ts:126`,
  `reservation-service.ts:250`).

Met while modelling, stated where a name is given, and not runs of their own:

* Orders and SMS. `ListeningSmsRefreshes` (`order-listening-window.ts:18`) does not hold: of two SMS
  ingested at once, the loser of the race for the first OTP is stored as unmatched although the
  order is then listening.
* Reservation. `StockoutIsReal`: the unlocked check that tells contention from a stockout runs only
  if nothing could be locked (`reservation-service.ts:237`), so a batch with only ineligible numbers
  answers OUT_OF_STOCK, definitively, while an eligible number is locked by a peer or beyond the
  limit. `DuplicateRefIsConflict`: the unique violation is caught inside a transaction PostgreSQL
  has aborted (`reservation-gateway.ts:295`), so the deterministic conflict becomes a retryable
  answer, for ever. The issue repository catches its violation in the same way
  (`reconciliation-issue-repository.ts:87`).
* Fleet. `SweptWithNumbers`: a number that becomes available between the sweep's listing and its
  commit stays available on the offline device (`offline-sweep-job.ts:84`); reservation refuses it.
  Overlapping heartbeats can set `lastSeenAt` back (`heartbeat-gateway.ts:129`).
* Retention deletes expired counters by key (`retention-gateway.ts:188`): a row armed again between
  listing and deletion goes too. `BlockHolds` and `NoEventLost` say what holds nevertheless.
* People. Two mails requested at once leave two live tokens, where
  `one-time-token-repository.ts:39` speaks of the freshest link. Two owners who revoke each other
  at once leave none (`member-management-service.ts:149`).
* Credentials. Two rotations at once leave two active credentials
  (`device-management-service.ts:298`). Nothing deletes from `replay_nonces`, and nothing in the
  repository writes `service_credentials`.
* Offers. A price change writes back the status it read (`offer-management-service.ts:227`): an
  offer that was deactivated, or disabled by an administrator, in between is active again. The
  first declaration of a dimension switches the configuration's own off, and may change the price at
  the same version, which is why `PriceIsPinned` is about declared dimensions.
* Rate limits. A live row merges into its old window: `windowStart` stays while `expiresAt` moves on
  (`prisma-rate-limit-store.ts:117`). Under traffic that never pauses for the row's life, the window
  that the limit is checked against ends and none begins, so a limit without a cooldown is no longer
  enforced. `NoEventLost` counts the events of the row's window, and says nothing of this.
* Main's timeout. `POST /orders/{id}/timeout` (`route.ts:64`) takes the instant observed from the
  body, so Main may end an order before its window ends. The other commands compare with a clock of
  the platform.
* Nonces. `replay-nonce-gateway.ts:16` speaks of expired nonces that are pruned; no code prunes them.
  `retention-gateway.ts:188` calls a counter armed again in between safe; see Retention above.
* OTP. The scan goes on from the end of a match even if the match is not intact: of
  `123-456789 111111` it takes `123-456`, misses `456789` and answers `111111`, where two codes
  would be ambiguous. `Otp` does the same; the property asks only that an answer is a number of the text.
* Health. The grace of a job that never ran starts at the oldest lease row of any job
  (`cron-liveness-service.ts:119`): a job newly declared on a platform that has run for long is
  `never_run` from its first probe. With no row at all it starts at the first probe of each
  process, as the service is built lazily (`get-partner-health-service.ts:33`; the comment at
  `cron-liveness-service.ts:76` says process start), and anew with each deployment.
  `cron-last-seen-gateway.ts:32` speaks of one statement; the rows and the oldest are two queries.
* Issues. `reconciliation_issues` has no unique index: two runs at once record a finding twice.
  Nothing resolves an issue.

Checked and found in order: a heartbeat cannot bring a disabled device back, because
`partner_devices_disabled_check` refuses its update; `deleteNumber`, which compares nothing, is
refused by the orders' foreign key.

## 6. What is not modelled

* Text of messages is data to `OrderLifecycle`, and classes of characters to `Otp`; permissions and
  validation of formats only refuse. Amounts are whole earnings in the ledger. Prices are exact: the
  code refuses products past 2^53 (INVALID_CONFIG), which the model leaves out.
* Payout destination: rows are inserted and never changed; a request only asks whether one exists.
* The reservation-recovery job looks for orders in `created` or `reserved`, which one transaction
  passes through and never commits: it has no work in a reachable state.
* Reconciliation: recording an issue, the silent-device detector (`Fleet` is where devices fall
  silent), and the detectors of amounts that whole earnings cannot violate (entries that do not sum
  to zero, an earning unlike its order's snapshot, a payout unlike its allocations).
* Retention: the deletion of heartbeat samples and security events, which nothing modelled reads,
  and the blanking of an old order's OTP, which is the one later change of a settled order
  (`SettledForGood` is about commands and messages). No code deletes idempotency records.
* Two payout requests that lock the same earnings in opposite orders deadlock in PostgreSQL; one is
  aborted, which is a `Crash`. The sum of a payout is a 32-bit column; the sum in the code is not.
* Devices: capabilities and names. Administration: the resource lists, which are reads.
* Portal queries, observability (but for the health signal), cryptography, simulator and scripts
  have no state of their own; the policies under `domain/partner-economics` and
  `domain/account-security` that nothing calls yet have no behaviour.

`PROJECT.json` gives the reason per component and, for each hazard no property covers, why.

## 7. Plan

Done: all modules of section 2, the runs of section 3, and a theorem for every safety property a
passing run checks but `CodeIsTheNumber` and `AlarmIsTrue`.

Left:

1. Safety lemmas towards the liveness properties: that a due order, a silent device and a due earning
   stay due until the job acts (the leads-to steps themselves stay with TLC).
2. That `OneOfferActive` and `PricePinned` meet `Reservation`: the order stores the quoted price.
3. The recording of issues: find, then insert, by two runs of the reconciler.
4. `AlarmIsTrue` as a theorem.
5. The codes of `Otp` as what `OrderLifecycle` stores: one run over both.
