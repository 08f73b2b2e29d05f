# Vectix Nexus: a verification development in TLA+

Vectix Nexus is a platform that runs AI trading agents on Solana: an Express
backend over Postgres (Prisma), machines at Fly that run the agents,
subscriptions at Stripe, agent wallets on Solana, and a set of on-chain security
services. This directory holds TLA+ models of its stateful parts, the TLC runs
that check them, and TLAPS proofs of what matters most.

Paths below are relative to the repository. Line numbers of every definition
are in `PROJECT.json` under `map`.

## 1. Inventory

| Part | State | Operations | What is hard | What makes it correct |
|---|---|---|---|---|
| Withdrawals (`backend/routes/wallet.routes.ts`, `services/solana-balance.ts`, `lib/withdrawal-limits.ts`) | none of its own; local variables over some ten awaited calls | withdraw, set profile wallet | whitelist, balance and limits are read long before the transfer; the chain answers late or not at all | a transfer respects the lock and the limits; every request ends; what is logged happened |
| Withdrawal whitelist (`services/security/whitelist.service.ts`) | `agent.whitelistedWallet`, `whitelistLockedUntil` | set, check | lock read and row written in two statements | a wallet is used only after its lock |
| AML monitor (`services/security/aml-*.ts`) | `transactionHistory`, in memory | check and record, record, prune | concurrent requests of one user; pruning; restart | totals and velocity capped |
| Agent lifecycle (`routes/agents.routes.ts`, `routes/deploy.routes.ts`, `services/fly*.ts`, `routes/public-api.routes.ts`) | `agent` rows; machines at Fly | deploy, start, stop, restart, delete, status poll | two stores changed one after the other; polls and commands overlap; either call fails | status heals; no machine without its row; deleted rows stay deleted |
| Subscriptions (`routes/stripe.routes.ts`, `services/stripe.ts`, `lib/subscription.ts`) | `subscription` rows | five webhook events; status; admission | events reordered, repeated, unanswered | rows follow Stripe; only payers deploy, payers are not turned away |
| Supervisor rules (`services/supervisor/`) | rule versions in the database, a 30 s cache | evaluate, schedule a change | cache filled from an old read; changes that wait for their delay | no change early, none lost, none later than delay and cache |
| On-chain services (`onchain/services/`) | breakers in Redis or memory; hash chain, proposals and time locks in memory | check, trip, reset; log, verify; vote, execute; lock, cancel, execute | copies of a Redis record written back | a pause holds |
| State storage, rate limits (`backend/lib/*-storage.ts`, `middleware/`) | a window per key or address, in Redis or memory | get, increment, set | read, increment and write are calls of their own; records expire in between | nobody is refused early; without Redis the limit is exact |
| API keys (`services/api-keys/`, `middleware/api-auth.middleware.ts`) | key rows | create, revoke, validate | a key revoked or deleted while a request is under way; a database error ends the process | requests are counted in the key's window, revoked keys refused |
| Lockout (`services/security/account-lockout.service.ts`), withdrawal tokens | a record per account, in Redis or memory; tokens are stateless | fail, succeed, status, clean up | a record is read, computed on, and written over others | a lock holds until it ends or a success clears it |
| Marketplace, affiliates (`routes/marketplace.routes.ts`, `routes/stripe.routes.ts`, `services/affiliate/`) | purchase rows, counters, codes, referrers, payouts and their sums | buy (two paths), ask for and apply a code, earn | two statements, no transaction; users deleted in between | payers own, nobody else does; counters and sums never ahead of rows; a told code stays |
| Users (`lib/auth.ts`, `routes/webhooks.routes.ts`) | user rows with unique emails | first request, Clerk's created, updated and deleted events | both create the row; events late, lost or repeated | whoever has an account gets in |
| Shadow portfolios, preflight, token scores, sanctions, enclave, narrative | little or none | pure computation over external data | floating point, external services | not modelled, see 11 |
| `eliza/` | | | | vendored third-party code, not modelled |

How they interact: deployment asks the subscriptions once, at its start
(`requireActiveSubscription`). Withdrawals call the whitelist, the limit, the AML
monitor and the chain in that order. The dashboard polls the status of agents
every five seconds. Stripe calls the webhook for subscriptions and for strategy
purchases, Clerk the one for users; the deletion of a user row takes the rows of
agents, subscriptions, keys, purchases, codes and payouts with it. All handlers share
one Node process (or several, over one database and one Redis), and interleave at
every `await` that leaves the process.

| Module | What it is | Uses |
|---|---|---|
| `Withdrawal` | withdrawals, whitelist, AML monitor, Solana | |
| `Payout`, `WithdrawalPayout` | what withdrawals promise, and the mapping | `Withdrawal` |
| `AgentLifecycle` | agents and their machines | |
| `Billing`, `Platform` | subscriptions; deployments that ask for them | `AgentLifecycle` |
| `SupervisorRules` | versioned rules and their cache | |
| `RuleBook` | what the rules promise; the mapping is in `SupervisorRules` | |
| `StateStorage` | Redis or memory, and the clock | |
| `RateLimit`, `Lockout`, `CircuitBreaker` | three users of the storage | `StateStorage` |
| `Users` | user rows, Clerk, authentication | |
| `Marketplace`, `Affiliates` | purchases; the referral programme | `Users` |
| `MC*` | small instances for TLC | |
| `*Proofs` | theorems | |

## 2. Plan

Done, in this order: `Withdrawal` (route, whitelist, limit, AML and Solana in one module,
since the interesting behaviour lies between them); `AgentLifecycle`, `Billing` and
their composition `Platform`; `SupervisorRules`; `Payout`, the abstract specification of
withdrawals; the users of the state storage; user rows with the marketplace and the
referral programme; `RuleBook`, the abstract specification of the rules. Every safety
property of these has a proof.

Worth doing next: the deletion of users inside `Platform`, whose billing
rows go with the agents; the ring of the security audit log; the creation
of API keys and their tier; the arithmetic of the rule engine as operators
checked against a reference; the seeding of an empty marketplace.

Bounds are two actors per race (three where a third changes the picture), one or
two entities per kind, and clocks of two to four ticks.

## 3. Withdrawal

One step of `Withdrawal` runs from the answer of one awaited call to the next
call that leaves the process; Node runs that stretch without interruption.

| State | Code |
|---|---|
| `profile` | `user.walletAddress` |
| `whitelist` | `agent.whitelistedWallet`, `agent.whitelistLockedUntil` |
| `amlHistory` | `transactionHistory` of `aml-transaction.utils.ts`, a set of records per user |
| `audit` | the events passed to `logAuditEvent` |
| `req`, `change` | the local variables of each withdraw and whitelist request |
| `balance`, `tx`, `transfers` | Solana |
| `issued` | history: the whitelist changes that passed their lock check |

Actions: `ReadForChange`, `WriteChange` (the two statements of
`setWhitelistedWallet`); `Receive`, `CheckWhitelist`, `QuoteAndCheck`,
`PrepareTransfer`, `Send`, `Confirm` (the withdraw handler, with
`RouteThrows` and `TransferThrows` for its two catch blocks); `UpdateProfile`;
and the environment: `Deposit`, `Land`, `Expire`, `Tick`, `Restart`.

Abstractions: amounts are small integers, with the fee, the rent reserve and the
quote margin as constants; addresses are model values; address validation,
encryption and the missing-wallet answers, which keep no state, are folded into
the steps around them; structuring detection only adds a flag nobody acts on.
The AML limits of the code are an arbitrary set `Period` of spans and limits.

### What withdrawals promise

`Payout` has no handlers, no chain and no database: a wallet is issued for an agent;
a request is cleared for a wallet issued at least `LockDuration` ago, approved, sent and
paid once, to that wallet, or given up on the way. `WithdrawalPayout` maps `Withdrawal`
to it. The stage of a request (`StageOf`) is read off its handler until the
transaction is handed to Solana and off the chain from then on, because what happens
to the handler later (a throw, a restart) no longer changes what is paid; its payee
(`PayeeOf`) is the destination it was cleared for; payments (`PaymentOf`) are transfers
without their amounts. `ImplementsPayout` says that every behaviour of `Withdrawal`
is one of `Payout`. What a reader wants from that is `PaysOnce` and `PaysMatured` of
`Payout`: one payment per request, to a wallet issued a lock before. They are proved of
`Payout` alone and hold of `Withdrawal` because it implements it (`PayoutPromises`).

### Runs

* `withdrawal_lock`: one agent, two addresses, two withdrawals, two whitelist
  changes, a lock of one tick, two ticks, one restart. Two changes and two
  requests are what it takes for a change to run between the check and the
  transfer of another request while a third write is on its way. Checks the
  type invariant, `TransferRespectsLock`, its inductive strengthening `LockInv`,
  `CompleteMeansLanded`, and `PaidOnce`: no request makes two transfers, although one
  that sees its send or its confirmation throw cannot tell whether it was paid.
* `withdrawal_aml`: two agents of one user, so that two approvals share a
  history; amounts of which two exceed a period limit, or only the velocity limit;
  two periods of different span; a history of one record, so that pruning runs; one agent
  without a key. Checks `AmlPeriodCap`, `AmlVelocityCap`, `ApprovalRemembered`.
* `withdrawal_live`: one agent, two addresses, two withdrawals, one whitelist change, a lock
  of one tick, one restart. `EveryRequestEnds` under `Fairness`: awaited calls settle
  (the database and the RPC node answer or time out) and a transaction lands or its
  blockhash expires, after which `confirmTransaction` throws. And the refinement
  `ImplementsPayout`, for which one change is enough: there are two wallets to be paid,
  the profile's and the whitelisted one.
* `withdrawal_pertx`, `withdrawal_locked`: two sentences of the documents the code
  does not keep; see 10.

What the model also shows: a transfer whose confirmation times out throws
(`solana-balance.ts:91-96`) and is answered with an error (`wallet.routes.ts:86-91`), so it
leaves neither a complete nor an error event, although the transaction may still be
executed afterwards (`TransferThrows`, then `Land`). Nothing repairs this; a user
who asks again finds the balance gone.

## 4. AgentLifecycle

A deployment makes at most one machine and one row, so one identifier names all
three. `machine` is the state at Fly, `row` is `agent.status`, `defaultApp` tells
whether the machine lives in the app the lifecycle functions name. Deploying is
`CheckSubscription`, `CreateMachine`, `LookUpIp`, `InsertRow`; a command is
`Receive`, `CallFly`, `WriteRow`, after which its locals are forgotten (`Ended`); a status poll is `BeginPoll`, `PollAnswered`,
`PollWrites`, each of which may fail. `Restart` drops every request in progress.
A machine may stop by itself (`MachineExits`). `OwnerLeaves` is the deletion of the
owner's user row, at any time: the agent's row goes with it (`gone`) and nobody stops
the machine. MOCK_FLY_DEPLOY is not modelled.

* `agent_lifecycle`: one agent, three commands, one dashboard. Three commands allow
  a delete against two others. `StatusHeals` needs fairness: the dashboard keeps
  polling (`use-agents.ts` refreshes every five seconds), Fly and the database
  answer a poll now and then (strong fairness: they may also fail it any number
  of times in between), and a machine comes to rest. Commands need none.
* `DeletedStays`: no command or poll that read a row before it was deleted, or before its
  owner left, writes it back.
* What the model also shows, and no property hides: a deployment that fails after
  `CreateMachine` leaves a machine without a row, so does the deletion of the owner, and a delete of an agent
  deployed in another app leaves its machine running. `NoSilentOrphan` says that
  every machine outliving a row that a delete command removed had its delete answered
  with an error, or asked for in the wrong app.

## 5. Billing and Platform

`Billing` has Stripe (`stripe`, the status of each subscription, and `log`, the
events about it), the webhook and the table (`rows`, oldest first). `Deliver`
handles any event of the log at any time, again too: Stripe repeats an event
until it is answered. An event whose statement throws changes nothing and stays
to be delivered. `hasActiveSubscription` is the query of `checkSubscriptionStatus`.
Other statuses of Stripe (trialing, unpaid, incomplete) behave like canceled or
active in every query and are left out; strategy purchases are in `Marketplace`.

`Platform` composes both at the one call between them; no user is deleted in it. Its run `platform` has two
subscriptions of one user, three events each, one deployment: two is what it
takes for one subscription to hide another. `SyncedInOrder`, `PayingUserAdmitted`
and `OrderedDeploysPaid` are about events applied in order, which is what the
code relies on; `MachinesWerePaidFor` about every order. `PayingUserAdmitted` speaks
of a paid subscription without a newer one that is past due: such a row hides the older one
(`subscription.ts:14-36`), and its user is refused. A newer row that is canceled hides nothing.

## 6. SupervisorRules

`versions` is the table, `cache` the two module variables `rulesCache` and
`cacheExpiry` of each backend process, `call` the local variables of each request.
A request asks for the rules (`BeginCached`, or `Begin`, `Count`, `Seed`, `FindMany`,
`Answer`); an evaluation or a list ends there, a change goes on with `Store` and
`Stored`. `Seed` may date its rows at any time since the count, because the code
takes the time when the count is answered. Rows with equal `effectiveAt` come in no
particular order. The routes catch nothing and the backend has no handler for
rejected promises, so an error ends the process: `Dies`, which is `Restart` and also
what a change of a rule that does not exist leads to. All clocks are one.
A rule is its fields; checking a trade against it is arithmetic and left out.

`RuleBook` is what this comes to for whoever asks: one growing set of versions, which a
request is shown once, as a page of one moment less than the cache time ago, and to
which a change adds one version of what it was shown, in effect a delay later. It has
no processes, caches, statements or restarts, but keeps what the code does not hide:
the table may be seeded by more than one request. What a change was shown is kept, so
`RuleBook` says of every write which rules it rests on. The mapping at the end of the
module reads a request's question (`Asks`) and page off its local variables.
`ImplementsRuleBook` says that every behaviour of `SupervisorRules` is one of `RuleBook`.

* `supervisor_rules`: an empty table, one rule, two processes, a change, a change of
  an unknown rule and an evaluation, a delay of one tick, a cache of two, two
  ticks, one restart. Any request may be the first and two may both find the table
  empty and seed it. The reader that fills a cache, the change and the reader it is
  served to are three requests. `NeverEarly`: nothing is served before its delay is
  over. `FreshSnapshot`: all rules of an answer are from one moment, less than the
  cache time before the question. `ImplementsRuleBook`, of every step.
* `supervisor_changes`: a violation, see 10.

## 7. StateStorage, RateLimit, Lockout, CircuitBreaker

`StateStorage` is the clock and the choice between Redis and maps of the process
(`state-storage.ts`). Over Redis a step runs from one answer to the next call; in
memory the `await` of a map does not leave the process, so an operation is one step.
Requests that become ready in the same turn of the event loop are taken to run one
after the other; `ExactInMemory` rests on this, the properties about locks and trips
hold over Redis too.

* `RateLimit`: `window` is the record of each key and address, `keyRow` the row of
  each API key, `call` the local variables of each request. `BeginWindow`,
  `GetWindow`, `ReadToIncrement`, `ReadTtl`, `PutWindow`, `SetWindow` are
  the calls of `getRateLimit`, `incrementRateLimit` and `setRateLimit`; `StorageThrows`
  lets a request through, as the middleware does. `FindKey` and `TouchKey` are the two
  statements of `validateApiKey`; `Revoke` and `RemoveOwner` may come between them.
  A database error there rejects a middleware nobody awaits and ends the process
  (`Dies`), with the windows it kept in memory. `NeverRefusedEarly`: a 429 means that
  the limit's number of requests really were counted in that window. `ExactInMemory`:
  without Redis no window of a process admits more than its limit.
  Over Redis limits are not exact: increments overwrite each other and requests at
  once each start a window, so more are admitted than the limit says, and no property
  says otherwise.
* `Lockout`: `lockout` is the record of one account, `op` the local variables of each
  call. Accounts share nothing. `LockHolds`: a lock holds against failures, status checks
  and cleanups, those that run when it is stored and those that start later, until a
  success. One kind of call is excepted, by `SparesLock`: one that started earlier and has
  a shorter lock, or none, still to write, or is about to delete a record it found
  outdated (`account-lockout.service.ts:48`, `99`). Such a call does lose the lock; the
  property shows that nothing else does, not a failure under way that still has to read, nor
  one whose own lock lasts as long. The lock ends with the reset window of the
  first failure when that comes before the 15 minutes of `README.md:1738` of the
  repository are over (`HoldsUntil`), as it may because later attempts move the lock. No
  mounted route calls the service.
* `CircuitBreaker`: `breaker` is the record of one agent, `visit` the local variables of
  each call. `checkBreaker` writes back the copy it read, first as half-open, then as
  closed (`WriteHalfOpen`, `WriteClosed`), and `tripBreaker` reads again before it
  writes. `TripHolds`: a trip is not undone before its pause ends, by however many checks
  and trips, unless the breaker is reset or initialised. One kind of call is excepted, by
  `SparesTrip`: one that read the breaker earlier and has its copy, half-open or
  closed (`circuit-breaker.ts:39`, `48`) or open for less long (`77`), still to
  write. Such a call does undo the trip; the property shows that nothing else does. The
  callers are not mounted.

Each part of the two exceptions is needed: without any one of them TLC finds a lock or
a trip that is lost.

The windows of `rate-limiter.middleware.ts`, of `requirePollingInterval` and of
`onchain/middleware/rate-limit.ts` are the same for other keys and are mounted nowhere.

* `storage`: three calls at once, because the third is needed to overwrite what a
  second left while the first is under way. A key with a limit of two and an address with
  a limit of one, windows of two ticks, at most one death; a lockout after two failures
  with spans of two; a pause of two and a reset timeout of one; four ticks, in which every
  record can expire and start again. The three components share nothing but clock and
  storage, so a behaviour follows one of them (`focus`) while the others wait. Calls are symmetric.

## 8. Users, Marketplace, Affiliates

* `Users`: `clerk` are the accounts, `events` what Clerk has to send, `user` the email
  of each row. An event is one statement (`DeliverEvent`), in any order, repeated or
  given up (`DropEvent`); a request finds the row or inserts it (`FindUser`,
  `CreateUser`). Emails are unique, and an account without an address is stored as
  `''` by the webhook, which is an email like any other: the second such row is
  refused. The deletion of an author of a strategy fails and its error is swallowed
  (`Publish`, `Handles`). Rows of deleted users come back when an update or a request
  with a valid token is late; no document forbids it. `EveryUserGetsIn`: whoever has an
  account is let in in the end, unless tokens carry addresses and another row still
  holds this one.
* `Marketplace`: `purchase` and `delivery` are the local variables of purchase requests
  and of Stripe's deliveries, `session` the checkout session of a request. Free
  strategies are given by the request (`BuyFree`, `CountFree`), others by the webhook
  (`StorePaid`, `CountPaid`); each of the two statements may fail on its own. A user
  row that goes takes its purchases with it (`UsersStep`). `OwnedIsPaid`, `CountNeverAhead`,
  `PaidIsOwned`. `AnsweredIsCounted`: Stripe stops repeating an event only once the counter
  covers its purchase, since a statement that fails is answered 400. Not hidden: two open checkouts of a user may both be paid for one
  purchase, and an increment that fails is never made up for (the event that is repeated
  cannot store its row again), so the counter is a lower bound. Two first visitors may both seed the default strategies; seeding is not
  modelled.
* `Affiliates`: `code`, `referrer` and the payouts hang on user rows and go with them.
  `SettledCodeStays`: a code told while no other call was making one for the same user stays;
  two first calls at once may each tell a code, of which one is lost.
  `EarningsBacked`: the sum of earnings has payout rows behind it. `recordReferralEarning` is called
  by `POST /affiliate/record-earning` (`affiliate.routes.ts:65-73`), which is mounted and
  takes any referrer, and by the trade route, which is not mounted.

* `accounts`: two accounts and one address, so that two of them can clash on it or on
  `''`; two requests of one account; three changes at Clerk, as many as a sign-up, a change and
  a deletion; one strategy, two purchase requests and a delivery for the session of
  each, and two rows of a purchase at most; two codes, two calls for the code of one user
  and one of another, one application, one earning. A behaviour follows user rows
  alone with both accounts, or one account that buys, or two in the referral
  programme (`focus`).

### Fairness

`Users`: whoever has an account keeps asking (weak fairness of `FindUser` while the
account is active), and not every insert fails for want of the database (strong
fairness of `CreateUser`, which a lookup has to enable again after each failure). The
webhook is owed nothing: the code says requests create the row too. `Marketplace`: Stripe
repeats an event until it is answered 2xx (weak fairness of `Deliver` and the
statements after it), and not every insert fails (strong fairness of `StorePaid`).
Purchase requests are owed nothing.

## 9. Proofs

Each holds for all values of the constants that satisfy the named assumptions of the
modules.

* `WithdrawalProofs`. `TypeCorrect`: one step per action; `TypeOK` includes `Started` (a
  request in progress has an agent and a destination), without which the later
  actions would not be typed. `LockRespected`: a transfer is executed long after its
  check, so the property is not inductive. `LockInv` adds what carries the fact over: the
  row (`RowIssued`), an update on its way, a request past its check and a transaction
  on its way (`Cleared`). `Monotone` (time and `issued` only grow) lets facts about the
  past survive a step; `LockFrame` does the actions that touch none of it.
* `WithdrawalAmlProofs`. The record of an approval stays in the history while any limit
  counts it, which needs `RetentionAssumption`; the approvals within the window then
  map one to one into the records `amlAllows` counts, so their number is at most the limit
  (`VelocityCapped`). `PeriodCapped` says the same of totals. A total is a fold over a set,
  of which the prover knows only one unfolding. So amounts are counted in units: `Units` of
  some members are pairs of a member and a number up to its amount, `SumsCount` says a total
  is the number of its units, and from there the theorems on cardinality do the rest. The
  induction over a finite set that this needs takes no theorem with an operator
  parameter: a nonempty set of counterexamples has a least one (`LeastSubset`, by `WFMin`).
* `WithdrawalPayoutProofs`. `Implements`: every step is a step of `Payout` or a stutter,
  from `RInv`, which is `TypeOK`, `LockInv` and `HandedOver` (what is known of a
  request once its transaction is handed over). `CompletesLanded` follows from the same.
  `PaidAtMostOnce` adds `PaidKnown`: a transfer that was executed is still named by the one
  transaction of its request, which is not sent again. `PayoutPromises` proves the
  promises from `PayoutInv`, what a stage of a request in `Payout` says of its payee, and
  carries them over to `Withdrawal` by `Implements`.
* `AgentLifecycleProofs`. `AgentsTyped`, `OrphansExplained`, `DeletedForGood` from the
  conjunction of `TypeOK`, `Deployed` (which machine and which row a deployment has
  at each of its steps), `Asked` (what a delete between Fly's answer and its write
  has been told) and `NoSilentOrphan`.
* `PlatformProofs`. `RowsSynced` and `PayingUsersIn` from `BillingIInv`: types, what the log of
  events is (`Logged`), and that rows follow it (`RowsFollow`). `MachinesBought` from
  `LetBought`: a deployment that was let in, or has a machine, has a user who once paid. `OrderedDeploysPay`
  is the action property. `PartsKept`: the steps of the composition are steps of its parts
  (or leave them), so what is proved of each part alone holds in it. `AgentsBought`:
  a row, too, belongs to a user who once bought a subscription.
* `SupervisorRulesProofs`. `ChangesWait` from `EarlyInv`, which follows a version from the
  change that dates it (`RowsWait`) through what is read (`ReadsAreRows`) and a cache
  (`CachesInEffect`) into an answer (`GivenInEffect`). `AnswersAreFresh` from `FreshInv`, which
  adds that the table lacks no rule once it has any (`TableFresh`), and that what a cache
  holds and what a call has read or been given are the rules of one moment
  (`CacheFresh`, `CallFresh`); the lemma `Greatest` (a bounded
  set of numbers has a greatest) finds the moment. `KeepsRuleBook`: every step is one of
  `RuleBook` or leaves it as it is, from `BookInv`, which is `FreshInv` and `NotYetGiven` (a
  request still on its way was shown nothing and has written nothing).
* `StorageProofs`. `TripsHold` from `TripKept`, `LocksHold` from `LockKept`, `RefusedInTime`
  from `RecordsBacked` and `ExactWithoutRedis` from `WindowsExact`. All four are of one kind:
  the property speaks of an answer, the invariant of every copy a call in progress may
  still write. They are stated in the modules, next to the properties. The counting
  steps use the theorems on cardinality of the library.
* `AccountsProofs`. `MarketTyped`, `NobodyOwnsUnpaid` (from `PaidBefore`: whatever is about to
  be stored was paid), `CountersBehind` (what is counted or about to be counted was
  stored), `ReferralsTyped`, `CodesStay` (from `SettledOnce`) and `SumsBacked` (from `CreditBacked`).
  `SettledAreCounted` from `AnswersCounted`: deliveries that have counted and whose answer is on its way
  (`Answering`) are in the counter too. `UsersRefined`: the marketplace and the referral
  programme each implement `Users`, so what holds of user rows holds with them.

Only model-checked are the liveness properties `EveryRequestEnds`, `StatusHeals`,
`EveryUserGetsIn` and `PaidIsOwned` (fairness and ENABLED are out of reach). Every
invariant and every action property of the passing runs, and both refinements, have a
theorem.

`tlapm M.tla` checks the module `M`.

## 10. Findings

Each is a run whose property quotes a document and fails.

* `withdrawal_pertx`: the cap per transaction is checked against an earlier balance
  than the one transferred, and a deposit in between goes out with the rest. The bounds
  rule out the small excess that needs no deposit: the quote keeps back 1 000 000
  lamports and the transfer only fee and rent, so even of one unchanged balance slightly
  more than the checked amount is sent.
* `withdrawal_locked`: two changes at once get around the 24 hour lock (both wallets
  were still requested at least a lock before any transfer, which is what
  `TransferRespectsLock` proves).
* `platform_paying`: a deleted event answered before the checkout event leaves an
  active row for a cancelled subscription.
* `supervisor_changes`: a change is computed from the rule in effect, so of two changes
  of different fields that wait at the same time the second undoes the first.

## 11. Not modelled

* Shadow portfolios, preflight simulation, token scores and narratives compute over
  external data in floating point and keep no shared state.
* Sanctions, geo-blocking and MEV protection are look-ups. One thing seen on the way:
  `ofac-sdn.service.ts:21-28` compares base58 addresses in lower case.
* Governance, time locks and the audit trail of `onchain/services/` are maps of the process,
  handled without an `await` that leaves the process and mounted nowhere, so no two
  requests interleave.
  The mounted `onchain.routes.ts` is a stub: it keeps proposals in memory, and
  executing one ignores its status and votes and does nothing but set a status. One
  thing seen on the way: `verifyTrailIntegrity` hashes fields in another order than
  logging does (`audit-trail.ts:13-15`, `73-82`) and so always reports a mismatch.
* Encryption, withdrawal tokens and the enclave are cryptography without shared state.
* The frontend appears only as the status poll.
* `eliza/` is the vendored agent runtime. It holds nearly nine tenths of the lines of the
  repository; the platform's own code is about 10 thousand lines of backend and
  on-chain services, of which the stateful part is modelled, and 12.5 thousand of
  frontend, mostly user interface. The share of lines the modules map is small for
  that reason.
* The creation of API keys, their scopes and tier; the trade route, which is not
  mounted; outgoing webhooks, which are sent once and forgotten; the ring of the
  security audit log; the rule engine's arithmetic.

All runs set CHECK_DEADLOCK FALSE: requests are received once and time, events, deaths
and restarts are bounded, so every behaviour of a model ends.
