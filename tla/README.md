# Formal models of the TEC core backend

TLA+ modules, TLC configurations and TLAPS proofs for the services of this
repository: payments, the event stream between services, wallets, commerce,
assets, KYC, users and tokens, and what stands in front of the handlers. Paths
below are relative to the repository.

Contents: [1 The system](#1-the-system) ·
[2 Modules and code](#2-modules-and-code) ·
[3 Runs](#3-runs) · [4 Where code and documentation differ](#4-where-code-and-documentation-differ) ·
[5 Proofs](#5-proofs) · [6 Not modelled](#6-not-modelled) · [7 What could follow](#7-what-could-follow)

## 1 The system

Thirteen Node services share PostgreSQL databases (one per service, through
Prisma) and one Redis. A client reaches them through the API gateway. Services
call each other over HTTP in few places; most of the coupling is Redis streams
read by consumer groups.

```
client -> gateway -> payment --(payment.completed)--> wallet, commerce, notification, realtime, analytics
   Pi Network <----> payment                  auth --(user.created)--> identity, notification, ...
   Pi Network --webhook--> payment            kyc  --(kyc.verified)--> ...
```

| Component | State | Operations | Hard behaviour | What makes it correct |
|---|---|---|---|---|
| Payment lifecycle (`tec-payment-service/src/controllers`, `services/reconciliation.service.ts`) | row per payment: status, a time per status, `pi_payment_id` | create, approve, complete, cancel, fail, webhook, resolve-incomplete, hourly sweep | reads before an await used after it; calls of the Pi Network that act but answer nothing; restarts | only paid payments complete; approval before completion before event; stale payments are closed |
| Pi circuit breaker (`services/payment.service.ts`) | two module-level counters | every Pi call | shared by overlapping calls | opens after repeated failures, closes again |
| Outbox (`services/outbox.*.ts`) | row per event: status, attempts, next_retry | save, poll, mark published, mark failed | append and mark are not atomic; retries; Redis away | published means sent; no row starves |
| Idempotency, rate limit (`middlewares`) | cached responses, counters per window | look up, store, count | look-up and store are apart | one effect per key |
| Event bus (`shared/src/event-bus`, copies in services) | stream, group position, pending list | publish, create group, drain, poll, acknowledge | at-least-once, restarts, lost stream | nothing delivered is dropped |
| Wallet consumer (`tec-wallet-service/src/event-bus.ts`, `wallet/wallet.service.ts`) | `processed_events`, ledger rows | credit a completed payment | duplicates, overlapping instances with one consumer name | one credit per payment |
| Wallet balances (`controllers/wallet.controller.ts`) | balance per wallet, transaction rows | deposit, withdraw, transfer, add funds, link | check without a lock, row locks, deadlock | ledger adds up, no lost update |
| Commerce (`tec-commerce-service`) | products with stock, orders, subscriptions | create, checkout, cancel, subscribe, payment consumer | check outside the transaction | stock is neither lost nor sold twice |
| Assets (`tec-asset-service`) | assets, listings | provision, list, cancel, buy | check outside the transaction | one buyer per listing |
| KYC (`tec-kyc-service`) | status, level, audit rows | start, upload, submit, verify, reject | separate statements, event after commit | status machine, event for each verification |
| Auth, identity (`tec-auth-service`, `tec-identity-service`) | users, token blacklist | login, refresh, logout, find-or-create | check-then-set on Redis; event only for a first login | a refresh token is used once |
| Gateway (`tec-api-gateway`) | LRU response cache | get, set, periodic clean-up | iterating while reordering | bounded, fresh, clean-up ends |
| Notification, analytics, realtime, storage | consumer positions, counters, sockets, files | consume, push, count, upload | as the event bus | as the event bus |

The hazards this leads to are listed in `PROJECT.json` under `hazards`, each at
the line where it bites and with the properties that cover it. Five more are
real but not on the list, because what they spoil is not in the models: the
audit log's balances before and after come from the unlocked read
(`wallet.controller.ts:187`); `isRunning` of the outbox worker stays set while an
XADD hangs (`outbox.worker.ts:11`); an entry without data, or one whose handler
always throws, is never acknowledged (`event-bus.ts:107`); a consumer whose start
throws is not started again; and two logins of one user within a second yield
the same token, character by character.

## 2 Modules and code

| Module | What it is |
|---|---|
| `PaymentContract` | what other services may rely on: approved, completed, told |
| `PaymentLifecycle` | the payment table with every handler, webhook and sweep that writes it; implements `PaymentContract` |
| `WalletContract` | what the payment service may rely on: told, credited once, settled |
| `WalletConsumer` | stream, consumer group, pending list, crediting transaction; implements `WalletContract` |
| `OutboxWorker` | the outbox table and its polling workers |
| `WalletLedger` | balances under concurrent deposit, withdraw, transfer and add funds |
| `ServiceRequests` | what the next six share: request slots, users, payments, how transactions are modelled |
| `WalletCreation` | the three ways a wallet comes to be: link, add funds, credit |
| `CommerceOrders` | products with stock, orders, the `payment.completed` consumer |
| `Subscriptions` | the default row, the upsert, the cancellation |
| `AssetMarketplace` | provisioning, listing, cancelling and buying of assets |
| `KycReview` | records, documents, audit rows, the event `kyc.verified` |
| `UserEvents` | users, the event `user.created` and four consumers of it |
| `IdempotencyStore` | the payment service's idempotency middleware with its two back ends |
| `RateLimiter` | the counter per client and window that the limiters share |
| `PiCircuit` | retries and circuit breaker of `callPiApi` |
| `TokenRotation` | refresh tokens and their blacklist |
| `GatewayCache` | the gateway's LRU map, its middleware and its clean-up |
| `MC*` | model values and symmetry for TLC; `MCServices` and `MCGuards` put independent modules side by side |
| `*_proofs` | theorems and TLAPS proofs |

`PaymentLifecycle`'s event `payment.completed` is the action `CompleteEmit`; it is
`Publish` in `WalletConsumer`. The two contracts meet there: `told` of the first
is `told` of the second, and `CreditedWasCompleted` is proved of the two together.

Each module names the operator after the function it stands for, and `PROJECT.json`
gives its lines. Operators whose comment starts with *Fault:* are no part of
`Next`: they are plausible bugs, each of which makes one property fail when it
replaces the operator it is named after.

**PaymentLifecycle.** `status`, `stamps` (which of `approved_at`, `completed_at`,
... are set) and `piOf` are columns; `pi` is what the Pi Network has recorded of
its own payments; `req[r]` is what a running handler remembers: its place, the
payment, the Pi id and the status it has seen. A handler is cut at each await
that reads or writes shared state, so `approvePayment` is `ApprovePayment` (read
and check), `ApprovePi` (Pi call), `ApproveSave` (update). Prisma transactions run
at READ COMMITTED, so the read and the update of `completePayment` are two steps
(`CompleteCheck`, `CompleteSave`). `Abort` ends a handler at any await without
further effect; `PiAnswerLost` and `WebhookPiError` are Pi calls that acted although
the handler sees an error; `Crash` ends all handlers and sweeps. The retries of
`callPiApi` repeat a call whose effect is idempotent here. The Pi
Network is external: it completes what the user has paid and nobody cancelled,
and may refuse anything. A refused request is a stuttering step. Two flags stand
for configuration: `Sandbox` (no Pi calls at all) and `PiIdOptional`: the
route lets `pi_payment_id` be left out (`payment.routes.ts:109-110`).

**WalletConsumer.** All instances use the consumer name `wallet-consumer-1`, so
there is one pending list `pel`, and `Drain` of a new instance may read what an
old one is working on. `CheckEvent` is the look-up of the event key, `LockEvent` the
insert that waits for a concurrent transaction with the same key and then
fails, `Commit` everything up to the commit, `CommitUnknown` a commit whose reply is
lost, `Ack` the XACK. `Poll` may deliver entries to a client that never sees them.
`GroupLost` is a Redis that comes back without data; `Recreate` and `Start` create
the group at the end of the stream.

**OutboxWorker.** `seen` is the attempts column as it was when the batch was
selected, because `markEventFailed` writes that number plus one. Workers of
overlapping processes share the rows. Each of the three writes of a row (append,
mark published, mark failed) may fail before or after taking effect.

**WalletLedger.** A request reads (`Deposit`, `Withdraw`, `Transfer`), locks and updates
(`Debit`, `Credit`), and commits. Locks are held until the commit; a transfer holds
the sender while it waits for the receiver, so opposite transfers can block each
other until one is aborted. `addFundsInternal` updates an existing wallet exactly
as `deposit` does. Amounts are whole numbers of the smallest unit (the column
is `Decimal(20, 8)`).

**The database-backed services** (`CommerceOrders`, `Subscriptions`, `AssetMarketplace`,
`KycReview`, `UserEvents`, `WalletCreation`). A request slot remembers what the request
has read. The read is one step; the transaction that follows locks what it
writes and is one step, at its commit; every statement outside a transaction is
a step of its own. `Fail*` ends a request at any point between them: a unique
index, an aborted transaction, a lost connection or a process that ends. History
variables (`overtaken`, `raced`, ...) record that a request wrote on the strength of a row that
had changed since it was read, so that the properties can say what holds
whenever that did not happen, and that nothing else breaks them.
In `CommerceOrders` clients may send any integer as a quantity and sellers any as a stock,
because nothing in the commerce service looks at these numbers; `due` is the history
of what the stock ought to be.
In `UserEvents` a consumer reads new entries only, so an entry whose handler fails stays
pending for good, unlike in `WalletConsumer`. `place[e]` is what the consumer has done with
entry `e`; entries meet in the database only. The consumers differ in the effects of
an entry, and `group` chooses which one a behaviour follows.

**IdempotencyStore.** `Miss` is a look-up that finds nothing, `Answer` the handler, `StoreAnswer`
the write, `Replay` a look-up that finds an answer, `LoseAnswer` a write that fails or a
process that ends, `ExpireAnswer` the end of the TTL, or a store that loses its data.

**RateLimiter.** One counter per client, incremented by the limiters of all routes, each
with its own limit; `Hit` is a request that is counted, `LimitTick` a unit of the window.

**PiCircuit.** `circuitFailures` and `circuitOpen` are the two module-level variables; `attempt[c]` is
where a call stands in its retry loop. Calls that were under way when the breaker
opened go on: one that fails may put the time off, one that succeeds resets the count of
failures, and the breaker stays open until its time is up.

**TokenRotation.** `Refresh` is the GET of the blacklist, `SetBlacklist` the SETEX, `SignToken` the access
token. `blacklist` holds entries that last as long as their token, `shortlist` those
that get `FALLBACK_TTL` because `logout` verifies with `JWT_SECRET` a token that was
signed with `JWT_REFRESH_SECRET`.

**GatewayCache.** `cache` is the sequence of the Map's keys in insertion order, `fresh` those
that have not expired, `ahead` those the clean-up's iterator has still to visit. `StartCleanup`, `VisitKey` and `EndCleanup` are
the loop over `cache.keys()`; the process is single-threaded, so nothing else happens
between them.

## 3 Runs

All passing runs check for deadlock too. TLC with four workers takes at most a
minute and a half for each.

| Run | Instance | Distinct states | Shows |
|---|---|---|---|
| `PaymentRaces` | 1 payment, 2 Pi ids, 2 requests, 1 sweep | 390,305 | types, `CompletedIsPaid`, `ImplementsContract`, `OnlyStaleWritesLeaveStateMachine` |
| `PaymentSweep` | 2 payments (one 'pi'), 1 Pi id, 1 request, sandbox, optional Pi id | 77,422 | `StaleIsReconciled` under fairness |
| `PaymentTransitions` | 1 payment, 2 requests | counterexample | `TransitionsAreLegal` fails |
| `PaymentAnnounced` | 1 payment, 1 request | counterexample | `CompletedIsAnnounced` fails |
| `WalletRaces` | 2 instances, 2 payments, 3 entries, batch 2 | 43,050 | types, `NoEntryDropped`, `ExactlyOnce` |
| `WalletDelivery` | 1 instance, 2 payments, 2 entries, drain of 1 | 382 | `AnnouncedIsCredited` under fairness |
| `Outbox` | 2 rows, 2 workers, batch 1, 2 attempts | 27,050 | types, `PublishedWasSent`, `PendingIsSettled` under fairness |
| `Ledger` | 2 wallets, 3 requests, amount 1 | 199,461 | types, `BalanceIsLedger`, `OverdraftIsBounded`, `OverdrawnOnlyWhenOvertaken` |
| `LedgerOverdraft` | 2 wallets, 2 requests | counterexample | `NoOverdraft` fails |
| `Services` | 2 requests, 2 payments; 1 product, 2 orders, quantities -1 and 1, stocks -1 to 1; 2 traders, 1 asset, 2 listings; 3 entries; 3 wallets in 2 currencies | 452,414 | the sixteen properties of the six services |
| `Guards` | 3 requests of one key; 2 routes, window of 3; 2 calls with 2 retries; 2 tokens, 2 refreshes; cache of 2 for 3 keys | 65,354 | the eight properties of the five guards |
| `CacheCleanup` | cache of 2 for 2 keys | counterexample | `CleanupEnds` fails |

**Properties.** `CompletedIsPaid`: a 'pi' payment is completed only if the Pi Network
completed a payment that was at some time bound to this row. "At some time"
matters: an approval that overtakes a completion may bind the row to another Pi
payment between the Pi call and the transaction. It assumes `~Sandbox` and
`~PiIdOptional`; with the Pi id left out, `completePayment` makes no Pi call, and the
code promises nothing. `ImplementsContract` is the refinement of `PaymentContract`.
`OnlyStaleWritesLeaveStateMachine` says exactly how ALLOWED_TRANSITIONS can be left:
by resolve-incomplete, or by a write whose row changed after it was read.
`StaleIsReconciled`, `AnnouncedIsCredited` and `PendingIsSettled` are the liveness
promises of the sweep, the consumer and the outbox. `NoEntryDropped` relates the
group's position to the pending list and the acknowledgements. `OverdraftIsBounded`
limits the damage of overlapping withdrawals to what the other requests carry.

In `Services`: `OneOrderPerPayment` and `OnePurchasePerPayment`, a payment pays once although no
look-up is locked. `SettledOnce`, an order is paid and keeps its units or is cancelled
and gives them back once. `StockDriftsOnlyWhenOutrun` relates stock and orders over time.
`BelowZeroHasCause` lists the three ways for a stock to fall below zero: an order of a
positive quantity whose check was overtaken, the cancellation of an order of a
negative quantity, and the number a seller sends. The last two need no overlapping
requests, and this run reaches all three. `ConsumerFindsNothing`: the consumer of `payment.completed`
can never pay an order. `OffersMatchAssets` relates listings to assets, `OwnerLosesOnlyBySale` an
asset's owner to its sale. `KycHasGrounds`: no review without documents, no announcement
without verification and audit row; `VerifiedChangesOnlyWhenOutrun` says who may touch a verified
record. `PaidPlanStaysPaid` and `RenewedOnlyWhenOutrun`: the default row never replaces a paid
plan, and nobody pays twice for the plan he has. `AnnouncedOnce` and `EffectsMatchEntries` relate
users, stream entries and the effects of the consumers. `SecondPrimaryNeedsCredit` tells the only
ways to a second primary wallet.

In `Guards`: `OneRunPerKey` and `ReplaysAgree` say what an idempotency key is good for, and list
what it is not (`ReplaysAgree` compares replayed answers with one another, not with the answer of a
client whose request ran the handler itself); `AdmittedWithinLimit` and `RefusedRecovers` what the shared counter lets pass and
that a client who keeps trying is let in again; `BreakerCloses` that an open breaker does not
stay open for ever; `RefreshedOnce` when a refresh token can be exchanged twice, or after its
logout; `LeastRecentGoes` is the reference definition of an LRU cache.

**Bounds, and why they are enough.** Handlers of different payments meet only in
the unique index on `pi_payment_id`, which `PaymentSweep` exercises; everything else
concerns one row, where two requests, the webhook, the sweep and a crash are all
there is to interleave, and two Pi ids are needed for a row to be rebound.
`MaxLog` bounds the stream: three entries for two payments give a duplicate
beside an unrelated entry, within and across batches. So does `MaxEvents`, with reads of
`ReadCount`, 10 in the code and 2 here. Batch 1 with two rows is
the smallest case of a row waiting behind another; two workers with a batch of
both rows overwrite each other's results. `MaxBalance` stops deposits;
three requests of one unit let two be overtaken by a third. `SelectLimit` and
`MaxAttempts`, both 5 in the code, are 2. Symmetry is used only in runs without
liveness properties. The services of `Services` share no row, nor do the parts of `Guards`
share a variable: a behaviour of these runs follows one of them (`focus`), which
loses no interleaving that matters. Two requests are enough to overtake one another; two
orders or listings and two payments tell apart what is done twice from what is done
to two rows; three wallets in two currencies reach every way to a second primary
one. Three requests of a key give a replay of each of two overlapping answers; a window
of 3 against limits of 2 and 3 lets one limiter refuse what the other admits; three
keys overflow the cache of two. A quantity of -1, with a stock of 0 or below, is enough to oversell
without overlap, two orders of 1 to oversell by a race; an item of quantity 0 changes
no stock and is left to the proofs. `MaxDrift` is 0: the difference between stock and orders
is followed to its first occurrence. A count above the largest limit stands for all
larger ones, and `used` stops at 2.

**Fairness.** Payment: a running handler continues, because the Pi calls and the
database have timeouts; the cron job keeps running the sweep (`node-cron`,
hourly); the update of a row does not fail for ever (strong, since a restart
interrupts it). Nothing is assumed of clients, of the Pi user or of requests.
Consumer: steps that are possible again and again succeed in the end; instances
are stopped now and then, as deployments do. Without that last assumption the
property is false, because a failed entry is retried only at start-up. Outbox:
the interval timer polls for ever; Redis is not away at every poll; neither
Redis nor the database refuses for ever. Limiter and breaker: time passes (`LimitTick`,
`CircuitTick`), and nothing else. Clean-up: the loop goes on, since it is synchronous code.

## 4 Where code and documentation differ

Four statements of the documentation and the comments do not hold of the code; each
has a run whose counterexample shows it (`PROJECT.json`, `findings`).

- `SECURITY.md:55`, invalid transitions are rejected. They are rejected by a
  check on a row read earlier; two overlapping requests get past it
  (`PaymentTransitions`). The table the code really keeps is
  `OnlyStaleWritesLeaveStateMachine`, which is proved.
- `README.md:288`, the outbox guarantees delivery. No handler writes to the outbox;
  `payment.completed` is published once after the commit, and not at all by the
  webhook and resolve-incomplete (`PaymentAnnounced`).
- `SECURITY.md:62`, double spending is prevented by locks. The check reads without
  a lock (`LedgerOverdraft`). What holds is `OverdrawnOnlyWhenOvertaken` and
  `OverdraftIsBounded`, both proved.
- `cache.middleware.ts:61`, a clean-up every five minutes. `get` moves the key it finds to
  the end of the Map being iterated, so with one live entry the loop never ends
  (`CacheCleanup`).

Others were met while modelling; the models follow the code, and passing
properties state what it does:

- `SECURITY.md:52` and `README.md:287` promise idempotent payments. The look-up and the
  store are apart: overlapping requests of one key run the handler twice, and
  `OneRunPerKey` excepts exactly that, failures half-way and expiry.
- `SECURITY.md:28` says refresh tokens are "rotated on use". A refresh puts the token on the
  blacklist and returns an access token only; no new refresh token is issued.
- The limiters of the payment service share one counter per client, because their
  keys have the same prefix (`rate-limit.middleware.ts:161`): requests to one route use
  up the limit of another. What is left, and proved, is `AdmittedWithinLimit`: the limiters with
  a limit up to a route's own let no more requests pass than that limit, taken together.
- `AuthMiddleware` of the auth service is not installed, so nothing reads the blacklist for
  an access token: a logged-out access token is good until it expires.
- Nothing validates quantities and stocks in the commerce service (`order.service.ts:49`,
  `product.service.ts:24,75`). An order of a negative quantity adds to the stock, and cancelling it
  takes away what another may have bought meanwhile: the stock falls below zero though every
  check was up to date (`BelowZeroHasCause`).
- The order consumer looks for a pending order that carries the payment, and checkout
  stores the payment together with PAID: it finds nothing (`ConsumerFindsNothing`).
- `findOrCreateWallet` looks for a primary wallet of one currency, linking and adding funds for a
  primary wallet of any: a credit in another currency makes a second primary wallet
  (`SecondPrimaryNeedsCredit`).

## 5 Proofs

The proofs hold for every value of the constants that satisfies the modules'
assumptions: any number of payments, requests, instances, rows, wallets. The
assumptions say only that special values are distinct from ordinary ones and that
limits are numbers, that of the amounts and of the limits one is the largest (a
`Decimal` column, a handful of routes), and, for the ledger, that finitely many requests
overlap; TLC evaluates them in every run.

| Theorem | Statement |
|---|---|
| `TypeCorrect`, `ConsumerTypes`, `OutboxTypes`, `LedgerTypes` | `Spec => []TypeOK` |
| `ServicesTypes`, `GuardsTypes` | `MCSpec => []ServicesTypeOK`, `[]GuardsTypeOK`: the type invariants of the modules side by side |
| `NothingCompletesUnpaid` | `Spec => []CompletedIsPaid` |
| `ContractHolds` | `Spec => ImplementsContract` |
| `StateMachineLeftOnlyByStaleWrites` | `Spec => OnlyStaleWritesLeaveStateMachine` |
| `EntriesAreKept` | `Spec => []NoEntryDropped` |
| `CreditsExactlyOnce` | `Spec => ExactlyOnce` |
| `CreditedWasCompleted` | `WalletConsumer`'s `Spec /\ PaymentContract!Spec => []CreditedIsCompleted`: only approved and completed payments are credited |
| `PublishedIsOnStream` | `Spec => []PublishedWasSent` |
| `NoUpdateIsLost` | `Spec => []BalanceIsLedger` |
| `OverdraftNeedsOvertaking`, `OverdraftBound` | `Spec => OverdrawnOnlyWhenOvertaken`, `[]OverdraftIsBounded` |
| `OrderTypes`, `MarketTypes`, `WalletTypes`, `KycTypes`, `SubscriptionTypes`, `UserTypes` | the services' type invariants, the conjuncts of `ServicesTypeOK` |
| `PaymentPaysOnce`, `OrdersSettleOnce`, `ConsumerPaysNothing` | `OrderSpec => []OneOrderPerPayment`, `[]SettledOnce`, `[]ConsumerFindsNothing` |
| `OnlySellersOverwrite`, `BelowZeroIsExplained` | `OrderSpec => StockDriftsOnlyWhenOutrun`, `BelowZeroHasCause`, for any sets of integers as quantities and stocks |
| `PaymentBuysOnce`, `OffersFollowAssets`, `OnlySalesMoveAssets` | `MarketSpec => []OnePurchasePerPayment`, `[]OffersMatchAssets`, `OwnerLosesOnlyBySale` |
| `PrimaryIsUniqueButForCredits` | `WalletSpec => []SecondPrimaryNeedsCredit` |
| `ReviewsHaveGrounds`, `VerifiedIsFinalUnlessOutrun` | `KycSpec => []KycHasGrounds`, `VerifiedChangesOnlyWhenOutrun` |
| `DefaultNeverOverwrites`, `NoSecondChargeUnlessOutrun` | `SubSpec => PaidPlanStaysPaid`, `RenewedOnlyWhenOutrun` |
| `UsersAreAnnouncedOnce`, `EffectsFollowEntries` | `UserSpec => []AnnouncedOnce`, `[]EffectsMatchEntries` |
| `IdempotencyTypes`, `RefreshTokenTypes`, `LimiterTypes`, `CacheTypes` | type invariants, conjuncts of `GuardsTypeOK` |
| `HandlerRunsOnce`, `ReplaysNeverDiffer` | `IdemSpec => []OneRunPerKey`, `[]ReplaysAgree`: two replays of a key never differ, a client whose request overlapped another may hold its own handler's answer |
| `TokensAreSpentOnce` | `TokenSpec => []RefreshedOnce` |
| `SharedCountLimits` | `LimitSpec => []AdmittedWithinLimit` |
| `CacheDropsLeastRecent` | `CacheSpec => []LeastRecentGoes` |

Each rests on an inductive invariant (`IInv` at the end of the first four modules,
`OrderInv`, `MarketInv`, `WalletInv`, `KycInv`, `SubInv`, `LoginInv` with `ConsumerInv`, `IdemInv`, `TokenInv`,
`LimitInv` and `CacheInv` in the proof modules of the others), because none of the properties is inductive by itself:

- *Payment.* `CompletedIsPaid` says nothing of a handler between its Pi call and its
  update. `RequestOK` does, one conjunct per handler: from `complete.check` on, the Pi
  payment the handler holds is completed at Pi and was bound to the row (`Holds`).
  That survives rebinding because `bound` and `pi` only grow. `RowOK` adds what the
  columns say together, in particular that `completed_at` implies `approved_at`,
  although stale writes may set the status backwards.
- *Consumer.* `WorkerOK`: an instance at `commit` holds its event key alone and the key
  is not committed; one at `ack` has its key committed. With `LedgerOK` (one ledger row
  exactly if the key is committed) this gives at most one credit.
- *Outbox.* `MarkOK`: a worker at `mark` has sent its row. `BatchOK`: a selected row had
  attempts left, which bounds the counter.
- *Ledger.* `CoveredWhenRead`: an amount in flight was covered by the balance its
  request saw, so if it overdraws, the balance has fallen since. The bound on the
  overdraft needs an invariant of its own, `OverdraftInv`: of the requests that take money out
  of a wallet, the last whose check succeeded would leave it short by at most what the
  others could take (`ShortByTheOthers`). It counts requests where one would sum amounts,
  and each request that starts, commits or gives up moves the count by one.
- *Payment and wallet.* What is on the stream was completed, by the first contract; what is
  credited is on the stream, by the consumer's invariant.
- *Orders.* `PendingWhenRead`: a checkout or cancellation at work has read PENDING, so
  if the order is no longer pending, the request was overtaken. `StockedWhenRead`: an order's
  quantity was in stock when it was checked, so an order that takes the stock below zero
  has a positive quantity and was overtaken. `UnpaidHasNone`: an order that is not yet paid
  carries no payment, which is why the consumer finds none.
- *Assets.* `RequestsRemember`: a listing keeps the asset and the seller a request has read,
  and its status was ACTIVE then; `ListingsNameAssets` ties listings to assets.
- *Wallets, KYC, subscriptions.* `WalletSlotOK`, `KycSlotOK` and `SubSlotOK` say what a request
  knows between its read and its write: a wallet that will be primary was looked for
  in vain; a submission's documents stay, because uploads only replace them; a
  verification is written, then audited, then announced; a subscribe asks for a plan
  its user did not have.
- *User events.* `EmitOK`: an event that is about to be appended is the user's only one,
  appended or not, unless the history says why there are more. `ConsumerInv` counts the
  writes against the entries whose handler has begun, and the entries done with against
  the writes; the group's position is past all entries it has handed out, so none is handed out twice,
  although a group that was lost is created again at the end of the stream.
- *Idempotency.* `OneAtATime`: a key that nothing excuses has one request at work at most;
  its handler has not run if there is neither a request nor an answer.
- *Tokens.* `OneRefreshAtATime`: a token that nothing excuses is held by one request at most,
  unused and not logged out; and while it is live it has an entry from the
  moment it may be exchanged. The second part is what a new request, which finds
  no entry, relies on.
- *Limiter.* `LimitInv`: what the limiters up to a limit let pass is counted, and was below the limit
  when it was counted. `admitted` adds up per limit as requests pass, so that the property
  needs no sum over the routes.
- *Cache.* `OrderOK`: of two keys in the Map the one behind was used since the one before, so the
  first key has seen all others used, and is the one to go; a key that went
  was followed by at least `MaxCacheSize` others. `CacheInv` adds that the iterator has only
  keys of the Map before it, each once. Deleting a key is `Without`, a `RemoveAt`
  whose effect on order and length is a lemma (`WithoutProperties`); no induction over
  sequences is needed.

The action properties follow from the same invariants. A step of `MCServices` or `MCGuards` is a step
of one part and leaves the others alone (`ServicesAreParts`, `GuardsAreParts`), so every theorem
about a part holds side by side, and the type theorems of the parts give those of the whole.

Every safety invariant, action property and refinement of the passing runs is proved. Only
model-checked are the five liveness properties (`StaleIsReconciled`, `AnnouncedIsCredited`,
`PendingIsSettled`, `RefusedRecovers`, `BreakerCloses`): they need fairness and ENABLED, which are
outside the prover's reach.

## 6 Not modelled

Audit logs, metadata, messages, metrics and response formats. Amounts, prices and
currencies of payments and orders. Authentication, rate limits in front of the handlers, and the
validation of request bodies where there is one (express-validator in payment and wallet,
a `ValidationPipe` in auth and asset): they refuse requests, which is a stuttering step.
Orders and products of the commerce service are checked for the presence of fields only, so
`CommerceOrders` takes any integer as a quantity or a stock. Read-only endpoints (`status`, `history`, dashboards). Rows with `deleted_at`, which no
code sets. Of single components:

- *Auth*: login by password and access tokens keep no state that is written twice; the
  blacklist of access tokens is never read. *Identity*: `updateProfile` writes columns that nothing
  reads to decide.
- *Notification, analytics*: their consumers of `payment.completed` are the loop of their
  consumers of `user.created`, which `UserEvents` models.
- *Shared event bus*: no service imports it; the copies are modelled.
- *Realtime*: the map of connected sockets is a cache of the library's rooms.
- *Storage*: one call of the object store and one statement per operation, which
  nothing compares.
- *Gateway*: proxying, headers and a library's rate limiter. *Observability, configuration,
  load tests*: no behaviour of the services.

## 7 What could follow

A composition of `PaymentLifecycle` and `WalletConsumer` themselves through one stream, so that money
credited implies that the Pi Network completed the payment; `CreditedWasCompleted` goes through the
payment service's contract, which does not speak of the Pi Network. The clean-up of the cache with a copy of the keys, once the code
takes one.
