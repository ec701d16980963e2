# Verification of the subscription backend

The backend sells coins through a payment gateway, keeps them on wallets, sells
packages and add-ons for coins, hands out clinic and user slots to a second
system ("Domain 2"), ends subscriptions that lapse, and tells Domain 2 about all
of it through a webhook outbox. It runs as several Node processes (PM2 cluster,
`instances: 'max'`) over one PostgreSQL database, and every `await` is a point
where another request, another process or a crash can come in between.

This directory models those parts in TLA+, checks the models with TLC on small
instances, and proves theorems about them with TLAPS. Paths below are relative
to the directory `src` of the repository (`src/src` in `PROJECT.json`).

    tlc -workers 2 -config MCOutbox.cfg MCOutbox      one run
    tlapm OutboxProofs.tla                            one module's proofs

## 1. Inventory

| component | code | state | operations | modules |
|---|---|---|---|---|
| Coin order checkout | `client/services/coin-order.service.ts`, its repository and controller | `coin_orders` | assert no pending order, expire an abandoned one, insert, open a checkout, fail, record payment info | `CoinOrder` |
| Payment webhooks and settlement | the same service; `megabank` and `midtrans` webhook processors | `coin_orders`, `coin_wallets`, `coin_transactions` | success, failure | `CoinOrder` |
| Price of an order | `coin-order.service.ts` 88-195 | none (pure) | bundle and custom price, taxes, fees | `Pricing`, `Catalogue` |
| Purchase, cancellation, plan switch | `client/services/subscription.service.ts`, `client/repositories/subscription.repository.ts` | `subscriptions`, `subscription_events`, `plan_switches`, wallets | subscribe, cancelSubscription, switchPlan, emitWebhook | `Subscription` |
| Quotas and slots | `internal/services/internal.service.ts`, `internal/repositories/internal.repository.ts` | `subscription_quota`, `addon_slot_map` | slotAssign, slotRelease, reconcileQuota | `Slots` |
| What is shown of slots | `client/utils/slot-details.util.ts`, dashboards, the snapshot | none (pure) | attribution to sources | `SlotViews` |
| Daily expiry sweep | `cron/services/daily-expiry.service.ts` | `subscriptions`, the outbox | warn, hold, enforce, expire add-ons | `DailyExpiry`, `Slots` |
| Webhook outbox and worker | `workers/outbox.worker.ts`, `shared/repositories/webhook-outbox.repository.ts` | `webhook_outbox` | insert, recover, fetch, claim, post, complete, retry, fail | `Outbox` |
| Sessions | `shared/services/token.service.ts`, the auth controllers | `refresh_tokens`, the browser's cookie | issue, exchange, revoke, expire | `Sessions` |
| Accounts | `client/services/auth.service.ts`, the account services, `subscription/controllers/auth.controller.ts` | `users` and their links | register, activate, resend, forgot, reset, change password, login | `Accounts` |
| Taxes, currencies, payment methods | `shared/repositories/tax.repository.ts`, `subscription/repositories/currency.repository.ts` and others | one row each, one active | create, update, activate, remove | `Settings` |
| Bundles and plans | the bundle and plan controllers of `subscription/`, their services and repositories | `coin_bundles`, `sku_*` | create, update, remove; upsert, deactivate | `Bundles`, `Plans` |
| Gateway clients, token cache | `megabank/utils/mega-bank-token.util.ts`, the payment services | a cached token, a promise | createCheckout, getAccessToken | `Gateway` |
| Composition root, process life | `shared/container/*.ts`, `index.ts`, `app.ts` | kept instances, phase | getters, start, drain, exit | `Wiring`, `Process` |
| Mappers and event formatters | `shared/utils`, mappers | none | what an event says | in part: `Subscription`, `DailyExpiry` |
| HTTP surface | routes, validation, middlewares, Swagger | none, or a library's | routing, checking, documenting | in part: `Process` |
| Simulated payments (mock mode) | `megabank/routes/dev-simulate.routes.ts` | none | simulate-webhook | `CoinOrder` |
| Request signing; wallet and order lists; dashboards and reports; dental ads; mail; the preview of mails | see `PROJECT.json` | rows of their own, or none | conversions, read-only queries, single-row CRUD | not modelled (section 6) |

How they interact. Checkout and webhooks share the order row and the wallet;
purchases and switches spend from the same wallet. Subscriptions, add-ons and
their quota rows are written by purchases, switches, the sweep and the slot
calls of Domain 2. Purchases, cancellations, switches and the sweep insert
events into the outbox, mostly after their own commit and outside of it; the
worker delivers them. The sweep is triggered by a scheduled workflow, and may
overlap with itself (a retry, a manual run, another process). The
administrators' settings price an order; a bundle keeps the price it had when
it was last edited. A checkout calls the gateway with a token that all requests
of a process share, and the process may be told to stop meanwhile.

What is hard, component by component, and what must hold:

* **Checkout and settlement.** Two requests of one user, duplicated, reordered
  and concurrent webhooks, a gateway call whose answer is lost, a crash after
  the insert. One payable order per user; one credit per order, at its price,
  reported by the gateway; wallet equals ledger; settled orders stay settled;
  no user is locked out for ever; a reported payment settles.
* **Purchases and switches.** Checks without a lock before a transaction.
  No overdrawn wallet, no free plan, no lost coin; a switch ends the plan it
  replaces; nothing is announced that did not commit, and Domain 2 ends up
  knowing what is so.
* **Slots.** Row locks taken by some writers and not by others, two releases of
  one slot, a catalogue that is edited under what was bought. `used_quota` tells
  the truth, quotas are respected, a revocation takes exactly its slots, and
  users are shown what is enforced.
* **Sweep.** Stale lists, updates by id, mails that end the run. Grace periods
  are kept; the cancelled stays cancelled; lapsed subscriptions expire; expiries
  are announced, once.
* **Outbox.** Several pollers on one table. One sender at a time; completed
  means accepted; nothing enqueued is forgotten; everything is settled.
* **Sessions and accounts.** Rotations of two tabs, statements without a
  transaction, a link used while another is issued. One live token per
  session, one account per address, links that are used up.
* **Settings, bundles, plans.** Exclusive rows under READ COMMITTED; edits that
  read, await and write; parts that move between plans. One active tax and
  currency; a bundle's price is its formula, rounded as its
  column does; an upsert is all or nothing, and
  removes its own parts only; a client is charged what the receipt says.
* **Gateway and process.** A token that runs out during a call, retries of a
  call that may have reached the bank, a body without a timer, a signal or a
  dropped connection during a checkout. No bearer is out of date; one fetch at a
  time; no inquiry is lost track of; nobody who waits is cut off by an exit with
  0; a checkout is answered.

The hazards, each at its line and with the properties that watch it, are in
`PROJECT.json`.

## 2. Modules

    CoinLedger  <-implements-  CoinOrder      MCCoinOrder     CoinOrderProofs
    PaidAccess  <-implements-  Subscription   MCSubscription  SubscriptionProofs
    Slots  <-extends-          SlotViews      MCSlots         SlotProofs
    Delivery    <-implements-  Outbox         MCOutbox        OutboxProofs
                               DailyExpiry    MCDailyExpiry   DailyExpiryProofs
    Sessions  <-extends-       Accounts       MCAccounts      AccountProofs
    Settings, Pricing <- Bundles, Plans
              <-extends-       Catalogue      MCCatalogue     CatalogueProofs
    Wiring, Gateway
              <-extends-       Process        MCProcess       ProcessProofs

Common conventions: a request, a webhook delivery, a worker or a sweep is a
process, a record with a program counter and the local variables that survive
an `await`; a database statement, or a `$transaction` block, is one step, unless
its locks matter (`Slots`, `Settings`, `Plans`). An action has the name of the
code's function, or of the part of it between two awaits. Every process can be
lost between any two of its steps. Rows have status `"NONE"` or `"absent"` (or
an owner, a ref, of no one) before they are inserted.

A few operators state what a plausible slip in the code would do instead
(`NeedsInCycle`, `FetchAlways`, `CloseAtOnce`, `PackageAlone`...). No action uses
them; put in the place of the operator they stand next to, each makes a property
fail, and `PROJECT.json` lists them under "mutants".

**CoinOrder.** `req` holds checkout requests: `BeginCheckout`
(`assertNoActivePendingOrder`'s read) leads to `ExpireAbandoned` (its update by
id) or straight to `SaveOrder` (the insert, behind the partial unique index
`coin_orders_one_pending_per_user`), `CheckoutOpened` or `CheckoutFailed` (the
gateway call), `RecordPaymentInfo` or `FailOrder`. `dlv` holds webhook
deliveries: `ReceiveSuccess` then `CreditOrder` (one transaction: the
conditional PENDING to PAID, wallet upsert, increment, TOPUP row), or
`ReceiveFailure` then `RejectOrder`. `GatewayReports` and `notices` are the
gateway, external: a notice, once sent, can be delivered any number of times in
any order. `SimulateWebhook` is mock mode's route, which makes up the notice of any
order without a checkout session or an amount; `MockMode` opens it. `Age` lets the limit of
60 minutes (`PENDING_ORDER_TTL_MS`) pass at any time. Offers and amounts
are small sets: prices are `Pricing`'s.

**CoinLedger** promises: an order is sold once, reported, and credited at most
once, its own coins to its own owner.

**Subscription.** `req` holds requests: `BeginSubscribe` (all checks),
`CommitSubscribe` (the transaction); `BeginCancel`, `SetCancelled`,
`RecordCancelled` (three awaits, no transaction); `BeginSwitch`,
`CommitSwitch` (`executePlanSwitchTransaction`); `EmitWebhook`, which may be
lost since the code swallows its errors; `Abort`. Domain 2's view (`told`) is
what the events, in the order in which they were enqueued, say; a user whose
requests overlapped, or who lost an event, has `drifted`, for good: nothing in
the code makes up for it. Quota rows are left to `Slots`, the end of a billing
period to `DailyExpiry`.

**PaidAccess** promises: access is given, replaced and paid for in one step, at
its price, from a wallet that can afford it; what has ended does not come back.

**Slots.** One account and one resource. PostgreSQL's READ COMMITTED is
modelled by splitting a transaction into its reads and its commit and guarding
the steps of others by the rows it holds: `Locked(p)` for the quota row taken
FOR UPDATE by `slotAssign`, `Deleting(x)` for a slot row updated by an open
transaction. `LockQuota`, `CommitAssign`; `BeginRelease`, `DeleteSlot`,
`CommitRelease`; `ReadExpired`, `Revoke`, `Reconcile`, `EmitExpired` for
`processAddonExpiries`, whose `reconcileQuota` counts in `Revoke` and writes
in `Reconcile`. `BuyPackage` (a purchase or a switch), `BuyAddon`, `Cancel`, `Hold`,
`EnforceGrace` are the other writers, in one step each.

What a plan gives is read from the catalogue: `capacity` and `unlimited` are
its rows, which a purchase mirrors into the quota row and which `slotAssign`
and `reconcileQuota` read again. `EditPlan` changes them at any time (each plan
once, `MaxEdits` of them). `shown` and `shownUnlimited` are the same rows as the
owner's pages find them, whose queries (`subscription.repository.ts:81`, `:94`) do
not leave out parts that were removed. `recount` and `twice` are observers:
what the last sweep wrote was true or not, two releases had one slot.

**SlotViews** computes what others are shown from the rows: sources in order,
each with what it can take of the used slots (which count as none when negative,
as `Math.max(0, trunc(used))` has it), the dashboard's summary, and the snapshot of
Domain 2.

**Outbox.** A worker's poll is `Recover`, `Fetch`, then per row `Claim` (or
`Skip`), `Post`, and `SettleOk`, `SettleFailed`, `SettleRetry`;
`SettleThrows` is the catch block after a failed update, `LosePoll` the loss of
the process or of its database. `seen` keeps the `attempts` of the fetch, which
is what `scheduleRetry` counts from. A row is reclaimed only when no worker is
delivering it (`Stranded`): a POST is cut off after 30 s and the reclaim waits
for two minutes. A row becomes due at any time after a retry (`BecomeDue`).

**Delivery** promises: an enqueued event is kept until it is delivered, and then
Domain 2 has accepted it, or given up; and that is final.

**DailyExpiry.** A sweep works through the lists its four parts query:
`Warn`; `HoldOne`, `HoldDone`; `EnforceOne`, `AnnounceExpiry`, `ExpireChild`,
`AnnounceChild`, `ChildrenDone`, `EnforceDone`; `ExpireAddon`,
`AnnounceAddon`, `SweepDone`. Owners cancel at any time. A mail that throws ends
the run (`CutShort`), as does a loss (`LoseSweep`). Days are numbers. `cut` and
`ended` are observers: some run did not get to its end; what was cancelled when
no sweep had `Found` it (has it yet to hold, to expire or to announce).

**Sessions.** `token` holds the rows, `session` the login each descends from,
`cookie` what the browser has. An exchange is `BeginExchange` (find),
`RevokeOld`, `CreateNew`, `AnswerExchange`, each its own statement;
`LoseExchange` cuts it off anywhere, and the answer may be lost. **Accounts**
adds the owner's row and links: `Begin...` reads and decides, `Finish...`
writes what was decided, by id (`register` alone is a transaction behind a unique
index); a login ends in `OpenSession`.

**Settings.** A request of an administrator verifies (`Verify`), and its
transaction deactivates the other rows one by one, as an `updateMany` at READ
COMMITTED does (`SelectActive` takes the rows from what is committed,
`DeactivateNext` waits for their locks and tests them again), then stores its
own (`StoreRow`, the commit) or rolls back. `raced` is an observer: requests on
a table have overlapped, and none that made a row active has had it to itself since.

**Bundles.** An edit is `ReadBundle`, `PriceBundle`, `VerifyBundle`,
`StoreBundle`, four awaits; `UpdateCurrency` changes a rate at any time; `crossed`
observes that two edits of one bundle overlapped. A rate is a Decimal(10, 4), and
so a price, or a discount that is sent, has four decimals when it is compared;
the columns are Decimal(15, 2) and round what they are given (`Cents`), and an
edit reads back what they kept (`Fine`). **Pricing** has the two price
computations, **Plans** the upsert (`WriteBase`, `RemoveParts`, `UpsertPart`,
`CommitPlan`, `RollbackPlan`). **Catalogue** composes them; as no request writes
to two of the three, a behaviour follows one `desk`.

**Gateway.** A Bank Mega call fetches or awaits the token (`FetchOrWait`,
`BankIssues`, `TokenHeaders`, then `TokenRead` or `TokenFails`; `TokenTimesOut`),
sends (`BankReceives`, `Headers`, then `Success`, `ErrorStatus` or `BrokenBody`;
`NoAnswer`), sleeps and tries again (`Wake`); a Midtrans call is answered by
`SnapAnswers` or never. `Tick` is 30 seconds, the timeout of the headers of an
answer (`HeaderTimeout`); `http.util.ts:29` clears it when they are there, so that
the states `"reading"` and `"receiving"`, in which `response.json()` or `.text()` is
awaited, have no timer. **Wiring** is the
graph of the containers' getters, `Enter`, `Construct`, `Wire` a depth-first
construction. **Process** starts (`LoadModules`, `bootstrap`, `Connect`,
`Listen`), serves, and stops (`gracefulShutdown`, `CloseServer`, `Disconnect`,
`ForceExit`). Without a database it exits with 1 (`FailToStart`); when the port is
taken, Express hands the error to the callback of `listen`, which ignores it:
the process is `"deaf"` until it has nothing left to do (`PortTaken`, `RunDry`).
`Kill` is a signal nobody handles yet, or PM2's SIGKILL when a stop lasts longer
than its `kill_timeout` (1.6 s by default, and the drain may take 10): it may
come in any state. A client may drop its connection while its request is in
hand (`CloseConnection`): the handler goes on, and the drain does not wait for it.

## 3. Runs

| run | instance | shows |
|---|---|---|
| `coin_order` | 2 users (one without a wallet), 2 orders, 2 requests, 2 deliveries; amounts right, wrong, absent | `OnePendingPerUser`, `CreditedOnceWhenPaid`, `BalanceMatchesLedger`, `CreditIsReported`, `SettledForGood` |
| `coin_order_live` | 1 user, 2 orders, 1 request, 1 delivery, mock mode | `ImplementsLedger`, `NoPermanentLockout`, `ReportedPaymentSettles` |
| `coin_order_stale_expiry` | 1 user, 2 requests, 1 delivery, mock mode | violated: `PaidNotExpired` |
| `subscription` | 1 user, 2 packages and an add-on, 3 subscriptions, 2 requests | `SwitchEndsOldPlan`, `AnnouncedAfterCommit`, `ToldAsItIs`, `ImplementsPaidAccess` |
| `subscription_one_active` | the same with 2 subscriptions | violated: `OneActivePackage` |
| `slots` | a package and an add-on of one slot each, one of which may be edited (the package to no slots, the add-on to slots without a limit), 3 slots, 2 assignments, 2 releases, 1 sweep | `UsedIsLive`, `WithinQuota`, `AddonWithinCapacity`, `RevokedAreSuspended`, `ShownTruly`, `RevokesExactly` |
| `slots_release_twice` | 2 releases, 1 assignment, no sweep | violated: `QuotaIsCeiling` |
| `outbox` | 2 events, 2 workers, 2 attempts, batches of 2 | `OneSender`, `ImplementsDelivery`, `OneSettles` |
| `daily_expiry` | a package, 2 add-ons (one ends a day later), days 0 to 5, 2 overlapping sweeps, a grace period of 2 days, a warning 1 day before | `GraceIsKept`, `CancelledStays`, `ExpiryIsAnnounced`, `LapsedExpires` |
| `accounts` | 1 address, 2 passwords, 3 links, 2 refresh tokens, 2 handlers | `OneLivePerSession`, `RegisteredOnce`, `LinksHold` |
| `catalogue` | 2 requests per desk; 2 taxes, a currency, a method; 1 bundle of 10 or 15 coins at 0.9 or 1.0533, discounted to 10.532 or not; 2 plans, 2 parts, 3 upserts | `OneActiveUnlessRaced`, `PricesHold`, `ChargedWithinOneUnit`, `PlanIsWhole`, `SwapIsAtomic`, `RemovesOwnOnly` |
| `process` | 2 clients, 2 attempts, tokens of 90 s, a refresh buffer of 60 s, both gateways | `BearerInDate`, `OneTokenFetch`, `InquiryIsAccounted`, `BuiltOnce`, `DrainLosesNothing`, `CheckoutEnds` |

The constants are in the `.cfg` files and, where they are functions or records,
in the MC modules. The type invariants are proved (section 4) and not run.

Why the bounds are enough. Every race in this code is between two actors over
one row; two of each kind of actor, and two rows to be confused with one
another, give every pair of steps.

* A third subscription lets a switched plan be switched again beside an add-on.
* Three slots fill a package and an add-on and leave one beyond the quota; two
  assignments contend for the last slot while two releases return one each, or
  one twice, and a sweep revokes others. An edit to nothing and one to no limit
  are the two that turn a comparison round. That a package without a limit is shown as
  one is not in the run (it would need a plan without a limit that was not
  edited); `ShownIsTrue` covers it.
* A rate of 1.0533 and a discount of 10.532 differ in decimals the columns drop:
  10 coins cost 10.533, and both are stored as 10.53.
* Two attempts are a first one, which is retried, and the last; two events share
  a batch, so that the second waits while the first is delivered.
* Six days hold the period, the grace period and a day after it for both ends.
* A third link is what it takes for one to be issued while another is used.
* Two taxes are needed for both to become active. Three upserts let a part move
  from a plan to another and back, two of them at once.
* `MaxRetries` is 3 in the code; with 2 there are a first attempt, a retry and a
  last one. A token of three ticks runs out during a call.
* The container graph is a constant: `BuiltOnce` covers both gateways and every
  order in which a constructor may call the getters it needs.

Names, texts and payloads are model values. The theorems of section 4 hold for
any number of these. `CHECK_DEADLOCK FALSE` everywhere: rows are never deleted,
so a small instance ends when its rows are used up, and a process exits.
Symmetry is used on interchangeable sets, in runs without liveness.

### Fairness

In all modules but `Process` fairness is stated as the premise of the liveness
properties, so the specifications stay safety specifications.

* `RetryFairness` (CoinOrder): orders age; a request in flight runs or is lost;
  a user who is refused tries again; not every try is lost at the same await.
  That is what the lock-out comment of `assertNoActivePendingOrder` is about;
  nothing is asked of the gateway.
* `DeliveryFairness` (CoinOrder): the gateway repeats a notification until it is
  acknowledged (both gateways do; the controllers answer an error otherwise), as
  does who simulates one and is answered an error, and not every delivery is lost.
* `PollFairness` (Outbox): `setInterval` repeats the poll; a poll goes on or is
  lost, not every one before it claims a row, nor every delivery before its end;
  a stranded row is reclaimed in the end; and a due row is fetched in the end,
  since batches are oldest-first. `OneSettles` is the property of one event, as
  events are interchangeable.
* `DailyFairness` (DailyExpiry): the scheduled workflow triggers a sweep every
  day, and a sweep runs on. A day ends when its sweeps are over. A sweep may
  still be cut short: `LapsedExpires` excepts that.
* `Process!Spec`: the steps a call takes by itself (weak fairness of `Proceed` and
  `Finish`, per client): the timers of headers and of delays fire, and promises are
  resumed. Nothing is asked of the bank, and nothing of the body of its answers:
  `TokenRead`, `TokenFails`, `Success`, `ErrorStatus` and `BrokenBody` (`BodyEnds`) have
  no fairness, since the code has nothing that ends a body. So `CheckoutEnds` rests
  on the timeouts and the bound on attempts, and excepts the call that waits for a
  body for ever, and those that share its token. It is stated for Bank Mega, since
  the Midtrans call has no timeout at all.

## 4. Theorems

TLC checks small instances; the theorems below hold for all values of the
constants that meet the named assumptions (absent values such as `NoUser` are not
in their sets; prices, coins, attempts are naturals; what a module needs beyond
that is an `ASSUME` beside the constant). Each proof module has an inductive
invariant, one step per action, and the theorems that follow. Every one proves
`TypeCorrect`, the type invariant.

**CoinOrderProofs** (`OnePending`, `CreditedOnce`, `CreditReported`, `BalanceIsLedger`,
`Settled`, `Implementation`).

    IInv == TypeOK /\ RowsExist /\ CreditingIsReported
            /\ OnePendingPerUser /\ CreditedOnceWhenPaid /\ CreditIsReported

`RowsExist` (what handlers and gateway hold refers to rows that were inserted)
is needed so that an insert does not touch an order somebody already works on;
`CreditingIsReported` (a delivery that is about to credit was called by a
matching notice) carries the check of the amount, made before the transaction,
into the transaction. `Settled`, an action property, and `Implementation`
(`CoinLedger`) use the invariant step by step.

`BalanceIsLedger` is about sums over any number of orders. The folds of the
community modules are defined by `CHOOSE` of a function that adds up; that there
is such a function is an induction over finite sets, put as a minimal
counterexample: `LeastSubset` says that a set of subsets of a finite set has a
least member (proper inclusion is well-founded there), and `SumsExist` that no
least set is without a sum. `SumPicked`, `SumSplit` and `SumSame` then say what
a sum does when one order is set apart and when nothing changes. `LedgerInv`
adds to the equation that an owner's inserted orders are finitely many: an
insert adds 0 to the sum, as no TOPUP row refers to the new order, and a credit
adds the order's coins, as its `credits` go from 0 to 1.

**SubscriptionProofs** (`NotOverdrawn`, `SwitchEnds`, `Announced`, `Told`,
`Implementation`). `IInv` is `TypeOK`, `NeverOverdrawn`, `Sold` (a row has its owner
and SKU from the insert on), `Handled` (what a request found out before its
transaction and nothing beside it undoes: whose the row is and which SKU, not its
status or the balance), and the two properties. `NotOverdrawn` rests on the conditional debit
inside the transactions, not on the check before them. `Told` needs `KnownInv`,
for users whose requests have not overlapped: the event in the hands of the one
request is the difference between what is so and what Domain 2 was told.

**SlotProofs** (`Suspended`, `Exactly`, `UsedQuotaIsTrue`, `QuotaIsKept`,
`AddonsHoldTheirOwn`, `ShownIsTrue`). `IInv`: `TypeOK`, the
live slots and the bought add-ons are finitely many (the catalogue of add-ons may be
infinite; this is what makes every limit a sum of finitely many capacities, and
`TypeOK`'s `total` a natural number), `Assigning`, `Sweeping` (what a sweep read of a held
add-on stays true until its transaction, since only a sweep leaves ON_HOLD).
`AddonsHoldTheirOwn` adds `Room`: between its lock and its commit an assignment is
alone, so the room it counted is still there; this holds until a switch, after
which two quota rows of one account are locked apart.

`UsedQuotaIsTrue` and `QuotaIsKept` hold of every behaviour: any number of
purchases, edits, assignments, sweeps and releases overlap. What they except is
in the state: a row that a sweep overwrote after it had changed (`recount`), a
package under which two releases had one slot (`twice`), until a sweep counts
while nothing runs beside it. Neither can be dropped: `slots_release_twice` shows the
second. `QInv` is `CInv` and `Apart` (releases under a package that is not `twice` have
different slots), `Begun` (who has a quota row in hand has one that was bought),
`Counted` (`used_quota` is the number of live slots, and a release under way has
one of them to count down) and `Guarded` (an assignment that passed the check
still has its slot, since the lock keeps every other assignment out and a
release only makes room). `CInv` has `Unedited`: a plan nobody edited gives, and is
shown as, what it was bought for.

`ShownIsTrue` says that what owners and Domain 2 are shown agrees with the rows,
while no plan of the account was edited. Two things had to be put in a form that can be proved.
A sum over a set of sources is counted: `Units` is the set of pairs of a source
and a number up to its capacity, and `SumIsCount` says that the sum is its
cardinality, by the least set that would refute it (`LeastSubset`), so that the
facts about finite sets serve for sums. What `drainSources` leaves of the used
slots, source after source, is a function of which there is only one (`Drained`).
`VInv` is `QInv` and:

* `Started`: the rows a handler is at work on were bought or inserted, and the
  add-ons were sold in the order of their ids;
* `LimitKnown`: as long as one package was ever bought, the limit of its quota
  row is what its sources and some add-ons no longer active give (here, and
  in `FilledUp`, if no plan was edited);
* `FilledUp`: until a first slot is taken back, the slots fill the package, then
  the add-ons, oldest first, and an assignment that has the lock has a source with
  room. That follows from `LimitKnown`: were every source full, as many slots would
  be live as the limit allows (`FullHold`, `RoomLeft`).

Filling in that order is what `drainSources` assumes when it shares the used
slots out over the sources it is given, and `AttributionIsShown` puts the two
together.

**OutboxProofs** (`OneSenderAtATime`, `CompletedWasAccepted`, `Implementation`).
`IInv == TypeOK /\ InHand /\ OneSender /\ CompletedIsAccepted`. `InHand` (a worker
has an event in hand exactly while it posts or settles it, and a reply "ok"
means Domain 2 has accepted it) links a worker's program counter to the row.
`OneSender` is inductive with it: the claim requires PENDING, a reclaim requires
that nobody has the row in hand, and an outcome is written by the one who has.

**DailyExpiryProofs** (`Grace`, `Cancelled`, `ExpiryAnnounced`). `IInv`: `Typed`,
`ListsAreDue` (what a sweep goes through is past the day its list was made for),
`Announced` and `KeyIsTheLastDay` (a package's event carries the day its grace
ended, so there is one, however many sweeps announce it, and none earlier),
`GraceIsKept` and `CancelledStays`.

**AccountProofs** (`OneLive`, `Once`, `LinksKept`). For sessions, `InTurn` names the
one token of an undisturbed session that may be live at each step of an exchange.
For accounts, `CallHolds` (what a call has in hand exists), `ResetsHold` (a reset
in progress has its link to itself) and `ActivationsHold`.

**CatalogueProofs** (`OneActive`, `Swap`, `Prices`, `Charged`, `Whole`, `OwnOnly`).
Three invariants, one per desk. `Apart`: a request alone on its table knows which
rows are active, so it deactivates all of them. `EditOK`: an edit alone on its
bundle has read the row as it is, and what it will store is right. `Disjoint`: two
open transactions share no row, since what one has written the other waits for.
`CentsType`, `Rounded` and `RoundedKept` say what a column's rounding does to the
comparison an edit made: it keeps "not above", and not "less".
`Charged` is arithmetic: two roundings of half a unit each.

**ProcessProofs** (`InDate`, `OneFetch`, `EveryInquiry`, `WiredOnce`, `Drains`). `GInv`: each
call's timers and what it knows of its attempts (`Timed`, `Accounted`); `PInv`:
a connection needs the server, the server the database and the routers, and
the drain ends when no connection is left. (A request does not need its
connection: the client may have dropped it.) `InDate` uses `RefreshBuffer >= 2 * HeaderTimeout`: the 60 seconds
of the code are two timeouts of 30, that of the token's answer, on the way of
which its lifetime already runs, and that of the request that carries it.

`WiredOnce` is about the graph of the containers. `Rank` gives every component a
level, and `Lower` shows, container by container and for both gateways, that a
constructor takes components of lower levels only: there is no cycle. `WInv` then
says that the getters in progress are of rising level and keep nothing yet, so
that no getter is entered inside itself and none builds a second instance.

Only model-checked: liveness (`NoPermanentLockout`, `ReportedPaymentSettles`,
`OneSettles`, `LapsedExpires`, `CheckoutEnds`), which is out of the prover's reach.
Every invariant and every action property of a passing run is stated by a theorem.

`TypeCorrect`, `NotOverdrawn` and `CompletedWasAccepted` are proved and not run.

## 5. What the models and the repository's words disagree about

Three runs show a disagreement; the quotes are under "findings" in
`PROJECT.json`.

1. `PaidNotExpired`: an order found abandoned is set EXPIRED by id; a webhook in
   between has paid it. The coins stay, the order leaves the PAID reports.
2. `OneActivePackage`: two purchases that both found no active package.
3. `QuotaIsCeiling` with two releases of one slot: `used_quota` is decremented
   twice, and the next assignment exceeds the quota.

Read off the code while modelling it and present in the models' behaviours:

* A payment captured after its order was FAILED or EXPIRED is acknowledged and
  never credited (`coin-order.service.ts:401`).
* Two switches of one subscription both commit when the wallet covers both
  (`subscription.repository.ts:306` says exactly one can).
* Cancelling an add-on enqueues `subscription.cancelled`, a full lockout, though
  the package stays active (`subscription.service.ts:362`); `ToldAsItIs` excepts
  it. An event that was lost, or enqueued in another order than the commits, is
  never made up for; that is what `drifted` excepts.
* Cancellation takes effect at once (`SPEC.md:386` says at the end of the period).
* `reconcileQuota` takes no lock and overwrites `used_quota`: an assignment that
  commits between its count and its update is lost from it (`recount` in `Slots`).
* A cancelled or held add-on leaves its capacity in `total_quota`, so that the
  fallback of `internal.service.ts:79` is reached without any drift of
  configuration and the package carries more than its own slots.
* A switch leaves the new quota row at 0 used while the old package's slots are
  live, and an add-on bought later may raise the old row
  (`subscription.repository.ts:434`). `AddonWithinCapacity` holds until a switch.
* What owners see (`SlotViews`): the pages add up what the catalogue gives when
  they are read, parts removed since included, while the quota row keeps what
  was bought; only a package is ever shown as unlimited, not an add-on; the
  snapshot's `addons` is always empty; and once a sweep took capacity away that is
  in use, what remains is negative without being unlimited, against
  `quota.constants.ts:13`. `ShownTruly` says when the numbers agree.
* The sweep sets ON_HOLD by id: what it listed and its owner cancelled meanwhile
  comes back on hold, and may expire and be announced. Each part of the sweep selects one billing day, and a day
  that is missed is not made up for (`SPEC.md:388`). A sweep that dies between
  the commit of an add-on's expiry and its event never announces it.
* `scheduleRetry` counts from the attempts of its fetch: a stale batch lets a row
  be tried more often than `MAX_RETRY_ATTEMPTS` (`outbox.worker.ts:202`).
  `AttemptsBelowMax` states the opposite; no run checks it. Events of one company
  may be delivered out of order after a retry. Nothing in the repository
  constructs an `OutboxWorker`; the model starts where one has been started.
* Two overlapping exchanges of one refresh token leave two live tokens; an
  exchange whose answer is lost leaves the browser with a revoked one. A change
  or reset of the password revokes no session. A reset in progress clears a
  newer link that was mailed meanwhile.
* Two activations that overlap may leave two active taxes; two edits of one
  bundle may leave a price that is not its formula (`raced`, `crossed`). One edit
  alone may leave a discount that is as much as the price, by rounding
  (`bundle.controller.ts:51` says it must be less). An
  inactive bundle can be bought.
* A bundle takes a FIXED tax for a percentage (`coin-order.service.ts:107`, unlike
  164-171).
* A part of a plan is updated by its id alone: naming another plan's part moves
  it.
* `invalidateTokenCache` is never called; each attempt of an inquiry has a new
  `X-EXTERNAL-ID`, so that an attempt without an answer may leave an inquiry
  open at the bank beside the one that is used.
* The body of an answer has no timer: one that trickles in hangs the checkout, and
  with a token's answer every checkout that waits for it.
* A port that is taken is logged as a server that runs, and the exit code is 0.
* Exit code 0 means that no client that waited was cut off. The request of a
  client that dropped its connection goes on without the database, and is cut off
  by the same exit code (`index.ts:100`); ten seconds after the signal the
  process exits with 1 whatever is in flight, and a checkout may take longer.

## 6. State of the plan, and what is not modelled

The modules, the refinements and the proofs planned at the start are all there.
What is left out:

* **Request signing**: cryptographic conversions without state. Messages are
  authentic in the models.
* **Wallet and order lists, dashboards and reports**: read-only queries, CSV and
  PDF layout; no later step depends on what they return. What the dashboard says
  of slots is in `SlotViews`.
* **Dental ads, profile fields, uploads**: single-row writes nothing else reads,
  and files. (`updateAccount` writes two rows in two statements: a failure between
  them leaves the first.)
* **Mail**: templates and SMTP; a mail is sent, or throws.
* **Mappers and formatters**: layout. The formatters of renewals are never called.
* **HTTP surface**: routes are the actions of the models; validation is taken as
  passed, except where it decides what a payload may be; rate limits are a
  library's; the Swagger documents (some 4,800 lines) are data. The page around the
  **simulated payment** and the **preview of mails** change no state.

Abstractions inside what is modelled that a reader should know of:

* One account and one resource in `Slots`, one gateway at a time in `CoinOrder`.
* Time: `Age` and `BecomeDue` happen whenever they may; `DailyExpiry` counts days,
  and a local midnight compared with a DATE column (the day before, east of UTC)
  is not modelled.
* `Bundles`: an inactive currency is a refusal that may or may not happen.
  Payloads are chosen where they are first used.
* A purchase reads a plan with several queries; a plan that is edited between them
  may be read in two halves, which `Plans` does not show.
* The add-on check of `subscription.service.ts:112` is not repeated in its
  transaction; no property covers that, since no document rules out an add-on
  beside no package (the one hazard in `PROJECT.json` without a property).
