# TLA+ models of tgshop

A shop that sells subscriptions, codes and accounts through a Telegram bot. Three programs share one
Postgres database (and Redis): the bot (`apps/bot`, webhooks and Mini App routes), the worker
(`apps/worker`, BullMQ jobs) and the admin panel (`apps/admin`). What they must agree on lives in
`packages/core`. The models here are about that core: **money, order status and goods, under
concurrent handlers, retries and crashes**.

Contents: [the system](#the-system), [modules](#modules), [runs](#runs-and-what-they-show),
[bounds](#bounds), [fairness](#fairness), [proofs](#what-is-proved),
[findings](#where-the-code-and-its-comments-disagree), [not modelled](#not-modelled), [plan](#plan).

## The system

Every transaction is `prisma.$transaction` at Postgres' default isolation, READ COMMITTED: a
statement sees what was committed when it started and its own transaction's writes; an `UPDATE`
waits for a concurrent uncommitted update of the row and then applies on top of it. No code path
asks for a stronger level, and only three things are ever locked explicitly: a user's advisory lock
(ledger), a stock item (`FOR UPDATE SKIP LOCKED`), and the row an `UPDATE` touches.

| Component | State | Operations | What makes it correct |
|---|---|---|---|
| Ledger (`core/ledger.ts`) | `balance_transactions`, `idempotency_records`, advisory locks | `credit`, `debit`, `getBalance` | never negative; a key moves money once; a retry is a no-op |
| Order state machine (`core/orders.ts`) | `orders.status`, `paidAt`, payload; promo counters | `createOrder`, `markPaid`, `markDelivering`, `markDelivered`, `markFailed`, `expireOrder`, `refundOrder` | only edges of `ALLOWED_TRANSITIONS`; one refund; no charge on an EXPIRED order |
| Delivery (`core/delivery.ts`) | `stock_items`, the supplier's breaker | `deliver` for pool, code, supplier, manual | one buyer per credential; nothing burned is lost |
| Fulfilment (`core/fulfillment.ts`) | none of its own | `fulfillOrder`, `settleFailedDelivery` | goods or money back, once |
| Manual delivery (`core/manual-delivery.ts`, admin actions) | none of its own | `deliverManualOrder`, `redeliverOrderAction`, `refundOrderAction` | a stored payload is final |
| Bot handlers (`bot/domain/orders.ts`) | none of its own | `payOrderFromBalance`, `markOrderPaidAndDeliver`, `expirePendingOrders` | charged iff paid |
| Delivery queue (`worker/queues/delivery*`) | BullMQ jobs, ids and retention | enqueue, process, retry; `reconcileUndeliveredOrders` | every paid order ends delivered, refunded or with an operator |
| TRON settlement (`worker/queues/chain-scan.worker.ts`) | `payments`, tags of amounts | match, bind, `settleOrderPaid`, `…Completed`, `…Underpaid`, `…Late`, `…Topup` | every transfer is goods or balance, once |
| CryptoBot and Stars (`cryptobotWebhook`, `payments-poll`, `topup`, `stars`) | `payments` | webhook, poll, top-up settlement | one confirmation counts, whoever delivers it |
| Promo codes and order creation (`core/orders.ts`, `pricing.ts`) | `promos.usedCount`, idempotency key of orders | claim, release, create | uses claimed = live orders; at most `maxUses` |
| Subscriptions, referrals (`core/subscriptions.ts`, `referrals.ts`) | `subscriptions`, REFERRAL rows | create, renew, expire, remind; bonus | a paid period is never lost or doubled |
| Broadcasts (`worker/queues/broadcast*`, admin) | `broadcast_posts.status` | arm, claim, send, cancel, sweep | an armed post is sent by one worker, or cancelled |
| Settings cache, middleware, sessions, events, catalogue, UIs | Redis keys, rows | reads and single-row edits | no protocol between actors |

How they meet: a confirmation (button, webhook, poll, chain scan) marks an order PAID; delivery then
runs in the confirming process *and* in worker jobs; a failed delivery settles itself with a refund;
the expiry job, operators and agents change the same order at any time. Nothing holds an order for
the length of a handler: handlers read an order, decide, and later write it.

What is hard here, and hard to test: two handlers of one order between each other's read and write;
a process that dies between two transactions; a second run of a job that is still running; different
ledger keys for the same money; SKIP LOCKED seeing less than there is. `PROJECT.json` lists each
hazard at its line with the properties that watch it.

## Modules

| Module | Models | State and actions |
|---|---|---|
| `Accounts` | what the ledger promises its callers | `balance`, `posted`; `Post` books a transaction's new keys for one user atomically |
| `Ledger` | `core/ledger.ts`, one action per statement | `lock` = advisory locks, `rows`/`records` = committed rows, `pend` = what the open transaction wrote, `read` = the aggregate in the local variable. `Begin`, `Credit`/`Debit`, `LockUserBalance`, `FindExistingLedgerResult`, `GetBalance`, `CreateRow`/`Refuse`, `CreateRecord`, `Commit`, `Rollback` |
| `OrderGraph` | `ALLOWED_TRANSITIONS` and the policies of `orders-policy.ts` | constant operators |
| `Fulfillment` | orders, delivery, settlement, expiry, refund, operators | `status`, `paidAt`, `payload`, `owner` (a stock item's order), `ledger` (booked keys of an order) are the committed rows; `pc`, `job`, `tries`, `tx` the handlers and their open transactions |
| `TronSettlement` | a sweep of `chain-scan.worker.ts` (`tron-match.ts`, `money.ts`, `balance-topup.ts`) against balance payments and the expiry job | `rows` = payments, `booked` = ledger keys, `payer`, `flags`, `told` (the remainder a customer was asked for); `sweep` = what each sweep read at its start and where it stands. `Begin`, `LoadCandidates`, then for each transfer `Skip`, `Resume`, `flagUnmatched` or `Bind`, and the settlement the order calls for: `settleOrderPaid`, `settleOrderCompleted`, `settleUnderpaid`, `settleLate`, `flagDoublePaid`, `settleTopup`, each one transaction; `enqueueDelivery`, `Finish` with the reconciler; `TransferFails`, `SweepDies` |
| `TronTags` | `allocateTronTag` of `payments/tron.ts` and `createTronPayment` | open invoices, the reservations in Redis with their lifetimes, the clock; `ReadOpen`, `Reserve`, `InsertInvoice`, `Refuse`, `Settle`, `Tick` |
| `Payments` | invoices, `cryptobotWebhook.ts`, `payments-poll.worker.ts`, `topup.ts`, `stars.ts`, over payments of one order and of top-ups | `pays` = payment rows, `invoices` = what the provider knows, `buyer`, `credited`, `anomalies` (flags), `hand` = where a handler stands. `Webhook`, `SuccessfulPayment` and `pollBegin` start handlers; each read and each write of theirs is a step; `Slip` is a death or an error between any two |
| `Subscriptions` | `core/subscriptions.ts`, `subs-remind.worker.ts`, the renewal button | `subs` = rows of one user and plan, `charged` keys, the purse, the day; `ReadCurrent`/`CreateRow` after a delivery, `Press` or `Sweep`, then `ReadSubscription`, `Renew` or `ExpireRow`; `Dies` |
| `DeliveryQueue` | `queues/delivery.ts`, `delivery.worker.ts`, `queue.ts`, `reconcileUndeliveredOrders` | `queued` = the job of an order's id (waiting, active, retained), `sale` = the order through its delivery, `runner`; `Pay`, `enqueueDelivery`, `Take`, `markDelivering`, `deliverGoods`, `settleFailedDelivery`, `AttemptFails`, `Dies`, `Retire`, `reconcileUndeliveredOrders` |
| `Promos` | `createOrder` with its idempotency key, and the ends of an order, over one code | `used`, `placed` = orders, `holder` = who has the promo row locked; `FindExisting`, `claimPromoUse`, `InsertOrder`, `FindLive`, `releasePromoUse`, `CloseOrder`, `Rollback` |
| `Referral` | `creditReferralBonus` of `core/referrals.ts` after a delivery | `standing` = orders of one referee, `bonuses`; `ReadOrder`, `CountPrior`, `CreditBonus`, while orders `Advance` |
| `SettingsCache` | `core/settings.ts` | `stored` row, `cached` copy; `ReadRow`, `FillCache`, `WriteRow`, `DropCache`, `Expire`, and calls to Redis that fail |
| `Broadcast` | `broadcast.worker.ts`, `broadcasts.ts` of the admin | `post` = the row's status, `task` = its job, and how far admins, senders and the sweep are; `Click` and the admin's writes, `Take`, `Claim`, `FanOut`, `Finish`, `SweepRead`, deaths |
| `Pricing` | `core/pricing.ts`, `money.ts`, `stars.ts` over the two handlers that create orders | `plan` = the row an admin edits, `seen`, `bought`, `asked`; `createOrder`, `createTronPayment`, `createStarsPayment`, `upsertPlan`, `deletePlan` |
| `MCLedger`, `MCFulfillment`, `MCPayments`, `MCSubscriptions` | instances for TLC | |
| `MCShop` | the composition of `TronSettlement` to `Pricing` | see below |
| `Ledger_proofs`, `Fulfillment_proofs`, `TronSettlement_proofs`, `Payments_proofs`, `Promos_proofs`, `Subscriptions_proofs`, `Pricing_proofs` | theorems about the module each is named after | |
| `MCShop_proofs` | theorems about `TronTags`, `Referral` and `DeliveryQueue`, and about the composition | |

`Ledger` implements `Accounts` (`INSTANCE Accounts WITH posted <- records`). `Fulfillment` builds on
that result: there a ledger call is one step (`Book`) that needs the buyer's lock, because `Ledger`
shows that a call is atomic once the lock is held and that the lock stays to the end of the transaction.

`MCShop` puts the other components side by side: they share the processes, and their variables are
disjoint, since in the code they meet only over an order's status and the ledger, both of which each
component keeps as far as it looks at them (an order is also paid by another rail, the balance also spent
elsewhere). A constant `focus` chosen in `Init` names the component whose actors run in a behaviour; the
others stand still, because interleaving steps of unrelated rows would multiply the states and decide
nothing. Four set a module up otherwise: `rivals` is one process that issues two invoices
of one order, `queue` one worker at two orders, `rerun` two workers at one order, and `thirds` three
transfers, all short of the order, by sweeps that take turns (`tron` is two transfers and sweeps that
overlap). Each property is that of its module.

The same reading of the code runs through all of them: a statement that reads is one step, the
statement that writes what was decided on it is a later one; `updateMany … WHERE status` is one step
with its condition (the compare-and-sets of `chain-scan.worker.ts`), `update … WHERE id` is one
without; a process may die between any two, and then loses its open transaction only.

Conventions of `Fulfillment`:

* A mutator of `orders.ts` is two actions, named after the function and after its write:
  `MarkPaid`/`SetPaid`, `MarkDelivering`/`SetDelivering`, … The first reads (`Seen`: the
  transaction's own write, else the committed row) and checks `assertTransition`; the second is the
  `UPDATE … WHERE id`, which waits for the row (`RowFree`) and does not look at the status again.
* A process is a running handler. `Begin` starts one at any time: a press, a repeated webhook, a
  job or its retry, a scan, an operator. After a payment commits the same process goes on to deliver.
* `Leave` is every way a handler ends without effect; an open transaction is discarded. `Crash` is a
  process dying at any statement. `StatementFails` is a lost connection, a timeout or a deadlock
  Postgres breaks, *inside* `fulfillOrder`, whose `catch` then settles the order.
* The stock claim reads committed, unlocked rows (`Claimable`); the unique index on
  `stock_items.orderId` is in `BindItem`.
* Encryption, currency, wording, notifications, events and audit rows are left out; amounts are
  reduced to "free or not" (an order's own amount is the only amount its ledger keys move).
* An operator named *Variant* in its comment is a plausible bug, kept beside the action it
  replaces when a property is tested for being able to fail; no specification uses it.

## Runs and what they show

| Run | Instance | Properties |
|---|---|---|
| `ledger` | 2 processes, 2 users, 4 keys, amounts 0 and 1; rollbacks anywhere (93,306 states) | types; `BalanceNeverNegative`, `PostedOncePerKey`, `RecordInsertNeverCollides`, `CheckedBalanceIsCurrent`; `ImplementsAccounts` (refinement); `LockEventuallyServed` (liveness) |
| `overlap` | 1 order of every kind × rail, 2 items, 2 overlapping handlers, crashes (145,120) | types; `BurnedItemIsStored`, `ChargedIffPaid`, `NothingForUnpaid`, `FailedMeansRefunded`, `DeliveredHasPayload` |
| `stock` | 2 orders from one pool of 2 items, 2 overlapping handlers, crashes (714,606) | `OneBuyerPerCredential`, `SoldIsForever` |
| `serial` | an order of every kind × rail beside a pool order, handlers of *one* order never overlapping, crashes (237,164) | `RefundedAtMostOnce`, `GoodsOrMoneyBack`, `ChargedIsNotExpired`, `StatusFollowsGraph`, `PayloadIsFinal` |
| `lastItem`, `refunds`, `expiry`, `operators` | 1 order, 2 overlapping handlers, no faults at all | one of the `serial` properties each, violated: see [below](#where-the-code-and-its-comments-disagree) |
| `shop` | every component of `MCShop`, two actors at once, deaths and errors (2,085,400) | types; the invariants and the action property of the next table |
| `liveness` | seven of them under the fairness of repeatable jobs (64,305) | the six temporal properties of the next table |
| `closed` | one CryptoBot invoice and an order that expires | `ClosedPaymentIsFlagged`, violated: see [below](#where-the-code-and-its-comments-disagree) |
| `stacking` | two purchases and two renewals of one plan | `PaidDaysAreKept`, violated: see [below](#where-the-code-and-its-comments-disagree) |

| Property | What the runs `shop` and `liveness` show |
|---|---|
| `OneOutcomePerTransfer`, `SettledIsFinal` | overlapping sweeps, retries and deaths give a transfer one row, and then one order or one credit of all of it; a settled row stays settled |
| `BoughtIsCovered` | an order bought over the chain was paid in full by its transfer and what was taken back from the balance for it |
| `ReclaimIsBacked` | what is taken back from the balance to complete an order was credited for a short payment of that very order |
| `RemainderIsRecognised` | the remainder a customer is asked for, sent in time, lands on that order and not in the unmatched pile, unless there was another short payment of the order meanwhile, or another transfer has completed it (see below) |
| `TagsAreUnique` | two open TRON invoices never ask the same amount, though reservations lapse and issuers die |
| `BuyerHasPaid` | an order is sold only for money that came in full, and its row says PAID, whoever of webhook, update and poll was first |
| `TopupsAreExact` | a top-up is credited if and only if its row is PAID, and only for money in full |
| `FlagMeansNoPurchase` | a payment that bought the order is never flagged as money without a purchase |
| `RenewalChargedOnce` | the button and the job may renew one period at once: one charge for each period |
| `UsesAreLiveOrders` | a promo counter is the number of live orders that have the code, never above its limit, whoever races for the last use, repeats a key or rolls back |
| `OneBonus` | one bonus for a referee, though nothing is locked, unless an order was given back |
| `AskedIsOwed` | the total is exact but for half a cent a unit and half a cent for the code, a tagged amount gives back its cents and its tag, Stars are worth the total within half a Star, whatever an admin edits meanwhile |
| `EveryTransferIsSettled` | a transfer is settled or flagged, whichever sweep dies where, and the order it bought gets its delivery job |
| `MissedWebhookIsMadeGood` | money in full whose webhook never came buys, is credited or is flagged |
| `LapsedIsClosed` | a subscription does not stay ACTIVE past its end, however its renewal was refused or died |
| `PaidIsServed` | a PAID order is delivered, refunded or with an operator, unless it is lost in DELIVERING (below) |
| `SettlesOnRow` | once a setting is left alone, the cache holds its value or nothing, for good |
| `ArmedPostIsSettled` | a post does not stay armed, nor SENDING, whoever dies between the row and the job |

The split is the result. Five promises survive arbitrary overlap, because they rest on a transaction,
a unique index, or the advisory lock; so do the two about stock. The five of `serial` rest on an order
not changing between a mutator's read and its write, which nothing enforces: they hold when handlers
of one order take turns, whatever dies or fails or is repeated (proved, for any number of orders and
handlers), and four of the `violation` runs show the shortest overlaps that break them.

## Bounds

* `Ledger`: a third process adds waiters for a lock two already contend for. Three keys of one user are
  the least that can overdraw: a credit, and two debits it covers one of (with two keys the balance stays
  non-negative even without the lock). The second user shows that locks and balances do not mix. Amount 0
  is refused; 1 is affordable or not, depending on what was posted. A key is posted once, so the balance
  is bounded without an extra bound.
* `Fulfillment`: the hazards are pairwise (a read–write pair of one handler around one of another). Two
  items are one more than an order may take; with one item (`lastItem`) the pool runs dry. Two payloads
  are enough to see one replaced. `Attempts = 2` instead of 3 keeps a first and a last supplier attempt.
  Handlers can start any number of times.
* Symmetry is used on processes, sweeps and (in `stock`) orders and items, which are interchangeable
  there, only in runs without liveness.
* `TronSettlement`: a cent is 3 units instead of 10,000 and there are 2 tags; an order asks 7, a top-up 5.
  A transfer of 4 is short of the order by what a second one of 4 completes, 10 is a cent too much, 3 has
  lost its tag; none but 3 is whole in cents, so that both roundings occur. Two sweeps are the most that
  matter to one compare-and-set, two transfers the least for a short payment and its rest. `SpendBound` 2
  lets the buyer spend what a short payment credited; `FaultBound` 1 is one death or error at any
  statement, after which the sweep is repeated. A third transfer is what it takes for a remainder that
  comes too late for its order or beside another short payment; with overlapping sweeps it is too much,
  so that `thirds` has it with sweeps that take turns. Both exceptions of `RemainderIsRecognised` occur in
  `thirds`: without either, TLC finds it violated.
* `Payments`: two CryptoBot invoices and one Stars invoice of one order, one top-up on each rail, two
  processes, one slip (a handler that dies or fails); a webhook may always stay away. `IssueBound` 1, 2 in
  `rivals`.
* `Subscriptions`: 2 checkouts, 2 renewals, periods and horizon of a day or two, a purse for one renewal.
  `DeliveryQueue`: 2 attempts instead of 5, 2 shocks. `Promos` and `Referral`: 3 orders over a code of one
  use. `SettingsCache`: 2 values, 2 failures of the cache. `TronTags`: 2 issuers, 2 tags, a reservation of
  3 ticks. `Broadcast`: 2 clicks, 1 stumble.
* `Pricing` works in real units (10,000 in a cent, 100 tags): 4 plans with and without a discount,
  quantities 1 and 3, no code and four kinds of code, 2 Star rates, the least and the greatest tag. The
  proof removes the bounds.
* `liveness` drops symmetry and takes one sweep with two amounts over an order and a top-up, one invoice
  on each of two rails, one checkout: each property is about one thing that must go on, and rivals are the
  business of `shop`.

## Fairness

`LiveSpec` of `Ledger`: strong fairness on `LockUserBalance`: Postgres queues
waiters of an advisory lock in order. Weak fairness on the steps of a call: a statement returns or
fails. Strong fairness on ending a transaction that is between calls (`Commit` or `Rollback`): the
callers make a fixed, small number of ledger calls, and Prisma's interactive transactions are rolled
back by a timeout. Nothing assumes a transaction commits rather than rolls back, or that a process survives.

`FairShopSpec` of `MCShop`; since one component runs, a disjunction over components says of each what it
would say alone:

* Weak fairness on the sweeps of the chain and on the steps of a started handler (`SweepGoesOn`, `GoesOn`,
  `SenderGoesOn`): an `await` returns or throws, unless the process dies; deaths and errors are bounded,
  as every fault is.
* Weak fairness on time where a component waits for it (`TimePasses`: a cache entry expires, a post goes
  stale) and on `RipensOrRetires` (BullMQ promotes a delayed job and removes a retained one).
* Weak fairness on `Reconciles` and strong fairness on `TakesUp`: BullMQ repeats the sweep, the poll, the
  subscription job and the reconciler for ever, and hands a waiting job to a worker. Strong, because a
  busy worker disables it now and then.

No fairness on webhooks, on the buyer, on operators, nor on a transaction's success: what is delivered
rests on the repeated jobs alone.

## What is proved

Every invariant and every action property that a passing run checks is also a theorem, for every value
of the constants that satisfies the named assumptions of its module; the ledger's refinement too.

`Ledger_proofs` (checked by TLAPS, for any sets of processes, users, keys and any natural amounts,
from the named assumptions of `Ledger`: a key belongs to one user, amounts are naturals, the null
values are not members):

* `InductiveInvariant`: `Spec => []IInv`.
* `TypeCorrect`, `NeverNegative`, `ExactlyOnce`, `CheckIsCurrent`, `RecordsNeverCollide`: the
  invariants of the run `ledger`.
* `Refinement`: `Spec => ImplementsAccounts`.

The invariants are not inductive: that a balance stays non-negative at a commit needs the
transaction's sum to be covered *now*, though it was checked some statements ago. `IInv` adds why it
is: a transaction that is past the lock statement of a call or has written anything holds the lock of
the one user it works for (`Locked`), so what it has read of that user's balance (`ReadIsCurrent`) and
keys (`KeyIsFresh`) is still true, and what it has written is covered (`PendingCovered`). All of it is
a predicate `Good(p)` of one process. A step of `p` keeps `Good(p)` action by action; it keeps
`Good(q)` of another process because nothing of `q`'s user changed (`Frame`), or because `q` has
neither written nor read anything yet (`Waiting`). The second case is needed only by `Commit`.

`Fulfillment_proofs` (for any sets of processes, orders, users, items and payloads, any catalogue and
any positive number of attempts; from the named assumptions of `Fulfillment`):

* `InductiveInvariant`: `Spec => [](IInv /\ TriesLeft)`.
* `TypeCorrect`, `PaymentIsAtomic`, `UnpaidGetsNothing`, `FailureIsRefunded`, `DeliveredIsShown`,
  `BurnedIsStored`: the invariants of the run `overlap`.
* `CredentialIsExclusive` and `SoldStaysSold` (an action property): those of the run `stock`.

In `Spec`, the status of an order is no ground for a proof: it is decided on stale reads, and the runs `refunds`
and `expiry` show it going backwards. What only grows does not go stale: `paidAt` stays set, a booked
key stays booked, a sold item stays with its order. `Good(p)` says, by the statement handler `p` is at,
which of these it has seen (`PaidFirst`, `Booked`) and what its transaction adds to them: a payment
that reaches its commit has both the debit and the PAID update, or has found the order paid
(`PaymentCovered`); FAILED and REFUNDED are written beside a refund (`RefundCovered`); DELIVERED
beside the payload in hand (`Holding`), which, if it is a stock item, is sold to the order already or
by this very transaction (`ItemHeld`). `Apart` keeps two transactions from one item and from one
order's unique index. `Frame` then carries `Good(q)` over any step of another handler that takes
nothing away; a step that commits nothing (`LocalStep`) owes only its own `Good(p)`; and only
`SetDelivering`, `SetDelivered` and `Commit` owe the committed rows anything. `TriesLeft` is apart
because only the type of `tries` needs it.

From `SerialSpec`, where handlers of one order take turns: `SerialInvariant`, and the five properties of
the run `serial`: `MoneyBackOnce` (`RefundedAtMostOnce`), `GoodsOrMoney` (`GoodsOrMoneyBack`),
`ChargedIsLive` (`ChargedIsNotExpired`), `StatusTakesEdges` (`StatusFollowsGraph`, an action property) and
`PayloadStays` (`PayloadIsFinal`, an action property). Here the status can be followed. `Fresh(p)` says,
label by label, that what handler `p` has read of its order's status and refunds still holds when it
writes; `Settled(o)` says what the committed status of an order tells of its payment, payload and
refunds. `SerialInv` is `IInv` with both and with the turns (`Serial`). A step of one handler owes only
its own `Fresh` and its own order's `Settled` (`OneHandler`, `OthersFresh`), because every other handler
that is not idle works on another order. Only a commit changes an order (`CommittingSerial`).

`Payments_proofs` (for any payments on either rail, of the order or top-ups, and any number of
handlers; from `Constants` of `Payments`): `InductiveInvariant`, `TypeCorrect`, and `SoldForMoney`,
`CreditedExactly`, `FlagsAreRight`, which state `BuyerHasPaid`, `TopupsAreExact` and
`FlagMeansNoPurchase` of the run `shop`. A handler writes on what it read some statements ago, so
`Good(h)` says what of that cannot go stale: a row that was PAID still is, money that came has come, a
closed order stays closed (`Keeps`). `Books` relates the committed rows: PAID means money in full, a
flag means a closed order, a pending order has no buyer. A step of one handler is proved action by
action (`HandlerStep`), and `Frame` carries the others over it; the checkout, the customer and the
rest of the shop move no handler (`Elsewhere`).

`Pricing_proofs` (for any plans, quantities, codes, Star rates and tags that satisfy `Constants`, the
assumptions of `Pricing`): `ChargedExactly`, the invariant `AskedIsOwed` of the run `shop`. `RowsInductive`
says that an order's row carries what was priced when it was created, whatever the operator edits
afterwards; the rest is arithmetic of roundings, each a lemma (`Total`, `PercentDiscount`, `Rounded`,
`TagRoundTrip`, `StarsAreExact`). Products of two unknowns and integer division are out of the SMT
solver's linear reach, so these lemmas name quotients and remainders and multiply bounds by hand.

`TronSettlement_proofs` (for any number of sweeps, transfers and invoices, any amounts and any unit; from
the assumptions of `TronSettlement`: transfers and invoices are finitely many, a transfer is not worth
nothing, and `AskAssumption`: no two open invoices have one tag, which `ShopKeepsTagsApart` proves of
`TronTags`, and an order has one of them). In three layers:

* `InductiveInvariant` (`IInv`). `Core` is about the committed rows: a transfer is on one row
  (`RowsInv`), a PAID order has a payer whose row is PAID (`OrdersInv`), a settled row has bought its
  order, was credited or is worth less than a cent (`BooksInv`), and what bought an order covers what its
  invoice asks (`CoveredInv`). `Sound(w)` is about one sweep: what it read at its start and at its last
  statement, as far as it is still so (`Reads`), and what it is about to settle (`Settles`). `Keeps`
  names what no step takes back: a transfer in the wallet, a closed order, a bound row, a settlement;
  `Frame` carries `Sound` of the other sweeps over every step that keeps these. From it:
  `SettledOnce` (`OneOutcomePerTransfer`), `SettlementsAreFinal` (`SettledIsFinal`, an action property) and
  `OrdersArePaidInFull` (`BoughtIsCovered`).
* `BackedAlways`: the sum that completes an order is read outside the transaction that takes it back, so
  what was credited when it was read must still be credited when it is booked. Credits of short payments
  only grow while the order is open (`CreditsGrow`), and the remainder in whole cents is at most what they
  sum to (`RemainderCovers`): `ReclaimsAreBacked` (`ReclaimIsBacked`).
* `HeardAlways`: a customer's remainder carries the tag of an invoice that is short or sold, and a sweep
  that still has the answer to do has that invoice among its candidates, unless the tag was given up or
  the order sold; a match fails only when a second short payment shares the tag: `RemaindersAreRecognised`
  (`RemainderIsRecognised`). `TypeCorrect` comes last, since a reclaim is a natural number only
  because it is backed.

`Promos_proofs` (from `Constants` of `Promos`): `UsesAreCounted`, the invariant `UsesAreLiveOrders` of
the run `shop`. The counter and the orders change in different statements; between them the handler holds
the promo's row, and `Good(c)` says by how much its transaction is ahead of the count. `CountLive` is the
cardinality that one order's change adds or takes.

`Subscriptions_proofs` (from `Constants` of `Subscriptions`): `TypeCorrect` and `RenewedOnce`, the
invariant `RenewalChargedOnce` of the run `shop`. The invariant adds that rows, charged keys and the purse
say the same (`Money`), and what a caller has read of rows, which are never removed (`Keeps`). That the
end of a period is a number of days needs that the latest row exists (`HasMax`).

`MCShop_proofs` (from `ShopAssumption`, the assumptions of the components together):

* `ShopSellsForMoney`, `ShopCreditsExactly`, `ShopFlagsRightly`, `ShopRenewsOnce`, `ShopCountsUses`,
  `ShopAsksWhatIsOwed`: the invariants of `shop` whose components have proof modules. A step of the shop
  is a step of each component or leaves its variables alone (`StepOfOne`, `StepOfPay`, `StepOfPromo`, …),
  so what was proved of a component holds in the shop.
* `ShopPaysOneBonus` (`OneBonus`, about `Referral`): nothing is locked there, so `BonusInv` reasons about
  which orders can still earn: of two orders that either have earned a bonus or have been found the first
  (`Earning`), one has been given back.
* `ShopKeepsTagsApart` (`TagsAreUnique`, about `TronTags`): `Prudent` bounds in time what a checkout holds
  of a tag, `Apart` keeps two checkouts from one tag; both rest on 2 × `Patience` < `Hold`, that is, on a
  request being over long before its reservation lapses.
* `ShopTypes` (`ShopTypeOK`): the types of every component. Those of `DeliveryQueue` need an invariant of
  their own (`QueueInv`): a job is active under one worker only, and one that is not finished has attempts
  left.

Sums and maxima over finite sets are reasoned about by least counterexample: the strict subsets of a
finite set are well-founded, so a set for which a fact fails has a smallest such subset (`SetInduction`,
`HasMax`).

Only model-checked: the seven temporal properties `LockEventuallyServed`, `EveryTransferIsSettled`,
`MissedWebhookIsMadeGood`, `LapsedIsClosed`, `PaidIsServed`, `SettlesOnRow` and `ArmedPostIsSettled`. They
rest on fairness, hence on which actions are enabled, which the provers cannot reason about.

## Where the code and its comments disagree

Each is a counterexample of a `violation` run, without crashes or failures; the traces are short.

* **`lastItem`** Two runs of one delivery (a confirming process and a worker job). The first holds
  the last stock item uncommitted; the second's SKIP LOCKED sees none, and it settles the order as sold
  out: FAILED with the money back, over the first one's DELIVERED. The test
  `e2e/src/concurrent-fulfillment.test.ts:200` expects every run to reach the same conclusion.
* **`refunds`** A refund commits between `markDelivering`'s read and write, so the order goes back from
  REFUNDED to DELIVERING; the delivery fails and is settled under another ledger key
  (`orders.ts:330`: "at most once per order, whichever path already ran").
* **`expiry`** A payment commits between `expireOrder`'s read and write; the order ends EXPIRED with the
  money taken (`bot/domain/orders.ts:194` and `:315`).
* **`operators`** Both operators read DELIVERING; the second `markDelivered` replaces the payload the
  first buyer message already showed (`manual-delivery.ts:37`).

In these four a conditional update (`WHERE id AND status`), as `chain-scan.worker.ts` uses, would refuse
the late write.

* **`closed`** A CryptoBot invoice is paid after its order has expired. The webhook writes the payment
  PAID, swallows the order's refusal and answers 200 for good (`cryptobotWebhook.ts:209`); the poll
  looks at open payments only, so the flag that `docs/PAYMENTS.md:269` promises is never set.
* **`stacking`** A plan bought twice gives two ACTIVE rows, one after the other; the renewal of the
  first starts at its own end (`subscriptions.ts:165`) and runs beside the second, so days that were
  paid for are paid again (`subscriptions.ts:11` and `:168`).

The modelling also met the following, which no run asserts:

* A sweep that overlaps another may flag a transfer as unmatched that the other has just settled:
  `flagUnmatched` does not look again. A second short payment of an order makes its tag ambiguous
  (`tron-match.ts:67`), so that the remainder sent after it ends in the unmatched pile; so can a remainder
  that is seen after another transfer has completed the order.
* Two enders of one order (expiry and a refund, say) may both release its promo use
  (`orders.ts:144`); `Promos` lets them take turns. The loser of a race on one idempotency key
  re-reads inside a transaction Postgres has already aborted, and so gets an error
  (`orders.ts:191`); the caller's retry succeeds.
* A renewal's order is PAID, so the reconciler delivers it; when that delivery fails, it refunds the
  charge and the period stays (`subscriptions.ts:114`). A new subscription starts at `paidAt`, so a
  late delivery costs days.
* A refund and a second purchase earn the referrer a second bonus; two orders paid at once may earn none; an
  order delivered by the worker earns none, since the bonus is credited by the bot's handler.
* An order whose worker dies in DELIVERING is nobody's: the reconciler takes PAID orders only, against
  `bot/domain/orders.ts:188`. `PaidIsServed` excepts it by name.
* The buyer's notice of `delivery.worker.ts:80` may promise a refund that the settlement did not make. A
  job that is retained blocks a re-enqueue of its order until its retention ends.
* A cancel can be overwritten by SENT, and two presses of "Send" on stale pages arm a post twice.
* `tron.ts:80` says that an outage of Redis degrades the reservation; the code refuses the invoice (`:111`).
* `pricingForOrder` shows the discount of the plan as it is now, not as it was bought; a price of less
  than half a Star is asked as 0 Stars.

## Not modelled

`RESERVED` stock, because no production code sets it. In the modelled components: signatures, HTTP
clients, the scan cursor (a transfer is seen by every sweep that starts after it), the reuse of an open
top-up, the validity of a promo code by date, reminders, and `findExpiring`/`expireSubscriptions`, which
nothing calls. Events, notifications and audit rows are written after the fact and never read back. The
breaker's counters are a choice (`BreakerOpen`). A collision of `hashtext(userId)` makes two users share a
lock, which only orders more.

By far most of the repository's 37,000 lines have no protocol to check: the two Mini Apps and the admin
panel are React clients and dictionaries of texts, the bot's handlers mostly render screens, and
catalogue, content, users, sessions, login limits and stock upload are reads and single-row edits.
Modelling them would restate assignments. What is mapped are the lines that decide money, order
status, goods and the order in which these change.

## Plan

Done: the components and their runs; proofs of every invariant and action property the runs check, and
of the ledger's refinement. Left, in this order:

1. Abstract specifications beside `Accounts`: the outcome of one transfer (seen, bound, then goods or
   balance, once) and the life of one order, with `TronSettlement` and `SerialSpec` shown to implement
   them, step by step, from `IInv` and `SerialInv`.
2. Shorter proofs: the lemmas of `TronSettlement_proofs` that follow one sweep have one shape.
