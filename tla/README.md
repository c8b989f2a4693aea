# AGRIM-Mobile: a formal model

AGRIM-Mobile sells rice: a mobile application (`src/apps/mobile`), an API
(`src/apps/api`, NestJS on PostgreSQL through Prisma), and shared rules
(`src/packages/contracts`). The goods belong to a second system, AGRIM's **web
site**, which reserves, confirms and releases them over HTTP; a second mode
(`STOCK_MODE=local`) keeps them in the API's own database.

This directory models what happens when several requests, jobs, telephones and
external services work on the same rows at once, answers are lost, applications
are killed and processes recycled. Everything is TLA+, checked with TLC on small
instances and proved with TLAPS for every value of the constants: every safety
property the runs check is a theorem, liveness alone is only model-checked.

    tlc -workers 2 -config sessions.cfg Sessions        one run
    tlapm SettlementProofs.tla                           one module of proofs

`PROJECT.json` lists the components, the runs, the hazards each property is
about, the source lines of every definition, and for every property a faulty
variant of the code that breaks it.

## 1. The system

### Components, state and operations

| Component | State it keeps | Operations | Speaks to |
| --- | --- | --- | --- |
| Order row (`orders.service`, `management.service`, `common/stock/order-stock.ts`, contracts) | `order.status`, stock journal, order events | customer cancels; manager advances or cancels; conditional switch to CANCELLED | site (release), notifications |
| Order placement (`orders.service.create`) | orders by idempotency key, counter, redemptions | replay, checks, reserve, transaction, compensation, confirm, redeem | site, promotion codes, checkout screen |
| Local checkout (`checkout.service`, `common/stock`) | variant stock under row locks, journal | sell, cancel, adjust | outbox |
| Guest checkout (`guest-checkout.service`, `guestPayment.ts`) | technical profiles, access tokens in the vault | profile per attempt, its removal, access to the payment | placement |
| Prices and quotes (`cart-quote`, `site-pricing`, `promo.ts`) | prices, promotions, codes | price a cart, three readers | site |
| Promotion codes (`promo-codes.service`, `direction/promotions`) | `usedCount`, redemptions, terms | evaluate, redeem, edit, publish, withdraw | placement |
| Aggregator payments (`payments.service`, CinetPay) | `payment.status`, window, register of webhooks | initiate, webhook, poll, sweep, settle | gateway, order row, outbox |
| Direct transfers (`direct-payments.service`) | declarations, their review | declare, review, confirm, reject | order row |
| Methods of payment (`payment-methods.service`, `resolve-method`) | `paymentMethodConfig` rows | upsert, withdraw, list, resolve, show | placement, transfers |
| Deliveries and codes (`deliveries.service`, `delivery-otp.service`) | one delivery row per order, codes, attempts | assign, courier update, issue, resend, verify, close | order row, site (finalise), referral |
| Tracking (`tracking.service`, `useCourierTracking`, `LiveTrackingCard`) | queue of measures, trace of a run | measure, send a batch, read the card | deliveries |
| Referrals (`referrals.service`, `deliveries.service`) | `referredById`, `referralRewardedAt`, credit | register with a code, credit at the first delivery | deliveries |
| Cron locks, outbox, messaging (`cron-locks`, `outbox-drain`, `messaging.dispatcher`) | lease rows, events, journal of messages | acquire, claim, send per channel, retry, abandon | providers |
| Notifications (`notifications.service`, `usePushRegistration`) | notices, push tokens | write, deliver detached, SMS fallback, register, remove | push and SMS providers |
| Site catalogue and grid (`catalog-sync.service`, `delivery-grid`) | copy of products, grid in memory and in a row | synchronise, refresh, resolve a zone | site |
| Sessions (`auth.service`, mobile `client.ts`, `store/auth.ts`) | refresh tokens, reset codes, session on the device | sign in, rotate, revoke, change or reset the password | mobile |
| Mobile cart (`store/cart.ts`) | lines in memory and on the disk | add, change, hydrate, clear | placement |
| Screens, roles, query cache (`app/`, `api/*.ts`, `roles.guard`) | what a screen shows, cached answers | buttons, refetch, mutations | every route |
| Producers, addresses, analytics | farms and declarations; addresses; none | edit and examine; default and removal; thirteen statements | – |

### How they interact

Almost every handler has the same shape: **read** the rows, **decide**, possibly
**call** another system, then **write in a later transaction**. No lock survives
from the read to the write, except in the local checkout. Four devices keep the
result right, and the models are about whether they do:

* an `UPDATE … WHERE status IN (…)` that only one caller can win
  (`cancelOrderAndReleaseStock`, `settle`, `confirm`, `assign`, code
  consumption, outbox claim, cron lease);
* a unique key (idempotency key of an order, webhook register, transfer
  reference, one delivery per order);
* an idempotent call keyed by the idempotency key of the order (the site);
* row locks in one order (local stock).

### Which behaviours are hard

* *Read, then write.* Two requests decide on the same state, and the second
  write is unconditional (`management.service.ts:372`, `payments.service.ts:252`,
  `producers.service.ts:394`, `payment-methods.service.ts:92`).
* *Two systems.* The database commits, the call to the site is lost, or the
  other way round; compensations may undo what another attempt has done.
* *Late truth.* A payment is validated after it expired; a webhook is repeated,
  lost, forged or early; a screen, a cache or a form shows what was true.
* *Lost answers.* The telephone gives up after fifteen seconds and sends again:
  orders, renewals of the session, batches of positions.
* *Process recycling.* The hosting kills processes between any two statements;
  leases, PROCESSING rows and reservations stay behind.
* *Limits.* Attempts, declarations, uses of a promotion, retries are read in one
  statement and counted in another.

## 2. The modules

| Module | Models | Rests on |
| --- | --- | --- |
| `OrderStatus` | transition tables of the contracts, pure | – |
| `OrderContract` | *abstract*: what an order promises | `OrderStatus` |
| `PaymentContract` | *abstract*: what the payment of an order promises | – |
| `OrderLifecycle` | the order row and the requests that move it; refines `OrderContract` | `OrderStatus` |
| `AggregatorPayment` | payment by the aggregator, composed with the order row; refines `PaymentContract` | `OrderLifecycle` |
| `DirectPayments` | payment by transfer, composed with the order row; refines `PaymentContract` | `OrderLifecycle` |
| `Deliveries` | the run of the courier and its codes, composed with the order row | `OrderLifecycle` |
| `PaymentMethods` | the numbers customers pay to | – |
| `ShelfContract` | *abstract*: what a shelf promises | – |
| `LocalCheckout` | the local stock row lock by row lock; refines `ShelfContract` | – |
| `CronLocks` | the lease of a job | – |
| `Outbox` | the outbox and its drains under that lease | `CronLocks` |
| `OrderPlacement` | creation of an order while the site owns the stock | – |
| `GuestPurchase` | profile and access of a guest around that creation | – |
| `Billing` | the price of a cart for its three readers | – |
| `PromoAdmin` | a promotion code between its administrators | – |
| `Cart` | the cart of the telephone | – |
| `DeliveryGrid` | the zones and their copies | – |
| `SiteCatalogue` | the copy of the site's catalogue | – |
| `Sessions` | sessions of an account, server and device | – |
| `PasswordResets` | reset codes guessed in parallel | – |
| `Referrals` | the reward of a referral under row locks | – |
| `CourierTracking` | the queue of measures and the trace | – |
| `CustomerTracking` | the card of the customer while couriers change | – |
| `Notifications` | notices, tokens, SMS | – |
| `Producers` | farms, declarations, examinations | – |
| `AddressBook` | addresses and their default | – |
| `Analytics` | the dashboard read while the tables move | – |
| `QueryCache` | cached answers on a device | – |
| `Access` | roles of the routes, calls of the client, spaces of the roles | – |
| `Screens` | the buttons of six screens on one order | `Access`, `OrderStatus` |
| `MC…` | model values, instances and symmetry for TLC | the modules named there |

| Proofs | About |
| --- | --- |
| `OrderLifecycleProofs` | `OrderLifecycle`, its refinement of `OrderContract` |
| `AggregatorPaymentProofs` | `AggregatorPayment`, its refinement of `PaymentContract` |
| `SettlementProofs` | `Deliveries`, `DirectPayments` and its refinement of `PaymentContract`: what else settles an order |
| `LocalCheckoutProofs` | `LocalCheckout`, its refinement of `ShelfContract`; the sums of `Analytics` |
| `OrderPlacementProofs` | `OrderPlacement`, `Billing`, `DeliveryGrid` |
| `ServerProofs` | `CronLocks`, `Outbox`, `Sessions`, `Notifications`, `PromoAdmin`, `Producers`, `SiteCatalogue`, `Screens` |
| `ApplicationProofs` | `PaymentMethods`, `QueryCache`, `GuestPurchase`, `Cart`, `CustomerTracking`, `CourierTracking`, `AddressBook`, `Referrals`, `PasswordResets` |
| `SetSums` | sums over finite sets, least and greatest members of sets of numbers |

### Conventions

A request, a job or a drain is a record with a program point (`at`) and what it
read; one action per step between two database statements or network calls that
another actor could interleave with. The database is `READ COMMITTED`: a
transaction whose effect is one conditional UPDATE is one action, its `WHERE` is
evaluated in the state of the action, and a transaction that reads and then
writes is two. A lost answer, a killed application and a recycled process are
actions of their own. A *history* variable (named as such where it is declared)
records what no row keeps; only bounds read it in a guard. *Faulty variants* stand just
before the definition they alter: each is a plausible slip of the code, and the
property named in `PROJECT.json` notices it.

A property that the code keeps only outside a known circumstance says so: it
carries the set of keys, devices or rows to which that circumstance happened
(`disturbed`, `answerLost`, `unanswered`, `excused`, `stale`…). The circumstance
is as narrow as the code allows, and each is told in "Observed" below.

### Orders: OrderStatus, OrderContract, OrderLifecycle

`status`, `returned` (the ANNULATION movements of the journal) and `reservation`
(the site) are the order; `req` the contexts. `ClientCancel`, `ManagerCancel` and
`ManagerAdvance` are the reads and refusals of the handlers, `CancelWins` /
`CancelLoses` the conditional switch, `AdvanceTxn` the unconditional update,
`ReleaseSucceeds` / `ReleaseFails` the network call that follows.
`OrderContract` says what all that is for: the status follows
`ORDER_TRANSITIONS`, and goods return exactly when the order is cancelled. With
one request at a time the code implements it; with concurrent requests it does
not (see "Observed").

### Payments: PaymentContract, AggregatorPayment, DirectPayments, PaymentMethods

`AggregatorPayment`: `payment`, `providerReference` and the elapsed windows are
the payment row, `gateway` the truth at the operator, `webhookEvent` the register
of webhooks. The customer's initiation is three steps (`InitiateRead`,
`InitiateCall`, `InitiateWrite`) because the gateway is called between the check
and the update. The webhook is `CallbackArrives` (register), then a lookup that
finds no payment, a settled one or an open one, then a verification at the
operator. `Claim` is the conditional update of `settle`; its winner emits or
cancels the order in the same transaction, then releases the goods.

`DirectPayments`: nobody is asked whether the money came; the proof is a reference
and a person. `declaration` is keyed by the *normalised* reference, so `Spellings`
and `Transfer` (one transfer typed in two ways) are what the unique index has to
withstand. A desk reads the payment and the declaration in one round trip and
writes both in a later transaction whose first statement is conditional.

`PaymentContract` is what both ways of paying are for. An order's payment is
undecided, paid or unpaid; money is found for it or not; it holds goods or not.
It is decided once, from undecided: paid on money found for that very order, which
is not let go while the payment stands, or unpaid with its goods returned. `Reopen`
takes a decision back and is a step of its own, because the code has it (a new
opening of a failed payment; the race of `payments.service.ts:252`; a declaration or
a review written after a confirmation); `decisions`
counts, so one opening cannot be decided twice. The aggregator maps its statuses
(`standing`), a transaction paid at the operator (`moneyTaken`), the orders that
hold stock (`holders`) and `settlements`; transfers map SUCCEEDED, an accepted
declaration (`transfersFound`), the same orders and `confirmed`. The handlers in
between are stutters.

`PaymentMethods`: the rows administrators write (an `upsert` reads, then writes),
the list on the telephone, the number the order is made with, and the number the
screen of payment shows.

### Runs of the courier: Deliveries

The delivery row, the closure mode and the codes of each order, beside the order
row. `hand` are the contexts of the handlers: assign, courier update, resend,
verify, manual closure, and the two calls that follow a closure. The issue of a
code is two steps (an invalidation cannot see a code that is not committed yet),
the verification three (read, compare, conditional consume), the closing
transactions two (the order is read, then written, while the delivery row is
locked). The expiry of a code is one of the refusals of `HandAbandons`, together
with recycled processes and refused statements.

### Jobs: CronLocks, Outbox

`lock` is the lease row, `run` the executions, `left` the seconds left, one
`Tick` at a time. `overran` says that some job outlived its lease. `Outbox` adds
events, the drains (the cron's, under the lease; the post-commit one, not) and
what really left per channel. `claimOne` is the `FOR UPDATE SKIP LOCKED`
statement; `sendOn` one channel, which is skipped, sends, fails, or fails *after the
message left* (the answer came after the timeout, `misreported`); a channel of
`Keyed` recognises the key of a message it has accepted; `HandleEnds` the rule that an event is retried only when nothing left;
`JournalFails`, `MarkDoneFails`, `DrainThrows` and `ProcessDies` are the failures
of each statement.

### Purchases: OrderPlacement, LocalCheckout, and what surrounds them

`OrderPlacement`: `screen` is the checkout on the telephone: it gives up after
fifteen seconds, keeps the key after a cut or a 5xx, draws another after a 4xx.
`request` are the contexts of `OrdersService.create`; `orders`, `discounted`,
`used` and `redemptions` the database; `reservation` the site. Each call to the
site has three outcomes: an answer, a refusal, and no answer, with or without its
effect. `Create`, `CreateLoses` and `CreateFails` are the transaction, the
unique-key violation and every other error. The site is external: a released or
expired key can be reserved again, as `testing/site-integration.double.ts` does.

`LocalCheckout` is the other mode. A transaction takes row locks one statement at
a time (`variantLock`, `counterLock`, `orderLock`) and shows its writes at its
commit, which is one step. Variants are numbers because the code sorts their
identifiers before locking them. `ShelfContract` has three atomic actions: sell,
return, adjust.

`Billing` prices a cart for the quote, the local checkout and the order at the
site, from the same rows; the rows are moved by the services that write them.
`Cart`, `DeliveryGrid`, `GuestPurchase` and `PromoAdmin` are the cart of the
telephone, the zones, the guest's profile and access, and the updates of a code by
several administrators, each in two steps, the read and the write.

### Accounts: Sessions, PasswordResets

`token` are the rows of refresh tokens, `epoch` counts changes of password, `app`
is a device (open, killed, its session in memory and in the vault), `call` its
requests. The server checks in one statement and writes in others; the
application shares one renewal among its requests (`refreshOnce`). Renewals may be
lost, time out on the device only, or lose their process; the vault may refuse a
write (`vaultSet` catches it and keeps the token in memory), a deletion or a read.
A session keeps through its renewals the password it was opened with (`since`) and
the changes that met its handler between check and write (`crossed`): both are
history, no guard reads them.

### Screens, and the remaining components

`Screens` puts one order, its payment, its declarations and its delivery behind
six screens. A screen shows rows as they were when it was read; every button the
code draws is an action, one handler one step, so what is at stake is the *old
view*, not the interleaving inside a handler (that is in the modules above).
`Access` gives the roles of every route and asks that a button be drawn only for
roles its route admits. `QueryCache` has the keys, the invalidations and the
overwrites of `api/*.ts`, with reads in flight, which survive their screen in the
two families that do not pass the signal. `SiteCatalogue` runs a
synchronisation statement by statement against a site that is edited.
`Referrals`, `Producers`, `AddressBook`, `Notifications`, `CourierTracking`,
`CustomerTracking`, `PasswordResets` and `Analytics` are small: each has one kind
of row, its handlers in their statements, and the one property named below.

## 3. What the runs check

| Run | Question | Instance | Result |
| --- | --- | --- | --- |
| `lifecycle_concurrent` | do goods return once per cancellation, and only of cancelled orders, under any interleaving? | 1 order, 3 requests, 2 returns | holds, 1 600 states |
| `lifecycle_serial` | do the handlers implement the contract, one at a time? | 2 orders, 1 request | holds, 2 600 |
| `aggregator_settlement` | is a payment settled once, on money taken, and are its goods freed (the payment contract)? is every order that holds goods waited for? | 1 order, 2 openings, a handler, the sweep, a canceller | holds, 1 230 000 |
| `aggregator_sweep` | does an open payment always end? (liveness) | 1 opening, a handler, the sweep | holds, 14 000 |
| `aggregator_reopened` | « aucune transition ne peut les rouvrir » | 2 openings, 2 handlers, the sweep | **violated** |
| `deliveries_closure` | who can close a run, can a code serve twice or for too long? | 1 order, 1 courier, 2 handlers, a canceller, 2 codes, 1 attempt, 1 resend | holds, 1 150 000 |
| `outbox_drains` | one sending per channel and per false report of failure, retries up to the cap, and an end (safety, liveness, no deadlock) | 1 event, mail and WhatsApp, 2 crons, 1 post-commit drain, 2 attempts, lease of 2 | holds, 52 000 |
| `placement_races` | does a sale keep its goods and a code its quota through retries and failures? beside it: one price, the cart, the grid, the numbers | 2 customers, 2 requests, 1 unit, 1 use, 1 key each; 2 variants and 3 prices; 2 instances; 2 administrators | holds, 843 000 |
| `direct_transfers` | does a transfer pay one order, is a declaration never forgotten, a success always explained (the payment contract)? | 2 orders, 2 desks, 3 spellings of 2 transfers, a canceller, limit of 1 | holds, 1 600 000 |
| `local_checkout` | are goods conserved, does every request end, is the whole an atomic shelf? (safety, liveness, refinement, no deadlock) | 3 carts over 2 variants, 2 workers, 1 adjustment | holds, 167 000 |
| `sessions` | who can be taken for a thief, which session outlives its password, does every request end? | 1 device, 2 requests, 2 tokens, 1 change | holds, 500 000 |
| `side_components` | the property of each of thirteen components | below | holds, 1 150 000 |

`aggregator_reopened` is a disagreement of the code with its own comment
(`payments.service.ts:42`): an initiation checked the payment before it was
settled and writes AWAITING_CONFIRMATION over SUCCEEDED (line 252).

### One awake at a time

`placement_races` and `side_components` each hold several components that share no
variable. Each initial state has a `focus`: that component moves, the others keep
one initial state. This loses nothing, since a property of one component reads no
variable of another, and it keeps the number of states a sum, not a product.

| Focus of `side_components` | Property | In a word |
| --- | --- | --- |
| resets | `GuessesBounded` | parallel guesses rewind one another's count, but only so far |
| tracking | `RoadIsKept` | measures stay in order, and none is lost but by a full queue or a screen left with it unsent |
| catalogue | `ShopSaysWhatTheSiteSaid` | a failed or partial run takes nothing off sale; a clean one makes both catalogues equal, row by row |
| screens | `ScreensAndRowsAgree` | a button of an up-to-date screen is accepted, from every role admitted there; the order follows its delivery, whatever old views were acted on |
| cache | `AnsweredMutationIsShown` | after the answer of a mutation, nothing it has read again passes for fresh and is older, but a first read, or one without a screen, that was on its way |
| producers | `ExaminedIsKept` | what was examined is not edited or deleted by who read after it |
| notices | `CriticalNoticeIsHeard` | a push was accepted, or an SMS asked for, never both |
| promos | `CodeGivesWhatWasDecided` | updates that cross leave a code on or off as was last decided, and no percentage above a hundred |
| referrals | `RewardFollowsDelivery` | one credit per referee, mark and credit together, no deadlock of rows |
| guests | `GuestPurchaseIsKept` | no order without its profile, no profile without an order, access kept until paid |
| live | `CustomerSeesTheRun` | the marker never goes back, and belongs to the courier named |
| addresses | `OneDefaultAddress` | one default address, and used ones stay |
| analytics | `DashboardAddsUp` | the statements agree when nothing moved, and shares make a hundred always |

The other focuses of `placement_races` are `billing` (`BillIsTheQuote`: the total
announced is the total billed, or as far from it as the copy of the site is from its
prices), `cart` (`CartIsKept`), `grid` (`GridIsKept`) and
`methods` (`NumbersAreOfficial`).

### Bounds, and why they are enough

`MaxReturns`, `MaxCodes`, `MaxKeys`, `MaxTokens`, `MaxWrites`, `MaxEdits`,
`MaxPoints`, `MaxPresses`, the set `Transactions`… bound otherwise endless
histories; each appears as a guard and is named as a bound where it is declared.
`MaxAttempts`, `MaxResends`, `maxPerOrder`, `MAX_QUANTITY_PER_LINE`,
`offlineQueueMaxPoints` and `SALES_HISTORY_MONTHS` are limits of the code, given
small values so that they are reached at once. `queriesOf` says which queries the
screens of a family open: the catalogue beside the orders, elsewhere the family's own,
since queries meet only when the process restarts. One farm is checked, so a
correction that moves a harvest to another farm is covered by the theorem alone.

Orders do not interact with one another except through the shelf, the quota, the
counter, the reference of a transfer and the reward of a referee; there two or
three of them are taken, elsewhere one. Two or three contexts are enough for a
read-write race plus a third party, and the properties relate at most two
writers. Two openings are needed for a payment to be reopened, two codes for one
to replace another, two attempts of an event for a retry, two tokens for a
rotation, two variants in two orders for a deadlock, two guessers and three wrong
guesses for one count to be rewound by the other, two spellings for a transfer to
be declared twice, two attempts for a guest's key to have a loser. Symmetry is
declared for interchangeable contexts only, and in no run with a liveness
property. The theorems of section 4 remove the bounds for what they state.

`CHECK_DEADLOCK FALSE` appears where the system really comes to rest (every order
ended, every bound spent). `outbox_drains` and `local_checkout` check deadlock.

### Fairness

* `FairPaymentSpec`: time passes (`WindowElapses`, weak), the sweep visits every
  open payment again and again and is not interrupted for ever (`Reconcile` and
  its steps, strong: another handler may hold or settle the payment in between).
  The job runs every few minutes and reads its batch by age. Nothing is assumed
  of the gateway, the webhook or the customer.
* `FairOutboxSpec`: the clock runs, backoffs elapse, the cron keeps calling, a
  drain that is served takes its next step (weak), and crons are not all recycled
  just before their first claim (strong). Nothing is assumed of post-commit drains.
* `LocalFairness`: a worker that can take its next step again and again takes it
  (strong): PostgreSQL queues those who wait for a row, so a lock that is released
  again and again is granted in the end. Nobody is assumed to send a request.
* `SessionFairness`: on the device, the timer of a request fires and an answer
  that arrived is handled (weak). Nothing is assumed of the server.

## 4. What is proved

All theorems hold for every value of the constants, from the named assumptions of
the modules only (finite or disjoint sets, bounds that are natural numbers, a
normalisation that is idempotent, statuses the contracts list); the
few that have a hypothesis of their own say so below. Each property was first
checked by TLC.

**OrderLifecycleProofs.** `IInv` adds to the type invariant what each request knows
at its program point: a context about to release has an order whose cancellation was
counted; `returned` is the number of times the order was taken out of CANCELLED plus
one if it is there now. The conditional switch preserves the balance because it
starts outside CANCELLED; the unconditional update preserves it because `revived`
counts it. From there: `TypeCorrectness`, `SingleWinner`, `SiteFollowsDatabase`;
with no advancing manager `CancellationsReturnOnce`; with a single context the step
simulation of `OrderContract`, `SerialRequestsImplementContract`.

**AggregatorPaymentProofs.** `PayInv` joins `IInv`, what each handler holds (“a
context that says PAID has a transaction that was paid”) and the balance
`settlements = reopenings + (1 if settled)`. `NoUnpaidSuccess` (SUCCEEDED only on a
transaction paid at the operator), `SettlementHasOneWinner` (one settlement for each
opening) and `GoodsAccountedWithPayments` follow;
`FailedPaymentFreesGoods` needs that nobody advances the order, since an
unconditional advance can take it out of CANCELLED. `AggregatorImplementsContract`
is the step simulation under `PayInv`: the operator taking money is `MoneyComes`, a
winning claim `Pay` or `GiveUp`, the write of an initiation `Reopen` when the payment
was decided, any step of the order row `OrderMoves` (`OrderStepKinds`: it
leaves the statuses alone, cancels one order or updates one). `OrdersAreWatched`
(`NoOrderIsForgotten`): no step leaves an order that holds goods with its payment
opened, not paid and waited for by nobody, but a manager's advance, and the recycling
of a refused initiation between its write and its settlement. The sweep, the webhook
and the poll never do, whatever crosses.

**SettlementProofs**, deliveries. Over `IInv`, four parts. `HandsOK`: a handler
works on an order, and on a code of that order. `ClosuresOK`: whoever is about to
close a delivery with a code has a used code of that order, and the mode of a
closure is written before the site is called. `TargetsOK`: no screen of the office
asks for DELIVERED. `CountsOK` is the limit: the attempts of a code *plus the
handlers about to count another failure* never exceed `MaxAttempts + |Hands| − 1`,
because each compared while the count was below the limit; and the verifications
that were accepted number the used codes, since only the winner of the conditional
update accepts. Hence `DeliveryTypeCorrectness`, `DeliveryNeedsCodeOrManager`
(`DeliveredOnlyByCodeOrManager`), `CodesAreBounded` (`CodesHoldTheirLimits`) and
`DeliveriesKeepTheStock`.

**SettlementProofs**, transfers. `DInv` says that desks hold normalised references
of the order they decide for, that stored references are normalised, and the balance
between confirmations and reopenings. `ConfirmedPaymentsAreExplained` (a success has
an accepted declaration of its own order), `NoDeclarationForgotten` (a payment that
waits is in the list the staff works from), `ConfirmationHasOneWinner`,
`OneOrderPerTransfer`, and over `IInv` `GoodsAccountedWithTransfers`.
`TransfersImplementContract` maps a confirmation to `Pay`; a declaration or a review,
whose writes are unconditional, to `Reopen` when the payment had succeeded; and,
otherwise, whatever takes an acceptance back to `MoneyGoes`. `DInv` says that a desk
marks a declaration of the order whose payment it writes; that a rejection is refused
once the payment succeeded is what keeps the transfer that pays. The limit of
declarations, which parallel requests read before they write, is passed by at most
the other requests in flight: `DeclarationsStayBounded` is inductive because it
counts the declarations together with the requests that have passed the check.

**LocalCheckoutProofs.** `WorkerOK` says which rows a transaction holds at each
step, that they come before those it still wants, and that what it read from them is
still true. Hence no stock is negative (`LocalTypeCorrectness`), the journal
explains it (`JournalIsExact`), references are unique (`NoSharedReference`), every
step maps to a step or a stutter of `ShelfContract` (`TransactionsImplementShelf`),
and `NoDeadlock`: among the workers that wait, the one that wants the greatest row
waits for none of the others. `GoodsAreConserved` adds that the orders that hold
goods are finitely many, so that making or cancelling one moves the total by exactly
its cart (`SumTakes`).

**LocalCheckoutProofs**, figures. `DashboardsAddUp`: `BoardInv` says, statement by
statement, that what the dashboard has read is still true while nothing has moved
since it began (`upsets`), so that two sums read at different statements are sums over
the same sales: the last bar of the history is the revenue of the month, the average
basket lies between the cheapest and the dearest order (`BasketBetween`). The shares
need no such proviso: each is within one half of its exact value (`RoundedBetween`),
the largest is at least the average, and with at most fifteen categories what is
missing from a hundred is less than it, so the corrected share stays positive or zero
and the shares make a hundred (`LargestShare`, `SharesMakeAHundred`). Fifteen is the
best bound: with sixteen it is false (“Observed”).

**OrderPlacementProofs**, orders. `PlacementInv` has three parts besides the types:
`KeysInv` (a request past its commit has its order), `GrantInv` (a request let
through has had its goods) and `SaleInv` (goods under creation are held, goods sold
are confirmed *or their own request is about to confirm them*, unless something
failed on the key). The last clause is why an unconfirmed order does not expire
while its request is served. Hence `PlacementTypeCorrectness`,
`NothingSoldUngranted`, `SalesKeepTheirGoods`. `UsesCountedAreSales` needs `UseInv`:
the uses counted are at most the discounted orders *less those whose winner has
still to count*, and an order has one winner.

**OrderPlacementProofs**, prices and zones. `BillsAreTheirQuotes`: two readers that
price the same rows agree on the promotion (`PromotionsAgree`), a fresh copy of the
prices is the prices (`FreshCopyAgrees`: where the site holds the stock no promotion
runs, `SiteRunsNoPromotion`), and where quote and order judge a code differently only
the quota per telephone decides (`PhoneOnlyCounts`). With an outdated copy the two
totals take one discount off two subtotals, which leaves them no further apart
(`DiscountsDoNotWiden`, `CopiesMoveTheBill`).
`GridsAreKept`: `GridInv` says that an instance has one refresh under way, whose
answer is at least the newest it has had; that a memory is at least as new unless it
was overtaken; and, for every stage of a demand, which grid it may hold, one that
gives up having read no row or failed to read it.

**ServerProofs**, jobs. `LockInv`: until a job overruns, the row of the lock
outlives the lease of the one run that executes. `DrainInv`: an event in PROCESSING
has at most one drain, and what has left on a channel is what the drain knows it
sent or what was misreported, at most one per attempt. Hence `LeasesNeverOverlap`,
`EventsLeaveOnce`, `AttemptsAreCapped`.

**ServerProofs**, sessions. `SessionInv` says of each device: a token is known to
one device (`Owner`), its state tells which requests it awaits (`Awaits`), the token
of a renewal is in the answer only (`Fresh`), and, unless an answer was lost or the
vault refused a token, that a token already rotated is in memory or in the vault
only while the answer that replaces it is being handled (`Heard`). Two requests of
one device never renew at once: that is `refreshOnce`, and why a device that hears
and keeps its tokens is never taken for a thief. `PasswordInv` says of the live rows
*and of the handlers that have checked* that they crossed every change since their
session was opened. Hence `SessionTypeCorrectness`, `DevicesDoNotAccuseThemselves`
(`NoSelfInflictedAlarm`), `PasswordsEndSessions` (`NoSessionOutlivesThePassword`),
for any number of devices.

**ServerProofs**, notices, codes, farms. `CriticalNoticesAreHeard`: `DeliveryInv`
says what each stage of a delivery knows of the provider's answer and of the SMS.
`CodesGiveWhatWasDecided`: `CheckedInv` says that a value checked against the row
that was read still suits the row that is there, since no screen sends a type.
`DecisionsAreKept`: `HarvestInv` says that who is about to edit or delete read a row
still DECLARED, and that a decided row keeps the quantity and the decision examined
unless somebody who read before wrote after.

**ServerProofs**, catalogue. `RepeatInv` follows a run through its statements: what
it has written, what it still has to write, and that both come from a feed the site
has really sent. `ShopRepeatsTheSite` (a row never says what the site has never
said) and `CataloguesAgree` (the whole of `ShopSaysWhatTheSiteSaid`, equality after
a clean run included) have no hypothesis. Two references of one product and weight
share a row (see “Observed”), so equality is per row: the one that was written last is
there (`ShelfAgrees`). `AgreeInv` adds that a clean run is alone, that its feed *is*
the site, and that once the catalogues agree the feed of
every run under way is that of the site, so none of its writes can spoil the
agreement.

**ServerProofs**, screens. `ScreensTellTheTruth`: `ScreensInv` has `RowOK`, of the
rows alone (the order follows its delivery, cash is neither declared nor settled, a
declared payment has its declaration, a run its courier), and `ViewOK`, of an old
view and the rows: the method is the same, no declaration was taken back, no run
removed. A button of an up-to-date screen is accepted because its guard and the
refusals of its route are compared on one row; `SpacesReachTheirRoutes` compares,
controller by controller, the roles of every space with the `@Roles` of the routes
it calls.

**ApplicationProofs**, telephones. `NobodyPaysAnUnpublishedNumber`: `ConfigInv`
(what is public was meant to be), `UpsertInv` (what an administrator found still
exists), and, for each telephone, what its order holds (`Held`) and what it may hold
at each point of its purchase (`Course`). `MutationsAreShown`: after the answer of a
mutation, what is marked fresh, *and every answer on its way*, is at least as new,
or was overtaken in flight by a mutation (`Current`, in `CacheInv`). `CartKeepsWhatIsPut`: `KeptInv` says
where the wanted lines are at every stage, memory, disk, or the read under way.
`GuestsKeepTheirPurchase`: `GuestInv` ties attempts, profiles, sales, the telephone
and its vault.

**ApplicationProofs**, runs. `RoadsAreKept`: the batch in flight followed by the
queue is one strictly ordered sequence, and an accepted batch is on the server
unless the run has ended (`RoadInv`); a screen that is left takes the queue away
only with its last watch (`ReleaseStep`). `CustomersFollowTheRun`: `SinceInv`, the
measures stored since an attempt left are of its courier; `AnswersInv`, an answer
read or shown holds a position stored, no nearer than the furthest shown. The
properties of sequences these need are proved there.

**ApplicationProofs**, accounts. `BooksHaveOneDefault`: ages are distinct, so the
last address is one; what a request read still holds while no other has written
(`ChoiceInv`). `DeliveriesAreRewarded`: `ReferralInv` says that every set of
accounts has one whose referrer is outside it (no circle of referrers: why
transactions that lock the buyer, then the referrer, cannot wait in a circle), that
a credit is the sum of the rewards of one's referees, and what each closing
transaction knows at its statement. `GuessesAreBounded`: handlers that rewind one
another's count can be wrong more than `MaxWrongCodes` times, but each wrong guess
moves the *spread* (for each count, how many handlers would start from it or less,
by the copy they read or by the row) strictly one way in a lexicographic order, so
there are fewer wrong guesses than spreads.

**Induction.** The library's induction theorems take a predicate as a parameter,
which no prover here can instantiate. Where a fact is about every finite set
(`SumTakes`, `SumCompares`, `SumAffine`, `LeastNatural`, `GreatestNatural`),
`SetSums` takes a minimal counterexample of a well-founded order instead
(`MinimalSet`, by `WFMin`).

### Only model-checked

* Liveness: `AwaitedPaymentMoves`, `EventSettles`, `EveryCheckoutEnds`,
  `EveryRequestEnds`. TLAPS has no support for ENABLED, on which fairness rests.
* `PaidStaysPaid`, which the run `aggregator_reopened` violates.
* `DashboardAddsUp` bounds its claim on the shares by fifteen categories, because the
  code breaks it beyond; their number comes from the database and is not bounded there.
* No module declares a RECURSIVE operator.

## 5. What is not modelled

* **Leaves without a protocol**: application configuration, legal pages, the
  probe, reviews, favourites, lists of products (one row written or read); the
  purge of expired tokens and GPS points (a DELETE by date no other step reads);
  the calls to Sieve and to object storage (no order depends on their result).
  Only the roles of their routes are modelled, in `Access`.
* **Abstracted**: amounts (a few small prices), texts, telephone numbers,
  distances, cryptography, layout and wording of screens, navigation. A purchase
  at the site is one unit. Seconds are kept only for leases; elsewhere time is a
  step that may or may not have happened. CinetPay and PayDunya are one gateway
  that answers as it likes, with webhooks that may say anything of a transaction
  that was opened (PayDunya does not sign them). One it cannot authenticate only
  takes its place in the register, as one whose handler stops there. The simulation
  driver, for demonstrations, is left out: it may say PAID at the opening, and its
  word is proof. The fingerprint of a local checkout is left out too: a key asks
  for one cart, and a key that serves another is refused without a write.
* **Merged statements**: a batch of positions is looked up and inserted in one step
  (`tracking.service.ts:64-94`), so two requests that carry the same measure do not
  cross there, and the clock of the telephone is the order of measure.
* **The manual closure of a delivery** writes the code's invalidation and the
  delivery in one step; a code committed between its two statements is left out.
* **Assumed of the site**: calls are idempotent per key, a released or expired key
  may be reserved again, a reservation outlasts the request that made it.
* **Assumed of PostgreSQL**: `READ COMMITTED` as documented, unique indexes,
  `SKIP LOCKED`, row locks granted in turn.
* A handler under `Screens` is one step there, and a delivery has one customer and
  one courier at a time; the concurrent handlers are in the other modules.

## 6. Observed

What the models, or reading for them, brought up, in no order of importance. Each
is what the code does; the properties above state what it guarantees around it.

### Orders, payments, goods

* The manager's update is by identifier (`management.service.ts:372`): an order
  cancelled after the screen read it is revived, and a second cancellation returns
  its goods again. A courier's update and the settlement of a payment revive it
  the same way. `assign` refuses only a CANCELLED order, so a PENDING one can be
  sent out and delivered, although `enums.ts:29` says that every transition
  outside the table is refused.
* The operator may announce a transaction before it is decided; after the window
  elapsed, its next announcement is a known transaction and is acknowledged without
  being read (`payments.service.ts:482`), though an announcement of money after an
  expiry is « à ne JAMAIS avaler en silence » (line 505). No property is stated of
  it. A message it cannot authenticate takes the place of the real one likewise
  (lines 463-467).
* An opening whose initiation writes a new window can be expired by a sweep that
  read the previous one. An initiation refused at once writes PENDING before it
  settles; recycled in between, the payment is not awaited and no sweep reads it
  (`NoOrderIsForgotten` names this step as the only one of its kind).
* Of two attempts with one key, one creates the order and the transaction of the
  other fails: its compensation (`orders.service.ts:579`) releases the reservation
  both share.
* An order whose confirmation was lost is returned by the replay without being
  confirmed: its reservation expires. No job performs the reconciliation the
  comment leaves this to.
* A retry refused (4xx) while the first attempt is still succeeding draws a new
  key, and the next press makes a second order. So does a guest's changed telephone
  number (409). A second press after a lost answer with a changed cart, or another
  method of payment, gives the first order (`findGuestReplay` compares only the
  telephone) and, respectively, clears the new cart or leads to the screen of the
  new choice (`commande/index.tsx:143-156`).
* Orders placed at once on the last use of a code are all billed with the discount.
  In local mode the quota per telephone is not applied to accounts
  (`checkout.service.ts:184`). An unknown code is silently ignored when the site
  grants an automatic discount; the quote of a cart with a line twice takes the
  first line's quantity; the total announced differs from the one billed when the
  site was silent at the quote (`docs/LIVRAISON-FINALISATION-2026-10-11.md:113`).
* A quote takes the number as it was typed, or none (`cart-quote.dto.ts:57-62`),
  the order the normalised one: a code the number has used up is granted by the
  first and refused by the second, though `cart-quote.service.ts:53-56` says the two
  agree. `BillIsTheQuote` names this case.
* Comments say the number of a transfer is frozen in the order
  (`orders.service.ts:534`, `direct-payments.service.ts:889`); the screen shows the
  row as it is now, even edited while withdrawn. An upsert without `isActive` that
  crosses another administrator's publication makes its number public though nobody
  published it (`payment-methods.service.ts:92-114`). A chosen method that leaves
  the refreshed list silently becomes cash (`commande/index.tsx:62`).
* Two declarations of one order may wait together: the second stays in the queue
  after the first was confirmed, and after one was rejected the screen cannot
  confirm the other. The transfer screen offers to declare for a cancelled order.
* A guest's attempt that fails beside another of the same key leaves its technical
  profile behind. No screen leads back to `/paiement/<ref>` though
  `commande/index.tsx:139-143` says so, and an expired access stays in the vault.

### Deliveries, tracking, referral

* A code is consumed in one transaction and the delivery closed in another:
  recycled in between, a used code and an open run remain, for a manager to close.
* A delivery keeps one trace across attempts: until the new courier is heard, the
  card shows the former's last position under the new one's name, and `getRoute`
  gives the new courier the former's points. Polling stops after an answer that is
  not live until the screen is opened again; while polls fail the card says
  « En direct ». The order of the screen is not polled, so the card outlives the run.
* The points a courier's telephone could not send yet are lost when the courier
  leaves the screen: the queue is a `useRef` of its hook (`useCourierTracking.ts:57`).
* A READY order assigned to a courier who never accepts has no button to reassign
  it; an old view reassigns it, and an old « Livraison impossible » fails a new
  attempt. A READY order cancelled while its courier goes on can be delivered.
* Two orders of one referee closed at the same time both count one delivered order
  and both credit the referrer, though `deliveries.service.ts:107-109` says once.
* `tournee/index.tsx:90-91` and the card of a run test `payment.status !== 'PAID'`,
  which is no status (it is SUCCEEDED).

### Jobs, notifications, catalogue

* A drain that dies leaves its event PROCESSING, and only PENDING events are
  claimed (`outbox-drain.ts:72`). `release` of a cron lock asks whether the lease
  is still running, not whose it is: after an overrun a job can release the lock of
  its successor.
* A message that left but whose provider reported a failure (WhatsApp's answer after
  15 s, `whatsapp.provider.ts:84,110`; a broken connection to SMTP) is sent again by
  the retry when nothing else passed. WhatsApp's gateway recognises the key; nothing
  does for mail.
* A critical notice is lost if the process is recycled during its detached
  delivery. A telephone keeps its push token registered after sign-out, so it
  counts as having heard; a late registration of one account overwrites another's.
  Nothing in the repository writes the `pushDevice` rows that notices to the staff
  look for. Leaving the screen of notices marks everything read.
* « `null` signifie qu'aucune grille n'a JAMAIS été reçue »
  (`catalog-sync.service.ts:447`): a read of the row that fails gives `null` too
  (lines 468-473), and an order waits or is refused though a grid is known.
* A slow read of the row of the grid replaces a newer answer in memory. Quotes
  read only the row, which only orders refresh: a new installation answers 503 to
  quotes until its first order, and always in local mode. A text of delivery takes
  the first zone that begins *or* ends it: “Bouaké — route d'Abidjan” is Abidjan
  (`delivery.ts:158-172`). A grid whose default zone is not among its zones is
  accepted and then throws.
* Two references of the site with one product and weight take each other's row
  while the report says all is well: a reference that has no row takes the row of
  that product and weight (`catalog-sync.service.ts:857-864`), though line 846 says
  « Une référence du site = une ProductVariant ici ». The property asks only that
  one of the two be there. References whose range is missing are
  “skipped”, then withdrawn. `updateProduct` reads `isActive` before its
  transaction: a variant created meanwhile may be on sale under an inactive product.
  `updateSupport` can lose a field written concurrently.

### Accounts, screens, the rest

* « Un changement de mot de passe invalide les sessions existantes »
  (`auth.service.ts:262`): a renewal that read its token before the change writes a
  new live token after it, and its session goes on with the new password; so does a
  sign-in that checked the old one.
* A vault that refuses the token of a renewal keeps the one before it
  (`store/auth.ts:62-72`); killed and opened again, the application presents it, and
  the server closes every session as stolen.
* An old device that presents a token revoked by a change of password is taken for
  a thief and closes the new session. A sign-out during a renewal resurrects the
  session. The mobile calls `logout` without its token while the route is guarded
  (`api/auth.ts:60-67`): the refresh token is never revoked there.
* A slow wrong guess can put back an older reset code, and lower its count.
* The memory cache survives a change of account (`queryPersistence.ts:14-16` says
  otherwise); `setQueryData` on a detail is overwritten by an older read in flight;
  an unanswered mutation invalidates nothing. An invalidation leaves a first read to
  finish, and a read of the runs or the notices whose screen has closed, since those
  do not pass the signal (`api/deliveries.ts:114-178`, `notifications.ts:36-46`): its
  older answer then passes for fresh for a minute.
* The manager's order screen can never show « Clôturer sans code »
  (`gestion/[reference].tsx:48,57-59`); `closeManually` forbids the DG whom the
  staff screens admit; an owner who is not a CLIENT gets 403 for the delivery code;
  « Reprendre le paiement » is drawn for an expired payment of a cancelled order;
  the confirmation screen says « AGRIM vérifie » for a rejected transfer.
* Editing a promotion code never sends its type, and an emptied limit is not sent,
  so « Vide = illimité » never removes one; an edit of a published code is live
  without being read again. A publication is by identifier (`promotions.tsx:436`):
  from a list older than the last correction, it gives terms its publisher never
  saw, though « rien ne part chez les clients avant relecture » (`promos.ts:10-11`). An AJUSTEMENT of stock is always negative on the screen.
* An order's answer clears the lines added meanwhile, and lines added before the
  cart was read from the disk are replaced.
* An edit, a deletion or a second review of a harvest that was read before an
  examination is written after it. A farm counted empty takes a declaration made
  meanwhile with it. No screen calls the update or the removal of a declaration, or
  reactivates a farm. A lost answer and a second press declare twice.
* « Le carnet doit TOUJOURS proposer une adresse par défaut »
  (`addresses.service.ts:37`): the removal of a used default leaves none, two
  concurrent defaults leave two. No screen lists, edits or removes addresses.
* The shares of the categories are rounded, and what is missing from a hundred is
  put on the largest (`analytics.service.ts:235-269`). Up to fifteen categories it
  is never negative; with fifteen of 6.5 % and one of 2.5 % it is −1, with eighteen
  equal ones 100 − 17·6 = −2, and the schema refuses the dashboard. So does a
  reading that straddles closures, with more than 100 %.

## 7. Possible extensions

Two devices in the run `sessions` (the theorems already hold for any number); the
cron of the outbox and the sweep of payments under one lease table; the lists and
reviews of the catalogue, if they ever take more than one row.
