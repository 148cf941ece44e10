# Shopsphere: a verification project in TLA+

Shopsphere is a shop: a React storefront, an Express/Prisma backend on
PostgreSQL, an MCP server through which assistants read and propose actions,
Redis for their limits, and eSewa as the payment gateway. This directory models
what several requests, the gateway, the browser and crashes make of the same
rows. Paths below are relative to `src/backend/` unless they say otherwise.

## Inventory

| Component | State | Operations | What makes it correct |
|---|---|---|---|
| Checkout, eSewa callback (`controller/payment.js`) | `payments`, `payment_events`, eSewa's own view | `checkout`, `processEsewaEvent` | one payable form for a purchase, one effect for each gateway event, Succeeded only for money that eSewa took |
| Idempotency keys (`utils/idempotency.js`) | `idempotency_keys` | `withIdempotency` | one execution for each key, a replay gives the first answer |
| Confirmation, cancellation (`controller/order.js`) | `orders.status`, `products.quantity`, `revenues` | `confirmOrderCore`, `confirmOrderAndDeductStock`, `cancelOrderCore` | units leave once and come back once, nothing unpaid is confirmed, a cancelled order stays cancelled |
| Fulfilment, edits, deletes, returns (`controller/order.js`) | the same rows, the dates of the stages, `bills` | `updateSellerOrderStatus`, `updateOrder`, `deleteOrder`, `userDeleteOrder`, `requestReturn`, `processReturn`, `trackOrder`, `generateBill` | the documented order state machine, stock moves with the status, rows that money refers to are kept, the dates tell the journey |
| Refunds (`services/refundService.js`) | `refunds`, the provider | `processRefundCore` | the provider pays at most once, Refund Released only after it paid |
| Revenue and payment reads (`controller/revenueController.js`, `services/assistant*.js`) | none of their own | summaries and pages made of several statements | what a reader is told was true together |
| Order creation, promo codes (`controller/order.js`, `controller/promoCodeController.js`) | `orders`, `promo_codes`, usages | `createOrder`, `createBulkOrderFromCart`, `applyPromoCode`, reset, switch, delete | the usage limit, one use for each customer, no order without its discount |
| Prices (`controller/cartController.js`, `controller/order.js`, `services/assistantCart.js`, the checkout page) | line prices, discounts, codes | four computations of one price | what is shown is what is charged |
| Sessions (`utils/refreshTokenStore.js`, `controller/auth.js`, `src/frontend/src/lib/session.ts`) | `refresh_tokens`, the cookie | issue, rotate, reuse detection, revoke | a family has one usable token, an ended session stays ended, an alarm has a cause |
| Accounts and carts (`controller/auth.js`, `controller/cartController.js`, `utils/deleteAccount.js`) | `users`, `carts`, all rows of a user | register, rename, delete, add to cart | nobody reaches what is another's |
| Proposals (`routes/proposalExecutionRoute.js`, `services/assistant*Proposals.js`) | `proposals`, outbox, cart version | create, execute, reject, expire | executed once, against the state that was previewed |
| Listing drafts (`services/assistantListingDrafts.js`) | `listing_drafts` | save, propose, publish | versions form a line, one product for a proposal |
| Calls and limits (`services/assistantLimits.js`, `routes/assistantRoute.js`, `src/mcp/src/`) | Redis counters, audit rows, four tables of tools | admit, resolve, operate, audit, release | nothing answered without its audit row, nothing after a revocation, counters that cover what runs, tables that agree |
| Lists (`services/assistant*Reads.js`, `assistantAdminQueues.js`, `controller/productController.js`) | cursors and offsets | page by page | a row is shown once and none is skipped |
| Catalogue (`controller/productController.js`) | products, reviews, notifications | create, discount, review, delete | one review for a purchase, carts carry the discount |
| Recommendations (`controller/productController.js`) | the map file and its cache | load, train | no map older than the cache's term |
| Pages (`src/frontend/src/pages/`) | what a page has read | MyOrders, SellerOrders, AdminOrders, Proposals, ProposalReview | what a page offers the server takes |
| Chat, e-mail, seeding, deployment | | | not modelled: input and output only |

Requests interact only through the database and Redis; there is no lock outside
their transactions. The hard behaviours are: a request that reads, awaits (the
gateway, the provider, the next statement) and then writes; transactions that
fail or commit in the middle of a handler's loop; a server that stops between
two transactions; redirects, refreshes and releases that arrive twice, late or
never; statuses written by primary key that were decided on an older read.
PROJECT.json lists each place as a hazard, with the properties that watch it.

## Modules

| Module | Models | Extends |
|---|---|---|
| `OrderStore` | the shared order and payment rows, `adjustStock` | |
| `Purchase` | checkout, gateway, callback, confirmation, cancellation, faults | `OrderStore` |
| `Sale` | the abstract promise about a sale, with no requests or payments | |
| `Fulfilment` | every other write of an order's status | `Purchase` |
| `Refunds` | refund rows, the provider's payouts, the settlement | `Fulfilment` |
| `Summaries` | readers of the money, statement by statement | `Refunds` |
| `Idempotency` | `withIdempotency` around the checkout | |
| `Tracking` | the dates of an order's stages and their readers | |
| `Intake` | order creation, the promo code, account deletion | |
| `Quotes` | the four computations of one price | |
| `Catalogue` | a product's discount, reviews and notifications | |
| `Recommendations` | the map file, its training and its cache | |
| `Sessions` | refresh tokens and the browser's tabs | |
| `Accounts` | accounts, Google identities, carts and orders by id and email | |
| `Receipts` | the bill and the confirmation mail of an order | |
| `Ownership` | the two together: what people own | `Accounts`, `Receipts` |
| `Proposals` | proposals of every kind against the storefront's own writes | |
| `Decision` | the abstract promise about a proposal | |
| `Drafts` | versions of listing drafts and their publication | |
| `Tools` | the four tables that say who may use a tool | |
| `Gateway` | a tool call through both servers: leases, audit rows, revocation | `Tools` |
| `Scans` | lists read page by page while they change | |
| `OrderPages`, `ReviewPages` | the storefront's pages of orders and of proposals | |
| `Storefront` | the two together: what a page tells its user | `OrderPages`, `ReviewPages` |
| `Customers` | people, sessions and what they own, any of them moving | `Sessions`, `Ownership` |
| `Shop` | what is offered, priced and ordered, any of it moving | `Intake`, `Catalogue`, `Recommendations`, `Quotes` |
| `Assistant` | tool calls, lists and pages, any of them moving | `Gateway`, `Scans`, `Storefront` |
| `*Proofs` | theorems and proofs, see below | the modules they are about |
| `MC*` | the small instances for TLC | what they check |

`Purchase` instantiates `Sale` and `Proposals` instantiates `Decision` under
refinement mappings; the abstract specifications are checked as properties and
proved.

### State and code

| Variable | Row or field |
|---|---|
| `status`, `stock`, `revenue` | `orders.status` ("Deleted" when the row is gone), `products.quantity`, the status of the order's first `revenues` row |
| `payOrder`, `payStatus`, `gateway`, `events` | `payments` (numbered by `createdAt`), eSewa's status check, `payment_events.gatewayEventId` |
| `refund`, `payouts` | `refunds.status`; history: what the provider paid |
| `jobs` | the requests in flight: what a handler holds in its local variables and where it is |
| `keyRows`, `forms` | `idempotency_keys` with uncommitted rows, the payment forms |
| `promo`, `used`, `usage` | the `promo_codes` row, `usedCount`, `promo_code_usages` |
| `row`, `cookie`, `pw`, `link` | `refresh_tokens`, the browser's cookie, `users.password`, the reset link |
| `account`, `cart`, `placed`; `sold`, `bill`, `letters` | users, carts and orders by id; one order, its bill, the mails sent |
| `phase`, `pinned`, `outbox`, `cart`, `order`, `product` | `proposals.status` and what it recorded of its target, its events, the targets |
| `rows`, `papers`, `scribes` (Drafts) | `listing_drafts`, the publish proposals, the open transactions |
| `at`, `stamp`, `asked`, `due`, `pending` | the order's status and dates; writes decided and not yet made |
| `calls`, `requests`, `rows`, `counts` (Gateway) | both sides of a call, `assistant_audit_events`, the concurrency counters |
| variables marked "history" | what a property needs to remember; no guard of the code reads one |

One action is one transaction, or one statement outside a transaction, with
the local computation around it. A conditional update (`updateMany` with the
expected status) inside a transaction is atomic in PostgreSQL at READ
COMMITTED because the row is locked and the condition is evaluated again, so
claim, stock and status of `confirmOrderCore`, `cancelOrderCore` and
`processReturn` are single actions. A `findUnique` before such a transaction is
an action of its own. `updateSellerOrderStatus`, `updateOrder`, `deleteOrder`
and `requestReturn` decide on such a read: `Decide` and `WriteStatus` (or
`DeleteRow`) are the two halves. Where a transaction at READ COMMITTED reads in
one statement and claims in a later one (`Drafts`, `Proposals`, `Idempotency`)
the two statements are two actions, and a transaction that waits for a lock is
not enabled until the holder has committed.

`confirmOrderCore` is a subroutine of three callers. A job enters it with
`pc = "confirm"`, keeps the orders that are left in `todo`, and returns to
`cont`. The orders of a group are handled in any order (the query has no ORDER
BY). `Abandon` ends a request between any two of its steps: an exception, a
timeout, or a restart. `ConfirmFails` is a transaction of the loop that is
rolled back; the loop goes on, as the code does.

`ProviderPays` and `ProviderRefuses` are the sandbox provider, the only one in
the source: it answers in the same process, so no answer is lost. A provider
behind a network would have to honour the row's `idempotencyKey`, because
`processRefundCore` takes an exception of the call for a refusal.

## Runs

A run explores one component, or several that share no variable. Those are put
side by side under a variable `focus`, fixed in the initial state, which says
which of them moves: interleaving them would multiply the states and show
nothing, since no action of one reads a variable of another. Requests, tabs,
proposals and customers are symmetric where nothing tells them apart. Deadlock
is not checked in any run: orders, payments, tokens and lists are finite, and
when all of them are used up the program has nothing to do.

| Run | Instance | Checks |
|---|---|---|
| `purchase` (`MCCheckout`) | a group of two orders, one of 1 and one of 2 units, over 2 units of one product, 2 payments, 2 requests; beside it 2 keys, 2 orders, 3 pairs of them, 2 requests, 2 forms, a row pruned once | `StockAccounted`, `LedgerAgrees`, `CancelledStays`, `SaleImplemented`, `KeyRunsOnce` |
| `purchase_live` (`MCPurchase`) | the group, 1 payment, `HealthySpec`, no symmetry | `GroupSettles`, `CallbackSettles` |
| `refunds` (`MCRefunds`) | one order of the last unit, 1 payment, 2 requests, with all of `Fulfilment`; beside it a confirmed order and a reader | `MoneyTypeOK`, `NoFreeConfirm`, `MoneyKeepsRow`, `StockMovesWithStatus`, `PaidBackOnce`, `ReleasedMeansPaid`, `ReadsCoherent` |
| `proposals` (`MCProposals`) | 2 proposals, 2 requests, a limit of 1 pending, 1 edit by others; beside them one order with 2 late writers over 2 days and windows of 0; and 3 draft rows, 2 grants, 1 publish proposal, 2 transactions | `HeadroomKept`, `DecidedOnce`, `LandsOnReviewed`, `NoLateCart`, `JourneyTold`, `DraftsKept` |
| `sessions` (`MCSessions`) | 2 requests, 2 tabs, 3 tokens (2 with reset links and older hashes), 2 passwords; beside them 2 people, 2 emails, 2 carts, 1 order; and a bill with 2 buyers, 2 requests, 2 mails | `CustomersTypeOK`, `ForkNeedsRace`, `EndedStaysEnded`, `SessionsFollowAccount`, `AlarmNeedsCause`, `WhoseIsWhose` |
| `intake` (`MCIntake`) | 2 customers, 2 requests, a code for 1 use, 2 orders, carts of up to 2 items, 1 reset; beside them one product with 1 shopper and 2 requests; the map file with 2 requests and 2 trainings; one cart line with 2 prices, 2 rates, 2 options and 4 codes | `ShopTypeOK`, `DiscountsBounded`, `UsesAccounted`, `DeletedHasNoOpenOrder`, `CatalogueKept`, `CacheFresh`, `PricesKept` |
| `gateway` (`MCGateway`) | a verified and an unverified seller with a call each, 2 leases to a counter; beside them 3 rows in pages of 1; one page on one order; 2 proposals in one tab | `AssistantTypeOK`, `NothingUnaudited`, `NothingAfterRevocation`, `CapacityExact`, `ShownIsServed`, `ScanExact`, `PagesTruthful` |
| `paid_confirmed`, `confirming_transient`, `payable_forms` | as `purchase` | `PaidMeansConfirmed`, `ConfirmingIsTransient`, `OnePayableForm` fail |
| `stock_kept`, `status_entries` (`MCFulfilment`) | one order, stale writes that may bring one unit too many | `StockAccounted`, `EntriesAsDocumented` fail |

### Bounds

In `purchase` either order can be served alone and both together cannot, so the
last unit is contended, one order can be out of stock while its sibling is
confirmed, and two payments allow a second checkout after a failed first and
two open forms for one group. Every race in the code is between two requests on
one row. In `refunds` one order is enough because no handler there looks at a
second one, except `confirmOrderCore`, which `purchase` covers. Further bounds,
each named where it stands:

- `MCCheckout`: no order is cancelled once a second payment was made.
  `PaymentsLeft`: a checkout that may insert a row has a number left for it.
- `MaxPhantom`: deciding on a stale read can bring units back twice and raise
  stock without limit; no decision is taken when a shelf is more than
  `MaxPhantom` units above its start. It is 0 in `refunds`, 1 in the runs of
  `MCFulfilment`.
- `MCRefunds`: a reader starts from a confirmed order, pages are opened on
  released orders, and beside a reader there is one request at a time and an
  edit that was decided before.
- `MCProposals`: an order that starts at a later status is there for proposals
  about orders; an edit in flight is the only late write. `Bundles`, `Watched`,
  `Edit`, `MaxEdits`: the kinds that share a target are proposed together, and
  others write what a pending proposal is about.
- `Late`: no decision after a write went over a state it had not read, since
  nothing is said of the dates from then on.
- `MCSessions`: reset links only in behaviours of up to two tokens; the order
  is the first buyer's, by symmetry.
- `MCIntake`: uses are given back only in behaviours without carts of several
  items in which no account is deleted.
- `MCGateway`: a counter expires or a lease is lost, not both; the review page
  stops where an answer about another proposal came in, which is where its
  promise ends. `Restless`: one principal's grant and account may change.
- `Asked`, `Stepped`, `Touched`, `MaxLetters`, `MaxCarts` and the other `Max*`
  constants count what may be created.

Each of the theorems below is for all values of these constants, so where a
property is proved its bounds matter to TLC only; `focus` and the bounds of the
`MC*` modules are not in the specifications that are proved.

### What the passing runs show

*Purchase.* The claims do their work: no unit is lost or sold twice, a
cancellation is final, the payment table agrees with the events, and each step
is one of `Sale`. A key makes one effect for as long as its row is kept.

*Fulfilment and refunds.* The unguarded writes break `StockAccounted` but not
`NoFreeConfirm`, `MoneyKeepsRow` or `StockMovesWithStatus`: a stale write can
misplace an order and through it units, but each movement of stock still comes
with a movement of a status, the foreign keys hold, and no order is handed on
for free. Refunds are paid once even when the order is overwritten between
payout and settlement; the refund then stays Processing and has to be settled
by hand. A summary that is read statement by statement counts each completed
sale, in the gross or as refunded while it was read, and each refund paid before
it began; a page that says Refund Released shows the refund. Orders that a stale
edit reopened are left out. `ReadsCoherent` takes no side on the gross of a sale
refunded before the read began, where the comments contradict the code (see
*Assistant* below).

*Journey.* However an order is moved forth and back, both timelines, the
support draft, the return rules and the queues agree on the stage it reached,
unless a write went over a row it had not read or an admin's edit moved the
status, which dates nothing.

*Proposals and drafts.* A proposal is decided once and lands on what was
reviewed; concurrent requests pass the pending limit by less than their number.
Versions of a draft form a line, one proposal publishes one product.

*Sessions and ownership.* Ended sessions stay ended, and a family forks only if
two rotations read one token before either marked it. Storefront (by email) and
assistant (by id) reach only one's own, except after the renames and the double
first additions that the property names.

*Intake.* The code discounts as often as it may, and an order that was refused
in the middle gives its use back. Prices agree unless the product or the code
changed under the line or the page.

*Gateway.* Nothing is answered without its audit row, nothing is told after a
revocation, and the counters hold the leases in use and the lost ones, until a
counter expires under a running call (its term is 15 s, calls may take longer),
which `outlived` records.

### What the failing runs show

See `findings` in PROJECT.json for the lines quoted.

- `paid_confirmed`: `confirmOrderCore` returns its errors, and the callback
  does not look at them, so a payment is published as Succeeded over an order
  that is still Pending, and a later callback is "already processed".
- `confirming_transient`: when the shelf cannot serve a claimed order the
  claim is committed, and no route leaves Confirming.
- `payable_forms`: the look-up for an open intent is by order, the charge is
  for the group.
- `stock_kept`: the admin's edit may cancel a Confirmed order and restores
  nothing.
- `status_entries`: an edit, a stage or a return request overwrites a status
  from which the documented state machine does not allow the move.

### Fairness

`HealthySpec` has weak fairness of `Continue(w)` for every worker: a request
that has begun takes its next step, as Node's event loop runs the continuation
of an answered query. It has no fairness on new requests, payments or
cancellations, and it leaves out `Fault`: without the assumption that requests
run to their end nothing settles, since a crashed callback is not repeated
unless the customer comes back. Cancellations stay in, and still both
properties hold. All other runs check safety and state no fairness.

## Proofs

All theorems are for any number of orders, products, requests, tokens,
proposals, rows and the like, and for any bound; the assumptions on constants
are named `*Assumption` where the constants are declared, ask for types, for
finite sets of what is counted, and for null values that are no value of the
type, and are evaluated by TLC in every run. Each theorem of an invariant has one lemma or step per action. Where a
property is not inductive, this is what was added to it and why.

| Module | Proves |
|---|---|
| `PurchaseProofs` | `TypeOK`, `PaidInv`, `NoFreeConfirm`, `CancelledStays`, `LedgerAgrees`, `SaleImplemented` for `Purchase` |
| `CheckoutProofs` | `StockAccounted` for `Purchase`; `NothingGivenUp` for `HealthySpec`; `KeysInv`, `KeyRunsOnce` for `Idempotency` |
| `RefundsProofs` | `PaidInv`, `NoFreeConfirm`, `MoneyKeepsRow`, `StockMovesWithStatus` for `Fulfilment`; these three, `LedgerAgrees`, types, `PaidBackOnce`, `ReleasedMeansPaid` for `Refunds`; `ReadsCoherent`, types and `SummarySpec => RefundsSpec` for `Summaries` |
| `ProposalsProofs` | types, `PlatformInv`, `DecidedOnce`, `NoLateCart`, `LandsOnReviewed`, `HeadroomKept` for `Proposals` |
| `DraftsProofs` | `DraftsInv`, `DraftsKept` for `Drafts`; `JourneyInv`, `JourneyTold` for `Tracking` |
| `SessionsProofs` | `SessionInv`, `EndedStaysEnded`, `SessionsFollowAccount`, `ForkNeedsRace`, `AlarmNeedsCause` for `Sessions`; `WhoseIsWhose` for `Ownership`; types for `Customers` |
| `IntakeProofs` | `IntakeInv`, types, `DiscountsBounded`, `UsesAccounted`, `DeletedHasNoOpenOrder` for `Intake`; `CatalogueKept`, types for `Catalogue`; `CacheFresh` for `Recommendations`; `PricesKept` for `Quotes`; types for `Shop` |
| `GatewayProofs` | `GatewayInv`, types, `NothingUnaudited`, `NothingAfterRevocation`, `CapacityExact`, `ShownIsServed` for `Gateway`; `PagesTruthful` for `Storefront`; `ScanInv`, `ScanExact` for `Scans`; types for `Assistant` |

*Purchase.* `NoFreeConfirm` is not inductive: a step that writes Confirmed does
so on what the job carries, so `PaidInv` says what a job may carry. `PaymentOK`:
a payment that says Succeeded was completed at the gateway, and the gateway
never takes that back. `ForcedOK`: an override covers the group that it
confirms. `JobOK`: a job that is confirming is backed by money or an override;
one that is publishing COMPLETE has seen it; one that is about to write a
status past confirmation was entitled to it, and stays entitled, because being
paid or forced is never undone. `TypeOK` is a conjunct: it carries the argument
that stock never falls below zero. `LedgerAgrees` is inductive relative to
`PaidInv`. `PurchaseImplementsSale` maps `status` to the four states of a sale
and shows that initial states agree and each action is a step of `Sale` or a
stutter. `StockAccounted` counts: the units that orders hold are a sum over a
set, which the proof takes as the cardinality of `HeldUnits`, the pairs of a
holding order and a unit; an action moves one order at a time in or out of it.

*What the liveness rests on.* `NothingGivenUp` is an action property of
`HealthySpec`: an order that a request still has to confirm stays on its list
until it has left Pending, a payment stays with its callback until it is
Succeeded or Failed, no order becomes Pending again, and each step of a request
that has begun takes it nearer its answer (`StepsLeft`: the stages before the
loop, then one step for each order left). It holds whatever other requests,
cancellations and customers do. That a request under way can take a step and,
by weak fairness, does, is all that `GroupSettles` and `CallbackSettles` need
beside it; that part is TLC's. `HealthyInv` adds two facts to `PaidInv`: no
purchase deletes an order (`NoneDeleted`), so `confirmOrderCore` never ends early
for a missing row, and a payment with an event is published (`LedgerAgrees`), so a
callback that finds its event stored leaves nothing undone.

*Idempotency.* `KeysInv` ties each open transaction to the rows: who inserted a
key and has not committed is alone with it, those who wait for it have done
nothing, and `runs` counts the commits of this life of the row.

*Fulfilment and refunds.* The same `PaidInv` survives the stale writes, and
`RowInv` adds that no job is about to write "Deleted" as a status, which is what
makes `MoneyKeepsRow` inductive. Each action that touches stock does so with
`Deduct` or `Restore` in the step that writes the status. `PaidBackOnce` alone
does not say who may still call the provider: `RepayOK` lets a request between
claim and settlement hold a Processing row that is unpaid until the provider
has answered, `OneRepays` lets at most one request hold each row, and
`ReleaseOK` lets a stale edit write Refund Released only where the money did go
back. The handlers of `Fulfilment` move requests only to jobs that hold no
refund (`QuietStep`); the four steps of `releaseRefund` go through `HolderStep`.
What holds of `Fulfilment` is carried to `Refunds`, whose requests also hold a
claim: the four steps of a refund write no payment and no stock and remove no
row (`RefundingRows`), so `RowInv` and `LedgerAgrees` come through them, and each
handler of `Fulfilment` is a step for which they were proved before.

*Summaries.* `SettledOK`: an order with a payment that was refunded reads Refund
Released and its revenue is not Completed, unless a stale write replaced that
status (`reopened`). `ReaderOK` ties what a reader holds to the rows as they have
become since: a summary has every sale that was completed when it began, and the
refunds paid by then, like that of an order seen as released, are found or still
to be looked at. No step takes a refund's success back. `SummariesOnlyRead`: readers change nothing,
so each theorem about `Refunds` holds beside them.

*Proposals.* `PlatformInv` says of every request what it read of its target:
the target still is so, or its version has moved on, in which case the claim
counts 0. `HeadroomKept` bounds the pending proposals by the limit and the
requests that have counted and not created, one at a time. `EffectOf` is the
mapping to `Decision`; it leaves `listing.update_content` out (see below).

*Drafts.* `DraftsInv`: a row that was superseded has one later version, a
transaction that has claimed a row is alone with it, and a proposal names a row
of its own grant at the version it had.

*Journey.* `JourneyInv`: the dates go as far as the status (`StampsOK`), and each
write that is under way does, to the row it was decided on, one of three things
(`LateOK`): no date and no return, a return of a delivered order, or a stage with
the dates that belong to it. If the row is still that one, the dates go as far
as the new status; otherwise `overlapped` is set and nothing is claimed. Two
more parts: while an order is Pending the writes under way were decided on a
Pending row, and after that they carry the promised date or none.

*Sessions.* `SessionInv`: a usable token, or a rotation under way, rests on a
family that nobody ended and, but for the cases `noted`, on the present
password. `ChainsInv`: a family that was not raced has one usable token or one
rotation about to bring the next. `OrderlyInv`: while no refresh was shared, one
request refreshes at a time and presents a token that is not used.

*Ownership.* `IdInv`: a cart, and an addition that is about to create one, has an
email that its account has or gave up, and there is one of either unless
`twice`. `ReceiptsInv`: unless `crossed`, what a request has read of whose the
order is still holds, and unless `doubled` one request mails.

*Intake.* A customer has one discount at most, and none while the code is usable
for them; a request of `/promo/apply` that made its use is alone with its
customer and finds the use again; and the counter is ahead of the discounts, and
of the uses, but for the requests in flight, which the proof counts one at a
time. The types are not inductive without this: a reset takes the counter down,
and only the invariant keeps it from falling below the uses.

*Catalogue.* `OneSubmission`: a customer whose submissions did not overlap has
one at a time, and if it found no review there still is none. `TellsWritten`: a
discount that a clerk is about to tell the carts' owners of was written. The
number of reviews is bounded by `ReviewsCounted`: a shopper's reviews of a product, with
the submissions under way that found none, are at most as many as requests are
served at a time.

*Recommendations.* `DatesOK`: a map that is in the cache, or read and on its way
there, was in the file at the time that goes with it. `MapsOK`: when no training
runs and none failed or overtook a request, cache and requests have the map that
the file has.

*Quotes.* `PreviewIsCharge` holds in every state of the right types: each
rounding is at most a half away from the exact amount (`NearestIsNear`,
`PercentageIsNear`), so two roundings of the same amount are near each other.
For `NeverChargedMore`, `PriceInv`: unless it is `stale`, the line has the list
price, the page what the line had and a discount that was shown for it, and the
bill was made from both. What is left of an amount after a discount grows with
the amount (`DiscountsCarry`).

*Gateway.* `CallsInv`: each call carries the rows and checks of the steps behind
it, and the backend runs a request only for a call that waits for it.
`LeaseInv`: each counter lies between the leases in use and those and the lost
ones, unless it expired under a running call. `ShownIsServed` is about tables that
no step writes, for any callers: the lemmas `ScopesFit`, `RegistryFits` and
`PolicyFits` read off each table what it asks of the token, in terms of the tool's
one scope, and `ListedIsServed` compares what the registry asks with what the
routes ask.

*Storefront.* `PageInv`: what is shown, read or answered and not out of date is
the row's status, a request that was sent from an up-to-date page is one that
the server will not refuse, and a page that hides its rows while it loads has no
request under way. `ReviewInv`: every end that is on its way to the page, in a
row of a list or as an answer to a confirmation, is the proposal's own, and no
step takes an end back; a confirmation is of the proposal that was shown, unless
`crossed`.

*Scans.* The lists are sets of rows in a strict order, and the lemmas before
`ScanInv` say what the first n rows of such a set are: n, or all; before every
other row; and more of them hold the fewer (`FirstSize`, `FirstBefore`,
`FirstGrows`). By key (`ByKey`): what was shown is not after the cursor while it
is still in the list, and what stayed in the list was shown or is after the
cursor; an edit keeps a row's date, so it moves no row over the cursor, and no row
comes back. By offset (`ByOffset`): while the list rests, the pages shown are its
first rows and the number read is its size. TLC checked `ScanInv` on the instance
of the `gateway` run, by itself.

### Only model-checked

- `GroupSettles` and `CallbackSettles`: liveness under fairness is out of the
  prover's reach; `HealthyGivesNothingUp` proves what they rest on.
- The five refuted properties are counterexamples of TLC.

## What the source says otherwise

Five disagreements have a run of their own (above). The others were met while
translating; the models follow the code.

*Orders.*
- An admin's edit that overlaps an account deletion writes back the name and
  email it had read (`order.js:838`); one that overlaps a payout writes Pending
  over Refund Released, and the order is confirmed again (`reopened`).
- `generateBill` upserts a bill, although comments (`order.js:1174`, `1284`) say
  bills are never persisted; a billed order can then not be deleted, and a bill
  keeps the old email when a Pending order is edited afterwards. Its unit price
  is the product's present price. Two overlapping requests send two mails.
- `updateOrder` dates no stage; without `deliveredAt` the storefront falls back
  to the delivery date while the assistant refuses the return. The storefront's
  window of 7 days is fixed, the assistant's is read from the approved policy.
- Confirmation and account deletion empty a cart without bumping its version
  (against `cartController.js:120`). An order confirmed under another email
  empties that customer's cart.

*Checkout keys.* "processing" rows are never visible, so the 409 answer is
unreachable; a P2002 of the partial payment index inside `fn` is taken for the
key's and ends as a 500. The storefront makes a new uuid for each call
(`src/frontend/src/lib/esewa.ts:30`), so its keys never replay.

*Prices.* `resolveServerPromoDiscount` does not mirror `validatePromoCode`
exactly (`order.js:258`): the minimum is asked of the undiscounted amount, so a
code can be dropped silently. The checkout page shows the undiscounted total. A
line keeps its price after an edit in the storefront and not in the assistant's
cart. Unit prices can differ by a paisa at exact halves, and a negative option
delta is not clamped.

*Proposals and drafts.* The content of a listing is written before the claim
(`routes/proposalExecutionRoute.js:348`), so it can change though the proposal
ends expired or rejected, with the answer "Nothing was changed". An executed
`listing.publish` leaves the draft "Draft", so two proposals may publish it. A
superseded draft keeps its version, so only the status tells a later save, and a
save that commits between the read and the claim of a publication has its former
version published.

*Assistant.* Its tables of statuses say "ReturnRequested" where orders store
"Return Requested". Of refunds the revenue summaries' comments say that they are
"never netted against the sale buckets — a January sale refunded in March shows
in January's gross and March's refunded" (`services/assistantSellerOrders.js:233`;
the same at `services/assistantAdminReads.js:63` and
`src/mcp/src/toolRegistry.js:622`). The code does otherwise: a release sets the
sale's revenue row to "Refunded" with zero amounts (`services/refundService.js:11`)
and the gross sums "Completed" rows only, so the sale leaves January's gross when
it is refunded, and the refund is shown beside a gross it is already taken from.
`Summarise` and `SettlePaid` model what the code does; no property claims either.
A row with a status outside the schema's enumeration fails
a page of the exception queue. Lists of sellers by reference end at 1000.
Proposal tools are shown to unverified sellers and refused at the gate. The row
of a failed tool is not stored.

*Catalogue.* Two submissions of one review can both be stored;
`setProductDiscount` answers 500 when the notification fails though the discount
was set; the product page has no guard against answers out of order.

*Accounts.* The storefront finds carts by email and the assistant by id; deleting
an account anonymises the orders that others typed with its email.

*Pages.* A refund is offered for unpaid returns and for refunds left Processing,
and always refused; an order that was paid before an admin's page cancelled it
offers no refund until a reload; a refresh of MyOrders can come back before a
cancellation it overlaps; "Confirming" is in no tab. On the review page a link
pasted over another while the first answer is late shows the first proposal under
the second's address and confirms the second unread (against
`ProposalReview.tsx:112`). A lost answer is reported as "Nothing was changed".

## Abstractions and what is not modelled

- *Everywhere*: wording, formats, logging, e-mail texts, ownership checks that
  only refuse a request, `findUnique` columns that decide nothing.
- *Orders*: amounts (in `Quotes`), variant stock rows, the `intent_created` event
  of a checkout, which has no gateway id and is never read. A second insert of a
  racing checkout (the partial unique index) is `ReuseIntent`: the request gets
  the open intent or an error. The confirm route's two reads are one action,
  since `ConfirmRead` reads the status again and a charged payment stays charged.
- *Refunds*: the answer of the provider cannot get lost, see above. Readers are
  of one year, and sums are kept as the sets they are made of. `/revenue/create`
  (`controller/revenueController.js:34`) books any amount to any order and asks
  nothing of it: the properties about revenue are about the rows the system
  books itself.
- *Quotes*: one line, one option, paisa; `Nearest` is either side at a half.
- *Tracking*: one order; the claim, the cancellation and the refund of
  `Purchase`, `Fulfilment` and `Refunds` appear as the statuses they lead to.
- *Accounts*: a cart is full or empty. *Receipts*: numbers and texts left out.
- *Sessions*: expiry only turns tokens away and is left out; hashing and the
  OAuth pages are cryptography and input. Accounts share no token rows.
- *Proposals*: two updates in one millisecond, which `updatedAt` cannot tell
  apart; the cart is there; totals, quantities and option stock are the choices
  `MaybeUnfit` and `TargetLost`; a published product is not followed.
- *Gateway*: every tool is enabled; request quotas are a refusal that may always
  come; answer and release are one delay; a crash of the MCP process is a timeout
  and a lost lease; the session store of `redisControls` is left out, a counter
  of 0 is one that is absent, and the limits of subject and platform are one.
- *Scans*: lists ordered by a column that is not unique may repeat or skip rows
  (`productController.js:336`); the screens are the assistant's lists, the public
  catalogue and the admin's tables over a bounded time.
- *Catalogue*: one product; *Recommendations*: a map is the number of its
  training, and a file that is being written cannot be parsed.
- *Pages*: one page on one order, one load at a time, and a handler of the server
  is one step; others may do anything that is permitted.
- Chat, e-mail transport, seeding and deployment have no state of this kind.
