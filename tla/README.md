# E-Joy order service: specifications and proofs

E-Joy is a restaurant ordering platform: customers order from a phone, at a
table, for pick-up or for delivery; the shop's staff prepare the order, answer
waiter calls and keep the floor plan; payments go through Telebirr. The core is
one NestJS service, `src/apps/order-service`, on PostgreSQL (Prisma) and Redis.
Everything else is a client of it (`customer-web`, `admin-web`, `mawa-web`,
`super-admin-web`) or tooling.

This directory holds TLA+ specifications of the parts of that system where
something can go wrong that no unit test of the repository reaches, TLC
configurations that check them on small instances, and TLAPS proofs of their
safety properties for every instance.

The recurring pattern of the service, and the reason for most of what follows:
a handler reads a row with `findUnique`, awaits something else, and then writes
columns it computed from that row with an `update` whose WHERE names the id
alone. Node runs one handler at a time between two awaits, but every await lets
another handler in, and several instances may run. So the models split each
handler at its awaits and keep what it has read in a record of its own.

## 1. Inventory

Paths are relative to `src/apps/order-service/src` unless they begin with
`apps/`. "State" is what a component keeps beyond one call.

| Component | State | Operations | What makes it hard | Correct when |
|---|---|---|---|---|
| Order lifecycle and payments (`order/order.service.ts`, `order/infrastructure/order.mapper.ts`); modelled | `Order` columns `state`, `status`, `paymentState`, `providerTxnId` and the timestamps; `PaymentAttempt`, `PaymentCallbackReceipt`, `OrderStatusLog` | `initiatePayment`, `applyMockPaymentSuccess`, `confirmPaymentCallback`, `handleTelebirrWebhook`, `reconcileTelebirrOrder`, `cancelOrder`, `acceptDeliveryOrder`, `markDeliveryOrderReady`, `updateMerchantOrderStatus` | nine writers of one row, all from snapshots; notices repeated, late, contradictory; crash between update and log | nobody cooks an unpaid order; a settlement is not undone; the board agrees with the order; one notice is applied once |
| Order placement (`createOrder`, `appendItemsToExistingOrder`, `order/inventory.service.ts`, `order/domain/`); modelled | `Order`, `OrderItem`, `Coupon.usedCount`; `ejoy:stock:<product>` in Redis | `createOrder` | two stores without a common transaction; retries under one idempotency key; last unit, last coupon; appends to one open order | stock and orders account for each other; amounts follow from lines; a key is answered by its own order |
| Shop applications (`admin/admin.service.ts`, `staff/staff.service.ts`); modelled | `ShopApplication`, `Shop`, `Staff` | submit, approve, reject; hire, renumber, disable | approval is three statements without a transaction; racing decisions; one phone number, one member | one decision; an approved application has a shop with staff; an answer is true |
| Payment gateway client (`payment/`); partly | none of its own; the gateway's trade, the redelivery | notification and its answer, query, mapping of status words | redelivery until code 0; lost answers; an interim notification under the same nonce | what is acknowledged is recorded; a completed payment is acknowledged in the end |
| Sessions (`auth/`, `staff/staff.resolver.ts`, `apps/admin-web/src/lib/apollo.ts`, `useMerchantSession.ts`); partly | `AuthSession`, the refresh cookie, the page's access token | login, refresh, logout, revocation; timer and error link of a page | two refreshes with one token; lost answers; revocation in a second statement | only an overlap or a loss looks like a theft; a disabled member is shut out; a page does not stay on a dead session |
| Customer accounts (`customer/`, `apps/customer-web/.../useCustomerAccount.ts`); partly | `CustomerOtpCode`, `CustomerAuthChallenge`, passkeys, sessions, the page's token | request and verify a code, register and use a passkey, restore, log out | check and mark by id several awaits apart; messages late or lost; a page that restores itself | a code admits once; a logout holds |
| Waiter calls and performance (`staff/staff.service.ts`); partly | `ServiceTicket`, `StaffNotification`, `StaffPerformance` | `callWaiter`, `updateServiceTicketStatus` | several waiters on one call; counting from a second read | one acceptance, one resolution, by the holder; counts are of what happened |
| Tables and floor plan (`table/table.service.ts`, `apps/admin-web/src/features/tables`); partly | `DiningTable`; the page's list | find for an order, create, rename, delete; floor events; polling | check then delete; check then rename; events late, lost, out of order | an order is at a table of its shop; open orders keep their table; the page converges |
| Realtime (`realtime/`); partly | an in-process PubSub | publish, subscribe | one instance only | pages converge without it |
| Web applications; partly | cart, Apollo cache, session | React | resubmission; shared refresh | the pages that hold a protocol: floor, console session, customer session |
| Platform administration (`admin/`); not modelled | shops, printers, devices, announcements, coupons | maintenance, reports | little: one statement each | - |
| Products and menu (`product/`); not modelled | `Product`, `Category` | create, update, archive, reorder | unique active names checked, not enforced | two active products never share a name |
| Print jobs; not modelled | `PrintJob` | create, retry cycle | the failing branch is unreachable | - |
| Coupons, addresses, delivery settings, reviews; not modelled | single rows | save, list, delete | little | what the order handlers read of it |
| Upload, SMS, operations, rate limit; not modelled | counters | I/O | external | - |
| Scripts (`apps/order-service/scripts`); not modelled | - | seeding, load | - | - |

### How they interact

- `createOrder` finds a table (TableService's rows), looks for an order that is
  still open, takes units in Redis, then creates the order (with its coupon) or
  appends to the open one in one PostgreSQL transaction. The order it leaves is
  where the lifecycle starts.
- The lifecycle's writers meet in the one `Order` row. The payment gateway calls
  in through the GraphQL callback or the REST webhook, or answers a
  reconciliation; the three apply a notice with almost the same code. The REST
  controller turns the outcome into the code 0 or 1 that ends or repeats the
  gateway's notification: `PaymentDelivery` composes the two sides.
- After its commit, a handler that touched a dine-in order starts
  `emitTableStatusChanged` without awaiting it; the floor page merges the event
  into what it shows and polls besides.
- A delivery shop's `deliveryAutoAccept` decides, at the moment of settlement,
  whether the order waits for acceptance. It can be switched at any time, so the
  models allow both outcomes (`SettledStates`).
- An approved application creates the first member of a shop; the shop's own
  staff pages compete for the same phone numbers. Disabling a member leaves the
  sessions to a second statement, if there is one at all.
- Waiter calls share nothing with orders but the table.

## 2. The modules

| Module | Models |
|---|---|
| `OrderColumns` | the enumerations of the Order row, `merchantStatusFromOrderState`, the initial states; shared by the order modules |
| `OrderLifecycle`, `MCOrderLifecycle` | the nine handlers of the lifecycle on the Order row, attempts, receipts, newest log row; the notices of the runs |
| `OrderLifecycleProofs` | theorems about `OrderLifecycle` |
| `PaymentDelivery`, `MCPaymentDelivery` | EXTENDS `OrderLifecycle`: its payment handlers under a gateway that redelivers, with the controller's answers, handlers that die and answers that get lost |
| `PaymentDeliveryProofs` | theorems about the composition; reuses the lemmas of `OrderLifecycleProofs` |
| `OrderPlacement`, `MCOrderPlacement` | `createOrder` with idempotency, stock, coupon, creation, append; prices, stock and inputs of the runs |
| `OrderPlacementProofs` | theorems about `OrderPlacement` |
| `TicketPromise` | what `docs/PRD2.1-dev-freeze.md` 4.1 promises of a ticket: an abstract specification |
| `ServiceTickets`, `MCServiceTickets` | `callWaiter`, `updateServiceTicketStatus`; refines `TicketPromise` |
| `ServiceTicketsProofs` | theorems about `ServiceTickets`, the refinement among them |
| `TableFloor`, `MCTableFloor` | table maintenance, the table of a dine-in order, floor events, the polling page; two shops with one table each |
| `TableFloorProofs` | theorems about `TableFloor` |
| `AuthSessions`, `MCAuthSessions` | staff sessions: login, refresh, logout, revocation, and the console pages that share a cookie |
| `AuthSessionsProofs` | theorems about `AuthSessions` |
| `OnboardingPromise` | what dev-freeze 4.4 promises of a shop application: an abstract specification |
| `Onboarding`, `MCOnboarding` | shop applications and the staff rows they compete with; refines `OnboardingPromise` |
| `OnboardingProofs` | theorems about `Onboarding`, the refinement among them |
| `CustomerLogin`, `MCCustomerLogin` | codes, passkeys and sessions of one phone number, and the customer's page |
| `CustomerLoginProofs` | theorems about `CustomerLogin` |

`OrderPlacement` and `TableFloor` do not INSTANCE `OrderLifecycle`: they keep of
an order only the columns their own code reads, and take from the lifecycle the
steps an order can make (`LeavePending`, `MoveOrder`). Composing the full state
spaces would multiply them without a property that needs the product.
`PaymentDelivery` does compose, because its questions are about both sides.

### State and code

`OrderLifecycle`. `order[o]` is the row with the columns the handlers read or
write; `paidAt` and the other timestamps are only NULL or not. `newestLog` is
the last `OrderStatusLog` row. `settled` remembers that a settlement was ever
logged; no action reads it. `request[r]` is a handler execution: `op`, the await
it stands at (`pc`), the row it read (`snap`), the notice and the attempt it
found. Each handler is a start action (read and early returns) and one action
per later await; `Abort` is a throw or the death of the process at any of them.
A `$transaction` is one action. This is exact for these handlers: they run at
READ COMMITTED, their first write locks the order row until the commit, and
everything they write comes from the snapshot taken before it, so nothing inside
one can see another one half done. Prisma's unique constraints are the guards
`KeyTaken` (receipts) and `Bound` (idempotency key); a violation rolls the whole
transaction back (`CallbackRollback`, `TelebirrRollback`, `CreateConflict`).
Acceptance and readiness of a delivery are two statements without a transaction,
and two actions.

`PaymentDelivery`. `gateway[o]` is the trade at Telebirr; `NotifyFinal` may
deliver its outcome as often as it likes until `acked` holds the order, which
`Answer` adds exactly when `payment.controller.ts` answers code 0 (`AnswersZero`)
and the answer is not lost. `Die` and a lost answer count as `faults`. `Reuse`
frees a slot: requests are slots here, so redelivery has no end. `overtaken`
remembers that a provider update wrote columns that had changed since its
snapshot (`Stale`); no action reads it. Trade words and query words are
different, and `mapTradeStatusToPaymentStatus` is the code's table.

`OrderPlacement`. An order is named after the request that created it. `units`
stands for its OrderItem rows. `stock` is Redis; the Lua script is one step
(`DeductLine`), a key that is not set means the product is not tracked.
`usedCount` is read and incremented inside the creating transaction by an
UPDATE whose WHERE holds the limit. `Payload` is what `buildRequestHash` covers,
lines sorted by product. An append reads the subtotal (`AppendRead`) and writes
the sum (`AppendItems`) in two steps, because at READ COMMITTED the read inside
the transaction takes no lock. Amounts are integers in cents.

`ServiceTickets`. An update is read, check, conditional write
(`updateMany` with the status it read), second read, performance, notification.
`resolver` records whose request resolved the ticket; the row does not keep it.
`Reopened` are the tickets somebody asks to put back to OPEN.

`TableFloor`. `table` holds the rows of all shops, `order` the dine-in orders
with shop, table and state. Deletion sets `tableId` of orders to NULL
(`Order_tableId_fkey ... ON DELETE SET NULL`), a lost foreign key fails the
insert, `@@unique([shopId, name])` is checked when a rename writes. An event in
flight (`emission`) reads the table, then the open orders, then publishes;
`floor` is what the page of one shop shows. The moves of an order are those one
handler at a time makes; what overlapping handlers do to an order is the subject
of `OrderLifecycle`.

`AuthSessions`. A `session` row has an owner and a revocation; a token is its
session and whether its hash is the row's current one (`current`), since a
rotated token never becomes current again. Each page has a call its user asks
for and one it makes on its own, because the error link and the timer refresh
without knowing of each other. A refresh is the reads and writes of
`rotateRefreshToken`: find, rotate or revoke the family, look at the member, answer.
The cookie changes when the answer lands. `strayed` (two refreshes of a session
under way, or a rotated token lost) and `alarmed` are read by no action.

`Onboarding`. `Approve`, `CreateShop`, `CreateManager`, `Decide`, `Audit` are the
awaits of `approveShopApplication`; a shop is named by the execution that made
it. `Decide` ignores how many rows its conditional update met, as the code does.
`staff` is keyed by phone number, which is unique over all shops. A member's
`active` flag is there because `deleteStaff` is a deactivation: the row and its
number stay taken. No property of this module reads it; what a disabled member
may still do is the subject of `AuthSessions`.

`CustomerLogin`. `rows[w]` are the rows of one way in, oldest first; a finish
finds the newest unused one and then counts a mistake, or saves its passkey,
spends the row, verifies the phone, opens a session and lands at the page, one
await each. `known` are the messages that arrived. `page` is the customer's
browser: token in `localStorage`, refresh cookie, the restoring effect.

### Abstractions

- Requests run at most once; a retry is another request. This bounds every run
  but `payments_delivery`, where slots are used again.
- Validation of fields, authorization, signatures: a request that fails them
  changes nothing, and is left out.
- Text, addresses, reviews, print payloads and metadata are left out; raw
  payloads are members of a small set told apart by their hash.
- Publications to the payment event topic and metrics are left out: nothing in
  the repository consumes them.
- A repeated success also repeats the floor event of its order; `TableFloor`
  leaves that out, as the event it adds shows the same rows.
- `AuthSessions` leaves out the lifetime of refresh tokens and the rate limit. A
  broken connection ends a call at the page and at the server. A session id is
  used once.
- `PaymentDelivery` has the H5 channel only, `merch_order_id` is the order id,
  and the interim notification is sent once: a second one is the same payload.
- `CustomerLogin` lets one of the three purposes of a code stand for three
  copies that share nothing, and leaves out passkey counters; the rotation of
  the customer's refresh token is that of `AuthSessions`.

## 3. What is checked

TLC, with symmetry where no liveness is checked. `CHECK_DEADLOCK FALSE` where
the system really comes to rest: once every execution has run (orders, tickets,
applications), once an order is closed and nothing is left to deliver, once the
customer is signed out and all rows have expired. The floor page polls and the
console pages can always be opened, so those runs do check deadlock.

| Run | Instance | Shows |
|---|---|---|
| `lifecycle_concurrent` | one order, 3 overlapping executions, 2 attempts, two transactions, two nonces, two bodies | whatever handlers race: no kitchen work without a settlement; SUCCESS has `paidAt`; the board agrees off delivery; a lost cancellation, a second settlement, a reopened order or a payment turned into a failure is the work of a handler that was overtaken |
| `lifecycle_serial` | one order, 5 executions one after the other, crashes included | the business rules that hold when handlers do not overlap: a settlement is kept, a payment is not revoked, final states are final, and the three records of where an order stands differ only behind the two delivery steps |
| `payments_delivery` | one order, 2 slots used again, one payment asked for, one fault, 3 attempts | what the gateway was told is recorded; a completed payment is acknowledged in the end; somebody who asks for a reconciliation again and again gets the order settled |
| `placement_concurrent` | 3 overlapping executions over 7 inputs: two rounds at a table, a reused key, permuted lines, a coupon with one use, a delivery, a pick-up | every unit is accounted for, the coupon count, answers match requests, totals follow from subtotals; a subtotal is short only where two requests appended, and nobody is asked for more than the lines cost |
| `placement_serial` | 4 executions one after the other; payments and cancellations at any moment but inside the append's transaction | the subtotal is the sum of the lines; nobody is charged more than the total; appends only while unpaid |
| `placement_twice` | 3 executions one after the other | a violation, see section 4 |
| `tickets` | two tickets, of which one may be reopened, two waiters, 3 overlapping updates, crashes | updates of a ticket that nobody reopens implement `TicketPromise`; those of the other take turns; nobody is counted for what another did |
| `tables_floor` | two shops, a demo table, 2 overlapping executions over 7 inputs, 2 events under way that may be lost | an order is at a table of its shop; a deletion spares the orders it counted; the page converges |
| `sessions` | one member, two pages of one browser, two logins, one call started by a user at a time while both pages refresh on their own | a session is revoked as stolen only after an overlap of its refreshes or a lost answer |
| `sessions_end` | the same with one login, with fairness | a member who stays disabled is shut out, also when the revocation never ran; no page stays on a revoked session |
| `onboarding` | two applications, two phone numbers, 3 overlapping approvals, rejections, staff pages, crashes | the refinement of `OnboardingPromise`; answers and audit entries are true |
| `customer_login` | two codes, one challenge of each kind, 3 overlapping finishes, one mistake allowed | a row admits once unless finishes overlapped on it; a logout the server carried out holds |

The largest instances have about a million states (`sessions` 1.08, `onboarding`
1.00, `lifecycle_serial` 0.67).

### Why the bounds are enough

- Lifecycle: the handlers touch one order at a time, so one order is the whole
  story of a row; three executions are a slow one with its stale snapshot, one
  that overtakes it, and one that acts on the result. Five serial executions
  reach every final state with one repeated notice left over. Two transactions,
  nonces and bodies are enough to collide on a key with equal or different
  content. `MaxAttempts` = 2 gives a callback an attempt to find and one to miss.
- Delivery: two slots are a notification and what overtakes it, and as slots are
  used again any number of them follow each other. One fault, at any step, is a
  death or a lost answer; 3 attempts are one initiation and what notices append.
  The run was also made with two initiations (1.7 million states, same result).
- Placement: three executions are what it takes to create an order and to append
  to it twice; stock of 3, inputs of 1 and 2 units and a coupon with one use put
  both limits within reach.
- Tickets: with three updates a reopened ticket is accepted again while an old
  update is still in flight; the second waiter is who loses a race.
- Tables: two executions are one that has checked and one that comes in
  between; two events can be published in the wrong order. `Emitters` only bounds
  events under way. (The safety properties were also checked with three
  executions and one event, 6.9 million states.)
- Sessions: two pages of one browser are what shares a cookie, each with its own
  timer; the second login is a session that must not be hurt by the first one's.
  `MaxCalls` bounds the calls users start, never the refreshes of timers.
- Onboarding: three approvals are one that raced, one that lost and a retry; two
  phone numbers for two applications and the shops' own pages collide.
- Customer login: two codes are what it takes for a newer one to shadow a
  delivered one; challenges differ from codes in their steps only.

### Fairness

- `TableFloor`: `WF_vars(Poll)` for the page, justified by `pollInterval:
  TABLE_POLL_MS` (3000 ms) with `network-only` in `useTableQueries.ts`, as long
  as the page is not in its edit mode, where polling is switched off. A poll that
  fails is followed by the next one. Events may all be lost.
- `AuthSessions`: calls end (`Step`, where a broken connection is an end too);
  time passes (`ExpireAccess`); and the timer of a page fires
  (`TimerRefresh`), which `setTimeout` sets for 30 seconds before expiry in
  `useMerchantSession.ts` 73-94. Nobody has to log in or out, open a page, or
  revoke anything.
- `PaymentDelivery`: a handler that runs goes on, and a slot that is done is
  free again (weak fairness); the gateway redelivers, and its call is taken
  (strong fairness, because slots, which the service does not have, may be busy
  with others over and over). Nobody has to pay, cancel or ask: that somebody
  asks again and again is the hypothesis of `ReconciliationSettles`, because
  nothing in the code schedules a reconciliation.
- In the other components the code schedules nothing: an unpaid order waits for its
  provider, a ticket for a waiter, an application for an administrator. No
  liveness is claimed there.

## 4. Where the code and the repository's own words disagree

`placement_twice` is a run that TLC ends with a counterexample: a request
answered by an append stores no idempotency key, so its retry appends and
deducts again, without any concurrency (see "findings" in `PROJECT.json`).

Others are visible in the models and shape the properties:

- "ignores late failed callback after order already paid"
  (`order.service.spec.ts:572`) holds only when the failure reads the order
  after the success wrote it. When it read before, the paid order becomes
  PAYMENT_FAILED. So `SettlementKept`, `PaymentNeverRevoked` and
  `FinalStatesAreFinal` are checked of serial executions, and
  `AckedMeansRecorded` excepts orders that were `overtaken`. The same holds of a
  cancellation that meets a payment and of a merchant's step that meets either.
  What is true of overlapping executions is `LossesAreOverlaps`: whoever takes an
  order back writes after another handler changed the state or the payment it
  had read, so a check of those two columns in the WHERE of each update would
  exclude all of it.
- A notification that says Paying takes the receipt key (transaction, order id),
  so the final one is a conflict for ever. Only a reconciliation repairs it, and
  nothing schedules one: `CompletedIsAcked` excepts the orders in `interim`,
  `ReconciliationSettles` does not.
- Two overlapping appends read one subtotal; one of the amounts is lost, the
  lines stay. A round can join an order that was paid inside the append's
  transaction. Serially neither happens (`SubtotalIsSumOfLines`,
  `AppendsOnlyWhileUnpaid`); of overlapping executions `AmountsFollowLines` says
  how far it can go.
- The fallback table has one fixed primary key for all shops, so the fallback
  meant to keep an order from being blocked blocks the second shop's.
- `acceptDeliveryOrder` moves `state` and leaves `status`, so the "aligned"
  columns of `order.service.ts:1564` are not: `RecordsLagOnlyInDelivery` says
  exactly how far apart they come.
- `canTransit` and its table (`order.state-machine.ts`) are called by no handler.
- A ticket can be put back to OPEN by the GraphQL mutation, against the
  OPEN -> ACCEPTED -> RESOLVED of the dev-freeze; the assignee and timestamps
  stay, and a resolution checked for a former holder can take effect. The
  refinement is claimed of tickets that nobody reopens.
- A deletion that counted no blocking order may still take the table from an
  order placed before the delete ran. `CountedOrdersKeepTheirTable` is what
  remains of the check.
- An approval that raced a rejection, or another approval, answers ok although
  the decision is the other one's; with crashes and phone numbers in use it
  leaves shops nobody names. `AnswersAreTrue` says which answers can be relied on;
  the spare shops themselves break nothing another part of the code reads.
- The timer and the error link of one page refresh with the same cookie: the
  loser's next use revokes the session of an honest page. `NoFalseAlarm` says
  that nothing else does.
- `deleteStaff` revokes no session; access ends at the next refresh
  (`DisabledLoseAccess`), not before.
- A code whose SMS failed shadows the delivered one; when the newest is used,
  an older unexpired code is found again.
- A customer's logout whose call fails is undone by the effect that restores
  the session; one whose answer alone is lost is not (`LogoutHolds`).

## 5. What is proved

With TLAPS, for every value of the constants: any number of orders, requests,
transactions, waiters, tables, pages, sessions, applications, codes, and every
bound. The only assumptions are the ASSUMEs of the modules (typing of the
constants, distinctness of the null values, that the initial tables obey
their unique index, and that the menu is finite), all evaluated by TLC in the
runs. The theorems about serial executions have `Serial` as a hypothesis: they
are claims about handlers that do not overlap. Eight modules hold the theorems;
each has an inductive invariant, one lemma per action or group of actions, a
lemma for Next, and the temporal theorems.

`OrderLifecycleProofs`: `Spec => []IInv` with

    RowsSound == KitchenAfterSettlement /\ SuccessIsPaid /\ BoardAgreesOffDelivery
    IInv      == TypeOK /\ RowsSound /\ SnapshotsSound

None of the row properties is inductive: a writer puts columns of an old
snapshot into the row, so the proof needs to know what is true of every snapshot
still in flight. That is `SnapshotsSound`: a snapshot that looks settled is of
an order that is settled (settlements are never taken back from the log), a
snapshot with SUCCESS has `paidAt`, a merchant or delivery step in flight saw a
settled order, and the delivery type never changes.

`OnlyOverlapsLose` is about a step: `LossesAreOverlaps`, of handlers that may
overlap. It needs a second invariant, `OverlapInv`: in a row, and so in every
snapshot, a final state is on the board too and a payment that succeeded is not
waited for (`RowClosed`), and a handler in flight has passed its early returns on its
snapshot (`Passed`). If the two columns of the row are
still those of the snapshot, then the early returns would refuse what the
handler is about to take back; so they are not.

The serial properties (`SettlementsStay`, `RecordsAgree`, `PaymentsStay`,
`FinalStatesStay`) need a second invariant on top of the first:

    SerialInv == OneAtATime /\ SnapshotsCurrent /\ RowsInOrder

With one handler in flight the row it writes from is the row itself, so the early
returns it passed still hold when it writes. The exception is a merchant's
acceptance or readiness of a delivery between its two statements, whose row
already has the new state. `RowsInOrder` holds of a row whatever wrote it last;
its part that paymentState SUCCESS is a settlement is what keeps a paid order
out of the states in which a late initiation or failure writes paymentState.

`PaymentDeliveryProofs`: `AcknowledgedIsRecorded`. An acknowledgement has three
sources, and the invariant has a part for each: `AttemptsClosed` (a successful
attempt, which answers a repeated success, is of an order that knows its
outcome), `ReceiptsClosed` (so is a receipt about a final trade, which answers a
replay) and the update itself. `Closed` says the gateway has decided and the order
has left PENDING_PAYMENT, with `paidAt` when the payment completed, or was
overtaken; it survives every later write because an update that is not stale writes back
what is there (`WrittenCloses`). `NoticesTrue` ties notices in flight to what the
gateway decided. The lifecycle's invariant holds in the composition by the same
lemmas, which do not mind that slots are used again (`DeliveredOrdersAreSettled`).

`OrderPlacementProofs`: `CouponsAreCounted`, `AnswersMatch`, `TotalsStayDerived`.
The core of the invariant is `CreatedOnce` (an order is there exactly when the
request it is named after created it) and `OneOrderPerKey`; the coupon count then follows
because creation adds one element to the set it counts and nothing else touches
either side.

`UnitsStayAccounted` and `TypeCorrectness` rest on `AmountsInv`. A request has
taken the first `taken` lines of its input (`TakenOK`), and all of them when it
writes (`AllTaken`); so a deduction moves one line from stock to what is held
(`HeldMoves`), and creation and append move all lines from what is held to what
is sold (`HeldSplit`, `SoldCreated`, `SoldAppended`). The sums are folds over
sets, and the library's induction theorems cannot be used here; the module has
sum lemmas of its own, each proved by looking at a smallest set for which it
would fail (`SmallestSubset`, from the library's theorem that strict inclusion
of finite sets is well founded): a sum exists, splits at any element, and adds up
pointwise. `AmountsStayWithinLines` is
about appends that overlap. What an append read is between the first round and
what the lines cost now, since lines are never removed; it differs from the
subtotal in the row only when somebody has appended since (`ReadBounds`), and whoever appended stays on record (`AppendedStays`), so a lost
amount has two requests to its name. The serial theorems (`SubtotalsAddUp`, `PaymentsNeverExceed`,
`AppendsStayUnpaid`) add `AppendCurrent`: the order an append writes to is
unpaid and has the subtotal the append read.

`ServiceTicketsProofs`: `TypeCorrectness`; `HoldersKnown` (an accepted or
resolved ticket has an assignee, reopening included), whose strengthening
`ReadsSound` says what an update in flight may have read; and `PromiseKept`,
`Spec => TicketPromise!Spec` for the tickets nobody reopens. The invariant behind
the refinement, `ForwardInv`, adds that a request which passed its check to
RESOLVED is the holder's for as long as its conditional write can take effect.
`UpdatesAlternate` counts the updates that took effect, and the status the
ticket has now with them (`TurnsKept`): a conditional write that takes effect
uses up the one that brought the status it found. `CountsAreBacked` charges each
count to a ticket. The executions that may have counted are an upper bound of
the counters (`CountsBacked`); on a ticket nobody reopens an acceptance and a
resolution take effect once (`WinnersAlone`) and what the second read saw stays
true (`ForwardRuns`), so those executions are told apart by their tickets.
Requests and tickets may be unbounded: that finitely many updates have taken
effect is part of the invariant.

`TableFloorProofs`: `OrdersStayInShop`. `FoundInShop` says that a table a
request found is still of the request's shop if it is still there; it needs `IdsOnce`, that
a deleted table's id never comes back, and the demo table, the one id that does,
is the exception the property names. `CountedOrdersStay`: of the orders an
execution about to delete has seen, those at its table are closed (`CountHolds`).
That stays true until it deletes, because an order only ever leaves its table
and a closed one stays closed (`OrdersGoOn`).

`AuthSessionsProofs`: `AlarmsAreExplained`. A live session that has not strayed
is quiet: it is the cookie of at most one browser (`OneHolder`), at most one call carries it
(`OneCarrier`), and what is presented next is its current token
(`CarrierCurrent`, `CookieCurrent`).

`OnboardingProofs`: `PromiseKept` (the refinement: a decided application names
a shop with staff) and `AnswersTrue`, from what each execution has
already done at its place.

`CustomerLoginProofs`: `CodesAreSpentOnce` and `LogoutsHold`. A finish that was
admitted has spent its row (`AdmittedSpent`), and two in flight on one row are
both marked (`MetOnTheRow`); a page that left holds no live cookie
(`LeftForGood`), because a cookie is of a sign-in that is over (`CookieDone`).

Every invariant and action property of the passing runs is stated by a
theorem. Model-checked only are the five liveness properties
(`FloorAgreesEventually`, `DisabledLoseAccess`, `DeadPagesLeave`,
`CompletedIsAcked`, `ReconciliationSettles`): they need fairness, that is
ENABLED, which is out of this prover's reach. `OrderedOncePerKey` is
false, and a run shows it. No module declares a RECURSIVE operator.

## 6. Not modelled, and why

Listed under "components" in `PROJECT.json`. In short:

- Platform administration, the catalogue, coupons, addresses, delivery settings,
  announcements: reads, and writes of one statement on one row. Their effects on
  orders (price, stock, limits, discount, fee, automatic acceptance) are inputs
  or choices of the order models. The one race, of product names, is listed as
  a hazard.
- Print jobs: the retry cycle takes its outcome from a constant, so what could
  be checked of it is not what the program does.
- Upload, SMS, operations, rate limits, the HTTP and signatures of the gateway
  client, scripts: I/O and counters.
- Of the modelled components: positions and capacity of tables and the page's
  edit mode; reading notifications, promotion clicks and reports; the sessions
  of platform administrators, whose branch of the refresh is the same with other
  rows; claiming of guest orders.
- Refunds do not exist in the code. The units and coupon uses of a cancelled
  order are never given back, and the properties count them so.

The map covers about 2,900 of some 60,700 implementation lines. A third of them
is out of the question for a model of behaviour: most of the lines are React
components, pages, styles and translations of four web applications, several
of them copies of each other (the library file `components/ui/sidebar.tsx` alone
is there four times, some 730 lines each), and the GraphQL resolvers mostly hand
their arguments on. What of the clients holds a protocol with the server is in
`TableFloor`, `AuthSessions` and `CustomerLogin`. The service itself is some
15,000 lines with its resolvers, DTOs and reports, of which the models take the
parts that change shared state in more than one step.

## 7. Plan

The order of work was: the order row first, because every actor meets in it and
every property about money depends on it; then placement, which feeds it; then
the components with racing actors of their own; then payments composed with
the gateway. Done: the modules of section 2, two refinements, the composition,
and a proof module for each component with a theorem for every property but
liveness. Left, in this order:

1. The customer's cart and resubmission in front of `OrderPlacement`, and the
   catalogue, if the service ever makes names or retries matter.
2. Several orders in `payments_delivery`, when an operation touches two.

## 8. Running

    tlc -workers 2 -config lifecycle_concurrent.cfg MCOrderLifecycle.tla
    tlapm OrderLifecycleProofs.tla

Each mutant of a run ("mutants" in `PROJECT.json`) is an operator of the module,
marked "Mutant:", that changes one definition the way a plausible slip in the
code would; with it in place the run must find its property violated.
