# BeauClick v3 in TLA+

BeauClick is a marketplace for beauty appointments. Version 3 (`src/v3`) is a
NestJS monolith of nineteen services over one PostgreSQL database with one
schema per service; services call each other in process inside shared
transactions, and tell each other facts through transactional outboxes. This
project models where concurrency, failure and money meet in it: who owns a
calendar slot, how a payment becomes a confirmed booking and what comes back
when it does not, how events are delivered - and, service by service, what two
callers, two relays or two sweeps may do to each other's work.

## 1. Inventory

### 1.1 The core

| Component | State | Operations | Talks to |
|---|---|---|---|
| **Availability** (`services/booking/src/availability`) | `availability_slots`: open, held until t by a booking, or booked | publish (no overlap per professional), delete while open | booking claims and releases its rows |
| **Booking** (`services/booking/src/booking`) | `bookings`, idempotency keys, resource assignments, no-show declarations, history | create/claim, confirm, cancel, complete, no-show, reschedule (free, governed, remedy), hold-expiry sweep | called by checkout, waitlist and the remedy; emits `BookingCancelled`, `BookingExpired`, ... |
| **Payments** (`services/payment`) | `payment_intents`, `payment_attempts`, `refunds`, and the gateway's books | create intent, initiate, prepare/apply verification, refund (open, send, complete) | gateway over HTTP; emits `RefundCompleted` |
| **Orders** (`services/commerce/src/order`) | `orders` with immutable payment schedule | create, record capture, confirm without collection, cancel, record refund | called by checkout and by outbox consumers |
| **Checkout** (`apps/api/src/checkout`) | none of its own | checkout, callback, retry, confirmation without collection, compensations | composes booking, orders, payments |
| **Outcome decisions and remedy** (`apps/api/src/outcome`, `services/commerce/src/outcome-decision`) | one live decision per booking and kind, the customer's remedy choice | decide, execute, record; resolve the remedy | consumes `BookingCancelled`; refunds; reschedules |
| **Outbox and relay** (`libs/events`) | one outbox table per service | emit within the business transaction; drain batch by batch | timers in `apps/api/src/events/*sweep.scheduler.ts` |

### 1.2 Around it

| Service | State | Operations that race | Module |
|---|---|---|---|
| financial | legacy ledger, pending-funds journal, settlement marks | event handlers of two relays; settlement reversal | `Funds` |
| loyalty | points ledger, tier crossings, membership | award, clawback, sync from tier, manual activation, expiry | `Loyalty` |
| referral | referrals, grants, monthly counter, claim attempts | claim, qualification against refund | `Referral` |
| commercial-policy | subscriptions, credits, governance, control row | confirmations, cancellations, bulk governance, activation, kill switch | `Credits` |
| | schedule and plan versions | drafts, edits, publication, retirement | `Catalogue` |
| | policy and copy versions, assignments, accepted terms | publication, choice, resolution by an order | `SellerPolicies` |
| business | branches, resources, bindings | retirement and closure against assignment | `Business` |
| | memberships, duties | invitations, acceptance, grants | `Staff` |
| analytics | facts, daily metrics | ingestion, overlapping rollups | `Analytics` |
| identity | refresh tokens and the browser's tabs | rotation, replay, logout | `Session` |
| | one-time codes, accounts | request, verification, first login | `Identity` |
| | role rows | grants and revocations | `RoleGrants` |
| waitlist | entries, offers | two matchers, acceptance, decline, erasure, sweep | `Waitlist` |
| chat | messages, throttle, reports; the client's thread | retried sends, blocks, moderation; lost and late answers | `Chat`, `ChatThread` |
| media | rows and bytes | grant, finalisation, profile image, reaping | `Media` |
| privacy | requests, documents, bytes | two sweeps, reclaiming, cancellation | `Privacy` |
| ai | conversations, quota | creation, sends, replies, retention | `Assistant` |
| wishlist | saved items, a client's cursor | saves at the cap, paging | `Wishlist` |
| search | projection, dirty mark, engine, alias | events, flush, rebuild | `SearchIndex` |
| provider | reviews and rating counters | moderation, rating events | `Reviews` |
| notification | one notification | reservation, attempts, retry leases | `Notifications` |
| outcome (api) | no-show declarations, decisions, refunds | overlapping evaluators, batches of the oldest windows, one that throws in every run | `NoShow` |

Journey (a read projection), pricing (arithmetic), the shared libraries and the
frozen WordPress version 2 are not modelled; `PROJECT.json` lists every component
with its status and what is left out.

### 1.3 What is hard here

* Every transaction runs at READ COMMITTED. The code reads a row without a
  lock, decides, and writes later with a compare-and-swap (`UPDATE ... WHERE
  status = ...`) - or writes without one. What is read may be stale when used.
* Money is taken at a gateway between two transactions, and given back in
  three phases (row, gateway call, completion). Every boundary is a place where
  the process may die or another request may come first.
* Callback compensation and event consumer may refund the same order.
* Delivery is at-least-once by two or more relays: consumers must tolerate
  repetition and reordering.
* Timers (hold expiry, relay, windows, retries, privacy, index) must eventually
  resolve what requests leave; they do not wait for their own last run, and every
  instance has them.
* Limits are counted before the insert they admit, under an advisory lock or
  without one.
* Two stores are not one: rows and object bytes, rows and the search engine, the
  server and what a browser believes of it.

### 1.4 What makes it correct

* Calendar: no slot sold twice; slot and booking rows agree; a move never loses
  the booking; final statuses are final; a resource is never double-assigned;
  retries make one booking; holds do not last.
* Money: refunds never exceed what was collected; an order that collected is
  never cancelled; a confirmed booking has collected what it had to; every
  charge that bought nothing is answered with a refund.
* Events: published means handled; effects happen once; no healthy event
  starves.
* The services around: conservation of recorded money and points, rewards once,
  caps, terms that bind, one session per login, no forgotten waiter, complete
  erasure, an index that agrees with its source.

The forty hazards this project is aimed at, each at its line with the property
that watches it (or why none does), are in `PROJECT.json`; section 6 lists the gaps
no property closes.

## 2. Modules

| Module | Models | Composition |
|---|---|---|
| `SlotOwnership` | abstract ledger: a slot has at most one owner; take, move, give up, finish | implemented by `Booking` |
| `Booking` | availability, booking, resources, no-show, sweep | instance of `SlotOwnership` with a refinement mapping |
| `MCBooking` | calendars for TLC | extends `Booking` |
| `BookingProofs` | theorems about `Booking` | extends `Booking`, `TLAPS` |
| `BookingClaimsProofs` | resources, keys, remedies, the simulation of `SlotOwnership` | extends `BookingProofs` |
| `OutboxProofs` | theorems about `OutboxRelay`, `Notifications` and `NoShow` | extends `MCSweeps`, `TLAPS` |
| `MCBookingScenes` | limits the requests under way at once: two bookings of customers, or one booking of customer and professional | extends `MCBooking` |
| `OutboxRelay` | emit, drain, failure, redelivery | standalone |
| `Payment` | the transactions and gateway calls of payment-service | used by `Checkout` |
| `Checkout` | checkout, orders, decisions, remedy, consumers | extends `Payment` |
| `MCCheckout` | symmetry for TLC | extends `Checkout` |
| `CheckoutProofs` | money within what was collected, final outcomes | extends `Checkout`, `TLAPS` |
| `CheckoutAnswersProofs` | every charge that bought nothing is answered | extends `CheckoutProofs` |
| `NoShow`, `Notifications`, `Privacy`, `SearchIndex` | the services whose work timers start | standalone |
| `MCSweeps` | one kind of scheduled work at a time | extends these and `OutboxRelay` |
| `Funds` `Loyalty` `Referral` `Credits` `Catalogue` `SellerPolicies` `Business` `Staff` `Analytics` | one service each, see 1.2 | standalone |
| `MCCommercial` | one commercial service at a time | extends these |
| `CommercialProofs` | all nine services of `MCCommercial` | extends `MCCommercial`, `TLAPS` |
| `Session` `Identity` `RoleGrants` `Waitlist` `Chat` `ChatThread` `Media` `Assistant` `Wishlist` `Reviews` | one service each, see 1.2 | standalone |
| `MCPlatform` | one platform service at a time | extends these, `Privacy` and `SearchIndex` |
| `AccountProofs` | session and privacy requests | extends `Session`, `Privacy`, `TLAPS` |
| `PlatformProofs` | sign-in, roles, assistant, wishlist, media, waitlist, chat and its client, search, reviews | extends `MCPlatform`, `TLAPS` |

### 2.1 Booking

`slots`, `bookings`, `assignments`, `keys` and `declared` are the tables.
`cancellation` keeps who cancelled and whether the remedy has been used.
`sessions` are request transactions in flight, with what they have read;
`sweep` is the batch the sweep has read and not processed. `clock` is time.

One action is one atomic effect. `create` is `CreateBegin` (count of holds,
read without lock), then `CreateCommit` or `CreateRefused` (claim, inserts,
index checks, resource, key: one transaction). `cancel` is `CancelBegin` (the
unlocked `before`), then `CancelWrite` (compare-and-swap, then `releaseSlot` with
the slot id read before) or `CancelLost`. `reschedule` is `RescheduleBegin`, then
`RescheduleCommit` or `RescheduleRefused`; the governed variant locks the row
first and is the single action `RescheduleGoverned`. The remedy is the same pair
with `remedy` set. `expireStaleHolds` is `SweepRead` and one `SweepExpire` per row.
`Confirm`, `Complete`, `MarkNoShow`, `CreateSlot` and `DeleteSlot` are single
transactions.

A transaction that throws is an action that changes nothing but its session.
Writes of one transaction are one action because the row locks they take are
held to commit and conditional UPDATEs re-evaluate their predicate against the
committed row.

### 2.2 OutboxRelay

`outbox` has rows with an id order and `attempts`; `relays` are drains in
progress with the batch they read; `effects` counts what consumers recorded.
`Handle` runs one handler, `MarkPublished` follows the last, `HandlerFails` writes
`attempts` from the value the batch read and goes on with the next row,
`Interrupt` is a process that dies. Two relays stand for two processes: the
`draining` flag only excludes overlap within one.

### 2.3 Payment and Checkout

`Payment` holds `intents`, `attempts`, `gateway` and `refunds` of one order, and the
operations as state fragments. `Checkout` adds `order`, `booking` (its status as
far as money is concerned), `decision`, `remedy`, `mail` (unpublished events) and
`workers`. A worker is an HTTP request or a relay; its `pc` is the await it stands
at:

* starting a payment: `CheckoutPay` or `RetryPayment`, then `InitiateRefused` or
  `InitiateAtGateway`, then `InitiateInsert`;
* the callback: `Callback` (gateway asked), then `CallbackFailed`,
  `CallbackCaptured` or `CallbackDuplicate` (one transaction over payment, order,
  entitlement and booking), then the compensating refund;
* a refund: `RefundOpen` (under the intent's lock), `RefundSend`, `RefundComplete`;
* a cancellation: `DecideCancellation` (under the order's lock),
  `ExecuteCancellation`, the refund, `RecordExecution`, `MarkPublished`;
* `HandleExpired`, `HandleRefunded`: the other consumers;
* the remedy: `RemedyBegin`, `RemedyCommit`;
* `Crash`: a worker is cut off wherever it stands.

Abstractions: an intent's expiry is a flag that time sets; a failure code is
whether a retry may follow; amounts are small numbers (collected 4, retained up
to 3); cancellations by seller, platform and provider are `professional`; the
result of `evaluateBookingOutcome` is any retention that accepted terms allow for
a customer's cancellation of a confirmed booking, and none otherwise. Events are
delivered in any order, which is more than the relay does.

External: the gateway. Its sandbox adapter is modelled from the source;
`mispaid` (an amount or currency that disagrees), `manual_required` and refusals
are what an external gateway may add through the provider interface.

### 2.4 The services around

Each of these modules follows one pattern. The tables are functions of a small
set of rows; a call, relay or sweep is a record with the step it stands at and
what it has read; one action is one statement or one transaction, according to
what the code holds a lock for:

* a transaction that takes its lock first (advisory, `FOR UPDATE`, `FOR SHARE`) and
  reads under it is one action, or two with the lock as a guard of the others when
  the outcome of waiting matters (`Credits`, `Business`, `SellerPolicies`, `Referral`);
* what is read before the lock, or without one, is an action of its own, and the
  write uses what was read (`Funds`' ledger, `Loyalty`'s awards, `Catalogue`'s edits,
  `Media`, `Assistant`, `Chat`);
* a compare-and-swap or an `ON CONFLICT DO NOTHING` is a guard on the committed row;
* an event is delivered again until its consumer has finished, by either relay;
* an answer that travels to a client may be lost, late or overtaken (`Session`,
  `Chat`, `ChatThread`);
* an event that names no row (`Waitlist`'s slot `none`) is taken as TypeORM takes a null
  in a where clause: the condition is dropped, and some row is found.

Steps of the code that are one action here although nothing holds a lock over them,
each because no property can tell:

* `Booking.MarkNoShow`: the read that finds the appointment of an ungoverned booking over
  (`booking.service.ts:553`) and the transition, which compares the status and not the
  slot. No property speaks of when a no-show is declared.
* `Session.IssueNext`: the insert of the next token and the pointer to it. Only the
  list of a user's sessions reads the pointer (the replay check goes by the time of the claim);
  a rotation cut off before the insert is `RotationDies`.
* `RoleGrants.BeginRoleChange`: the guard reads the row, where the code may go by the token. A
  capability taken back is still one that was had.
* `Media.WriteProfile`: `markDeletedOwnedIfLive`'s read and its update. Whatever the row has become
  in between, the same is written. What is pending is counted per purpose.
* `ChatThread.ReadPage`: one page at a time, where a change of visibility may start a
  second poll. A page holds what was posted when it was served and marks what it showed.
* `Assistant.LookAt`: `closeIfStale`'s read and its update, which compares the status and not the
  activity; that a conversation just resumed may be closed touches neither limit nor position.
* `Wishlist.LockAndCount`: the lookup of the row and the lock. A row of the same
  item saved in between meets the unique index, and is counted once either way.
* `Reviews.ApplyRating`: every rating is 1, so the clamp of `rating_sum` is not told
  from the clamp of the count, which the property is about.

Some variables remember history that only a property needs: `overlapped`,
`disturbed`, `outlived`, `crossed`, `late`, `excused`, `jumped`, `clamped`,
`flushesMet`. They mark the behaviours in which the code itself does not keep the
promise; the property then says what holds outside them, and section 6 names the
gap.

These services share no tables in the model, so their joint behaviours are the
interleavings of each one's. `MCCommercial`, `MCPlatform` and `MCSweeps` therefore
let the initial state choose which one runs (`focus`) and leave the others where
they begin: every property of a service is checked on all of its behaviours,
without the product of all services.

## 3. Runs

| Run | Question | Bounds |
|---|---|---|
| `booking_core` | do slot and booking rows stay in step, does the service implement the ownership ledger, do cancel, remedy and no-show race safely, do holds resolve? | 2 slots of one professional, 2 transactions, sweep; either 2 bookings of customers (the second joins before anything has moved) or 1 governed booking and transactions of either party |
| `booking_claims` | shared resource, shared idempotency key | 3 slots of two professionals that overlap, 1 chair, 2 bookings, 2 transactions |
| `checkout_money` | are the books of order, payment and booking consistent under double payment, late payment, cancellation and remedy? | 2 intents, 2 gateway references, 2 requests, 1 relay |
| `checkout_return` | are outcomes final, and is a cancelled booking's money answered for, across a crash? | 1 intent, 2 references, 1 request, 1 relay, 1 crash |
| `scheduled_work` | is what timers start done once, and done in the end? | relay: 4 rows in 2 tables, 2 relays, 1 poison row, 1 fault, 1 death; windows: 3 in batches of 2, 2 evaluators, 1 fault, the second window throws in every run; notices: 2 requesters, 2 sweeps, 2 retries, 2 deaths; privacy: 1 export, 1 erasure, 2 sweeps; search: 2 revisions, 2 pushers, 1 refusal |
| `commercial_services` | do money, points, rewards, credits, terms, resources and counts stay right under two concurrent callers? | per service 2 callers or relays, limits of 1 or 2, 1 crash or fault |
| `platform_services` | the same for sessions, sign-in, waitlist, chat, media, privacy, assistant, wishlist and search | per service 2 or 3 callers, limits of 1 or 2, 1 interruption |
| `find_*` | refute what a comment says, see section 6 | smallest that show it |

Why these bounds are enough. Every conflict in the calendar is between two
transactions, or a transaction and the sweep, over at most two slots of a
booking: one it leaves and one it takes. The resource conflict needs two
professionals and one chair. A third transaction only repeats one of the two.
In the services around, every conflict is likewise between two callers over one
row, key or counter at its limit, so limits are 1 or 2 and there are two callers
(three where a third must find what two left: `Wishlist`, `Chat`'s two customers'
sends and the seller's). `SearchIndex` runs with three revisions and a rebuild for
safety, two revisions and an engine that refuses once for liveness.
Starvation needs a poison row within a batch smaller than the table: the relay's
goes on past it, the no-show sweep stops there, so three windows, of which the second
throws, are one that is decided before it, the throw, and one stranded behind it. The refund
conflict needs two keys; a double charge needs two references; an intent
replaced after expiry needs two intents. `HoldsResolve` needs a clock that can pass
every hold (`MaxClock` is the last start plus `HoldTime`). `booking_core` takes
`HoldTime = 0`, a hold shorter than a tick, so that a slot whose hold has lapsed can
be claimed again before it starts. `MaxAttempts` caps a
counter that is only observed. `MaxCancels = 1` in the passing runs because the
second cancellation after a remedy is exactly what
`find_forgotten_cancellation` refutes.

Deadlock is not checked: when time has run out, every booking and payment is
settled and every request answered, the system may stop. That two transactions
never wait for each other's locks is a property (`NoCircularWait`). Symmetry is used
over interchangeable transactions and rows, and never in a run with a liveness
property.

A property of the services around is a conjunction of named parts, each stated
and explained where it is defined: `BooksBalance` is `FundsConserved`,
`LedgerConserved`, `RefundReachesJournal`, `SplitFollowsRate` and
`NeverUnsettledTwice` together with the module's type invariant, and likewise for
the others. Three join two services that answer one question: `TermsBind`
(catalogue and policies), `WorkplaceConsistent` (resources and staff) and
`AccessIsEarned` (codes and roles); `ConversationConsistent` joins chat and its
client, `SearchAgrees` the index and the ratings.

### 3.1 Fairness

* Booking: `Tick`, `SweepRead` and `SweepStep` weakly fair - `setInterval` in
  `outbox-sweep.scheduler.ts` keeps calling the sweep - and each transaction in
  flight completes (awaits return or throw). No request is ever obliged to come.
* OutboxRelay: `StartDrain` (the timer) and each relay's next step.
* NoShow, Notifications, Privacy, SearchIndex: time passes (a window ends, a retry
  comes due, a request grows old), each sweep's timer keeps starting it, and a sweep
  under way reaches its next await, unless it dies. The timers are `setInterval` in
  `outbox-sweep.scheduler.ts` and `phase3-sweep.scheduler.ts`. Deaths and refusals
  are bounded (`MaxDeaths`, `MaxWindowFaults`, `MaxEngineFaults`; a privacy sweep dies
  once): a store or a gateway that never answers again defeats every retry.
* Checkout: each worker's next step weakly, and each (relay, event) pair strongly:
  a relay that is free visits every unpublished row in id order again and again,
  so a row cannot be passed over for ever by a relay that is infinitely often
  idle.

## 4. Proofs

Every theorem below holds for every value of the constants that meets the named
assumption of its module, and is checked to the last leaf. TLC evaluates the
assumptions in the run of the module, and each inductive invariant was checked there
before it was proved. Where a service shares an MC module with others, the theorem is
about its own specification (`SessionSpec`, `MediaSpec`, ...) or, for a property that
joins two services, about the joint one (`PlatformSpec`, `CommercialSpec`).

Assumptions worth naming, because a proof would fail without them: two refreshes of a
session that overlap fit into the grace window and a token outlives the answer that
carries it (`SessionAssumption`: the grace is ten seconds and a token lives for days, that an
exchange is shorter is asked of the network); a role without
privilege has no capability of one with it, and an owner's role is not privileged
(`RoleGrantsAssumption`, from the seed migration); the calls, rows and callers that a
limit counts are finitely many, and so are the sides of a conversation (it has two).
That sums and counts stay finite is otherwise part of the invariants
(`ConsumptionsExist`, `EventsNumbered`), not assumed.

Points and money are summed by folds over finite sets. What is needed of them is proved by
induction stated with sets rather than with a predicate: `SubsetInduction` takes the set of the
good subsets, and follows from the least size of a bad one. From it come `SumStep` (a
sum, one element at a time), `SumTakes` (whichever comes first), `SumParts`, `SumSame` and `SumCancels`.

### 4.1 Booking and its calendar

`BookingProofs` proves, for every calendar, every number of bookings and
transactions, every configuration and every clock bound:

* `TypesHold`: `Spec => []TypeOK`;
* `SlotsInStep`: `Spec => []LiveBookingOwnsSlot`;
* `NeverDoubleBooked`: `Spec => []NoDoubleBooking`;
* `FinalForGood`: `Spec => FinalStaysFinal`;
* `MovesKeepBookings`: `Spec => MoveKeepsABooking`.

They rest on the assumptions named in `Booking` (slots start before they end, NULL
is no row's id, bounds are naturals, requests come from customers or
professionals), which TLC evaluates in every booking run.

The inductive invariant is `BookingInv == TypeOK /\ SessionsPlaced /\
BookingsPlaced /\ LiveBookingOwnsSlot`. `NoDoubleBooking` alone is not inductive: a
release of another booking's slot would reopen it and let a third booking in. It
follows from `LiveBookingOwnsSlot`, since a slot row names one booking.
`LiveBookingOwnsSlot` in turn survives a release with a stale slot id because
`releaseSlot` compares the owner, survives a claim of a lapsed hold because the
unique index admits no second live booking, and survives `confirm`'s blind UPDATE
because a pending booking already owns its slot. `SessionsPlaced` says what a
transaction in flight still knows. The proof has one lemma per conjunct
(`NextTypes`, `NextSessions`, `NextBookings`, `NextOwns`) with one step per action,
over lemmas about what a release, a transition and a move do to the rows.

`BookingClaimsProofs` rests on `BookingInv` and adds:

* `ResourcesNeverClash`, `LiveBookingsAreServed`: `NoResourceClash` and
  `LiveBookingHasResource` are inductive over `BookingInv`. The lemma behind them says
  all a step may do to the assignments: nothing, a release, or the one row that
  `eligibleResource` admits;
* `CreatesAreIdempotent`: needs `KeysRecorded` (the key of a booking leads back to it),
  since that is what refuses the second insert under a key;
* `RevivalIsRemedy` (an action property): needs `RemediesHeld`, the remedy's choice row is
  its own until it commits, so what it read before is still so;
* `BookingImplementsOwnership`: the step simulation of `OwnershipRefined`. `LedgerStep` says
  what the ledger sees of a step (at most one booking takes, keeps, moves or gives up);
  `OwnerIsLive`, that the owner the mapping chooses is the live booking. What the
  theorem states is the safety of the ledger: it has no fairness.

### 4.2 Events, notifications and no-shows

`OutboxProofs` proves, for every number of rows, tables, handlers and relays, every
batch size and every bound on faults, interruptions and attempts:

* `Delivery`: `Spec => DeliveryIsExact`, the safety half of delivery. A published
  row has had every handler, an effect is recorded at most once, a failed row shows
  an attempt, and neither a publication nor an effect is taken back.

It rests on `OutboxAssumption`. The inductive invariant is `DeliveryInv == TypeOK /\
DrainsPlaced /\ PublishedIsHandled /\ EffectsOnce /\ FailureIsVisible`.
`PublishedIsHandled` alone is not inductive: the UPDATE that marks a row looks at no
effect, so that the earlier handlers have committed is known only from the drain's
place in its loop. `DrainsPlaced` records it: the handlers a drain has passed for its
current row have their effect on record. That survives what other relays do
because effects only grow (`EffectsGrow`), and a crash because the batch is forgotten
with the place in it (`FreshDrain`, `RestIsFresh`).

It also proves the safety halves of two properties whose other half is liveness:

* `NotifiesOnce` (from `NoticeSpec`): one delivery (`NotifiedOnce`) and one event
  (`SentEventOnce`), for any number of requesters, sweeps, retries and deaths.
  `AttemptAlone` says that as long as nothing was disturbed one worker at most has an
  attempt under way, on a row that is open and leased, and that a delivery is either in
  its hands or recorded; `SentStays`, that what was sent stays so unless a failure was
  written over it;
* `NoShowsPayOnce` (from `NoShowSpec`): a no-show's money is returned once
  (`NoShowPaidOnce`), and what is recorded as executed has been (`ExecutedIsReturned`).
  Overlapping runs converge on one decision and each executes it; the refund's request key
  makes one of them the sender (`SenderAlone`). `RunsKnow` says what a run has learnt of
  the refund at each await, `RefundsTell` what the refund's row says of the gateway.

### 4.3 Money of one booking

`CheckoutProofs` proves, for any amounts, intents, gateway references, requests, relays,
cancellations and crashes, `MoneyTypes` (`TypeOK`), `RefundsWithinCapture`
(`NeverOverRefunded`), `CollectedStays` (`CollectedIsNotCancelled`), `ConfirmedHasMoney`
(`ConfirmedIsCollected`) and `OutcomesStay` (`OutcomesAreFinal`), from one inductive invariant:
`CheckoutInv == TypeOK /\ WorkersHold /\ ReferencesDiffer /\ AttemptsPlaced /\
IntentsPriced /\ OrderTells /\ RefundsPaid /\ DuplicatesApart /\ BookingTells`.

None of the four properties is inductive. A refund is written in three phases, and at
each only the worker's hands tell that the money was ever collected: `WorkersHold` says
what is true at every await. `DuplicatesApart` says that a charge given back as a
duplicate is not the order's capture, which is why the two keys under one intent do not
both spend the capture; `ReferencesDiffer`, that no second callback inserts the same
reference; `OrderTells` and `BookingTells` relate order, capture and booking, so that a
remedy revives a booking only with its money still there.

`CheckoutAnswersProofs` proves `ChargesAnswered` (`ChargesAreAnswered`), over `CheckoutInv`, from
`AttemptsSettle`, `AmountsFit`, `RowsBehind`, `Decided` and, as long as nothing crashed,
`DuplicatesAnswered` and `CapturesAnswered`: a charge without a refund is in the hands of
somebody - a worker about to open it, or a cancellation event not yet published.

### 4.4 A person's account

`AccountProofs`:

* `RacesAreSurvived` (`SessionsSurviveRaces`), from `SessionTypeOK`, `TokenRows`, `FlightsTimed`,
  `ChainsSingle` and `Undisturbed`. One live token per login is not inductive, because
  rotation revokes first and issues later: `ChainsSingle` counts a claimed refresh as the live
  token it will be. That a race keeps the session needs time: `FlightsTimed` bounds the
  age of an exchange, so that a loser's replay comes within the grace window;
* `ErasuresComplete` (`ErasureIsComplete`), from `PrivacyTypeOK`, `SweepsShaped`, `CopiesGone`,
  `WorkClaimed` and `BytesListed`: what an erasure has not removed is in the hands of the
  sweep that goes on, unless one of the named gaps (section 6) was met.

### 4.5 The platform services

`PlatformProofs`:

* `AccessEarned` (`AccessIsEarned`): `IdentityInv` counts, for each code, the guesses compared and
  those that have read it and may still guess; for the phone, the codes and the requests
  past their limit. `RoleInv` says that a privileged grant still open was covered when
  it was checked, so grants that cross add nothing;
* `AssistantLimited` (`AssistantWithinLimits`): what a creation has counted is what is held
  until it commits (`CountStands`), by the advisory lock;
* `WishlistKept` (`WishlistConsistent`): the same for saves (`SaveCounts`, an upper bound,
  since a removal takes no lock); and `CursorDivides`: of the items held throughout,
  the cursor separates those shown from those to come;
* `ImagesCounted` (`ImagesAccountedFor`): `BytesThere` and `FinalizesPlaced` follow an image
  from the read of its bytes to the compare-and-swap; `GrantsCounted` adds to the images
  that count the calls that have counted and not inserted, whence the exact overshoot;
* `LineFollowed` (`OffersFollowTheLine`, outside the races and silent releases of section 6): `MatchersPlaced` says that a row picked under
  `SKIP LOCKED` still waits and is picked once; `OffersPlaced` and `DueSuits`, that nobody falls
  between an announcement, a matcher and an offer;
* `ConversationAgrees` (`ConversationConsistent`): in `ChatInv`, `InFlight` says what a send that
  is not yet answered holds (its key, the quota it has been charged, the row it has
  read), and `MessagesCounted` that the conversation's counter is the number of its
  messages; the messages map one to one into the keys the users may compose
  (`SpaceLeft`), so the numbering has room. In `ThreadInv`, `ServedIsPosted`, `OlderFollows` and
  `AnswersStand` say what an answer on its way was served from, so that a page arriving late
  marks nothing the user was not shown;
* `SearchFollows` (`SearchAgrees`): `InTurnIndexed` follows the one push under way from the read of
  the document to the swap of the alias, until two pushes or a push and a rebuilt row have met
  (`flushesMet`); `RevisionsOrdered` keeps source, events and document in order. For the ratings,
  `EventsTell` equates additions with removals and published reviews, and `CounterTells` the
  counter with the events applied, however often and in whatever order they come.

### 4.6 The commercial services

`CommercialProofs`:

* `RewardsFollow` (`RewardsFollowReferrals`): `QualifiesAsSeen` says that an open qualification's
  view of the order still holds (it has the order locked `FOR SHARE`), `AwardsCounted` and
  `LookupsCharged` relate the rewards and guesses to the counters that stop at the limit,
  the month's counter being charged in the transaction that awards;
* `EventsCountOnce` (`MetricsCountOnce`): `ReadsBounded` and `ReadsFresh` say what the figures a
  rollup has read and not written are still worth;
* `WorkplaceHolds` (`WorkplaceConsistent`): that nothing retired is booked needs `LocksApart` and
  `PicksActive`: an assignment about to commit holds its resource's lock, so the retirement
  that decides under the same lock cannot have passed it. That the locks never wait in
  a circle follows from `LocksOrdered`: both sides lock in the order of the ids, so the
  transaction that holds the greatest of the locked resources waits for none;
* `TermsHold` (`TermsBind`): in the catalogue, `PublishedApart` is what the exclusion constraints
  keep apart, `VersionsNumbered` that a version number read before the insert does not outrun
  the rows, and `SchedulesSettled` that a published plan's schedule is a draft no longer, so
  that an edit decided on a stale read of it lands nowhere (`DraftsOnly`). For the choice,
  `ChoicesHeld` says that the row an order resolves by is still current and nobody is replacing
  it, which is the order's share lock, `ChoiceSingle` that it is the only one, and `OrdersHold` what an order
  has taken at each stage: terms still in force, and at the end the versions it accepted, by the
  choice it was shown unless that has been superseded;
* `CreditsGate` (`CreditsGateConfirmations`): a confirmation holds the control row `FOR SHARE`
  from its first read, so that the kill switch cannot move under it (`OpenIsPending`); one
  confirmation of a seller at a time has chosen its grant (`SpentApart`, the advisory lock of
  the party), and the grant still has room when the consumption is written (`SpentHasRoom`).
  A party being created has seen the rollout as it is (`CreatedAsSeen`, the coordination lock),
  which is why an active rollout leaves nobody out;
* `PointsFollow` (`PointsFollowDeeds`, with the action property `TierKept` in it): `LedgerKeyed` is
  the unique index over deed and reason, `CallsKnow` what each handler call has inserted or is
  about to. While no two calls overlapped (`CallAlone`), the one under way has seen the ledger as it
  is (`AtTier`), whence the crossing it records; `FollowsTier` holds but for a membership a call is about
  to bring in line, and counts the deeds up to the last whose handler does so. The tier is kept because a clawback leaves the lifetime sum alone;
* `BooksStayBalanced` (`BooksBalance`): the split of a legacy order follows the rate as long as
  no dispatch of its refunds threw, although the ledger is read outside the transaction that
  appends to it. The reason is `FollowsEarlier`: a relay takes events of an order in turn, so of
  two reversals the earlier is posted when the later is read (`OneReversalAtATime`), and what a relay
  is about to insert is still due (`RelayStands`). Whatever threw, `RowsExact` holds: a
  reversal takes away exactly what was refunded. `DoneRecorded` says why a published refund is in the
  journal. That nothing is owed back beyond the receivable needs that a rate of at most
  100 % leaves no negative remainder (`Shares`).

## 5. Only model-checked

* Liveness (`HoldsResolve`, `HealthyRowsPublished`, `CancelledMoneyReturns`, `NoShowsSettle`,
  `NoticesSettle`, `RequestsSettle`, `ChangesSearchable`): outside the prover's reach. Where
  such a property has a safety half, section 4 names the theorem that states it.

## 6. Where the code and its comments part

* `find_claimable`: a lapsed hold is claimable, but until the sweep has expired its
  booking the unique index refuses the insert; the comment says a customer is
  never blocked by how recently the sweep ran.
* `find_stranded_slot`: cancel releases the slot read before a concurrent
  reschedule; the new slot stays booked for a cancelled booking.
* `find_idle_resource`: the sweep does not release the resource of an expired hold.
* `find_counted_twice`: a partial refund event delivered twice is added twice to
  the order; the comment says a redelivery affects zero rows.
* `find_forgotten_cancellation`: after a remedy reschedule a second cancellation is
  never decided nor refunded; the comment says no cancellation path can forget
  the refund.

Gaps without a run of their own, a few of which a comment does deny (named with it). The
properties say what holds outside them; most are written into the models and excused by a
history variable.

* Checkout: a process that dies between capture and compensation leaves the money
  collected and unanswered (`ChargesAreAnswered` is stated for runs without a
  crash); a capture on an intent that another request has expired cannot be
  refunded; a refund cut off at the gateway stays pending; a callback after the
  intent's expiry fails without asking the gateway.
* No-show: an evaluator cut off between decision and refund leaves the decision
  pending; no sweep reads it again. `expireNoShowWindows` catches nothing and reads the
  oldest windows first: one that throws in every run strands all that end after it. Its
  comment says that one failure cannot strand the rest of the batch
  (`booking-outcome.orchestrator.ts:562`); `DueWindowsDecided` is stated for windows
  that no such window precedes.
* Holds: `HoldsResolve` is about a sweep that does not throw. `expireStaleHolds` reads a
  batch with a limit and its loop catches nothing either
  (`booking.service.ts:1035`), so a head of the batch that throws each time would leave the
  rest pending, which its comment (`:1032`) denies; neither the limit nor the throw is modelled.
* Credits: a cancellation that read the booking as pending returns no credit
  although a confirmation has consumed one meanwhile; the remedy confirms without
  consuming one.
* Loyalty: overlapping awards may both see a tier as already reached, so that the
  crossing is not recorded; `expireDue` expires a membership renewed after its read.
  A referral reward counts towards the tier but `ReferralLoyaltyAdapter.award`
  (`apps/api/src/composition/referral-loyalty.adapter.ts:91`) never brings the
  membership in line: it stays behind until the next booking, order or review. So does one
  whose handler died before the sync, since a redelivery awards nothing and stops.
  `MembershipFollowsTier` states what the membership does follow.
* Seller policies: a choice superseded while an order waits for it is reread as no
  choice at all. An acceptance names the versions of policy and copy and not the
  option within the policy: one the seller chooses between disclosure and
  checkout is taken as accepted (`order.service.ts:594`), although
  `packages/commercial-policy-contract/src/booking-outcome-contract.ts:104` speaks of exactly what was shown.
* Waitlist: a slot freed by a reschedule is announced to nobody, and an acceptance
  that fails marks its entry missed without passing the slot on. Erasing an account
  takes its offer away and emits nothing
  (`waitlist-subject-data.contract.ts:61`), so the slot waits for another event. A
  decline names the slot it read before its compare-and-swap
  (`waitlist.service.ts:236`, `:255`): of an entry offered in between it names none, the
  matcher then finds some slot and takes any offer at all for one of it, and the slot that
  was declined is offered to nobody.
* Session: a logout between the claim of a token and the issue of the next leaves
  the next one live; a tab's stale CSRF copy signs it out, and makes its logout one
  that the server refuses and the page does not; a rotation cut off between claim
  and insert ends the session.
* Chat: access is evaluated before the conversation is locked; the client's own
  send may carry its watermark over messages it has not shown.
* Search: two flushes that overlap push in either order, and the older content may be
  pushed last although the row is clean afterwards (hazard 30); `SearchAgrees` says
  nothing once two pushes have met. `fullReindex` clears the marks of changes made while it ran; profile and
  imagery share one revision; a subtraction that arrives first is clamped.
* Notification: a worker that dies between reservation and first attempt leaves a
  row no sweep reads; a late failure is written over a success.
* Privacy: a document in memory when the erasure commits is stored after it; a
  slow request is reclaimed and runs twice; bytes uploaded after the listing stay.
* Staff: a member who declined or was deactivated cannot be invited again.
* Wishlist: rows saved in one millisecond may be skipped by the cursor.

## 7. Plan

Built in this order: ownership of slots, delivery of events, money of one
booking, then the services around it and the work timers start. Next, most
important first:

1. The reschedule consequence that supersedes decisions, in `Checkout`.
2. Composition of `Waitlist` with `Booking`, and of `Funds` with the events of
   `Checkout`.
3. Creation and approval of settlement batches.

## 8. Not modelled

History and audit rows, logging, metrics, listings, texts and formatting; price
and commission arithmetic; anything that only reads. Isolation anomalies beyond
READ COMMITTED do not arise in PostgreSQL for the statements used. Tiers by the points of the last
year (`LOYALTY_TIER_BASIS=rolling_365`) are not modelled, only those by lifetime points. Single-row
editing of profiles and businesses (last writer wins), the pages and forms of the
web client, storage drivers and channels on the wire, journey and the WordPress
version 2 are listed with their reason in `PROJECT.json`.

## 9. Running

    tlc -workers 2 -config booking_core.cfg MCBookingScenes
    tlc -workers 2 -config checkout_money.cfg MCCheckout
    tlc -workers 2 -config scheduled_work.cfg MCSweeps
    tlc -workers 2 -config commercial_services.cfg MCCommercial
    tlc -workers 2 -config platform_services.cfg MCPlatform
    tlapm BookingProofs.tla
    tlapm BookingClaimsProofs.tla
    tlapm OutboxProofs.tla
    tlapm CheckoutProofs.tla
    tlapm CheckoutAnswersProofs.tla
    tlapm AccountProofs.tla
    tlapm PlatformProofs.tla
    tlapm CommercialProofs.tla

Definitions introduced by a comment beginning "Mutant:" are deliberate defects, one
for each property; replacing the operation after it by its mutant makes TLC
report the property as violated.
