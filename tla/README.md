# Atrium booking platform: TLA+ specifications

Formal models of the Atrium studio booking platform: an Express API with Prisma
and PostgreSQL behind three replicas, a worker process, a built-in mock payment
provider ("Paygate"), and a React client. Every definition is translated from
the code under `src/`; `PROJECT.json` maps each one to the lines it stands for,
lists the runs, the mutants that show each property can fail, the hazards, and
the theorems.

Checking: `tlc -config X.cfg MCModule` for a run of section 4, `tlapm
Module_proofs.tla` for a proof module of section 5.

Paths below are relative to `src/backend/src` unless they start with `src/`.

## 1. The system

All replicas share one database and keep nothing in memory but the requests in
progress. A request is a sequence of transactions and provider calls that a
crash may cut after any of them. Interactive transactions run at PostgreSQL's
default, READ COMMITTED, except `createBookingHold`, which asks for SERIALIZABLE.
Paygate runs inside the same server, but its tables and the platform's are
written in separate transactions, and it calls back over HTTP.

| Component | Code | State | Operations | Correct when |
|---|---|---|---|---|
| Booking state machine | `services/bookingStateMachine.ts` | `bookings.status`, `audit_events` | `transitionBookingInTransaction` | every change follows the table and leaves an audit row |
| Hold creation | `services/bookingHoldService.ts`, migration `..._postgres_constraints` | `bookings`, line items, `inventory_reservations` | `createBookingHold`, `lockEquipment` | rooms exclusive with turnaround; equipment within capacity; no deadlock |
| Checkout | `services/checkoutService.ts` | `hold_expires_at`, `checkout_deadline` | `beginCheckout` | a room is not blocked for ever |
| Payment | `services/paymentService.ts` | `payments`, `payment_events` | `startPayment`, `processPaymentWebhook` | one payment per booking; every capture has an outcome |
| Webhook jobs | `services/webhookJobService.ts` | `webhook_jobs` | `enqueueWebhook`, `processWebhookJobs`, leases, backoff | no event marked done unprocessed; every job finishes |
| Cancellation and refunds | `services/cancellationService.ts` | `refunds` | `cancelBooking`, `retryPendingRefunds` | one refund paid, no more than was paid, marked only when paid |
| Loops | `services/holdExpiryService.ts`, `bookingCompletionService.ts`, `server.ts`, `worker.ts` | none | `expireDueHolds`, `completeDueBookings` | nothing stays pending for ever |
| Paygate | `services/paygateService.ts` | `paygate_charges`, `paygate_refunds` | `createCharge`, `createRefund`, `deliverWebhook` | never returns more than it captured |
| Policies | `services/cancellationPolicyService.ts` | `cancellation_policies` | `replaceActivePolicy`, `getActivePolicy` | newest in force, not retroactive |
| Rooms, equipment, venues, staff, users | `services/inventoryManagementService.ts`, `controllers/resourceController.ts` | `venues`, `rooms`, `equipment_types`, `users`, `user_venue_roles` | create, update, delete, assign | changed only by their administrators; bookings keep their rows |
| Authorization | `middleware/auth.ts`, `middleware/authorization.ts` | `request.user` | `authenticate`, `authorize...` | tenant isolation |
| Search, queries, reports | `roomAvailabilityService.ts`, `bookingQueryService.ts`, `reconciliationService.ts`, `reportService.ts` | read only | | agree with the code that decides |
| Client session | `src/frontend/src/auth`, `api/client.ts` | the token in `localStorage`; token, user, loading of each tab | login, restore, logout, 401 | a tab shows the user of its token; no accepted token is thrown away without reason |
| Client pages | `src/frontend/src/pages` | booking shown, idempotency key, forms, lists | load, pay, poll, cancel, save, remove | one key charged; the page follows the booking; a save changes what was meant |

How they interact. A hold inserts the booking, its reservations and a copy of
the policy in force. Checkout renews the hold. A payment request moves the
booking to PENDING_PAYMENT in one transaction, then charges Paygate, then stores
the charge id. Paygate sends a signed webhook, which is stored as event and job in
one transaction and then applied, by the request that received it or by a worker.
Applying it confirms the booking, or opens a refund if the booking is gone.
Cancellation opens a refund on its own. Refunds are paid after the commit by a
call under an idempotency key, and by a loop that retries. Two loops expire and
complete bookings. Reports read all of this without locks. The client keeps one
token for all tabs and lets every 401 discard it; its pages ask, and take every
answer as it arrives.

What is hard: transactions that read without a lock and write by id
(`startPayment`, `beginCheckout`, `updateRoom`, `replacePlatformUserRoles`);
provider calls between transactions; several loops doing the same work at once;
webhooks late, twice, in the wrong order or never; refunds that two paths open
and three complete; leases that run out under a running job; a serializable
snapshot older than the row locks it waits for; policy versions written by
overlapping replacements; roles read once and used after they changed; answers
that reach a page in another order than they were asked for, and a page that
went on meanwhile. The
hazards, each at its line and with the properties that watch it, are in
`PROJECT.json`.

## 2. Modules

| Module | Models | |
|---|---|---|
| `BookingStates` | statuses, `validBookingTransitions`, audit rows | shared |
| `BookingLifecycle` | what a booking promises to whoever looks at its status | abstract |
| `PaymentSettlement` | one booking from HELD to its end: checkout, payment, charge, webhooks, expiry, completion, cancellation, refunds | detailed, implements `BookingLifecycle` |
| `PaymentInvariant` | the inductive invariant of `PaymentSettlement` | |
| `PaymentLiveness` | the fairness of the loops, the batches of the refund retry, and what must eventually happen | composed with `PaymentSettlement` |
| `Reconciliation` | the reconciliation and revenue reports, read in any state of `PaymentSettlement` | |
| `WebhookJobs` | the job table, the requests and the overlapping runs that share it | |
| `Intervals`, `EquipmentSweep` | half-open slots on the half-hour grid, the turnaround, the SQL sweep as an operator and its reference | pure |
| `InventoryPromise` | holds granted atomically | abstract |
| `HoldInventory` | the hold transaction step by step, against releases, payments and edits | detailed, implements `InventoryPromise` |
| `PolicyVersions` | versions of a venue's policy, replaced concurrently, copied by holds | abstract for the next |
| `RefundTerms` | tiers, terms, rounding | pure |
| `CancellationRefund` | prices, rate edits, time and refunds on top of `PolicyVersions` | composed, implements it |
| `TenantAccess` | the decisions of `authorization.ts` and of the booking list, on sets of assignments | pure |
| `VenueAdministration` | the handlers that change venues, users, assignments, rooms, equipment, against each other and a hold | |
| `VenueAuthority` | its invariant and properties | |
| `ClientSession` | tabs that share a stored token, restore calls, logins, requests on their way, refused now and answered later, reloads, expiry | |
| `CheckoutPage` | the checkout page over several openings, with its requests and reads on their way, and the booking at the server in large steps | |
| `AdminForm` | the forms of the selected venue and the list of a user's assignments | |
| `MC...` | instances for TLC | |
| `..._proofs` | theorems | |

### Correspondence

*Steps.* A handler that locks the row before it reads it is one action; one that
reads without a lock is a read action and a write action with anything in
between (`BeginCheckoutRead/Write`, `StartPaymentRead/Write`,
`EditRoomRead/Write`, `ReplaceBegin/Commit`, `HoldFind/Commit`). Work after a
commit is made of further actions that may never happen. A rollback, a lost
answer and a crash are one action each (`AbandonPayment`, `DropRefund`,
`GateStops`, `RefuseHold`, `AbortReplace`, `StopRun`, `Reject`), because the
database is in the same state after any of them.

*`PaymentSettlement`.* `status`, `hold` and `audit` are the booking row and its
audit trail. `hold` says whether `hold_expires_at` is in the future; time is the
action `LapseHold`. `payment`, `payKey`, `chargeKnown` are the payment row;
`charge`, `refunded` are Paygate's tables; `gate` is the progress of the request
that captures and delivers. `msg`, `wire`, `log`, `job` are webhooks sent, not yet
received, stored, and their jobs. Processing an event and closing its job are two
steps, and what has happened in between may no longer fit: `unmarked` has the
results of the processings whose process has yet to close the job, by the update
of `paymentController.ts:53-56` (which marks SUCCEEDED on every result, also
`recorded_unknown`) or that of `webhookJobService.ts:101` (`CloseJob`); or leaves
it open, because it stopped or failed first (`LeaveOpen`). A refund is identified
by which of the two idempotency keys it carries, `refund:cancel:...` or
`refund:{payment}`; `row` and `amount` are its row, `owed` the request that has
still to call Paygate. Bookings share none of these rows, so one booking is
enough. The branches of `processPaymentWebhookOnce` are the actions
`ProcessUnknown` to `IgnoreEvent`.

*`WebhookJobs`.* The job row with `lease` standing for `locked_at` (null, less or
more than 30 s old) and `due` for `next_attempt_at`. What an event does is in
`PaymentSettlement`; here it took effect or not. A run that applied the event writes
SUCCEEDED, or fails to and counts a failure like any other (`FinishThrows`).
`PaymentSettlement` in turn has a job that is open or closed.

*`HoldInventory`.* `BeginHold` takes the snapshot (`seen`), `LockNextRow` is the
`SELECT ... ORDER BY id FOR UPDATE`, `CommitHold` the sweep, the exclusion
constraint and the serialization check. PostgreSQL is modelled by what the code
relies on: a row updated since the snapshot cannot be locked (`stale`), two holds
that read and wrote each other's reservations cannot both commit (`missed`,
`Serializable`), the exclusion constraint sees committed rows. The check for
serialization is modelled as precise where PostgreSQL may refuse more; refusals
are always possible (`RefuseHold`).

*`PolicyVersions`.* The three statements of `replaceActivePolicy`, each with its
own statement snapshot: `BeginReplace` is what `updateMany` sees, `Deactivate` when
it has got the row locks, `ReadLatest` the unlocked read of the highest version,
`CommitReplace` the insert and commit. The venue begins with the policy of the seed
or, as `createPlatformVenue` makes them, with none: a hold made then copies nothing.

*`ClientSession`.* `stored` is `localStorage`, `token`, `user`, `loading` the state
of each tab's provider. `due` says that the restore effect has yet to run after
a render with another token, `me` is the restore call the tab waits for, and
`calls` are requests whose answer counts only if it is a 401, restore calls that
were cleaned up among them. Each carries the token stored when it was sent. The server
decides on a request in one step (`FindUser`, `RefuseCall`) and its answer arrives
in another, with logins, expiry and sign-outs of other tabs in between. A lookup
that fails is a 401 (`middleware/auth.ts:79`), so any token may be refused.

*`CheckoutPage`.* `key`, `load`, `shown`, `paying` are the state of the page; a reload
draws the next key and forgets all answers. `requests` are its payment requests
at the server, which go on whatever the page does, `answers` its reads of the
booking, each with the status it saw once the server handled it. The server is
`PaymentSettlement` in large steps, with the unlocked reads of `startPayment` and of
`beginCheckout` kept; the page waits for the answer of the latter, whatever it says.

*`AdminForm`.* A value in a form is represented by the venue it was loaded from.
`loads`, `saves` and `replaces` are requests on their way. The variables `raced`
and `disturbed` record that a load failed or was overtaken, and that the list
may be behind the server.

*`VenueAdministration`.* A request first takes its user's assignments (`held`)
and uses them to its end, as `request.user` is. `seen` is what `deleteMany` of a
role replacement found. Deleting a venue takes its rooms, equipment and
assignments along unless a booking or a line item refers to them (ON DELETE
CASCADE and RESTRICT of the first migration). `DurationValid` is the constraint
`rooms_duration_valid`, which refuses the second of two edits that each look valid
on a row read before.

## 3. Properties

*Settlement.* `IInv` (it contains `CaptureHasOutcome`): a recorded capture always
has the booking, a refund row or a cancelled confirmation. `ConfirmedIsPaid`: a
confirmed booking is paid and nothing of it is going back. `OneRefundPaid`:
Paygate pays one refund at most although two paths may ask.
`ReconciledIsSettled`: what the reconciliation report does not list really is
settled at the provider. `RevenueIsKept`: revenue counts no money that went back.
`ImplementsLifecycle`: with everything around it, the booking is the one of
`BookingLifecycle`; its one exception to the table, a payment that revives a
released booking, happens once at most. Liveness: `PendingResolves`,
`RefundsArePaid` (with a batch that refused refunds may fill),
`DeliveredSuccessSettles`.

*Jobs.* `JobsInv`, `SucceededIsJustified`, `JobsRest`: an overtaken run writes its
result over whatever is there, and still no event is marked done that nobody
processed, none given up early, and all come to rest. `ClaimsBounded`: a job that
always fails is claimed a bounded number of times, more than its attempts.

*Inventory.* `RoomExclusive`, also for revived bookings; `AdmissionFits` and
`ImplementsPromise`: a hold counts all its competitors though its snapshot is
older than its locks; `EquipmentKept`: until staff edit equipment, nothing is
oversold but by revived bookings; `NoCircularWait`; `SearchAgrees`; `SweepExact`,
the sweep against its reference, over the sets and windows that the constants
`RowSet` and `Window` name.

*Refunds.* `IInv` (the newest policy is in force, and a cancellation applies the copy
of the hold), `CopyTaken`: once a venue has stored a policy every hold copies an
active one, also between the statements of a replacement; `RefundWithinPrice`;
`OfferStands`: the sum offered to a booking with a copy is never changed by an edit,
that of a booking without one only by an edit of the policies; `WaitingNeverPays`.

*Tenancy.* `IInv` (bookings keep their rows), `TenantIsolation`, `OnlyAppointed`,
`LockoutIsFinal`, `ListedIsReadable`.

*Session.* `SettledShowsOwner`: a tab at rest with the stored token shows the owner
of that token, whatever restore calls of earlier tokens were answered meanwhile.
`RestoreEnds`: the restore spinner ends.

*Pages.* `IInv` (one key charged at most, over all openings and clicks).
`RestsOnTruth`: the page stops polling while the booking waits only if a late
submission revived it. `UpdatesAutomatically`: the page keeps the promise it
prints while a payment is pending. `SavesOwnVenue`: the values of one venue reach
another only after a load failed, came late or was not waited for, or a save was
answered late. `RemovalKeepsOthers`: removing one assignment keeps the others, for
clicks that wait for each other.

`CaptureHasOutcome`, `RefundOnce`, `ReturnedStaysReconciled`, `NoDoubleOutcome`,
`RefundedIsReturned`, `DeadIsExhausted`, `AdmissionCountsAll`, `NewestInForce`,
`NoRollback`, `CopyApplied`, `FullTermsReturnAll`, `BookingsKeepRows`, `AdminInv` and
`UseGrowsWithin` are proved but named in no run: they are part of an `IInv` or
follow from it.

## 4. Runs

| Run | Module, cfg | Instance | Distinct states |
|---|---|---|---|
| `payment_safety` | `MCPaymentSettlement`, `PaymentSettlement.cfg` | two requests with one key, two deliveries, success or failure with success, refunds of 0 or half or all | 841 000 |
| `payment_liveness` | `MCPaymentLiveness`, `PaymentLiveness.cfg` | one request that may be repeated, a success and a failure stored in either order, batches of two refunds with one refused one ahead | 125 000 |
| `payment_duplicates` (violation) | `PaymentDuplicates.cfg` | one request, two deliveries of a success | |
| `payment_two_refunds` (violation) | `PaymentTwoRefunds.cfg` | one request, one delivery | |
| `jobs` | `MCWebhookJobs`, `WebhookJobs.cfg` | one event, two requests, two runs, two attempts, one run that dies | 74 000 |
| `hold_safety` | `MCHoldInventory`, `HoldInventory.cfg` | three holds that may all be paid late, three rooms, two equipment types, one edit, touching, overlapping and invalid slots; the sweep on every set of three reservations over ten windows | 387 000 |
| `hold_oversold` (violation) | `HoldOversold.cfg` | as `hold_safety`, without the edit | |
| `refunds` | `MCCancellationRefund`, `CancellationRefund.cfg` | two bookings, a venue with or without a seeded policy, three replacements, two odd rates, three instants around the tiers | 302 000 |
| `venue_authority` | `MCVenueAuthority`, `VenueAuthority.cfg` | three requests, three venues (one not created), four users (one not created), two rooms, two equipment types | 58 000 |
| `venue_roles` (violation) | `VenueRoles.cfg` | as above, two requests | |
| `session` | `MCClientSession`, `ClientSession.cfg` | two tabs, two users, two tokens, one request on its way, one reload | 389 000 |
| `pages` | `MCPages`, `Pages.cfg` | checkout page: two openings, two clicks, two reads on their way; forms of two venues, two selections; a list of three assignments, two clicks | 907 000 |

Bounds, and why they are enough. Two payment requests and two deliveries make
every pair race: read against write, duplicate against original, failure against
success; a third only repeats one of them. Two attempts make the first and the
last attempt differ; the code's eight add attempts in the middle. Two workers
and one stop give a lease that lapses under a live and under a dead run. Three
holds are the smallest number in which two commit between the snapshot and the
commit of the third, with one peak that is neither at the beginning nor at the
end. Three replacements let one wait for another while a third inserts. Three
requests let two of them change what the third was authorized for. A batch of two
with one refused refund ahead has room for one of the two refunds, and not for the
other. Two
tabs and two tokens let an old restore call, a late 401 and a login of the other
tab meet; calls of the same token are alike. A login begins only while a token is
left to create for its user (`TokenLeft`). Two openings of the checkout page
give an old and a new key, two clicks a request behind another, two reads an
answer that overtakes another. Two selections let a load of the first venue
arrive while the second is shown; two clicks in the list are one behind another.
The proofs of section 5 do not depend on any of these bounds. Other bounds:
`MaxStops`, `MaxEdits`, `MaxReloads`, `MaxCalls`, `MaxMounts`, `MaxPays`,
`MaxAnswers`, `MaxSelects`, `MaxClicks`; `Payer`, `Delivery`, `Booking`, `Policy`,
`Token` and `Request` are finite sets of one-shot actors.

`MCPages` explores the parts of the client that share no state one at a time: the
variable `used`, chosen first, says which one moves.

Symmetry is used only in runs without liveness, over interchangeable requests,
deliveries, holds or replacements. In `payment_safety` the requests share a key, so
they are interchangeable.

Deadlock is not checked: every instance really stops, when its bounded requests
are all answered and nothing is left for the loops to do.

### Fairness

`PaymentSettlement`: weak fairness of `LapseHold` (time passes), `ExpireHold` and
the two retry actions (loops of `server.ts` and `worker.ts` that run for ever and
catch errors), and of processing an event whose job is open, each for itself
(`PaymentLiveness`); not of closing the job, which a stopping process leaves to the
next one. A run of the retry takes the `BatchSize` oldest pending refunds
(fifty in the code), so only a refund with fewer refused ones ahead of it is
retried fairly. Nothing is assumed of customers, Paygate's delivery, or any step
a crash prevents. A retry that Paygate refuses changes nothing, so
`RefundsArePaid` excuses a refund whose place the other key's refund has taken.

`WebhookJobs`: weak fairness of a run that holds a job, of time (leases, backoff),
strong fairness of claiming each job, since jobs are claimed in the order of
`next_attempt_at` and other jobs cannot overtake one for ever. Dying is bounded.

`ClientSession`: weak fairness of the restore effect, which React runs after the
render, and of the restore call, which `fetch` ends in one way or another.

`CheckoutPage`: weak fairness of time, of the expiry loop and of the poll's
interval; strong fairness of reads being handled and of answers being delivered:
the connection may lose any of them but not all. No fairness of the payment.

### Disagreements found

The four violation runs; each is a finding in `PROJECT.json`.

* `DuplicatesKeepEffect`: two deliveries of one success stored before either is
  processed are each stale because of the other (`paymentService.ts:97`); both
  are dropped and the capture stays unrecorded.
* `OneRefundRow`: a booking cancelled while its payment is in flight gets two
  refund rows; Paygate pays one, the other is retried for ever.
* `EquipmentNotOversold`: a payment read before a release and written after it
  revives the booking; the exclusion constraint guards the room, nothing guards
  the equipment.
* `ReplacedCompletely`: two overlapping replacements of a user's assignments
  leave the union of both.

Observed while modelling, without a run: a webhook processed before the charge id
is stored is acknowledged as unknown (the repository's README says so,
`src/README.md:218-221`), and lost even if the id is stored before the
acknowledgement is: `DeliveredSuccessSettles` has the premise that nobody is about
to close the job on such a look, and TLC finds the loss without it; a booking held
before its venue had any policy is cancelled on the terms of a policy stored
later, though `src/ARCHITECTURE.md:328-329` and `:414-416` call policies not
retroactive; a retry of `startPayment` with the same key charges a booking that
has expired; partial cancellation refunds stay listed as
`incorrect_refund_amount`; two policy rows of one version may both be active; the
displayed default tier grants equipment within two hours of the start where the
applied one does not; `retryPendingRefunds` takes the fifty oldest only; a room
deleted between the controller's look and the hold can be booked; the sweep counts
reservations that touch as overlapping when more than one change falls on an
instant (`SweepExact` therefore has a premise); a user without any role is listed
his bookings and may not open them (`ListedIsReadable` has the premise); deleting
a venue takes the role of a platform administrator who was assigned there; a page
whose submission revived an expired booking, and that lost the answer, stays on
EXPIRED while the booking waits for its payment (`RestsOnTruth` has the premise);
the forms of a venue whose load failed can be saved with the values of the venue
shown before (`SavesOwnVenue` has the premise); a tab keeps showing its user when
another tab has logged in as someone else, whose token its requests then carry;
between the render of a sign-out and its effect an answer to the old restore call
shows the user once more, without a token; a 401 to a request sent with an old
token signs out of the session begun since, and so does any request while the
database does not answer.

## 5. Proofs

TLAPS checks the theorems of eight modules for every value of the constants. Each
invariance proof has the same shape: an inductive invariant `IInv` holds
initially, every action preserves it (one lemma per conjunct or per action), and
the properties follow from it.

Where the model counts, the proofs need an induction over a finite set. It is had
without a theorem that takes an operator: the subsets for which a claim fails are a
set, strict inclusion is well-founded on the subsets of a finite set, and the
smallest failing subset, less one element, fails as well (`SmallestSubset`, which
`EquipmentSweep_proofs` uses for each sum; `NoDeadlock` argues alike).

* `PaymentSettlement_proofs`. The invariant (`PaymentInvariant`) adds to the types:
  which payment states go with which booking status, what must exist before a
  charge is known or a success is sent, and how refund rows, provider refunds
  and unanswered calls agree. It is needed because `ConfirmedIsPaid` says nothing
  of the refunds of a CANCELLED booking, on which the next step depends, and
  `OneRefundPaid` rests on the late refund being of the full amount and the
  amount of a row never changing. Theorems: `CaptureSettled`, `ConfirmedPaid`,
  `OneRefund`, `RefundedReturned`, `RefundsInsertedOnce`, `ReconciledSettled`,
  `NeverDouble`, `RevenueKept`, `RefundStaysReconciled`, and `RefinesLifecycle`.
  `BatchesAreSafe`: the invariant holds of the specification of the liveness run
  too, where the retry takes batches.
* `WebhookJobs_proofs`: `JobsInvariance`, `JobsJustified`, `JobsExhausted`. The
  invariant also covers what runs and requests carry in hand: a run about to write
  SUCCEEDED has applied its event, one about to give up has read a count that only
  grows. `ClaimsAreBounded`: MAX_ATTEMPTS bounds the failures that are retried, not
  the claims, since a stale lease is claimed whatever the count and an overtaken
  run may reopen a finished job. With n overlapping runs there are at most n(n-1)
  more, and one for each run that dies. The invariant (`ClaimsInv`) gives each job a
  potential, `ClaimsLeft`, once its count is reached: a claim for each run without
  the job in hand while the job is unfinished, and n for each run about to write
  RETRY. A claim spends one, a death adds one, no other step adds any. TLC reaches
  the bound with one and with two runs.
* `EquipmentSweep_proofs`: what the sweep of `lockEquipment` computes, for any finite
  set of reservations. First the sum of the community modules is shown to be a sum:
  its choice of elements fixes one function, found by the induction above, and no
  order of the elements matters (`SumRemove`, `SumAdd`, `SumMonotone`, `SumSupport`).
  Then the running sum after any change is regrouped by reservation: one that has
  opened counts its quantity, one that has closed as well counts nothing
  (`ChangesSummed`). `SweepCountsAll`: after the last change not later than an
  instant of the window, that is the load of the instant, so the peak is never
  below it. `SweepCountsExactly`: where no reservation starts at the instant another
  ends, the running sum after each change is at most the load of an instant inside
  the window, also for the changes outside it, since the rows are not clipped.
* `HoldInventory_proofs`: `HoldInvariance`, `RoomsExclusive`, `SearchIsExact`,
  `NoDeadlock`, `AdmissionsCountAll` and `HoldsKeepPromise`, for any late payers.
  The key conjunct is `SnapshotKnown`: what is active is in an open transaction's
  snapshot, in the set of holds it has missed, or was brought back by a late
  payment, which `hold_oversold` shows to be a necessary exception. `NoDeadlock`
  takes the waiting transaction with the fewest rows ahead of it: whoever holds
  the row it waits for has fewer, so waiting never closes a circle.
  `AdmissionsFit` joins this with the sweep: what is in use at an instant of the
  slot competes with the hold, hence is in its snapshot, hence was counted.
  `UseStaysWithin` says it of every step and instant: units in use grow only within
  the capacity, so that no hold makes a shortage worse that an edit has left.
  `EquipmentStaysKept` needs a stronger invariant, `WithinCapacity`: the load is within
  capacity at every instant, not only in the slots of active bookings, because a new
  slot may cover instants that none covered; and `FinitelyMany`, that finitely many
  bookings are active although nothing bounds the bookings. Its corollary
  `OversoldNeedsCause` is the other half of the finding of `hold_oversold`: what the
  documents promise fails only after a late payment or an edit. `SweepIsExact` is
  `SweepCountsExactly` for the inputs of the run.
* `CancellationRefund_proofs`. Of `PolicyVersions`: `NewestStaysInForce`,
  `VersionsAdvance`, `PolicyKept` (a hold copies an active policy once the venue
  has stored any, and a cancellation applies the copy). The invariant says that a
  replacement only turns off rows it has locked and that are older than the
  version it will write. Of `CancellationRefund`: `RefinesVersions` carries those
  theorems over; `RefundBounded`, `FullRefund`, `OfferSettled` and
  `WaitingIsUseless` add the arithmetic of the rounded parts and of the tiers.
* `VenueAuthority_proofs`: the invariant says that assignments name existing users
  and venues and that a request between its two steps was authorized for what
  it works on; from it `BookingsKept`, `VenuesIsolated`, `Appointed`, `Lockout`
  and `ListReadable`.
* `ClientSession_proofs`: `SessionInvariant`, `OwnerShown`. The invariant (`Follows`)
  says that a tab whose effect has run and which has the stored token either waits
  for that very token's user or shows him. It is needed because an answer names no
  token: only the cleanup keeps an old one out.
* `Pages_proofs`: `CheckoutInvariant`, `PollingSuffices` for `CheckoutPage`;
  `FormsInvariant`, `SavesStayHome`, `RemovalsAreSingle` for `AdminForm`. The
  invariants tie what is on its way (requests at the row, answers that saw an end,
  loads, replacements) to the server's state.

Assumptions are the named ASSUMEs of the modules (types of the constants, keys,
prices not negative, finitely many overlapping runs of the job loop and types of
equipment, requests well typed, initial assignments that name
existing rows), which TLC evaluates in the runs.

Only model-checked: the liveness properties (`PendingResolves`, `RefundsArePaid`,
`DeliveredSuccessSettles`, `JobsRest`, `RestoreEnds`,
`UpdatesAutomatically`), since fairness speaks of ENABLED, which the prover does not
reason about. Every safety property that a run checks is proved. Not proved is the
step from the quantities to the SQL: that `SweepPeak` is what the query returns is
read off its text (`map`).

## 6. Not modelled

* Opening hours and the advance window of holds, filters of the search,
  utilization in the venue report: calendar arithmetic without state. Planned.
* The branch `payment_mismatch` and a Paygate key reused with another payload: the
  key of a payment is unique over all bookings and the charge is made from the
  payment row, so no legal sequence of calls reaches them. The inline webhook of
  the Vercel deployment, which replaces the delivery by a call.
* Of the client: the countdown, which only hides the button and shows a hold as
  expired; redirects by role; the lists of the administration page that are edited
  by one answer each; pages that show one answer (search, reports, bookings, room
  detail); the sum `BookPage` displays, the same formula as the server's price.
* The floating-point product under the floor of the effective capacity: capacities
  are numbers of units, and which number units and overbooking give is data.
* Token verification, password and signature hashing: library calls. Routing,
  configuration, formatting, seed sizes, benchmark: no behaviour to check.

## 7. Plan

Done, in this order: settlement, jobs, holds, policies and refunds, tenancy, the
batches of the refund retry, the session and the pages, each with its proof.
What is left, most important first:

1. Opening hours and advance window in `Intervals`, with the time zone as an offset.
2. The inline webhook of the Vercel deployment as an action of `PaymentSettlement`.
3. `CheckoutPage` with its server part as an abstraction `PaymentSettlement` is shown
   to implement.
4. Proofs: the refinement of an abstract queue by `WebhookJobs`.
