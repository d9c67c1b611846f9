------------------------- MODULE PaymentSettlement -------------------------
(***************************************************************************)
(* The life of one booking from the moment it is HELD: checkout, payment,  *)
(* the Paygate charge and its webhooks, expiry, completion, cancellation   *)
(* and refunds.  Bookings share no payment, charge, event or refund row,   *)
(* so one booking is the whole story; rooms and equipment are elsewhere.   *)
(*                                                                         *)
(* Interactive transactions run at READ COMMITTED.  A transaction that     *)
(* takes the booking's row lock before reading it is one step.  The two    *)
(* that read without a lock (startPayment, beginCheckout) are two steps, a *)
(* read and a write, with anything in between.  Work after a commit (the   *)
(* calls to Paygate, the follow-up transactions) is made of further steps  *)
(* that a crash may prevent.                                               *)
(***************************************************************************)
EXTENDS BookingStates, Naturals

CONSTANTS
  Payer,          \* POST /payment requests that may be in flight
  Key,            \* Idempotency-Key header values
  KeyOf,          \* the key each request carries
  NoKey,          \* no payment row yet
  Delivery,       \* provider delivery ids: the number of webhooks sent
  Message,        \* what each may say: a set of [event, at], at = 0 without a timestamp
  Amount,         \* the booking's price, charged in full
  PolicyAmounts   \* refunds the cancellation policy may grant

EventType == {"CHARGE_SUCCEEDED", "CHARGE_FAILED", "UNKNOWN"}
PaymentStatus == {"none", "PROCESSING", "SUCCEEDED", "FAILED"}
RefundKey == {"cancel", "late"}   \* refund:cancel:{booking}:{amount}, refund:{payment}
Result == {"recorded_unknown", "ignored_stale", "processed"}   \* of one processing

NoMessage == [event |-> "NONE", at |-> 0]   \* not sent yet

ASSUME KeysAssumption == KeyOf \in [Payer -> Key] /\ NoKey \notin Key
ASSUME AmountAssumption == Amount \in Nat /\ PolicyAmounts \subseteq 0..Amount
ASSUME MessageAssumption == Message \in [Delivery -> SUBSET [event : EventType, at : Nat]]

VARIABLES
  status,       \* bookings.status
  hold,         \* "live" while hold_expires_at is in the future, else "lapsed"
  audit,        \* audit_events of the booking, oldest first
  payment,      \* payments.status, "none" without a row
  payKey,       \* payments.idempotency_key
  chargeKnown,  \* payments.provider_charge_id is set
  charge,       \* paygate_charges.status, "none" without a row
  gate,         \* the Paygate request that created the charge
  refunded,     \* keys that have a paygate_refunds row
  wire,         \* delivery ids sent and not yet received
  msg,          \* the body of each delivery
  log,          \* payment_events, in creation order
  job,          \* webhook_jobs: none, queued, or closed (done or given up)
  unmarked,     \* results of processings whose process has yet to close the job
  row,          \* refunds.status of each key
  amount,       \* refunds.amount_minor of each key
  owed,         \* the request that inserted the refund row and its provider call
  payer,        \* progress of each payment request
  checkout      \* progress of a checkout request

bookingVars == <<status, hold, audit>>
paymentVars == <<payment, payKey, chargeKnown>>
gateVars    == <<charge, gate, refunded>>
hookVars    == <<wire, msg, log, job, unmarked>>
refundVars  == <<row, amount, owed>>
requestVars == <<payer, checkout>>
vars == <<bookingVars, paymentVars, gateVars, hookVars, refundVars, requestVars>>

TypeOK ==
  /\ status \in BookingStatus /\ hold \in {"live", "lapsed"}
  /\ audit \in Seq(AuditRow)
  /\ payment \in PaymentStatus /\ payKey \in Key \cup {NoKey} /\ chargeKnown \in BOOLEAN
  /\ charge \in {"none", "PROCESSING", "SUCCEEDED"}
  /\ gate \in {"idle", "created", "delivering"}
  /\ refunded \subseteq RefundKey
  /\ wire \subseteq Delivery
  /\ msg \in [Delivery -> (UNION {Message[d] : d \in Delivery}) \cup {NoMessage}]
  /\ log \in Seq(Delivery)
  /\ job \in [Delivery -> {"none", "queued", "closed"}]
  /\ unmarked \in [Delivery -> SUBSET Result]
  /\ row \in [RefundKey -> {"none", "PROCESSING", "SUCCEEDED"}]
  /\ amount \in [RefundKey -> 0..Amount]
  /\ owed \in [RefundKey -> {"no", "due", "answered"}]
  /\ payer \in [Payer -> {"idle", "read", "charging", "charged"}]
  /\ checkout \in {"idle", "read"}

(* createBookingHold has committed: DRAFT, then HELD with its audit row.   *)
Init ==
  /\ status = "HELD" /\ hold = "live"
  /\ audit = <<[from |-> "DRAFT", to |-> "HELD"]>>
  /\ payment = "none" /\ payKey = NoKey /\ chargeKnown = FALSE
  /\ charge = "none" /\ gate = "idle" /\ refunded = {}
  /\ wire = {} /\ msg = [d \in Delivery |-> NoMessage]
  /\ log = <<>> /\ job = [d \in Delivery |-> "none"]
  /\ unmarked = [d \in Delivery |-> {}]
  /\ row = [k \in RefundKey |-> "none"]
  /\ amount = [k \in RefundKey |-> 0]
  /\ owed = [k \in RefundKey |-> "no"]
  /\ payer = [r \in Payer |-> "idle"] /\ checkout = "idle"

-----------------------------------------------------------------------------
(* The state machine service                                               *)

(* The update and its audit row, given the status the service has read.    *)
(* The update is not conditional on that status.                           *)
WriteTransition(from, to) ==
  /\ CanTransition(from, to)
  /\ status' = to
  /\ audit' = Append(audit, [from |-> from, to |-> to])

Transition(to) == WriteTransition(status, to)

-----------------------------------------------------------------------------
(* Time                                                                    *)

LapseHold == /\ hold = "live" /\ hold' = "lapsed"
             /\ UNCHANGED <<status, audit>>
             /\ UNCHANGED <<paymentVars, gateVars, hookVars, refundVars, requestVars>>

-----------------------------------------------------------------------------
(* Checkout and payment requests: unlocked reads                           *)

BeginCheckoutRead ==
  /\ checkout = "idle"
  /\ status = "HELD" /\ hold = "live"
  /\ checkout' = "read"
  /\ UNCHANGED <<bookingVars, paymentVars, gateVars, hookVars, refundVars, payer>>

(* The later of the hold and ten minutes from now, whatever became of the  *)
(* booking since the read.                                                 *)
BeginCheckoutWrite ==
  /\ checkout = "read"
  /\ checkout' = "idle"
  /\ hold' = "live"
  /\ UNCHANGED <<status, audit, payer>>
  /\ UNCHANGED <<paymentVars, gateVars, hookVars, refundVars>>

StartPaymentRead(r) ==
  /\ payer[r] = "idle"
  /\ payment = "none"
  /\ status = "HELD" /\ hold = "live"
  /\ payer' = [payer EXCEPT ![r] = "read"]
  /\ UNCHANGED <<bookingVars, paymentVars, gateVars, hookVars, refundVars, checkout>>

(* Mutant: no unique payment per booking.                                  *)
StartPaymentWriteTwice(r) ==
  /\ payer[r] = "read"
  /\ WriteTransition("HELD", "PENDING_PAYMENT")
  /\ payment' = "PROCESSING" /\ payKey' = KeyOf[r]
  /\ payer' = [payer EXCEPT ![r] = "charging"]
  /\ UNCHANGED <<hold, chargeKnown, checkout, gateVars, hookVars, refundVars>>

(* The booking is HELD in the request's snapshot; the row it updates may   *)
(* have changed since.  payments.booking_id is unique: a second insert     *)
(* fails and takes the whole transaction with it.                          *)
StartPaymentWrite(r) ==
  /\ payer[r] = "read"
  /\ payment = "none"
  /\ WriteTransition("HELD", "PENDING_PAYMENT")
  /\ payment' = "PROCESSING" /\ payKey' = KeyOf[r]
  /\ payer' = [payer EXCEPT ![r] = "charging"]
  /\ UNCHANGED <<hold, chargeKnown, checkout>>
  /\ UNCHANGED <<gateVars, hookVars, refundVars>>

(* The same key again: the payment row is returned before any look at the  *)
(* booking's status, and charged if it has no charge yet.                  *)
ResumePayment(r) ==
  /\ payer[r] = "idle"
  /\ payment # "none" /\ payKey = KeyOf[r] /\ ~chargeKnown
  /\ payer' = [payer EXCEPT ![r] = "charging"]
  /\ UNCHANGED <<bookingVars, paymentVars, gateVars, hookVars, refundVars, checkout>>

(* Paygate answers with the charge of this key, new or old.                *)
ReceiveCharge(r) ==
  /\ payer[r] = "charging"
  /\ charge # "none"
  /\ payer' = [payer EXCEPT ![r] = "charged"]
  /\ UNCHANGED <<bookingVars, paymentVars, gateVars, hookVars, refundVars, checkout>>

SaveCharge(r) ==
  /\ payer[r] = "charged"
  /\ payer' = [payer EXCEPT ![r] = "idle"]
  /\ chargeKnown' = TRUE
  /\ UNCHANGED <<payment, payKey, checkout>>
  /\ UNCHANGED <<bookingVars, gateVars, hookVars, refundVars>>

(* A conflict rolled the transaction back, three charges failed, or the    *)
(* server stopped: the request ends where it is.                           *)
AbandonPayment(r) ==
  /\ payer[r] # "idle"
  /\ payer' = [payer EXCEPT ![r] = "idle"]
  /\ UNCHANGED <<bookingVars, paymentVars, gateVars, hookVars, refundVars, checkout>>

AbandonCheckout ==
  /\ checkout = "read"
  /\ checkout' = "idle"
  /\ UNCHANGED <<bookingVars, paymentVars, gateVars, hookVars, refundVars, payer>>

-----------------------------------------------------------------------------
(* Paygate                                                                 *)

(* createCharge: insert, then mark captured, then deliver, not atomically. *)
CreateCharge(r) ==
  /\ payer[r] = "charging"
  /\ charge = "none"
  /\ charge' = "PROCESSING" /\ gate' = "created"
  /\ UNCHANGED <<bookingVars, paymentVars, hookVars, refundVars, requestVars, refunded>>

CaptureCharge ==
  /\ gate = "created"
  /\ charge' = "SUCCEEDED" /\ gate' = "delivering"
  /\ UNCHANGED <<bookingVars, paymentVars, hookVars, refundVars, requestVars, refunded>>

GateStops ==
  /\ gate # "idle" /\ gate' = "idle"
  /\ UNCHANGED <<bookingVars, paymentVars, hookVars, refundVars, requestVars, charge, refunded>>

(* A success is sent, once or twice and each time under a new delivery id, *)
(* by the request that captured the charge.  Any other event comes from a  *)
(* provider that knows the charge: Paygate itself sends successes only.    *)
SendWebhook(d, m) ==
  /\ msg[d] = NoMessage
  /\ IF m.event = "CHARGE_SUCCEEDED" THEN gate = "delivering" ELSE charge # "none"
  /\ wire' = wire \cup {d}
  /\ msg' = [msg EXCEPT ![d] = m]
  /\ UNCHANGED <<bookingVars, paymentVars, gateVars, refundVars, requestVars, log, job, unmarked>>

(* A bad signature or a failed POST: Paygate does not try again.           *)
LoseWebhook(d) ==
  /\ d \in wire /\ wire' = wire \ {d}
  /\ UNCHANGED <<bookingVars, paymentVars, gateVars, refundVars, requestVars, msg, log, job, unmarked>>

(* createRefund: idempotent by key; the charge must be captured and the    *)
(* refunds so far leave room for this one.                                 *)
Returned == (IF "cancel" \in refunded THEN amount["cancel"] ELSE 0)
          + (IF "late" \in refunded THEN amount["late"] ELSE 0)

(* Mutant: each refund is compared with the price on its own.              *)
PaygateAcceptsEach(k) ==
  k \in refunded \/ (charge = "SUCCEEDED" /\ amount[k] > 0 /\ amount[k] <= Amount)

PaygateAccepts(k) ==
  \/ k \in refunded
  \/ charge = "SUCCEEDED" /\ amount[k] > 0 /\ Returned + amount[k] <= Amount

-----------------------------------------------------------------------------
(* Webhooks                                                                *)

(* The event and its job are inserted in one transaction of their own.     *)
EnqueueWebhook(d) ==
  /\ d \in wire /\ wire' = wire \ {d}
  /\ log' = Append(log, d)
  /\ job' = [job EXCEPT ![d] = "queued"]
  /\ UNCHANGED <<bookingVars, paymentVars, gateVars, refundVars, requestVars, msg, unmarked>>

(* Mutant: the event itself is not left out of the query.                  *)
LatestAny(d, e) ==
  \E i \in DOMAIN log : log[i] = e /\ \A j \in DOMAIN log : j <= i

(* latestEvent: the newest event of the charge other than d, processed or  *)
(* not.                                                                    *)
LatestOther(d, e) ==
  \E i \in DOMAIN log :
    /\ log[i] = e /\ e # d
    /\ \A j \in DOMAIN log : j > i => log[j] = d

Stale(d) ==
  \E e \in Delivery :
    /\ LatestOther(d, e)
    /\ \/ msg[e].event = "CHARGE_SUCCEEDED"
       \/ msg[e].at # 0 /\ msg[d].at # 0 /\ msg[d].at < msg[e].at

(* The request that stored the event processes it at once, workers process *)
(* it as long as the job is open, and one that began then may be so slow   *)
(* that another has closed the job meanwhile.                              *)
Stored(d) == job[d] # "none"

(* The business transaction has committed.  The job is closed later, by id *)
(* and only if it is open still does that change anything.                 *)
EndProcessing(d, result) ==
  /\ unmarked' = IF job[d] = "queued" THEN [unmarked EXCEPT ![d] = @ \cup {result}]
                                      ELSE unmarked
  /\ UNCHANGED <<wire, msg, log, job>>

(* Mutant: the cancellation's refund is added to the late one.             *)
InsertRefundSummed(k, a) ==
  /\ row' = [row EXCEPT ![k] = "PROCESSING"]
  /\ amount' = [amount EXCEPT ![k] = a + amount["cancel"]]
  /\ owed' = [owed EXCEPT ![k] = "due"]

InsertRefund(k, a) ==
  /\ row' = [row EXCEPT ![k] = "PROCESSING"]
  /\ amount' = [amount EXCEPT ![k] = a]
  /\ owed' = [owed EXCEPT ![k] = "due"]

(* No payment row carries the charge yet.                                  *)
ProcessUnknown(d) ==
  /\ Stored(d) /\ ~chargeKnown
  /\ EndProcessing(d, "recorded_unknown")
  /\ UNCHANGED <<bookingVars, paymentVars, gateVars, refundVars, requestVars>>

ProcessStale(d) ==
  /\ Stored(d) /\ chargeKnown /\ Stale(d)
  /\ EndProcessing(d, "ignored_stale")
  /\ UNCHANGED <<bookingVars, paymentVars, gateVars, refundVars, requestVars>>

Applies(d, event) ==
  /\ Stored(d) /\ chargeKnown /\ ~Stale(d)
  /\ msg[d].event = event

(* Mutant: the payment row is not updated.                                 *)
ConfirmUnrecorded(d) ==
  /\ Applies(d, "CHARGE_SUCCEEDED")
  /\ payment \in {"PROCESSING", "FAILED"}
  /\ status = "PENDING_PAYMENT" /\ hold = "live"
  /\ Transition("CONFIRMED")
  /\ EndProcessing(d, "processed")
  /\ UNCHANGED <<hold, paymentVars, gateVars, refundVars, requestVars>>

ConfirmPaid(d) ==
  /\ Applies(d, "CHARGE_SUCCEEDED")
  /\ payment \in {"PROCESSING", "FAILED"}
  /\ status = "PENDING_PAYMENT" /\ hold = "live"
  /\ payment' = "SUCCEEDED"
  /\ Transition("CONFIRMED")
  /\ EndProcessing(d, "processed")
  /\ UNCHANGED <<hold, payKey, chargeKnown>>
  /\ UNCHANGED <<gateVars, refundVars, requestVars>>

RefundLate(d) ==
  /\ Applies(d, "CHARGE_SUCCEEDED")
  /\ payment \in {"PROCESSING", "FAILED"}
  /\ ~(status = "PENDING_PAYMENT" /\ hold = "live")
  /\ status \in {"CANCELLED", "EXPIRED", "FAILED"} \/ hold = "lapsed"
  /\ payment' = "SUCCEEDED"
  /\ InsertRefund("late", Amount)
  /\ IF status = "PENDING_PAYMENT" THEN Transition("EXPIRED") ELSE UNCHANGED <<status, audit>>
  /\ EndProcessing(d, "processed")
  /\ UNCHANGED <<hold, payKey, chargeKnown>>
  /\ UNCHANGED <<gateVars, requestVars>>

(* Neither a confirmation nor a refund: the capture is only recorded.      *)
RecordCapture(d) ==
  /\ Applies(d, "CHARGE_SUCCEEDED")
  /\ payment \in {"PROCESSING", "FAILED"}
  /\ status \notin {"PENDING_PAYMENT", "CANCELLED", "EXPIRED", "FAILED"} /\ hold = "live"
  /\ payment' = "SUCCEEDED"
  /\ EndProcessing(d, "processed")
  /\ UNCHANGED <<payKey, chargeKnown>>
  /\ UNCHANGED <<bookingVars, gateVars, refundVars, requestVars>>

FailPayment(d) ==
  /\ Applies(d, "CHARGE_FAILED")
  /\ payment = "PROCESSING"
  /\ payment' = "FAILED"
  /\ IF status = "PENDING_PAYMENT" THEN Transition("FAILED") ELSE UNCHANGED <<status, audit>>
  /\ EndProcessing(d, "processed")
  /\ UNCHANGED <<hold, payKey, chargeKnown>>
  /\ UNCHANGED <<gateVars, refundVars, requestVars>>

IgnoreEvent(d) ==
  /\ Stored(d) /\ chargeKnown /\ ~Stale(d)
  /\ ~(msg[d].event = "CHARGE_SUCCEEDED" /\ payment \in {"PROCESSING", "FAILED"})
  /\ ~(msg[d].event = "CHARGE_FAILED" /\ payment = "PROCESSING")
  /\ EndProcessing(d, "processed")
  /\ UNCHANGED <<bookingVars, paymentVars, gateVars, refundVars, requestVars>>

(* The request that received the webhook marks the job done whatever the   *)
(* result, recorded_unknown too.  A worker marks it done on every other    *)
(* result; on an unknown charge it retries until it gives the job up.      *)
CloseJob(d) ==
  /\ unmarked[d] # {}
  /\ job' = [job EXCEPT ![d] = "closed"]
  /\ unmarked' = [unmarked EXCEPT ![d] = {}]
  /\ UNCHANGED <<bookingVars, paymentVars, gateVars, refundVars, requestVars, wire, msg, log>>

(* The process stops before that, the update fails, or a worker throws     *)
(* because the charge is unknown: the job stays open and is run again.     *)
LeaveOpen(d, result) ==
  /\ result \in unmarked[d]
  /\ unmarked' = [unmarked EXCEPT ![d] = @ \ {result}]
  /\ UNCHANGED <<bookingVars, paymentVars, gateVars, refundVars, requestVars, wire, msg, log, job>>

-----------------------------------------------------------------------------
(* Background loops and cancellation: the booking row is locked            *)

(* Mutant: a payment in flight keeps the room.                             *)
ExpireHeldOnly ==
  /\ status = "HELD" /\ hold = "lapsed"
  /\ Transition("EXPIRED")
  /\ UNCHANGED <<hold, paymentVars, gateVars, hookVars, refundVars, requestVars>>

ExpireHold ==
  /\ status \in {"HELD", "PENDING_PAYMENT"} /\ hold = "lapsed"
  /\ Transition("EXPIRED")
  /\ UNCHANGED hold
  /\ UNCHANGED <<paymentVars, gateVars, hookVars, refundVars, requestVars>>

(* Some time after the slot's end, which nothing else here looks at.       *)
CompleteBooking ==
  /\ status = "CONFIRMED"
  /\ Transition("COMPLETED")
  /\ UNCHANGED hold
  /\ UNCHANGED <<paymentVars, gateVars, hookVars, refundVars, requestVars>>

(* A refund row is inserted only for a payment whose charge is known and   *)
(* has not failed, and only if the policy grants something.                *)
CancelBooking(a) ==
  /\ status \in {"HELD", "PENDING_PAYMENT", "CONFIRMED"}
  /\ Transition("CANCELLED")
  /\ IF payment \in {"PROCESSING", "SUCCEEDED"} /\ chargeKnown /\ a # 0
       THEN InsertRefund("cancel", a)
       ELSE UNCHANGED refundVars
  /\ UNCHANGED hold
  /\ UNCHANGED <<paymentVars, gateVars, hookVars, requestVars>>

-----------------------------------------------------------------------------
(* Refunds after the commit                                                *)

(* The request that inserted the row calls Paygate at once.                *)
RequestRefund(k) ==
  /\ owed[k] = "due" /\ PaygateAccepts(k)
  /\ refunded' = refunded \cup {k}
  /\ owed' = [owed EXCEPT ![k] = "answered"]
  /\ UNCHANGED <<bookingVars, paymentVars, hookVars, requestVars, charge, gate, row, amount>>

(* The call failed, its answer was lost, or the server stopped.            *)
DropRefund(k) ==
  /\ owed[k] # "no"
  /\ owed' = [owed EXCEPT ![k] = "no"]
  /\ UNCHANGED <<bookingVars, paymentVars, gateVars, hookVars, requestVars, row, amount>>

(* A cancellation insists on REFUNDED, and its transaction rolls back when *)
(* the table forbids it; a late success moves EXPIRED and FAILED only.     *)
(* The status read here cannot change before the write: it can leave these *)
(* statuses only through the refund of the other key, which Paygate has    *)
(* refused (OneRefundPaid), or a new payment row, which already exists.    *)
CompleteRefund(k) ==
  /\ owed[k] = "answered"
  /\ owed' = [owed EXCEPT ![k] = "no"]
  /\ \/ /\ \/ k = "cancel" /\ CanTransition(status, "REFUNDED")
           \/ k = "late" /\ status \in {"EXPIRED", "FAILED"}
        /\ Transition("REFUNDED")
        /\ row' = [row EXCEPT ![k] = "SUCCEEDED"]
     \/ /\ k = "cancel" /\ ~CanTransition(status, "REFUNDED")
        /\ UNCHANGED <<status, audit, row>>
     \/ /\ k = "late" /\ status \notin {"EXPIRED", "FAILED"}
        /\ row' = [row EXCEPT ![k] = "SUCCEEDED"]
        /\ UNCHANGED <<status, audit>>
  /\ UNCHANGED <<hold, amount>>
  /\ UNCHANGED <<paymentVars, gateVars, hookVars, requestVars>>

(* retryPendingRefunds: the call, and then a transaction of its own that   *)
(* moves CANCELLED and EXPIRED bookings, but not FAILED ones.              *)
RetryRefund(k) ==
  /\ row[k] = "PROCESSING" /\ chargeKnown /\ k \notin refunded /\ PaygateAccepts(k)
  /\ refunded' = refunded \cup {k}
  /\ UNCHANGED <<bookingVars, paymentVars, hookVars, refundVars, requestVars, charge, gate>>

(* Mutant: completed before Paygate answers.                               *)
CompleteUnanswered(k) ==
  /\ row[k] = "PROCESSING"
  /\ row' = [row EXCEPT ![k] = "SUCCEEDED"]
  /\ IF status \in {"CANCELLED", "EXPIRED"}
       THEN Transition("REFUNDED") ELSE UNCHANGED <<status, audit>>
  /\ UNCHANGED <<hold, amount, owed, paymentVars, gateVars, hookVars, requestVars>>

CompleteRetriedRefund(k) ==
  /\ row[k] = "PROCESSING" /\ k \in refunded
  /\ row' = [row EXCEPT ![k] = "SUCCEEDED"]
  /\ IF status \in {"CANCELLED", "EXPIRED"}
       THEN Transition("REFUNDED") ELSE UNCHANGED <<status, audit>>
  /\ UNCHANGED <<hold, amount, owed>>
  /\ UNCHANGED <<paymentVars, gateVars, hookVars, requestVars>>

-----------------------------------------------------------------------------
PayerStep(r) == \/ StartPaymentRead(r) \/ StartPaymentWrite(r) \/ ResumePayment(r)
                \/ CreateCharge(r) \/ ReceiveCharge(r) \/ SaveCharge(r) \/ AbandonPayment(r)

ProcessEvent(d) == \/ ProcessUnknown(d) \/ ProcessStale(d) \/ ConfirmPaid(d) \/ RefundLate(d)
                   \/ RecordCapture(d) \/ FailPayment(d) \/ IgnoreEvent(d)

WebhookStep(d) == \/ LoseWebhook(d) \/ EnqueueWebhook(d) \/ ProcessEvent(d)
                  \/ \E m \in Message[d] : SendWebhook(d, m)
                  \/ CloseJob(d) \/ \E result \in Result : LeaveOpen(d, result)

RefundStep(k) == \/ RequestRefund(k) \/ DropRefund(k) \/ CompleteRefund(k)
                 \/ RetryRefund(k) \/ CompleteRetriedRefund(k)

Next ==
  \/ LapseHold
  \/ BeginCheckoutRead \/ BeginCheckoutWrite \/ AbandonCheckout
  \/ \E r \in Payer : PayerStep(r)
  \/ CaptureCharge \/ GateStops
  \/ \E d \in Delivery : WebhookStep(d)
  \/ ExpireHold \/ CompleteBooking
  \/ \E a \in PolicyAmounts : CancelBooking(a)
  \/ \E k \in RefundKey : RefundStep(k)

Spec == Init /\ [][Next]_vars
-----------------------------------------------------------------------------
(* Safety                                                                  *)

(* What a recorded capture bought: the booking, or a refund row, or, for a *)
(* confirmed booking cancelled too late, nothing by the venue's policy.    *)
CancelledAfterConfirmation ==
  \E i \in DOMAIN audit : audit[i] = [from |-> "CONFIRMED", to |-> "CANCELLED"]

Settled == \/ status \in {"CONFIRMED", "COMPLETED"}
           \/ \E k \in RefundKey : row[k] # "none"
           \/ CancelledAfterConfirmation

(* A payment recorded as captured is never left without an outcome: the    *)
(* webhook handler that records it also confirms or opens a refund, and    *)
(* where it does neither (RecordCapture) a refund already exists.          *)
CaptureHasOutcome == payment = "SUCCEEDED" => Settled

(* A confirmed or completed booking is paid by a captured charge, and no   *)
(* refund of it exists: no order of expiry, cancellation, failed and late  *)
(* events confirms a booking whose money is going back.                    *)
ConfirmedIsPaid ==
  status \in {"CONFIRMED", "COMPLETED"} =>
    /\ payment = "SUCCEEDED" /\ charge = "SUCCEEDED"
    /\ \A k \in RefundKey : row[k] = "none"

(* Paygate returns money for a booking under one key at most, although the *)
(* cancellation and the late success may both have asked for a refund.     *)
OneRefundPaid == ~(RefundKey \subseteq refunded)

(* A refund row says SUCCEEDED only when Paygate has returned the money,   *)
(* and a REFUNDED booking has such a row: three code paths complete a      *)
(* refund, two of them retried after lost answers.                         *)
RefundedIsReturned ==
  /\ \A k \in RefundKey : row[k] = "SUCCEEDED" => k \in refunded
  /\ status = "REFUNDED" => \E k \in RefundKey : row[k] = "SUCCEEDED"

(* A refund row, once inserted, keeps its amount and never goes back to    *)
(* PROCESSING: a second cancellation would insert a second row under a key *)
(* that holds another amount.                                              *)
RefundOnce ==
  [][\A k \in RefundKey : row[k] # "none" =>
       /\ amount'[k] = amount[k]
       /\ row'[k] # "none" /\ (row[k] = "SUCCEEDED" => row'[k] = "SUCCEEDED")]_vars

(* The booking, whatever happens around it, is the one of BookingLifecycle. *)
Lifecycle == INSTANCE BookingLifecycle WITH submitted <- (payment # "none")
ImplementsLifecycle == Lifecycle!LifeSpec

-----------------------------------------------------------------------------
(* What the documents say and the code does not do                         *)

(* "The durable event and job rows make duplicate delivery safe": the      *)
(* deliveries of a success are not all dropped as duplicates of each other *)
(* with the capture unrecorded.                                            *)
DuplicatesKeepEffect ==
  (\A d \in Delivery : unmarked[d] = {"ignored_stale"}) => payment = "SUCCEEDED"

(* "Exactly one confirmed booking or exactly one refund" for every         *)
(* captured charge: no second refund row.                                  *)
OneRefundRow == \E k \in RefundKey : row[k] = "none"
=============================================================================
