---------------------- MODULE PaymentSettlement_proofs ----------------------
(***************************************************************************)
(* Proofs about PaymentSettlement for any number of payment requests and   *)
(* deliveries, any messages, any price and any policy.  Each part of IInv  *)
(* has a lemma with one step per action that can disturb it; the other     *)
(* actions leave the variables of that part alone.                         *)
(***************************************************************************)
EXTENDS Reconciliation, PaymentLiveness, TLAPS

-----------------------------------------------------------------------------
(* Facts about the operators                                               *)

(* The table lets three statuses go to REFUNDED.                           *)
LEMMA RefundableStatus ==
  ASSUME NEW s \in BookingStatus
  PROVE  CanTransition(s, "REFUNDED") => s \in {"EXPIRED", "FAILED", "CANCELLED"}
<1>1. CASE s = "DRAFT"  BY <1>1 DEF CanTransition, ValidTransitions
<1>2. CASE s = "HELD"  BY <1>2 DEF CanTransition, ValidTransitions
<1>3. CASE s = "PENDING_PAYMENT"  BY <1>3 DEF CanTransition, ValidTransitions
<1>4. CASE s = "CONFIRMED"  BY <1>4 DEF CanTransition, ValidTransitions
<1>5. CASE s = "COMPLETED"  BY <1>5 DEF CanTransition, ValidTransitions
<1>6. CASE s = "REFUNDED"  BY <1>6 DEF CanTransition, ValidTransitions
<1> QED  BY <1>1, <1>2, <1>3, <1>4, <1>5, <1>6 DEF BookingStatus

(* A transition appends one row to the audit trail and moves the status.   *)
LEMMA TransitionWrites ==
  ASSUME audit \in Seq(AuditRow), NEW from \in BookingStatus, NEW to \in BookingStatus,
         WriteTransition(from, to)
  PROVE  /\ audit' \in Seq(AuditRow) /\ status' = to
         /\ Len(audit') = Len(audit) + 1
         /\ audit'[Len(audit) + 1] = [from |-> from, to |-> to]
         /\ \A i \in DOMAIN audit : i \in DOMAIN audit' /\ audit'[i] = audit[i]
<1>1. [from |-> from, to |-> to] \in AuditRow  BY DEF AuditRow
<1> QED  BY <1>1 DEF WriteTransition

(* Paygate accepts a new key only while it has returned nothing: a refund  *)
(* of the whole price leaves no room for another, nor room after another.  *)
LEMMA NothingReturned ==
  ASSUME TypeOK, RefundInv, NEW k \in RefundKey,
         row[k] # "none", k \notin refunded, PaygateAccepts(k)
  PROVE  refunded = {}
<1> USE AmountAssumption DEF TypeOK, RefundInv, RefundKey, PaygateAccepts, Returned
<1>1. CASE k = "cancel"
  <2>1. "late" \in refunded => amount["late"] = Amount /\ amount["cancel"] > 0  BY <1>1
  <2> QED  BY <1>1, <2>1
<1>2. CASE k = "late"
  <2>1. amount["late"] = Amount  BY <1>2
  <2>2. "cancel" \in refunded => amount["cancel"] > 0  BY <1>2
  <2> QED  BY <1>2, <2>1, <2>2
<1> QED  BY <1>1, <1>2

-----------------------------------------------------------------------------
(* The initial state                                                       *)

LEMMA InitInv == Init => IInv
<1> SUFFICES ASSUME Init PROVE IInv  OBVIOUS
<1>1. [from |-> "DRAFT", to |-> "HELD"] \in AuditRow  BY DEF AuditRow, BookingStatus
<1>2. audit \in Seq(AuditRow) /\ log \in Seq(Delivery)
  BY <1>1 DEF Init
<1>3. amount \in [RefundKey -> 0..Amount]
  BY AmountAssumption DEF Init
<1>4. TypeOK
  BY <1>2, <1>3 DEF Init, TypeOK, BookingStatus, PaymentStatus
<1>5. StatusInv /\ ChargeInv
  BY DEF Init, StatusInv, ChargeInv, NoMessage
<1>6. RefundInv /\ CaptureHasOutcome
  BY DEF Init, RefundInv, OneRefundPaid, RefundKey, CaptureHasOutcome
<1> QED  BY <1>4, <1>5, <1>6 DEF IInv

-----------------------------------------------------------------------------
(* Every step                                                              *)

(* Types are kept.                                                         *)
LEMMA TypeStep == IInv /\ [Next]_vars => TypeOK'
<1> SUFFICES ASSUME IInv, [Next]_vars PROVE TypeOK'  OBVIOUS
<1> USE AmountAssumption, KeysAssumption, MessageAssumption
    DEF IInv, TypeOK, BookingStatus, PaymentStatus, RefundKey, Result, vars,
    bookingVars, paymentVars, gateVars, hookVars, refundVars, requestVars
<1>1. CASE UNCHANGED vars
  BY <1>1
<1>2. CASE LapseHold
  BY <1>2 DEF LapseHold
<1>3. CASE BeginCheckoutRead
  BY <1>3 DEF BeginCheckoutRead
<1>4. CASE BeginCheckoutWrite
  BY <1>4 DEF BeginCheckoutWrite
<1>5. CASE AbandonCheckout
  BY <1>5 DEF AbandonCheckout
<1>6. ASSUME NEW r \in Payer, StartPaymentRead(r) PROVE TypeOK'
  BY <1>6 DEF StartPaymentRead
<1>7. ASSUME NEW r \in Payer, StartPaymentWrite(r) PROVE TypeOK'
  <2>1. audit' \in Seq(AuditRow) /\ status' \in BookingStatus
    BY <1>7, TransitionWrites DEF StartPaymentWrite, Transition
  <2> QED
    BY <1>7, <2>1 DEF StartPaymentWrite
<1>8. ASSUME NEW r \in Payer, ResumePayment(r) PROVE TypeOK'
  BY <1>8 DEF ResumePayment
<1>9. ASSUME NEW r \in Payer, CreateCharge(r) PROVE TypeOK'
  BY <1>9 DEF CreateCharge
<1>10. ASSUME NEW r \in Payer, ReceiveCharge(r) PROVE TypeOK'
  BY <1>10 DEF ReceiveCharge
<1>11. ASSUME NEW r \in Payer, SaveCharge(r) PROVE TypeOK'
  BY <1>11 DEF SaveCharge
<1>12. ASSUME NEW r \in Payer, AbandonPayment(r) PROVE TypeOK'
  BY <1>12 DEF AbandonPayment
<1>13. CASE CaptureCharge
  BY <1>13 DEF CaptureCharge
<1>14. CASE GateStops
  BY <1>14 DEF GateStops
<1>15. ASSUME NEW d \in Delivery, LoseWebhook(d) PROVE TypeOK'
  BY <1>15 DEF LoseWebhook
<1>16. ASSUME NEW d \in Delivery, EnqueueWebhook(d) PROVE TypeOK'
  BY <1>16 DEF EnqueueWebhook
<1>17. ASSUME NEW d \in Delivery, NEW m \in Message[d], SendWebhook(d, m) PROVE TypeOK'
  BY <1>17 DEF SendWebhook
<1>18. ASSUME NEW d \in Delivery, ProcessUnknown(d) PROVE TypeOK'
  BY <1>18 DEF ProcessUnknown, EndProcessing
<1>19. ASSUME NEW d \in Delivery, ProcessStale(d) PROVE TypeOK'
  BY <1>19 DEF ProcessStale, EndProcessing
<1>20. ASSUME NEW d \in Delivery, ConfirmPaid(d) PROVE TypeOK'
  <2>1. audit' \in Seq(AuditRow) /\ status' \in BookingStatus
    BY <1>20, TransitionWrites DEF ConfirmPaid, Transition
  <2> QED
    BY <1>20, <2>1 DEF ConfirmPaid, EndProcessing, Applies
<1>21. ASSUME NEW d \in Delivery, RefundLate(d) PROVE TypeOK'
  <2>1. audit' \in Seq(AuditRow) /\ status' \in BookingStatus
    BY <1>21, TransitionWrites DEF RefundLate, Transition
  <2> QED
    BY <1>21, <2>1 DEF RefundLate, EndProcessing, InsertRefund, Applies
<1>22. ASSUME NEW d \in Delivery, RecordCapture(d) PROVE TypeOK'
  BY <1>22 DEF RecordCapture, EndProcessing, Applies
<1>23. ASSUME NEW d \in Delivery, FailPayment(d) PROVE TypeOK'
  <2>1. audit' \in Seq(AuditRow) /\ status' \in BookingStatus
    BY <1>23, TransitionWrites DEF FailPayment, Transition
  <2> QED
    BY <1>23, <2>1 DEF FailPayment, EndProcessing, Applies
<1>24. ASSUME NEW d \in Delivery, IgnoreEvent(d) PROVE TypeOK'
  BY <1>24 DEF IgnoreEvent, EndProcessing
<1>25. CASE ExpireHold
  <2>1. audit' \in Seq(AuditRow) /\ status' \in BookingStatus
    BY <1>25, TransitionWrites DEF ExpireHold, Transition
  <2> QED
    BY <1>25, <2>1 DEF ExpireHold
<1>26. CASE CompleteBooking
  <2>1. audit' \in Seq(AuditRow) /\ status' \in BookingStatus
    BY <1>26, TransitionWrites DEF CompleteBooking, Transition
  <2> QED
    BY <1>26, <2>1 DEF CompleteBooking
<1>27. ASSUME NEW a \in PolicyAmounts, CancelBooking(a) PROVE TypeOK'
  <2>1. audit' \in Seq(AuditRow) /\ status' \in BookingStatus
    BY <1>27, TransitionWrites DEF CancelBooking, Transition
  <2> QED
    BY <1>27, <2>1 DEF CancelBooking, InsertRefund
<1>28. ASSUME NEW k \in RefundKey, RequestRefund(k) PROVE TypeOK'
  BY <1>28 DEF RequestRefund
<1>29. ASSUME NEW k \in RefundKey, DropRefund(k) PROVE TypeOK'
  BY <1>29 DEF DropRefund
<1>30. ASSUME NEW k \in RefundKey, CompleteRefund(k) PROVE TypeOK'
  <2>1. audit' \in Seq(AuditRow) /\ status' \in BookingStatus
    BY <1>30, TransitionWrites DEF CompleteRefund, Transition
  <2> QED
    BY <1>30, <2>1 DEF CompleteRefund
<1>31. ASSUME NEW k \in RefundKey, RetryRefund(k) PROVE TypeOK'
  BY <1>31 DEF RetryRefund
<1>32. ASSUME NEW k \in RefundKey, CompleteRetriedRefund(k) PROVE TypeOK'
  <2>1. audit' \in Seq(AuditRow) /\ status' \in BookingStatus
    BY <1>32, TransitionWrites DEF CompleteRetriedRefund, Transition
  <2> QED
    BY <1>32, <2>1 DEF CompleteRetriedRefund
<1>33. ASSUME NEW d \in Delivery, CloseJob(d) PROVE TypeOK'
  BY <1>33 DEF CloseJob
<1>34. ASSUME NEW d \in Delivery, NEW result \in Result, LeaveOpen(d, result)
       PROVE  TypeOK'
  BY <1>34 DEF LeaveOpen
<1> QED
  BY <1>1, <1>2, <1>3, <1>4, <1>5, <1>6, <1>7, <1>8, <1>9, <1>10, <1>11, <1>12, <1>13,
      <1>14, <1>15, <1>16, <1>17, <1>18, <1>19, <1>20, <1>21, <1>22, <1>23, <1>24,
      <1>25, <1>26, <1>27, <1>28, <1>29, <1>30, <1>31, <1>32, <1>33, <1>34 DEF Next,
      PayerStep,
      WebhookStep, ProcessEvent, RefundStep, vars, bookingVars, paymentVars, gateVars,
      hookVars, refundVars, requestVars

(* The status and the payment move together.                               *)
LEMMA StatusStep == IInv /\ [Next]_vars => StatusInv'
<1> SUFFICES ASSUME IInv, [Next]_vars PROVE StatusInv'  OBVIOUS
<1> USE DEF IInv, StatusInv, RefundInv, RefundKey
<1>1. CASE UNCHANGED <<status, payment>>
  BY <1>1
<1>2. ASSUME NEW r \in Payer, StartPaymentWrite(r) PROVE StatusInv'
  BY <1>2 DEF StartPaymentWrite, Transition, WriteTransition, gateVars, hookVars,
      refundVars
<1>3. ASSUME NEW d \in Delivery, ConfirmPaid(d) PROVE StatusInv'
  BY <1>3 DEF ConfirmPaid, Transition, WriteTransition, EndProcessing, Applies, gateVars,
      refundVars, requestVars
<1>4. ASSUME NEW d \in Delivery, RefundLate(d) PROVE StatusInv'
  BY <1>4 DEF RefundLate, Transition, WriteTransition, EndProcessing, InsertRefund,
      Applies, gateVars, requestVars
<1>5. ASSUME NEW d \in Delivery, RecordCapture(d) PROVE StatusInv'
  BY <1>5 DEF RecordCapture, EndProcessing, Applies, bookingVars, gateVars, refundVars,
      requestVars
<1>6. ASSUME NEW d \in Delivery, FailPayment(d) PROVE StatusInv'
  BY <1>6 DEF FailPayment, Transition, WriteTransition, EndProcessing, Applies, gateVars,
      refundVars, requestVars
<1>7. CASE ExpireHold
  BY <1>7 DEF ExpireHold, Transition, WriteTransition, paymentVars, gateVars,
      hookVars, refundVars, requestVars
<1>8. CASE CompleteBooking
  BY <1>8 DEF CompleteBooking, Transition, WriteTransition, paymentVars, gateVars,
      hookVars, refundVars, requestVars
<1>9. ASSUME NEW a \in PolicyAmounts, CancelBooking(a) PROVE StatusInv'
  BY <1>9 DEF CancelBooking, Transition, WriteTransition, InsertRefund, paymentVars,
      gateVars, hookVars, refundVars, requestVars
<1>10. ASSUME NEW k \in RefundKey, CompleteRefund(k) PROVE StatusInv'
  BY <1>10 DEF CompleteRefund, Transition, WriteTransition, paymentVars, gateVars,
      hookVars, requestVars
<1>11. ASSUME NEW k \in RefundKey, CompleteRetriedRefund(k) PROVE StatusInv'
  BY <1>11 DEF CompleteRetriedRefund, Transition, WriteTransition, paymentVars,
      gateVars, hookVars, requestVars
<1> QED
  BY <1>1, <1>2, <1>3, <1>4, <1>5, <1>6, <1>7, <1>8, <1>9, <1>10, <1>11 DEF Next,
      PayerStep, WebhookStep, ProcessEvent, RefundStep, vars, bookingVars,
      paymentVars, gateVars, hookVars, refundVars, requestVars, LapseHold,
      BeginCheckoutRead, BeginCheckoutWrite, AbandonCheckout, StartPaymentRead,
      ResumePayment, CreateCharge, ReceiveCharge, SaveCharge, AbandonPayment,
      CaptureCharge, GateStops, LoseWebhook, EnqueueWebhook, SendWebhook,
      ProcessUnknown, ProcessStale, IgnoreEvent, EndProcessing, CloseJob, LeaveOpen,
      RequestRefund, DropRefund,
      RetryRefund

(* A charge exists before it is known, and is captured before it is        *)
(* reported.                                                               *)
LEMMA ChargeStep == IInv /\ [Next]_vars => ChargeInv'
<1> SUFFICES ASSUME IInv, [Next]_vars PROVE ChargeInv'  OBVIOUS
<1> USE DEF IInv, TypeOK, StatusInv, ChargeInv, PaymentStatus
<1>1. CASE UNCHANGED <<payment, chargeKnown, charge, gate, payer, msg>>
  BY <1>1
<1>2. ASSUME NEW r \in Payer, StartPaymentRead(r) PROVE ChargeInv'
  BY <1>2 DEF StartPaymentRead, bookingVars, paymentVars, gateVars, hookVars,
      refundVars
<1>3. ASSUME NEW r \in Payer, StartPaymentWrite(r) PROVE ChargeInv'
  BY <1>3 DEF StartPaymentWrite, Transition, WriteTransition, gateVars, hookVars,
      refundVars
<1>4. ASSUME NEW r \in Payer, ResumePayment(r) PROVE ChargeInv'
  BY <1>4 DEF ResumePayment, bookingVars, paymentVars, gateVars, hookVars, refundVars
<1>5. ASSUME NEW r \in Payer, CreateCharge(r) PROVE ChargeInv'
  BY <1>5 DEF CreateCharge, bookingVars, paymentVars, hookVars, refundVars,
      requestVars
<1>6. ASSUME NEW r \in Payer, ReceiveCharge(r) PROVE ChargeInv'
  BY <1>6 DEF ReceiveCharge, bookingVars, paymentVars, gateVars, hookVars, refundVars
<1>7. ASSUME NEW r \in Payer, SaveCharge(r) PROVE ChargeInv'
  BY <1>7 DEF SaveCharge, bookingVars, gateVars, hookVars, refundVars
<1>8. ASSUME NEW r \in Payer, AbandonPayment(r) PROVE ChargeInv'
  BY <1>8 DEF AbandonPayment, bookingVars, paymentVars, gateVars, hookVars, refundVars
<1>9. CASE CaptureCharge
  BY <1>9 DEF CaptureCharge, bookingVars, paymentVars, hookVars, refundVars,
      requestVars
<1>10. CASE GateStops
  BY <1>10 DEF GateStops, bookingVars, paymentVars, hookVars, refundVars, requestVars
<1>11. ASSUME NEW d \in Delivery, NEW m \in Message[d], SendWebhook(d, m) PROVE ChargeInv'
  BY <1>11 DEF SendWebhook, bookingVars, paymentVars, gateVars, refundVars,
      requestVars
<1>12. ASSUME NEW d \in Delivery, ConfirmPaid(d) PROVE ChargeInv'
  BY <1>12 DEF ConfirmPaid, Transition, WriteTransition, EndProcessing, Applies, gateVars,
      refundVars, requestVars
<1>13. ASSUME NEW d \in Delivery, RefundLate(d) PROVE ChargeInv'
  BY <1>13 DEF RefundLate, Transition, WriteTransition, EndProcessing, InsertRefund,
      Applies, gateVars, requestVars
<1>14. ASSUME NEW d \in Delivery, RecordCapture(d) PROVE ChargeInv'
  BY <1>14 DEF RecordCapture, EndProcessing, Applies, bookingVars, gateVars, refundVars,
      requestVars
<1>15. ASSUME NEW d \in Delivery, FailPayment(d) PROVE ChargeInv'
  BY <1>15 DEF FailPayment, Transition, WriteTransition, EndProcessing, Applies, gateVars,
      refundVars, requestVars
<1> QED
  BY <1>1, <1>2, <1>3, <1>4, <1>5, <1>6, <1>7, <1>8, <1>9, <1>10, <1>11, <1>12, <1>13,
      <1>14, <1>15 DEF Next, PayerStep, WebhookStep, ProcessEvent, RefundStep, vars,
      bookingVars, paymentVars, gateVars, hookVars, refundVars, requestVars,
      LapseHold, BeginCheckoutRead, BeginCheckoutWrite, AbandonCheckout, LoseWebhook,
      EnqueueWebhook, ProcessUnknown, ProcessStale, IgnoreEvent, EndProcessing,
      CloseJob, LeaveOpen, ExpireHold,
      Transition, WriteTransition, CompleteBooking, CancelBooking, InsertRefund,
      RequestRefund, DropRefund, CompleteRefund, RetryRefund, CompleteRetriedRefund

(* Refund rows, provider refunds and owed calls agree.                     *)
LEMMA RefundInvStep == IInv /\ [Next]_vars => RefundInv'
<1> SUFFICES ASSUME IInv, [Next]_vars PROVE RefundInv'  OBVIOUS
<1> USE AmountAssumption DEF IInv, TypeOK, StatusInv, RefundInv, OneRefundPaid, RefundKey
<1>1. CASE UNCHANGED <<status, payment, row, amount, owed, refunded>>
  BY <1>1
<1>2. ASSUME NEW r \in Payer, StartPaymentWrite(r) PROVE RefundInv'
  BY <1>2 DEF StartPaymentWrite, Transition, WriteTransition, gateVars, hookVars,
      refundVars
<1>3. ASSUME NEW d \in Delivery, ConfirmPaid(d) PROVE RefundInv'
  BY <1>3 DEF ConfirmPaid, Transition, WriteTransition, EndProcessing, Applies, gateVars,
      refundVars, requestVars
<1>4. ASSUME NEW d \in Delivery, RefundLate(d) PROVE RefundInv'
  <2>1. /\ row' = [row EXCEPT !["late"] = "PROCESSING"] 
        /\ owed' = [owed EXCEPT !["late"] = "due"]
        /\ amount' = [amount EXCEPT !["late"] = Amount] /\ refunded' = refunded
    BY <1>4 DEF RefundLate, InsertRefund, gateVars
  <2>2. payment' = "SUCCEEDED" /\ status' \in {"CANCELLED", "EXPIRED", "FAILED", "REFUNDED"}
    BY <1>4 DEF RefundLate, Transition, WriteTransition, BookingStatus
  <2>3. row["late"] = "none"
    BY <1>4 DEF RefundLate
  <2>4. row["cancel"] # "none" => status' \in {"CANCELLED", "REFUNDED"}
    BY <1>4 DEF RefundLate
  <2>5. status' = "REFUNDED" => status = "REFUNDED"
    BY <1>4 DEF RefundLate, Transition, WriteTransition
  <2> QED
    BY <2>1, <2>2, <2>3, <2>4, <2>5
<1>5. ASSUME NEW d \in Delivery, RecordCapture(d) PROVE RefundInv'
  BY <1>5 DEF RecordCapture, EndProcessing, Applies, bookingVars, gateVars, refundVars,
      requestVars
<1>6. ASSUME NEW d \in Delivery, FailPayment(d) PROVE RefundInv'
  BY <1>6 DEF FailPayment, Transition, WriteTransition, EndProcessing, Applies, gateVars,
      refundVars, requestVars
<1>7. CASE ExpireHold
  BY <1>7 DEF ExpireHold, Transition, WriteTransition, paymentVars, gateVars,
      hookVars, refundVars, requestVars
<1>8. CASE CompleteBooking
  BY <1>8 DEF CompleteBooking, Transition, WriteTransition, paymentVars, gateVars,
      hookVars, refundVars, requestVars
<1>9. ASSUME NEW a \in PolicyAmounts, CancelBooking(a) PROVE RefundInv'
  BY <1>9 DEF CancelBooking, Transition, WriteTransition, InsertRefund, paymentVars,
      gateVars, hookVars, refundVars, requestVars
<1>10. ASSUME NEW k \in RefundKey, RequestRefund(k) PROVE RefundInv'
  <2>1. row[k] # "none" /\ k \notin refunded => refunded = {}
    BY <1>10, NothingReturned DEF RequestRefund
  <2> QED
    BY <1>10, <2>1 DEF RequestRefund, bookingVars, paymentVars, hookVars, requestVars
<1>11. ASSUME NEW k \in RefundKey, DropRefund(k) PROVE RefundInv'
  BY <1>11 DEF DropRefund, bookingVars, paymentVars, gateVars, hookVars, requestVars
<1>12. ASSUME NEW k \in RefundKey, CompleteRefund(k) PROVE RefundInv'
  BY <1>12 DEF CompleteRefund, Transition, WriteTransition, paymentVars, gateVars,
      hookVars, requestVars
<1>13. ASSUME NEW k \in RefundKey, RetryRefund(k) PROVE RefundInv'
  <2>1. row[k] # "none" /\ k \notin refunded => refunded = {}
    BY <1>13, NothingReturned DEF RetryRefund
  <2> QED
    BY <1>13, <2>1 DEF RetryRefund, bookingVars, paymentVars, hookVars, refundVars,
    requestVars
<1>14. ASSUME NEW k \in RefundKey, CompleteRetriedRefund(k) PROVE RefundInv'
  BY <1>14 DEF CompleteRetriedRefund, Transition, WriteTransition, paymentVars,
      gateVars, hookVars, requestVars
<1> QED
  BY <1>1, <1>2, <1>3, <1>4, <1>5, <1>6, <1>7, <1>8, <1>9, <1>10, <1>11, <1>12, <1>13,
      <1>14 DEF Next, PayerStep, WebhookStep, ProcessEvent, RefundStep, vars,
      bookingVars, paymentVars, gateVars, hookVars, refundVars, requestVars,
      LapseHold, BeginCheckoutRead, BeginCheckoutWrite, AbandonCheckout,
      StartPaymentRead, ResumePayment, CreateCharge, ReceiveCharge, SaveCharge,
      AbandonPayment, CaptureCharge, GateStops, LoseWebhook, EnqueueWebhook,
      SendWebhook, ProcessUnknown, ProcessStale, IgnoreEvent, EndProcessing, CloseJob,
      LeaveOpen

(* A recorded capture has an outcome.                                      *)
LEMMA OutcomeStep == IInv /\ [Next]_vars => CaptureHasOutcome'
<1> SUFFICES ASSUME IInv, [Next]_vars PROVE CaptureHasOutcome'  OBVIOUS
<1> USE DEF IInv, StatusInv, RefundInv, CaptureHasOutcome, Settled,
    CancelledAfterConfirmation, RefundKey, TypeOK
<1>1. CASE UNCHANGED <<status, payment, row, audit>>
  BY <1>1
<1>2. ASSUME NEW r \in Payer, StartPaymentWrite(r) PROVE CaptureHasOutcome'
  BY <1>2 DEF StartPaymentWrite, Transition, WriteTransition, gateVars, hookVars,
      refundVars
<1>3. ASSUME NEW d \in Delivery, ConfirmPaid(d) PROVE CaptureHasOutcome'
  BY <1>3 DEF ConfirmPaid, Transition, WriteTransition, EndProcessing, Applies, gateVars,
      refundVars, requestVars
<1>4. ASSUME NEW d \in Delivery, RefundLate(d) PROVE CaptureHasOutcome'
  BY <1>4 DEF RefundLate, Transition, WriteTransition, EndProcessing, InsertRefund,
      Applies, gateVars, requestVars
<1>5. ASSUME NEW d \in Delivery, RecordCapture(d) PROVE CaptureHasOutcome'
  <2>1. status = "REFUNDED" /\ row' = row
    BY <1>5 DEF RecordCapture, Applies, refundVars, BookingStatus
  <2> QED
    BY <2>1
<1>6. ASSUME NEW d \in Delivery, FailPayment(d) PROVE CaptureHasOutcome'
  BY <1>6 DEF FailPayment, Transition, WriteTransition, EndProcessing, Applies, gateVars,
      refundVars, requestVars
<1>7. CASE ExpireHold
  BY <1>7 DEF ExpireHold, Transition, WriteTransition, paymentVars, gateVars,
      hookVars, refundVars, requestVars
<1>8. CASE CompleteBooking
  BY <1>8 DEF CompleteBooking, Transition, WriteTransition, paymentVars, gateVars,
      hookVars, refundVars, requestVars
<1>9. ASSUME NEW a \in PolicyAmounts, CancelBooking(a) PROVE CaptureHasOutcome'
  <2>1. WriteTransition(status, "CANCELLED")
    BY <1>9 DEF CancelBooking, Transition
  <2>2. CancelledAfterConfirmation => CancelledAfterConfirmation'
    BY <2>1, TransitionWrites DEF CancelledAfterConfirmation, TypeOK, BookingStatus
  <2>3. status = "CONFIRMED" => CancelledAfterConfirmation'
    <3>1. Len(audit) + 1 \in DOMAIN audit'
      BY <2>1, TransitionWrites DEF TypeOK, BookingStatus
    <3> QED
      BY <2>1, <3>1, TransitionWrites DEF CancelledAfterConfirmation, TypeOK, BookingStatus
  <2>4. payment' = payment /\ \A k \in RefundKey : row[k] # "none" => row'[k] # "none"
    BY <1>9 DEF CancelBooking, InsertRefund, paymentVars, refundVars, TypeOK
  <2>5. status # "COMPLETED" /\ (payment = "SUCCEEDED" => Settled)
    BY <1>9 DEF CancelBooking
  <2> QED
    BY <2>2, <2>3, <2>4, <2>5
<1>10. ASSUME NEW k \in RefundKey, CompleteRefund(k) PROVE CaptureHasOutcome'
  BY <1>10 DEF CompleteRefund, Transition, WriteTransition, paymentVars, gateVars,
      hookVars, requestVars
<1>11. ASSUME NEW k \in RefundKey, CompleteRetriedRefund(k) PROVE CaptureHasOutcome'
  BY <1>11 DEF CompleteRetriedRefund, Transition, WriteTransition, paymentVars,
      gateVars, hookVars, requestVars
<1> QED
  BY <1>1, <1>2, <1>3, <1>4, <1>5, <1>6, <1>7, <1>8, <1>9, <1>10, <1>11 DEF Next,
      PayerStep, WebhookStep, ProcessEvent, RefundStep, vars, bookingVars,
      paymentVars, gateVars, hookVars, refundVars, requestVars, LapseHold,
      BeginCheckoutRead, BeginCheckoutWrite, AbandonCheckout, StartPaymentRead,
      ResumePayment, CreateCharge, ReceiveCharge, SaveCharge, AbandonPayment,
      CaptureCharge, GateStops, LoseWebhook, EnqueueWebhook, SendWebhook,
      ProcessUnknown, ProcessStale, IgnoreEvent, EndProcessing, CloseJob, LeaveOpen,
      RequestRefund, DropRefund,
      RetryRefund

-----------------------------------------------------------------------------
(* The theorems                                                            *)

(* The invariant is inductive and holds initially.                         *)
THEOREM Invariance == Spec => []IInv
<1>1. IInv /\ [Next]_vars => IInv'
  BY TypeStep, StatusStep, ChargeStep, RefundInvStep, OutcomeStep DEF IInv
<1> QED  BY InitInv, <1>1, PTL DEF Spec

(* Every variable keeps its type.                                          *)
THEOREM TypeCorrect == Spec => []TypeOK
<1>1. IInv => TypeOK  BY DEF IInv
<1> QED  BY Invariance, <1>1, PTL

(* A payment recorded as captured always has its booking, its refund or    *)
(* its cancelled confirmation (processPaymentWebhookOnce, cancelBooking).  *)
THEOREM CaptureSettled == Spec => []CaptureHasOutcome
<1>1. IInv => CaptureHasOutcome  BY DEF IInv
<1> QED  BY Invariance, <1>1, PTL

(* A confirmed booking is paid and none of its money is going back.        *)
THEOREM ConfirmedPaid == Spec => []ConfirmedIsPaid
<1>1. IInv => ConfirmedIsPaid
  BY DEF IInv, StatusInv, ChargeInv, RefundInv, RefundKey, ConfirmedIsPaid
<1> QED  BY Invariance, <1>1, PTL

(* Paygate never pays two refunds of one booking, even where the code      *)
(* inserts two refund rows.                                                *)
THEOREM OneRefund == Spec => []OneRefundPaid
<1>1. IInv => OneRefundPaid  BY DEF IInv, RefundInv
<1> QED  BY Invariance, <1>1, PTL

(* A REFUNDED booking had its money returned by Paygate.                   *)
THEOREM RefundedReturned == Spec => []RefundedIsReturned
<1>1. IInv => RefundedIsReturned  BY DEF IInv, RefundInv, RefundedIsReturned
<1> QED  BY Invariance, <1>1, PTL

(* A refund row is inserted once and its amount never changes: a booking   *)
(* with a cancellation refund is never active again, a late success is     *)
(* recorded once.                                                          *)
THEOREM RefundsInsertedOnce == Spec => RefundOnce
<1> DEFINE Kept == \A k \in RefundKey : row[k] # "none" =>
                     /\ amount'[k] = amount[k]
                     /\ row'[k] # "none" /\ (row[k] = "SUCCEEDED" => row'[k] = "SUCCEEDED")
<1>1. IInv /\ [Next]_vars => [Kept]_vars
  <2> SUFFICES ASSUME IInv, [Next]_vars PROVE Kept
    OBVIOUS
  <2> USE DEF IInv, TypeOK, RefundInv, RefundKey
  <2>1. CASE UNCHANGED <<row, amount>>
    BY <2>1
  <2>2. ASSUME NEW d \in Delivery, RefundLate(d) PROVE Kept
    BY <2>2 DEF RefundLate, InsertRefund
  <2>3. ASSUME NEW a \in PolicyAmounts, CancelBooking(a) PROVE Kept
    BY <2>3 DEF CancelBooking, InsertRefund, refundVars
  <2>4. ASSUME NEW k \in RefundKey, CompleteRefund(k) PROVE Kept
    BY <2>4 DEF CompleteRefund
  <2>5. ASSUME NEW k \in RefundKey, CompleteRetriedRefund(k) PROVE Kept
    BY <2>5 DEF CompleteRetriedRefund
  <2> QED
    BY <2>1, <2>2, <2>3, <2>4, <2>5
    DEF Next, PayerStep, WebhookStep, ProcessEvent, RefundStep, vars, bookingVars,
        paymentVars, gateVars, hookVars, refundVars, requestVars, LapseHold,
        BeginCheckoutRead, BeginCheckoutWrite, AbandonCheckout, StartPaymentRead,
        StartPaymentWrite, Transition, WriteTransition, ResumePayment, CreateCharge,
        ReceiveCharge, SaveCharge, AbandonPayment, CaptureCharge, GateStops,
        LoseWebhook, EnqueueWebhook, SendWebhook, ProcessUnknown, ProcessStale,
        CloseJob, LeaveOpen, ConfirmPaid, EndProcessing, Applies, RecordCapture,
        FailPayment, IgnoreEvent,
        ExpireHold, CompleteBooking, RequestRefund, DropRefund, RetryRefund
<1> QED  BY Invariance, <1>1, PTL DEF Spec, RefundOnce

(* What the reconciliation report does not list is settled at the provider *)
(* (getReconciliation reads the platform's rows only).                     *)
THEOREM ReconciledSettled == Spec => []ReconciledIsSettled
<1>1. ASSUME IInv PROVE ReconciledIsSettled
  <2> USE <1>1
  <2> SUFFICES ASSUME Reconciled
               PROVE \/ Fulfilled /\ payment = "SUCCEEDED" /\ refunded = {}
                     \/ ~Fulfilled /\ Returned = Amount
    BY DEF ReconciledIsSettled
  <2>1. refunded \subseteq RefundKey  BY DEF IInv, TypeOK
  <2>2. CASE Fulfilled
    <3>1. payment = "SUCCEEDED"  BY <2>2 DEF IInv, StatusInv, Fulfilled
    <3>2. \A k \in RefundKey : row[k] = "none"
      BY <2>2 DEF IInv, RefundInv, RefundKey, Fulfilled
    <3>3. refunded = {}  BY <2>1, <3>2 DEF IInv, RefundInv
    <3> QED  BY <2>2, <3>1, <3>3
  <2>3. CASE ~Fulfilled
    <3>1. CountedRefunds # {} /\ RefundTotal = Amount
      BY <2>3 DEF Reconciled, Issue
    <3>2. CountedRefunds \subseteq refunded
      BY DEF IInv, RefundInv, CountedRefunds
    <3>3. ~(RefundKey \subseteq refunded)
      BY DEF IInv, RefundInv, OneRefundPaid
    <3>4. CountedRefunds = refunded
      BY <2>1, <3>1, <3>2, <3>3 DEF RefundKey
    <3> QED  BY <2>3, <3>1, <3>4 DEF Returned, RefundTotal
  <2> QED  BY <2>2, <2>3
<1> QED  BY Invariance, <1>1, PTL

(* The report never has a double outcome to list.                          *)
LEMMA SingleOutcome ==
  ASSUME IInv
  PROVE  /\ Fulfilled => CountedRefunds = {}
         /\ CountedRefunds # RefundKey
<1>1. Fulfilled => CountedRefunds = {}
  BY DEF IInv, RefundInv, RefundKey, Fulfilled, CountedRefunds
<1>2. CountedRefunds # RefundKey
  BY DEF IInv, RefundInv, OneRefundPaid, CountedRefunds
<1> QED  BY <1>1, <1>2

THEOREM NeverDouble == Spec => []NoDoubleOutcome
<1>1. IInv => NoDoubleOutcome
  BY SingleOutcome DEF NoDoubleOutcome, Issue
<1> QED  BY Invariance, <1>1, PTL

(* The revenue report counts only money that is kept.                      *)
THEOREM RevenueKept == Spec => []RevenueIsKept
<1>1. ASSUME IInv, Revenue > 0 PROVE Captured /\ refunded = {}
  <2> USE <1>1
  <2>1. Fulfilled /\ payment = "SUCCEEDED"  BY DEF Revenue
  <2>2. Captured  BY <2>1 DEF IInv, ChargeInv, Captured
  <2>3. refunded \subseteq RefundKey  BY DEF IInv, TypeOK
  <2>4. \A k \in RefundKey : row[k] = "none"
    BY <2>1 DEF IInv, RefundInv, RefundKey, Fulfilled
  <2>5. refunded = {}  BY <2>3, <2>4 DEF IInv, RefundInv
  <2> QED  BY <2>2, <2>5
<1>2. IInv => RevenueIsKept  BY <1>1 DEF RevenueIsKept
<1> QED  BY Invariance, <1>2, PTL

(* A charge, once captured and known, stays captured and known.            *)
LEMMA CaptureStays ==
  ASSUME IInv, [Next]_vars, Captured, chargeKnown
  PROVE  Captured' /\ chargeKnown'
<1> USE DEF Captured
<1>1. charge = "SUCCEEDED" /\ gate # "created"
  BY DEF IInv, ChargeInv
<1>2. CASE UNCHANGED <<charge, chargeKnown>>
  BY <1>2
<1>3. ASSUME NEW r \in Payer, CreateCharge(r) PROVE FALSE
  BY <1>1, <1>3 DEF CreateCharge
<1>4. ASSUME NEW r \in Payer, SaveCharge(r) PROVE Captured' /\ chargeKnown'
  BY <1>4 DEF SaveCharge, gateVars
<1>5. CASE CaptureCharge
  BY <1>1, <1>5 DEF CaptureCharge
<1> QED
  BY <1>2, <1>3, <1>4, <1>5
  DEF Next, PayerStep, WebhookStep, ProcessEvent, RefundStep, vars, bookingVars,
      paymentVars, gateVars, hookVars, refundVars, requestVars, LapseHold,
      BeginCheckoutRead, BeginCheckoutWrite, AbandonCheckout, StartPaymentRead,
      StartPaymentWrite, ResumePayment, ReceiveCharge, AbandonPayment, GateStops,
      LoseWebhook, EnqueueWebhook, SendWebhook, ProcessUnknown, ProcessStale,
      CloseJob, LeaveOpen, ConfirmPaid, RefundLate, RecordCapture, FailPayment,
      IgnoreEvent, ExpireHold,
      CompleteBooking, CancelBooking, RequestRefund, DropRefund, CompleteRefund,
      RetryRefund, CompleteRetriedRefund

(* A full refund, once reconciled, stays reconciled: the other refund row  *)
(* never completes and the booking is never confirmed.                     *)
THEOREM RefundStaysReconciled == Spec => ReturnedStaysReconciled
<1> DEFINE Refunded ==
             \A k \in RefundKey : row[k] # "none" =>
               /\ amount'[k] = amount[k]
               /\ row'[k] # "none" /\ (row[k] = "SUCCEEDED" => row'[k] = "SUCCEEDED")
<1>1. ASSUME IInv, IInv', [Next]_vars, [Refunded]_vars, Reconciled, ~Fulfilled
      PROVE  Reconciled'
  <2> USE <1>1
  <2>1. chargeKnown /\ Captured /\ CountedRefunds # {} /\ RefundTotal = Amount
    BY DEF Reconciled, Issue
  <2>2. Captured' /\ chargeKnown'  BY <2>1, CaptureStays
  <2>3. \A k \in CountedRefunds : row'[k] = "SUCCEEDED" /\ amount'[k] = amount[k]
    BY DEF vars, refundVars, CountedRefunds
  <2>4. CountedRefunds \subseteq CountedRefunds'
    BY <2>3 DEF CountedRefunds
  <2>5. /\ Fulfilled' => CountedRefunds' = {}
        /\ CountedRefunds' # RefundKey
    BY DEF IInv, RefundInv, OneRefundPaid, Fulfilled, CountedRefunds, RefundKey
  <2>6. CountedRefunds' = CountedRefunds /\ ~Fulfilled'
    BY <2>1, <2>4, <2>5 DEF RefundKey, CountedRefunds
  <2>7. RefundTotal' = RefundTotal
    BY <2>3, <2>6 DEF RefundTotal
  <2> QED  BY <2>1, <2>2, <2>5, <2>6, <2>7 DEF Reconciled, Issue
<1>2. Spec => [][Refunded]_vars  BY RefundsInsertedOnce DEF RefundOnce
<1>3. IInv /\ IInv' /\ [Next]_vars /\ [Refunded]_vars
        => [Reconciled /\ ~Fulfilled => Reconciled']_vars
  BY <1>1
<1> QED  BY Invariance, <1>2, <1>3, PTL DEF Spec, ReturnedStaysReconciled

(* The booking is the one BookingLifecycle describes: every status change  *)
(* follows the table, except for one payment submitted on a stale read.    *)
THEOREM RefinesLifecycle == Spec => ImplementsLifecycle
<1>1. Init => Lifecycle!LifeInit
  BY DEF Init, Lifecycle!LifeInit
<1>2. IInv /\ [Next]_vars => [Lifecycle!LifeNext]_(Lifecycle!lifeVars)
  <2> SUFFICES ASSUME IInv, [Next]_vars PROVE [Lifecycle!LifeNext]_(Lifecycle!lifeVars)
    OBVIOUS
  <2> USE DEF IInv, TypeOK, StatusInv
  <2> DEFINE Moves(to) == /\ CanTransition(status, to) /\ to # "PENDING_PAYMENT"
                          /\ status' = to /\ (payment' # "none") = (payment # "none")
  <2>1. ASSUME NEW to \in BookingStatus, Moves(to) PROVE Lifecycle!LifeNext
    BY <2>1 DEF Lifecycle!LifeNext, Lifecycle!Advance, Lifecycle!CanTransition,
                Lifecycle!ValidTransitions, CanTransition, ValidTransitions,
                Lifecycle!BookingStatus, BookingStatus
  <2>2. CASE UNCHANGED <<status, payment>>
    BY <2>2 DEF Lifecycle!lifeVars
  <2>3. ASSUME NEW r \in Payer, StartPaymentWrite(r) PROVE Lifecycle!LifeNext
    BY <2>3 DEF StartPaymentWrite, WriteTransition, Lifecycle!LifeNext, Lifecycle!Submit
  <2>4. ASSUME NEW d \in Delivery, ConfirmPaid(d)
       PROVE Moves("CONFIRMED")
    BY <2>4 DEF ConfirmPaid, Transition, WriteTransition, EndProcessing, Applies,
        gateVars, refundVars, requestVars
  <2>5. ASSUME NEW d \in Delivery, RefundLate(d)
       PROVE \/ Moves("EXPIRED")
             \/ UNCHANGED status /\ (payment' # "none") = (payment # "none")
    BY <2>5 DEF RefundLate, Transition, WriteTransition, EndProcessing, InsertRefund,
        Applies, gateVars, requestVars
  <2>6. ASSUME NEW d \in Delivery, RecordCapture(d)
       PROVE UNCHANGED status /\ (payment' # "none") = (payment # "none")
    BY <2>6 DEF RecordCapture, EndProcessing, Applies, bookingVars, gateVars, refundVars,
        requestVars
  <2>7. ASSUME NEW d \in Delivery, FailPayment(d)
       PROVE \/ Moves("FAILED")
             \/ UNCHANGED status /\ (payment' # "none") = (payment # "none")
    BY <2>7 DEF FailPayment, Transition, WriteTransition, EndProcessing, Applies,
        gateVars, refundVars, requestVars
  <2>8. ASSUME ExpireHold
       PROVE Moves("EXPIRED")
    BY <2>8 DEF ExpireHold, Transition, WriteTransition, paymentVars, gateVars,
        hookVars, refundVars, requestVars
  <2>9. ASSUME CompleteBooking
       PROVE Moves("COMPLETED")
    BY <2>9 DEF CompleteBooking, Transition, WriteTransition, paymentVars, gateVars,
        hookVars, refundVars, requestVars
  <2>10. ASSUME NEW a \in PolicyAmounts, CancelBooking(a)
       PROVE Moves("CANCELLED")
    BY <2>10 DEF CancelBooking, Transition, WriteTransition, InsertRefund,
        paymentVars, gateVars, hookVars, refundVars, requestVars
  <2>11. ASSUME NEW k \in RefundKey, CompleteRefund(k)
       PROVE \/ Moves("REFUNDED")
             \/ UNCHANGED status /\ (payment' # "none") = (payment # "none")
    BY <2>11 DEF CompleteRefund, Transition, WriteTransition, paymentVars, gateVars,
        hookVars, requestVars
  <2>12. ASSUME NEW k \in RefundKey, CompleteRetriedRefund(k)
       PROVE \/ Moves("REFUNDED")
             \/ UNCHANGED status /\ (payment' # "none") = (payment # "none")
    BY <2>12 DEF CompleteRetriedRefund, Transition, WriteTransition, paymentVars,
        gateVars, hookVars, requestVars
  <2> QED
    BY <2>1, <2>2, <2>3, <2>4, <2>5, <2>6, <2>7, <2>8, <2>9, <2>10, <2>11, <2>12
    DEF Lifecycle!lifeVars, BookingStatus, Next, PayerStep, WebhookStep, ProcessEvent,
        RefundStep, vars, bookingVars, paymentVars, gateVars, hookVars, refundVars,
        requestVars, LapseHold, BeginCheckoutRead, BeginCheckoutWrite,
        AbandonCheckout, StartPaymentRead, ResumePayment, CreateCharge,
        ReceiveCharge, SaveCharge, AbandonPayment, CaptureCharge, GateStops,
        LoseWebhook, EnqueueWebhook, SendWebhook, ProcessUnknown, ProcessStale,
        IgnoreEvent, EndProcessing, CloseJob, LeaveOpen, RequestRefund, DropRefund,
        RetryRefund
<1> QED  BY Invariance, <1>1, <1>2, PTL DEF Spec, ImplementsLifecycle, Lifecycle!LifeSpec
-----------------------------------------------------------------------------
(* Batches of refunds                                                      *)

(* Where refunds are eventually paid, they are also never paid twice: the  *)
(* specification that liveness is checked on, with batches behind refunds  *)
(* of other bookings and the fairness of the loops, keeps the invariant.   *)
THEOREM BatchesAreSafe == FairSpec => []IInv
<1>1. BatchInit => Init
  BY DEF BatchInit
<1>2. [BatchNext]_<<vars, ahead>> => [Next]_vars
  BY DEF BatchNext
<1>3. FairSpec => Spec
  BY <1>1, <1>2, PTL DEF FairSpec, Spec
<1> QED
  BY <1>3, Invariance, PTL
=============================================================================
