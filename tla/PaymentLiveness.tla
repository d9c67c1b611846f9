-------------------------- MODULE PaymentLiveness --------------------------
(***************************************************************************)
(* What must eventually happen to a booking's payment and refunds.  Each   *)
(* run of retryPendingRefunds takes the oldest BatchSize pending refunds.  *)
(* Refunds that Paygate refuses every time (of a booking that cost         *)
(* nothing, or the second of a charge) stay pending and old for ever, and  *)
(* take the places of those that come after them.                          *)
(***************************************************************************)
EXTENDS PaymentSettlement

CONSTANTS BatchSize,   \* refunds one run takes
          Backlogs     \* how many such refunds may be ahead

ASSUME BacklogAssumption == BatchSize \in Nat \ {0} /\ Backlogs \subseteq Nat

VARIABLE ahead   \* older refunds, of other bookings, refused every time

(* The refund of a late success is younger than that of the cancellation.  *)
Older(k) == ahead + (IF k = "late" /\ row["cancel"] = "PROCESSING" THEN 1 ELSE 0)

(* Mutant: the run ends one refund early.                                  *)
InBatchShort(k) == Older(k) + 1 < BatchSize

(* orderBy createdAt asc, take BatchSize                                   *)
InBatch(k) == Older(k) < BatchSize

BatchInit == Init /\ ahead \in Backlogs

BatchNext == /\ Next /\ UNCHANGED ahead
             /\ \A k \in RefundKey : RetryRefund(k) => InBatch(k)

(* The loops that expire holds and retry refunds run for ever, time        *)
(* passes, and a queued job is processed by some worker.  Customers, and   *)
(* requests that a crash may end, owe nothing.                             *)
Fairness ==
  /\ WF_vars(LapseHold) /\ WF_vars(ExpireHold)
  /\ \A k \in RefundKey : /\ WF_vars(RetryRefund(k) /\ InBatch(k))
                          /\ WF_vars(CompleteRetriedRefund(k))
  /\ \A d \in Delivery : WF_vars(job[d] = "queued" /\ ProcessEvent(d))

FairSpec == BatchInit /\ [][BatchNext]_<<vars, ahead>> /\ Fairness

(* A submitted payment never blocks the room for ever, not even with a     *)
(* lost webhook or checkouts that renew the hold behind its back.          *)
PendingResolves == status = "PENDING_PAYMENT" ~> status # "PENDING_PAYMENT"

(* A refund owed on a captured charge is paid in the end, whoever crashed, *)
(* if fewer refunds than a batch holds are refused before it, and unless   *)
(* the refund of the other key was paid in its place.                      *)
RefundsArePaid ==
  \A k \in RefundKey :
    (row[k] = "PROCESSING" /\ charge = "SUCCEEDED" /\ Older(k) < BatchSize)
      ~> (row[k] = "SUCCEEDED" \/ refunded \ {k} # {})

(* The only success of a charge, its job open and the charge known, is     *)
(* applied in the end, though the charge may have become known between the *)
(* processing and the mark, failures may be stored after it, and processes *)
(* stop.  It is lost if somebody is still about to close the job on an     *)
(* earlier look that found no charge, and two successes may be lost to     *)
(* each other (DuplicatesKeepEffect).                                      *)
OnlySuccess(d) == \A e \in Delivery : msg[e].event = "CHARGE_SUCCEEDED" <=> e = d

DeliveredSuccessSettles ==
  \A d \in Delivery :
    (/\ job[d] = "queued" /\ "recorded_unknown" \notin unmarked[d]
     /\ chargeKnown /\ OnlySuccess(d))
      ~> ((payment = "SUCCEEDED" /\ Settled) \/ ~OnlySuccess(d))
=============================================================================
