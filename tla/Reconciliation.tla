--------------------------- MODULE Reconciliation ---------------------------
(***************************************************************************)
(* The reconciliation report, read in any state of PaymentSettlement: one  *)
(* line per captured charge, joined to the payment that knows the charge,  *)
(* its booking and its refund rows.  Payments copy the booking's amount    *)
(* and currency, and never lose their booking, so those issues do not      *)
(* arise.                                                                  *)
(***************************************************************************)
EXTENDS PaymentInvariant

Captured == charge = "SUCCEEDED"
Fulfilled == status \in {"CONFIRMED", "COMPLETED"}

CountedRefunds == {k \in RefundKey : row[k] = "SUCCEEDED"}

RefundTotal == (IF "cancel" \in CountedRefunds THEN amount["cancel"] ELSE 0)
             + (IF "late" \in CountedRefunds THEN amount["late"] ELSE 0)

(* The first WHEN that holds.  A count that is neither 0 nor 1 is 2.       *)
Issue ==
  CASE ~chargeKnown                               -> "unknown_charge"
    [] chargeKnown /\ Fulfilled                   ->
         IF CountedRefunds # {} THEN "multiple_outcomes" ELSE "none"
    [] chargeKnown /\ ~Fulfilled                  ->
         IF CountedRefunds = {} THEN "not_confirmed_or_refunded"
         ELSE IF CountedRefunds = RefundKey THEN "multiple_refunds"
         ELSE IF RefundTotal # Amount THEN "incorrect_refund_amount" ELSE "none"

Reconciled == Captured /\ Issue = "none"

(* A charge the report does not list is either kept for a booking that is  *)
(* confirmed, with nothing on its way back, or returned in full by the     *)
(* provider: the report looks at the platform's rows only, whose statuses  *)
(* are written after the provider's.                                       *)
ReconciledIsSettled ==
  Reconciled => \/ Fulfilled /\ payment = "SUCCEEDED" /\ refunded = {}
                \/ ~Fulfilled /\ Returned = Amount

(* No interleaving of cancellation, late success and refund retries gives  *)
(* a charge two outcomes the report would have to list.                    *)
NoDoubleOutcome == Captured => Issue \notin {"multiple_outcomes", "multiple_refunds"}

(* The revenue report counts successful payments of bookings that took or  *)
(* take place.  Mutant: of any booking.                                    *)
RevenueOfAny == IF payment = "SUCCEEDED" THEN Amount ELSE 0
Revenue == IF Fulfilled /\ payment = "SUCCEEDED" THEN Amount ELSE 0

(* What the venue is shown as revenue is money the provider has captured   *)
(* and of which it returned nothing, at every moment of a refund, a        *)
(* cancellation or a retry.                                                *)
RevenueIsKept == Revenue > 0 => Captured /\ refunded = {}

(* A charge reconciled by a full refund stays so: a second refund row that *)
(* is still retried never completes, and the booking is never confirmed.   *)
ReturnedStaysReconciled == [][Reconciled /\ ~Fulfilled => Reconciled']_vars
=============================================================================
