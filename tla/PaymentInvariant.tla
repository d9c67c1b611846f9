-------------------------- MODULE PaymentInvariant --------------------------
(***************************************************************************)
(* The inductive invariant of PaymentSettlement: what relates the booking, *)
(* its payment, the charge and the refunds in every reachable state, in a  *)
(* form every single step preserves.                                       *)
(***************************************************************************)
EXTENDS PaymentSettlement

(* The status says how far the payment is, and the other way round.        *)
StatusInv ==
  /\ status # "DRAFT"
  /\ status = "HELD" => payment = "none"
  /\ payment = "none" => status \in {"HELD", "EXPIRED", "CANCELLED"}
  /\ status = "PENDING_PAYMENT" => payment = "PROCESSING"
  /\ status \in {"CONFIRMED", "COMPLETED"} => payment = "SUCCEEDED"
  /\ status = "FAILED" => payment \in {"FAILED", "SUCCEEDED"}

(* No charge without a payment, no known charge without a charge, and no   *)
(* success event without a capture.                                        *)
ChargeInv ==
  /\ payment = "none" => charge = "none"
  /\ charge = "none" => ~chargeKnown /\ gate = "idle"
  /\ gate = "created" => charge = "PROCESSING"
  /\ gate = "delivering" => charge = "SUCCEEDED"
  /\ \A r \in Payer : /\ payer[r] = "charging" => payment # "none"
                      /\ payer[r] = "charged" => charge # "none"
  /\ \A d \in Delivery : msg[d].event = "CHARGE_SUCCEEDED" => charge = "SUCCEEDED"
  /\ payment = "SUCCEEDED" => charge = "SUCCEEDED"

(* Rows, provider refunds and the requests that owe a provider call; where *)
(* a booking with a refund row may be.                                     *)
RefundInv ==
  /\ \A k \in RefundKey :
       /\ row[k] = "SUCCEEDED" => k \in refunded
       /\ k \in refunded \/ owed[k] # "no" => row[k] # "none"
       /\ owed[k] = "answered" => k \in refunded
  /\ row["late"] # "none" =>
       /\ payment = "SUCCEEDED" /\ amount["late"] = Amount
       /\ status \in {"EXPIRED", "FAILED", "CANCELLED", "REFUNDED"}
  /\ row["cancel"] # "none" =>
       /\ payment # "none" /\ amount["cancel"] > 0
       /\ status \in {"CANCELLED", "REFUNDED"}
  /\ status = "REFUNDED" => \E k \in RefundKey : row[k] = "SUCCEEDED"
  /\ OneRefundPaid

(* Everything a step needs to know of the state it starts in.              *)
IInv == TypeOK /\ StatusInv /\ ChargeInv /\ RefundInv /\ CaptureHasOutcome
=============================================================================
