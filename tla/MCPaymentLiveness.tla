------------------------- MODULE MCPaymentLiveness -------------------------
(***************************************************************************)
(* A success and a failure, stored in either order, one payment request    *)
(* that may be repeated, and one refused refund ahead of a batch of two.   *)
(***************************************************************************)
EXTENDS PaymentLiveness, TLC

CONSTANTS p1, k1, d1, d2

OneKey == p1 :> k1

ProviderMessages == d1 :> {[event |-> "CHARGE_SUCCEEDED", at |-> 2]}
                 @@ d2 :> {[event |-> "CHARGE_FAILED", at |-> 1]}
=============================================================================
