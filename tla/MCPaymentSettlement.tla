------------------------ MODULE MCPaymentSettlement ------------------------
(***************************************************************************)
(* Instances of PaymentSettlement for TLC: two payment requests, one or    *)
(* two deliveries, a price of two and a policy that may grant half of it.  *)
(***************************************************************************)
EXTENDS Reconciliation, TLC

CONSTANTS p1, p2, k1, k2

(* A client that retries with its key, and one that reloaded the page and  *)
(* has a new key.                                                          *)
SameKey == [r \in Payer |-> k1]
NewKey  == [r \in Payer |-> IF r = p1 THEN k1 ELSE k2]

Failed    == [event |-> "CHARGE_FAILED", at |-> 1]
Succeeded == [event |-> "CHARGE_SUCCEEDED", at |-> 2]

(* Paygate sends successes only; another provider may report a failure     *)
(* before it succeeds.                                                     *)
PaygateMessages  == [d \in Delivery |-> {Succeeded}]
ProviderMessages == [d \in Delivery |-> {Failed, Succeeded}]

(* Only the order of deliveries tells them apart, and requests of one key  *)
(* are interchangeable.                                                    *)
SameKeySymmetry  == Permutations(Delivery) \cup Permutations(Payer)
=============================================================================
