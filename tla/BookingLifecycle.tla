-------------------------- MODULE BookingLifecycle --------------------------
(***************************************************************************)
(* What a booking promises whoever looks at it, without payments, refunds, *)
(* webhooks or requests: its status and whether a payment was submitted.   *)
(*                                                                         *)
(* Every step follows the transition table, with one exception the code    *)
(* really has: startPayment reads the booking without locking it, so a     *)
(* payment submitted on a hold that was valid when it was read may land on *)
(* a booking that was expired or cancelled since, and revives it.  It can  *)
(* do so only once, because a booking has at most one payment row.         *)
(***************************************************************************)
EXTENDS BookingStates

VARIABLES status,     \* bookings.status
          submitted   \* a payments row exists for the booking

lifeVars == <<status, submitted>>

LifeInit == /\ status = "HELD"
            /\ submitted = FALSE

(* A transition of the table other than the submission of a payment.       *)
Advance(to) ==
  /\ CanTransition(status, to)
  /\ to # "PENDING_PAYMENT"
  /\ status' = to
  /\ UNCHANGED submitted

(* The submission of the only payment, possibly on a booking that left     *)
(* HELD after the submission had read it.                                  *)
Submit ==
  /\ ~submitted
  /\ status \in {"HELD", "EXPIRED", "CANCELLED"}
  /\ status' = "PENDING_PAYMENT"
  /\ submitted' = TRUE

LifeNext == Submit \/ \E to \in BookingStatus : Advance(to)

LifeSpec == LifeInit /\ [][LifeNext]_lifeVars
=============================================================================
