---------------------------- MODULE BookingStates ----------------------------
(***************************************************************************)
(* The nine booking statuses of the schema and the transition table of     *)
(* bookingStateMachine.ts, as constant operators the other modules share.  *)
(***************************************************************************)
EXTENDS Sequences

BookingStatus == {"DRAFT", "HELD", "PENDING_PAYMENT", "CONFIRMED", "COMPLETED",
                  "EXPIRED", "FAILED", "CANCELLED", "REFUNDED"}

ValidTransitions ==
  [ DRAFT           |-> {"HELD"},
    HELD            |-> {"PENDING_PAYMENT", "EXPIRED", "CANCELLED"},
    PENDING_PAYMENT |-> {"CONFIRMED", "FAILED", "EXPIRED", "CANCELLED"},
    CONFIRMED       |-> {"COMPLETED", "CANCELLED"},
    COMPLETED       |-> {},
    EXPIRED         |-> {"REFUNDED"},
    FAILED          |-> {"REFUNDED"},
    CANCELLED       |-> {"REFUNDED"},
    REFUNDED        |-> {} ]

CanTransition(from, to) == to \in ValidTransitions[from]

(* The statuses that keep a room slot and equipment: the predicate of the  *)
(* exclusion constraint and of the availability queries.                   *)
ActiveStatus == {"HELD", "PENDING_PAYMENT", "CONFIRMED"}

(* One row of audit_events of type BOOKING_STATE_TRANSITION.               *)
AuditRow == [from : BookingStatus, to : BookingStatus]
=============================================================================
