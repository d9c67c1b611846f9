----------------------------- MODULE Intervals -----------------------------
(***************************************************************************)
(* Booking slots: half-open intervals [start, end) of quarters of an hour, *)
(* the grid and the lengths a request may have, and the turnaround that    *)
(* the exclusion constraint and the availability search add to them.       *)
(***************************************************************************)
EXTENDS Integers

Quarter == 15                        \* minutes in a unit
Turnaround == 15 \div Quarter        \* TURNAROUND_MINUTES
Slot == [start : Int, end : Int]

Overlaps(a, b) == a.start < b.end /\ b.start < a.end

(* What the booking row stores beside the slot: both ends are widened.     *)
Protected(s) == [start |-> s.start - Turnaround, end |-> s.end + Turnaround]

(* Half-hour grid, one to eight hours.                                     *)
ValidInterval(s) ==
  /\ s.start < s.end
  /\ s.start % (30 \div Quarter) = 0 /\ s.end % (30 \div Quarter) = 0
  /\ s.end - s.start \in (60 \div Quarter) .. (480 \div Quarter)

(* The room's own bounds on the length, in minutes.                        *)
WithinRoomLimits(s, room) ==
  /\ (s.end - s.start) * Quarter >= room.minDurationMinutes
  /\ (s.end - s.start) * Quarter =< room.maxDurationMinutes
=============================================================================
