--------------------------- MODULE EquipmentSweep ---------------------------
(***************************************************************************)
(* The interval sweep of lockEquipment: how many units of an equipment     *)
(* type are taken at once by the active reservations that overlap a        *)
(* requested window.  A reservation is a record [of, slot, quantity].      *)
(***************************************************************************)
EXTENDS Intervals, FiniteSetsExt

(* Rows of inventory_reservations: half-open slots that are not empty,     *)
(* quantities of at least one, one row per booking.                        *)
Reservations(R) ==
  /\ IsFiniteSet(R)
  /\ \A r \in R : /\ r.slot.start \in Int /\ r.slot.end \in Int
                  /\ r.slot.start < r.slot.end
                  /\ r.quantity \in Nat \ {0}
  /\ \A r, x \in R : r.of = x.of => r = x

(* The rows FROM which the sweep is made: not clipped to the window.       *)
Counted(R, w) == {r \in R : Overlaps(r.slot, w)}

Opening(r) == [of |-> r.of, point |-> r.slot.start, delta |-> r.quantity]
Closing(r) == [of |-> r.of, point |-> r.slot.end, delta |-> - r.quantity]

(* Mutant: the closing events are not restricted to the overlapping rows.  *)
EventsUnfiltered(R, w) ==
  {Opening(r) : r \in Counted(R, w)} \cup {Closing(r) : r \in R}

(* The UNION ALL of both changes of each row.                              *)
Events(R, w) ==
  {Opening(r) : r \in Counted(R, w)} \cup {Closing(r) : r \in Counted(R, w)}

(* ORDER BY point, delta DESC; rows that tie open or close together, and   *)
(* which of them comes first changes no maximum.                           *)
NotAfter(e, f) == \/ e.point < f.point
                  \/ e.point = f.point /\ e.delta >= f.delta

(* SUM(delta) OVER (... ROWS UNBOUNDED PRECEDING) at the last of its peers. *)
Running(E, f) == SumFunctionOnSet([e \in E |-> e.delta], {e \in E : NotAfter(e, f)})

(* COALESCE(MAX(running_quantity), 0)                                      *)
SweepPeak(R, w) ==
  LET E == Events(R, w) IN Max({0} \cup {Running(E, f) : f \in E})

-----------------------------------------------------------------------------
(* Reference: units in use at an instant, and at most within a window.     *)
LoadAt(R, t) ==
  SumFunctionOnSet([r \in R |-> r.quantity], {r \in R : r.slot.start <= t /\ t < r.slot.end})

MaxLoad(R, w) == Max({LoadAt(R, t) : t \in w.start .. (w.end - 1)})

(* No reservation begins at the instant another one ends.                  *)
NoneTouch(R) == \A r, x \in R : r.slot.end # x.slot.start
=============================================================================
