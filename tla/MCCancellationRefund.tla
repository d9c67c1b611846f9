------------------------ MODULE MCCancellationRefund ------------------------
(***************************************************************************)
(* Two bookings of 90 minutes, three replacements at a venue with or       *)
(* without a seeded policy, two odd rates, and instants at the boundaries  *)
(* of the tiers.                                                           *)
(***************************************************************************)
EXTENDS CancellationRefund, TLC

CONSTANTS p0, p1, p2, p3, b1, b2, none

T(r, e) == [roomPercent |-> r, equipmentPercent |-> e]
Generous == [moreThan48 |-> T(100, 100), between24And48 |-> T(50, 100), lessThan24 |-> T(33, 100)]
Strict == [moreThan48 |-> T(75, 50), between24And48 |-> T(10, 50), lessThan24 |-> T(0, 0)]

Tiers == [p \in Policy |-> IF p = p0 THEN Generous ELSE Strict]
Start == [b \in Booking |-> IF b = b1 THEN Hours(50) ELSE Hours(53)]
Slots == [b \in Booking |-> 90]
Equipped == [b \in Booking |-> IF b = b1 THEN 0 ELSE 35]

(* 48 and 24 hours before the first slot, and during it; 51, 27 and 2      *)
(* hours before the second.                                                *)
Instants == {Hours(2), Hours(26), Hours(51)}

Replacements == Permutations({p1, p2, p3})
=============================================================================
