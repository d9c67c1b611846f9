-------------------------- MODULE MCHoldInventory --------------------------
EXTENDS HoldInventory, TLC

CONSTANTS b1, b2, b3, none

HoldRequests == Permutations({b1, b2, b3})

First == [id |-> 1, venue |-> "studio", minDurationMinutes |-> 60, maxDurationMinutes |-> 120]
Second == [id |-> 2, venue |-> "studio", minDurationMinutes |-> 60, maxDurationMinutes |-> 90]
Annex == [id |-> 3, venue |-> "annex", minDurationMinutes |-> 60, maxDurationMinutes |-> 90]
Rooms == {First, Second, Annex}

Venues == [e \in {1, 2} |-> "studio"]

Ask(r, from, to, a, b) ==
  [room |-> r, slot |-> [start |-> from, end |-> to], need |-> (1 :> a @@ 2 :> b)]

\* two rooms and an annex without equipment; touching and overlapping slots, one off
\* the grid, one longer than its room allows
Requests == { Ask(First, 0, 4, 1, 1), Ask(Second, 2, 6, 1, 1), Ask(First, 4, 8, 2, 0),
              Ask(First, 5, 9, 0, 0), Ask(First, 0, 10, 0, 0), Ask(Annex, 0, 4, 1, 0) }

-----------------------------------------------------------------------------
(* Bounded inputs of the sweep: sets of at most three reservations over    *)
(* ten windows, which start, end and meet in every way.                    *)
Windows == {w \in [start : 0..4, end : 0..4] : w.start < w.end}
RowSets ==
  UNION { { {[of |-> i, slot |-> f[i].slot, quantity |-> f[i].quantity] : i \in 1..n}
              : f \in [1..n -> [slot : Windows, quantity : {1, 2}]] } : n \in 0..3 }
=============================================================================
