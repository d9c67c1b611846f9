-------------------------- MODULE InventoryPromise --------------------------
(***************************************************************************)
(* What holds promise about rooms and equipment, as if each were granted   *)
(* in one atomic step against everything granted so far: no transactions,  *)
(* snapshots, locks or serialization failures.                             *)
(***************************************************************************)
EXTENDS Intervals

CONSTANTS Booking, Equipment, Request, NoRequest,
          Peak(_, _)   \* units a set of reservations takes at once within a window

VARIABLES granted,    \* the bookings that keep their room and equipment
          revived,    \* those a late payment brought back after their release
          booked,     \* what each booking asked for
          capacity    \* effective capacity of each equipment type

promiseVars == <<granted, revived, booked, capacity>>

(* The reservations of an equipment type made by a set of bookings.        *)
Reserved(B, e) ==
  { [of |-> b, slot |-> booked[b].slot, quantity |-> booked[b].need[e]]
      : b \in {c \in B : booked[c] # NoRequest /\ booked[c].need[e] > 0} }

PromiseInit ==
  /\ granted = {} /\ revived = {}
  /\ booked = [b \in Booking |-> NoRequest]
  /\ capacity \in [Equipment -> Nat]

(* The room is free with its turnaround, and every type of equipment has   *)
(* room for the request next to all it is promised to.  The count may also *)
(* include bookings that are gone: a hold may be refused that would fit.   *)
(* Revived bookings keep the room from it, but not the equipment.          *)
Grant(b, q) ==
  /\ b \notin granted /\ booked[b] = NoRequest
  /\ \A c \in granted :
       booked[c].room = q.room => ~Overlaps(Protected(booked[c].slot), Protected(q.slot))
  /\ \E counted \in SUBSET Booking :
       \A e \in Equipment : q.need[e] > 0 =>
         /\ \A c \in granted \ revived :
              (booked[c].need[e] > 0 /\ Overlaps(booked[c].slot, q.slot)) => c \in counted
         /\ Peak(Reserved(counted, e), q.slot) + q.need[e] =< capacity[e]
  /\ granted' = granted \cup {b}
  /\ booked' = [booked EXCEPT ![b] = q]
  /\ UNCHANGED <<revived, capacity>>

Release(b) == /\ b \in granted
              /\ granted' = granted \ {b}
              /\ UNCHANGED <<revived, booked, capacity>>

(* A payment may bring a released booking back once, if its room is free.  *)
Revive(b) ==
  /\ b \notin granted \cup revived /\ booked[b] # NoRequest
  /\ \A c \in granted :
       booked[c].room = booked[b].room =>
         ~Overlaps(Protected(booked[c].slot), Protected(booked[b].slot))
  /\ granted' = granted \cup {b}
  /\ revived' = revived \cup {b}
  /\ UNCHANGED <<booked, capacity>>

(* Staff change an equipment type; what is granted stays granted.          *)
SetCapacity == /\ capacity' \in [Equipment -> Nat]
               /\ UNCHANGED <<granted, revived, booked>>

PromiseNext == \/ \E b \in Booking : Release(b) \/ Revive(b) \/ \E q \in Request : Grant(b, q)
               \/ SetCapacity

PromiseSpec == PromiseInit /\ [][PromiseNext]_promiseVars
=============================================================================
