--------------------------- MODULE HoldInventory ---------------------------
(***************************************************************************)
(* createBookingHold against everything that runs beside it: other holds   *)
(* on any replica, releases, payments, and staff editing the equipment.    *)
(*                                                                         *)
(* The hold transaction is SERIALIZABLE.  Its snapshot is taken at its     *)
(* first query, before it waits for the equipment rows, so what it counts  *)
(* afterwards may be out of date.  Three things of PostgreSQL protect it:  *)
(* a row updated since the snapshot cannot be locked; two overlapping      *)
(* holds that read and wrote each other's reservations cannot both commit; *)
(* and the exclusion constraint looks at committed rows, not the snapshot. *)
(* All other transactions run at READ COMMITTED and take part in none of   *)
(* the first two.                                                          *)
(***************************************************************************)
EXTENDS BookingStates, EquipmentSweep

CONSTANTS
  Booking,       \* hold requests
  Room,          \* rooms, with venue and limits on the length of a booking
  Equipment,     \* equipment types; ids are ordered
  VenueOf,       \* venue of each equipment type
  Request,       \* what a hold may ask for: [room, slot, need]
  NoRequest,
  Capacities,    \* effective capacities the equipment may have
  MaxEdits,      \* bound on edits of the equipment
  LatePayer,     \* bookings whose payment may be read before and written after a release
  Outcomes,      \* statuses other handlers may move a booking to
  RowSet,        \* sets of reservations on which the sweep is judged,
  Window         \* and the windows it is asked about

ASSUME InventoryAssumption ==
  /\ Equipment \subseteq Nat /\ IsFiniteSet(Equipment) /\ Capacities \subseteq Nat /\ MaxEdits \in Nat
  /\ Request \subseteq [room : Room, slot : Slot, need : [Equipment -> Nat]]
  /\ NoRequest \notin Request
  /\ LatePayer \subseteq Booking
  /\ Outcomes \subseteq BookingStatus \ {"DRAFT", "HELD"}

ASSUME SweepAssumption ==
  /\ \A R \in RowSet : Reservations(R)
  /\ \A w \in Window : w \in Slot /\ w.start < w.end

VARIABLES
  status,     \* bookings.status, "DRAFT" while no row is committed
  booked,     \* room, slot and line items of each booking
  tx,         \* the hold transaction: "none", "open", "done"
  seen,       \* the active bookings in its snapshot
  missed,     \* holds committed since its snapshot
  stale,      \* equipment rows updated since its snapshot
  locks,      \* equipment rows it has locked
  capacity,   \* effective capacity of each equipment type, 0 once deleted
  edits,      \* edits so far
  payer       \* the payment request: "none", "read", "written", or "revived" when it
              \* was written on a booking released in between

holdVars == <<tx, seen, missed, stale, locks>>
vars == <<status, booked, holdVars, capacity, edits, payer>>

TypeOK ==
  /\ status \in [Booking -> BookingStatus]
  /\ booked \in [Booking -> Request \cup {NoRequest}]
  /\ tx \in [Booking -> {"none", "open", "done"}]
  /\ seen \in [Booking -> SUBSET Booking]
  /\ missed \in [Booking -> SUBSET Booking]
  /\ stale \in [Booking -> SUBSET Equipment]
  /\ locks \in [Booking -> SUBSET Equipment]
  /\ capacity \in [Equipment -> Nat]
  /\ edits \in 0..MaxEdits
  /\ payer \in [Booking -> {"none", "read", "written", "revived"}]
  /\ \A b \in Booking :
       tx[b] # "open" => seen[b] = {} /\ missed[b] = {} /\ stale[b] = {} /\ locks[b] = {}

Init ==
  /\ status = [b \in Booking |-> "DRAFT"]
  /\ booked = [b \in Booking |-> NoRequest]
  /\ tx = [b \in Booking |-> "none"]
  /\ seen = [b \in Booking |-> {}] /\ missed = [b \in Booking |-> {}]
  /\ stale = [b \in Booking |-> {}] /\ locks = [b \in Booking |-> {}]
  /\ capacity \in [Equipment -> Capacities]
  /\ edits = 0
  /\ payer = [b \in Booking |-> "none"]

-----------------------------------------------------------------------------
(* Rooms                                                                   *)

Active == {b \in Booking : status[b] \in ActiveStatus}

(* bookings_active_room_slot_exclusion, for a row that becomes active.     *)
Admissible(room, slot, others) ==
  \A c \in others : booked[c].room = room =>
    ~Overlaps(Protected(booked[c].slot), Protected(slot))

RoomFree(b) == Admissible(booked[b].room, booked[b].slot, Active \ {b})

(* Mutant: the search forgets the turnaround.                              *)
OfferedRaw(room, w) ==
  \A c \in Active : booked[c].room = room => ~Overlaps(booked[c].slot, w)

(* searchAvailableRooms and getRoomAvailability: the requested window is   *)
(* not widened.                                                            *)
Offered(room, w) ==
  \A c \in Active : booked[c].room = room => ~Overlaps(Protected(booked[c].slot), w)

-----------------------------------------------------------------------------
(* Equipment                                                               *)

Needed(b) == {e \in Equipment : booked[b].need[e] > 0}

Reserved(B, e) ==
  { [of |-> b, slot |-> booked[b].slot, quantity |-> booked[b].need[e]]
      : b \in {c \in B : booked[c] # NoRequest /\ booked[c].need[e] > 0} }

(* Mutant: rows are locked in the order of the request.                    *)
NextLockAny(b, e) == e \in Needed(b) \ locks[b]

(* ORDER BY id ... FOR UPDATE                                              *)
NextLock(b, e) == /\ e \in Needed(b) \ locks[b]
                  /\ \A f \in Needed(b) \ locks[b] : e =< f

(* Mutant: the request itself is not counted.                              *)
FitsAlready(b, e) == SweepPeak(Reserved(seen[b], e), booked[b].slot) =< capacity[e]

(* The capacity checks of lockEquipment, on the snapshot.                  *)
Fits(b, e) ==
  /\ booked[b].need[e] =< capacity[e]
  /\ SweepPeak(Reserved(seen[b], e), booked[b].slot) + booked[b].need[e] =< capacity[e]

(* Two holds whose reservations each other's sweep should have counted.    *)
Compete(b, c) == /\ Overlaps(booked[b].slot, booked[c].slot)
                 /\ Needed(b) \cap Needed(c) # {}

(* Mutant: snapshot isolation without the check for serialization.         *)
SnapshotOnly(b) == TRUE

(* Serialization failures: no hold committed since the snapshot reads what *)
(* b writes and writes what b reads.                                       *)
Serializable(b) == \A c \in missed[b] : ~Compete(b, c)

-----------------------------------------------------------------------------
(* The hold transaction                                                    *)

BeginHold(b, q) ==
  /\ tx[b] = "none"
  /\ ValidInterval(q.slot) /\ WithinRoomLimits(q.slot, q.room)
  /\ booked' = [booked EXCEPT ![b] = q]
  /\ tx' = [tx EXCEPT ![b] = "open"]
  /\ seen' = [seen EXCEPT ![b] = Active]
  /\ UNCHANGED <<status, missed, stale, locks, capacity, edits, payer>>

(* Waits while another transaction holds the row.                          *)
LockNextRow(b, e) ==
  /\ tx[b] = "open" /\ NextLock(b, e)
  /\ e \notin stale[b]
  /\ \A c \in Booking : e \notin locks[c]
  /\ locks' = [locks EXCEPT ![b] = locks[b] \cup {e}]
  /\ UNCHANGED <<status, booked, tx, seen, missed, stale, capacity, edits, payer>>

End(b, outcome) ==
  /\ tx' = [tx EXCEPT ![b] = outcome]
  /\ seen' = [seen EXCEPT ![b] = {}]
  /\ stale' = [stale EXCEPT ![b] = {}]
  /\ locks' = [locks EXCEPT ![b] = {}]

(* Booking, line items, reservations, the transition to HELD: one commit.  *)
CommitHold(b) ==
  /\ tx[b] = "open" /\ locks[b] = Needed(b)
  /\ \A e \in Needed(b) : VenueOf[e] = booked[b].room.venue /\ Fits(b, e)
  /\ RoomFree(b) /\ Serializable(b)
  /\ status' = [status EXCEPT ![b] = "HELD"]
  /\ End(b, "done")
  /\ missed' = [c \in Booking |-> IF c # b /\ tx[c] = "open" THEN missed[c] \cup {b}
                                  ELSE IF c = b THEN {} ELSE missed[c]]
  /\ UNCHANGED <<booked, capacity, edits, payer>>

(* Mutant: the rows stay locked.                                           *)
RefuseHoldLocked(b) ==
  /\ tx[b] = "open"
  /\ booked' = [booked EXCEPT ![b] = NoRequest]
  /\ tx' = [tx EXCEPT ![b] = "none"]
  /\ seen' = [seen EXCEPT ![b] = {}]
  /\ missed' = [missed EXCEPT ![b] = {}]
  /\ stale' = [stale EXCEPT ![b] = {}]
  /\ UNCHANGED <<status, locks, capacity, edits, payer>>

(* A refusal, a conflict, a timeout or a crash: everything is rolled back, *)
(* and the customer may ask again.                                         *)
RefuseHold(b) ==
  /\ tx[b] = "open"
  /\ booked' = [booked EXCEPT ![b] = NoRequest]
  /\ End(b, "none")
  /\ missed' = [missed EXCEPT ![b] = {}]
  /\ UNCHANGED <<status, capacity, edits, payer>>

-----------------------------------------------------------------------------
(* What happens to the booking later, see PaymentSettlement                *)

(* Expiry, cancellation, confirmation and completion read the row under    *)
(* its lock; so does, for customers other than late payers, a payment.     *)
Transition(b, to) ==
  /\ tx[b] = "done" /\ CanTransition(status[b], to)
  /\ to = "PENDING_PAYMENT" => b \notin LatePayer
  /\ status' = [status EXCEPT ![b] = to]
  /\ UNCHANGED <<booked, holdVars, capacity, edits, payer>>

StartPaymentRead(b) ==
  /\ payer[b] = "none" /\ status[b] = "HELD"
  /\ payer' = [payer EXCEPT ![b] = "read"]
  /\ UNCHANGED <<status, booked, holdVars, capacity, edits>>

Paid(b) == IF b \in Active THEN "written" ELSE "revived"

(* Mutant: the constraint ignores a row that becomes active again.         *)
StartPaymentWriteUnchecked(b) ==
  /\ payer[b] = "read"
  /\ payer' = [payer EXCEPT ![b] = Paid(b)]
  /\ status' = [status EXCEPT ![b] = "PENDING_PAYMENT"]
  /\ UNCHANGED <<booked, holdVars, capacity, edits>>

(* The status was read without a lock; the constraint checks the room, and *)
(* nothing checks the equipment.                                           *)
StartPaymentWrite(b) ==
  /\ payer[b] = "read" /\ RoomFree(b)
  /\ payer' = [payer EXCEPT ![b] = Paid(b)]
  /\ status' = [status EXCEPT ![b] = "PENDING_PAYMENT"]
  /\ UNCHANGED <<booked, holdVars, capacity, edits>>

-----------------------------------------------------------------------------
(* Staff                                                                   *)

Unlocked(e) == \A b \in Booking : e \notin locks[b]

Touch(e) == stale' = [b \in Booking |-> IF tx[b] = "open" THEN stale[b] \cup {e} ELSE stale[b]]

(* Units or overbooking change, below what is reserved if staff so wish.   *)
UpdateEquipment(e, n) ==
  /\ edits < MaxEdits /\ capacity[e] # 0 /\ n # 0 /\ Unlocked(e)
  /\ edits' = edits + 1
  /\ capacity' = [capacity EXCEPT ![e] = n]
  /\ Touch(e)
  /\ UNCHANGED <<status, booked, tx, seen, missed, locks, payer>>

(* Line items of any booking, however old, keep the row (ON DELETE         *)
(* RESTRICT).                                                              *)
DeleteEquipment(e) ==
  /\ edits < MaxEdits /\ Unlocked(e)
  /\ \A b \in Booking : tx[b] = "done" => booked[b].need[e] = 0
  /\ edits' = edits + 1
  /\ capacity' = [capacity EXCEPT ![e] = 0]
  /\ Touch(e)
  /\ UNCHANGED <<status, booked, tx, seen, missed, locks, payer>>

-----------------------------------------------------------------------------
HoldStep(b) == \/ \E q \in Request : BeginHold(b, q)
               \/ \E e \in Equipment : LockNextRow(b, e)
               \/ CommitHold(b) \/ RefuseHold(b)

LaterStep(b) == \/ \E to \in Outcomes : Transition(b, to)
                \/ b \in LatePayer /\ (StartPaymentRead(b) \/ StartPaymentWrite(b))

EditStep(e) == DeleteEquipment(e) \/ \E n \in Capacities : UpdateEquipment(e, n)

Next == \/ \E b \in Booking : HoldStep(b) \/ LaterStep(b)
        \/ \E e \in Equipment : EditStep(e)

Spec == Init /\ [][Next]_vars
-----------------------------------------------------------------------------
(* Properties                                                              *)

(* Two bookings that keep the same room are at least the turnaround apart, *)
(* whatever holds ran at once and whichever payment brought a released     *)
(* booking back.                                                           *)
RoomExclusive ==
  \A b, c \in Active : b # c /\ booked[b].room = booked[c].room =>
    \/ booked[b].slot.end + Turnaround =< booked[c].slot.start
    \/ booked[c].slot.end + Turnaround =< booked[b].slot.start

(* The search, which widens the booked slots but not the requested one,    *)
(* offers exactly the rooms the exclusion constraint would grant: on the   *)
(* half-hour grid the missing quarter of an hour makes no difference.      *)
SearchAgrees ==
  \A q \in Request : ValidInterval(q.slot) =>
    (Offered(q.room, q.slot) <=> Admissible(q.room, q.slot, Active))

(* No set of hold transactions waits for equipment rows locked within the  *)
(* set: every transaction locks in the order of the ids.                   *)
WaitsFor(b, c) == tx[b] = "open" /\ \E e \in locks[c] : NextLock(b, e)
NoCircularWait ==
  \A D \in (SUBSET Booking) \ {{}} : \E b \in D : \A c \in D : ~WaitsFor(b, c)

Admits(b) == status[b] = "DRAFT" /\ status'[b] = "HELD"

(* The bookings that a late payment brought back, with equipment that may  *)
(* have been given to others since: nobody counts on these.                *)
Revived == {b \in Booking : payer[b] = "revived"}

(* A hold that commits has counted every booking it competes with for      *)
(* equipment, although its snapshot is older than its locks.               *)
AdmissionCountsAll ==
  [][\A b \in Booking : Admits(b) =>
       \A c \in Active \ Revived : Compete(b, c) => c \in seen[b]]_vars

(* A hold that commits leaves every equipment type within its capacity at  *)
(* every instant of its slot, however many holds, releases and edits ran   *)
(* between its snapshot and its commit, and revived bookings apart.        *)
AdmissionFits ==
  [][\A b \in Booking : Admits(b) =>
       \A e \in Needed(b) :
         MaxLoad(Reserved(Active \ Revived, e)', booked[b].slot) =< capacity'[e]]_vars

(* Whatever happens to bookings and equipment, the units taken at an       *)
(* instant grow only within the capacity, revived bookings apart: staff    *)
(* may leave an instant with too few, and no hold makes it worse.          *)
InUse(e, t) == LoadAt(Reserved(Active \ Revived, e), t)
UseGrowsWithin ==
  [][\A e \in Equipment, t \in Int :
       InUse(e, t)' =< capacity'[e] \/ InUse(e, t)' =< InUse(e, t)]_vars

(* As long as staff edit nothing, no instant sees more units of a type     *)
(* taken than it has, revived bookings apart.                              *)
EquipmentKept ==
  edits = 0 => \A e \in Equipment, b \in Active \ Revived :
                 MaxLoad(Reserved(Active \ Revived, e), booked[b].slot) =< capacity[e]

(* The sweep never counts fewer units than are in use at some instant of   *)
(* the window, so a request it admits fits, whatever reservations start or *)
(* end inside, before or after the window; and where no two of them touch  *)
(* end to end it counts exactly: rows outside the window, and peaks before *)
(* or after it, cost nothing.  The inputs do not depend on the state, so   *)
(* the comparison is made where no hold and no edit has been made yet.     *)
Untouched == edits = 0 /\ \A b \in Booking : tx[b] = "none"
SweepExact ==
  Untouched => \A R \in RowSet, w \in Window :
    /\ MaxLoad(R, w) =< SweepPeak(R, w)
    /\ NoneTouch(R) => SweepPeak(R, w) = MaxLoad(R, w)

(* Holds behave as if each were granted atomically.                        *)
Promise == INSTANCE InventoryPromise WITH
  Peak <- SweepPeak,
  granted <- Active,
  revived <- Revived,
  booked <- [b \in Booking |-> IF tx[b] = "done" THEN booked[b] ELSE NoRequest]
ImplementsPromise == Promise!PromiseSpec

-----------------------------------------------------------------------------
(* The inductive invariant                                                 *)

Transactions ==
  \A b \in Booking :
    /\ tx[b] = "none" <=> booked[b] = NoRequest
    /\ tx[b] = "done" <=> status[b] # "DRAFT"
    /\ booked[b] # NoRequest => ValidInterval(booked[b].slot)
    /\ payer[b] # "none" => tx[b] = "done" /\ b \in LatePayer
    /\ \A c \in seen[b] \cup missed[b] : tx[c] = "done"

(* A row lock has one holder, and rows are locked in the order of ids.     *)
LockOrder ==
  /\ \A b, c \in Booking : b # c => locks[b] \cap locks[c] = {}
  /\ \A b \in Booking : tx[b] = "open" =>
       /\ locks[b] \subseteq Needed(b)
       /\ \A e \in locks[b], f \in Needed(b) \ locks[b] : e < f

(* What is active was in the snapshot or was committed since, unless a     *)
(* late payment brought it back.                                           *)
SnapshotKnown ==
  \A b \in Booking : tx[b] = "open" => Active \ Revived \subseteq seen[b] \cup missed[b]

IInv == TypeOK /\ Transactions /\ LockOrder /\ SnapshotKnown /\ RoomExclusive

-----------------------------------------------------------------------------
(* What the documents say and the code does not do                         *)

(* "The maximum simultaneous sum must not exceed capacity".                *)
EquipmentNotOversold ==
  \A e \in Equipment, b \in Active :
    MaxLoad(Reserved(Active, e), booked[b].slot) =< capacity[e]
=============================================================================
