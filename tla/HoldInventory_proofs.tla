------------------------ MODULE HoldInventory_proofs ------------------------
(***************************************************************************)
(* Proofs about HoldInventory: its inductive invariant, that bookings of a *)
(* room keep the turnaround, that the search agrees with the exclusion     *)
(* constraint, and that concurrent holds behave as atomic ones.            *)
(***************************************************************************)
EXTENDS HoldInventory, EquipmentSweep_proofs

(* Disjoint protected intervals are slots at least the turnaround apart.   *)
LEMMA ProtectedGap ==
  ASSUME NEW a \in Slot, NEW c \in Slot, ~Overlaps(Protected(a), Protected(c))
  PROVE  a.end + Turnaround =< c.start \/ c.end + Turnaround =< a.start
BY DEF Slot, Overlaps, Protected, Turnaround, Quarter

(* On the half-hour grid it does not matter whether one or both intervals  *)
(* are widened.                                                            *)
LEMMA GridAgrees ==
  ASSUME NEW a \in Slot, NEW c \in Slot, ValidInterval(a), ValidInterval(c)
  PROVE  Overlaps(Protected(a), c) <=> Overlaps(Protected(a), Protected(c))
<1>1. Turnaround = 1 /\ 30 \div Quarter = 2 BY DEF Turnaround, Quarter
<1>2. /\ a.start % 2 = 0 /\ a.end % 2 = 0 /\ c.start % 2 = 0 /\ c.end % 2 = 0
  BY <1>1 DEF ValidInterval
<1>3. /\ a.start \in Int /\ a.end \in Int /\ c.start \in Int /\ c.end \in Int
  BY DEF Slot
<1>4. a.start # c.end + 1 /\ c.start # a.end + 1 BY <1>2, <1>3
<1>5. QED BY <1>1, <1>3, <1>4 DEF Overlaps, Protected

LEMMA InitInv == Init => IInv
<1> SUFFICES ASSUME Init PROVE IInv OBVIOUS
<1>1. TypeOK
  <2>1. capacity \in [Equipment -> Nat] /\ edits \in 0..MaxEdits
    <3>1. Capacities \subseteq Nat /\ MaxEdits \in Nat BY InventoryAssumption
    <3>2. edits \in 0..MaxEdits BY <3>1 DEF Init
    <3>3. capacity \in [Equipment -> Capacities] BY DEF Init
    <3>4. QED BY <3>1, <3>2, <3>3
  <2>2. /\ status \in [Booking -> BookingStatus]
        /\ booked \in [Booking -> Request \cup {NoRequest}]
        /\ tx \in [Booking -> {"none", "open", "done"}]
        /\ payer \in [Booking -> {"none", "read", "written", "revived"}]
    BY DEF Init, BookingStatus
  <2>3. /\ seen \in [Booking -> SUBSET Booking] /\ missed \in [Booking -> SUBSET Booking]
        /\ stale \in [Booking -> SUBSET Equipment] /\ locks \in [Booking -> SUBSET Equipment]
    BY DEF Init
  <2>4. \A b \in Booking :
          tx[b] # "open" => seen[b] = {} /\ missed[b] = {} /\ stale[b] = {} /\ locks[b] = {}
    BY DEF Init
  <2>5. QED BY <2>1, <2>2, <2>3, <2>4 DEF TypeOK
<1>2. Active = {} BY DEF Init, Active, ActiveStatus
<1>3. Transactions BY DEF Init, Transactions
<1>4. LockOrder BY DEF Init, LockOrder
<1>5. SnapshotKnown BY <1>2 DEF SnapshotKnown
<1>6. RoomExclusive BY <1>2 DEF RoomExclusive
<1>7. QED BY <1>1, <1>3, <1>4, <1>5, <1>6 DEF IInv

-----------------------------------------------------------------------------
(* One lemma per kind of step.                                             *)

(* The parts of the invariant that speak of bookings only.                 *)
LEMMA SameBookings ==
  ASSUME IInv, UNCHANGED <<status, booked>>
  PROVE  Active' = Active /\ RoomExclusive'
BY DEF IInv, Active, RoomExclusive

LEMMA BeginHoldStep ==
  ASSUME IInv, NEW b \in Booking, NEW q \in Request, BeginHold(b, q)
  PROVE  IInv'
<1>1. TypeOK /\ Transactions /\ LockOrder /\ SnapshotKnown /\ RoomExclusive BY DEF IInv
<1>2. /\ booked' = [booked EXCEPT ![b] = q] /\ tx' = [tx EXCEPT ![b] = "open"]
      /\ seen' = [seen EXCEPT ![b] = Active] /\ tx[b] = "none" /\ ValidInterval(q.slot)
      /\ UNCHANGED <<status, missed, stale, locks, capacity, edits, payer>>
  BY DEF BeginHold
<1>3. q # NoRequest BY InventoryAssumption
<1>4. Active' = Active /\ Active \subseteq Booking BY <1>2 DEF Active
<1>5. b \notin Active BY <1>1, <1>2 DEF Active, ActiveStatus, Transactions
<1>6. TypeOK' BY <1>1, <1>2, <1>4 DEF TypeOK
<1>7. Transactions'
  <2>1. \A c \in Active : tx[c] = "done" BY <1>1, <1>4 DEF Active, ActiveStatus, Transactions
  <2>2. ASSUME NEW c \in Booking
        PROVE  /\ tx'[c] = "none" <=> booked'[c] = NoRequest
               /\ tx'[c] = "done" <=> status'[c] # "DRAFT"
               /\ booked'[c] # NoRequest => ValidInterval(booked'[c].slot)
               /\ payer'[c] # "none" => tx'[c] = "done" /\ c \in LatePayer
    BY <1>1, <1>2, <1>3 DEF Transactions, TypeOK
  <2>3. ASSUME NEW c \in Booking, NEW d \in seen'[c] \cup missed'[c]
        PROVE  tx'[d] = "done"
    <3>1. d \in Booking /\ tx[d] = "done" BY <1>1, <1>2, <1>4, <2>1 DEF Transactions, TypeOK
    <3>2. QED BY <3>1, <1>1, <1>2 DEF TypeOK
  <2>4. QED BY <2>2, <2>3 DEF Transactions
<1>8. LockOrder'
  <2>1. \A c \in Booking : c # b => booked'[c] = booked[c] /\ tx'[c] = tx[c]
    BY <1>1, <1>2 DEF TypeOK
  <2>2. locks'[b] = {} BY <1>1, <1>2 DEF TypeOK
  <2>3. \A c \in Booking : c # b => Needed(c)' = Needed(c) BY <2>1 DEF Needed
  <2>4. QED BY <1>1, <1>2, <2>1, <2>2, <2>3 DEF LockOrder
<1>9. SnapshotKnown' BY <1>1, <1>2, <1>4 DEF SnapshotKnown, Revived, TypeOK
<1>10. RoomExclusive'
  <2>1. \A c \in Active : booked'[c] = booked[c] BY <1>1, <1>2, <1>4, <1>5 DEF TypeOK
  <2>2. QED BY <1>1, <1>4, <2>1 DEF RoomExclusive
<1>11. QED BY <1>6, <1>7, <1>8, <1>9, <1>10 DEF IInv

LEMMA LockNextRowStep ==
  ASSUME IInv, NEW b \in Booking, NEW e \in Equipment, LockNextRow(b, e)
  PROVE  IInv'
<1>1. TypeOK /\ Transactions /\ LockOrder /\ SnapshotKnown /\ RoomExclusive BY DEF IInv
<1>2. /\ locks' = [locks EXCEPT ![b] = locks[b] \cup {e}]
      /\ tx[b] = "open" /\ NextLock(b, e) /\ \A c \in Booking : e \notin locks[c]
      /\ UNCHANGED <<status, booked, tx, seen, missed, stale, capacity, edits, payer>>
  BY DEF LockNextRow
<1>3. Active' = Active /\ RoomExclusive' BY <1>2, SameBookings
<1>4. TypeOK' BY <1>1, <1>2 DEF TypeOK
<1>5. Transactions' BY <1>1, <1>2 DEF Transactions
<1>6. SnapshotKnown' BY <1>1, <1>2, <1>3 DEF SnapshotKnown, Revived
<1>7. LockOrder'
  <2>1. \A c \in Booking : locks'[c] = IF c = b THEN locks[b] \cup {e} ELSE locks[c]
    BY <1>1, <1>2 DEF TypeOK
  <2>2. \A c \in Booking : Needed(c)' = Needed(c) BY <1>2 DEF Needed
  <2>3. \A c, d \in Booking : c # d => locks'[c] \cap locks'[d] = {}
    BY <1>1, <1>2, <2>1 DEF LockOrder
  <2>4. ASSUME NEW c \in Booking, tx[c] = "open"
        PROVE  /\ locks'[c] \subseteq Needed(c)
               /\ \A x \in locks'[c], f \in Needed(c) \ locks'[c] : x < f
    <3>1. CASE c # b BY <1>1, <2>1, <2>4, <3>1 DEF LockOrder
    <3>2. CASE c = b
      <4>1. e \in Needed(b) \ locks[b] /\ \A f \in Needed(b) \ locks[b] : e =< f
        BY <1>2 DEF NextLock
      <4>2. locks'[b] = locks[b] \cup {e} BY <2>1
      <4>3. Needed(b) \subseteq Nat BY InventoryAssumption DEF Needed
      <4>4. \A f \in Needed(b) \ locks'[b] : e < f BY <4>1, <4>2, <4>3
      <4>5. \A x \in locks[b], f \in Needed(b) \ locks'[b] : x < f
        BY <1>1, <1>2, <4>2 DEF LockOrder
      <4>6. locks[b] \subseteq Needed(b) BY <1>1, <1>2 DEF LockOrder
      <4>7. QED BY <3>2, <4>1, <4>2, <4>4, <4>5, <4>6
    <3>3. QED BY <3>1, <3>2
  <2>5. QED BY <1>2, <2>2, <2>3, <2>4 DEF LockOrder
<1>8. QED BY <1>3, <1>4, <1>5, <1>6, <1>7 DEF IInv

(* The bookings that gain or lose their room change, and nothing else: the *)
(* hold transaction of b ends.                                             *)
LEMMA CommitHoldStep ==
  ASSUME IInv, NEW b \in Booking, CommitHold(b)
  PROVE  IInv'
<1>1. TypeOK /\ Transactions /\ LockOrder /\ SnapshotKnown /\ RoomExclusive BY DEF IInv
<1>2. /\ status' = [status EXCEPT ![b] = "HELD"] /\ tx' = [tx EXCEPT ![b] = "done"]
      /\ seen' = [seen EXCEPT ![b] = {}] /\ stale' = [stale EXCEPT ![b] = {}]
      /\ locks' = [locks EXCEPT ![b] = {}]
      /\ missed' = [c \in Booking |-> IF c # b /\ tx[c] = "open" THEN missed[c] \cup {b}
                                      ELSE IF c = b THEN {} ELSE missed[c]]
      /\ tx[b] = "open" /\ RoomFree(b)
      /\ UNCHANGED <<booked, capacity, edits, payer>>
  BY DEF CommitHold, End
<1>3. Active' = Active \cup {b} /\ Active \subseteq Booking
  BY <1>1, <1>2 DEF Active, ActiveStatus, TypeOK
<1>4. booked[b] \in Request /\ payer[b] = "none"
  BY <1>1, <1>2 DEF Transactions, TypeOK
<1>5. TypeOK'
  <2>1. status' \in [Booking -> BookingStatus] BY <1>1, <1>2 DEF TypeOK, BookingStatus
  <2>2. missed' \in [Booking -> SUBSET Booking] BY <1>1, <1>2 DEF TypeOK
  <2>3. /\ booked' \in [Booking -> Request \cup {NoRequest}]
        /\ tx' \in [Booking -> {"none", "open", "done"}]
        /\ seen' \in [Booking -> SUBSET Booking] /\ stale' \in [Booking -> SUBSET Equipment]
        /\ locks' \in [Booking -> SUBSET Equipment] /\ capacity' \in [Equipment -> Nat]
        /\ edits' \in 0..MaxEdits /\ payer' \in [Booking -> {"none", "read", "written", "revived"}]
    BY <1>1, <1>2 DEF TypeOK
  <2>4. \A c \in Booking : tx'[c] # "open" =>
          seen'[c] = {} /\ missed'[c] = {} /\ stale'[c] = {} /\ locks'[c] = {}
    BY <1>1, <1>2 DEF TypeOK
  <2>5. QED BY <2>1, <2>2, <2>3, <2>4 DEF TypeOK
<1>6. Transactions'
  <2>1. ASSUME NEW c \in Booking
        PROVE  /\ tx'[c] = "none" <=> booked'[c] = NoRequest
               /\ tx'[c] = "done" <=> status'[c] # "DRAFT"
               /\ booked'[c] # NoRequest => ValidInterval(booked'[c].slot)
               /\ payer'[c] # "none" => tx'[c] = "done" /\ c \in LatePayer
    BY <1>1, <1>2 DEF Transactions, TypeOK
  <2>2. ASSUME NEW c \in Booking, NEW d \in seen'[c] \cup missed'[c]
        PROVE  tx'[d] = "done"
    <3>1. d \in Booking /\ (d = b \/ d \in seen[c] \cup missed[c])
      BY <1>1, <1>2 DEF TypeOK
    <3>2. QED BY <3>1, <1>1, <1>2 DEF Transactions, TypeOK
  <2>3. QED BY <2>1, <2>2 DEF Transactions
<1>7. LockOrder'
  <2>1. \A c \in Booking : Needed(c)' = Needed(c) BY <1>2 DEF Needed
  <2>2. \A c \in Booking : /\ locks'[c] = IF c = b THEN {} ELSE locks[c]
                           /\ tx'[c] = "open" => c # b /\ tx[c] = "open"
    BY <1>1, <1>2 DEF TypeOK
  <2>3. QED BY <1>1, <2>1, <2>2 DEF LockOrder
<1>8. SnapshotKnown'
  <2>1. ASSUME NEW c \in Booking, tx'[c] = "open"
        PROVE  Active' \ Revived' \subseteq seen'[c] \cup missed'[c]
    <3>1. c # b /\ tx[c] = "open" BY <1>1, <1>2, <2>1 DEF TypeOK
    <3>2. seen'[c] = seen[c] /\ missed'[c] = missed[c] \cup {b}
      BY <3>1, <1>1, <1>2 DEF TypeOK
    <3>3. Revived' = Revived BY <1>2 DEF Revived
    <3>4. QED BY <3>1, <3>2, <3>3, <1>1, <1>3 DEF SnapshotKnown
  <2>2. QED BY <2>1 DEF SnapshotKnown
<1>9. RoomExclusive'
  <2>1. ASSUME NEW c \in Active, c # b, booked[c].room = booked[b].room
        PROVE  \/ booked[c].slot.end + Turnaround =< booked[b].slot.start
               \/ booked[b].slot.end + Turnaround =< booked[c].slot.start
    <3>1. booked[c] \in Request /\ booked[b] \in Request
      BY <1>1, <1>3, <1>4 DEF Transactions, TypeOK, Active, ActiveStatus
    <3>2. booked[c].slot \in Slot /\ booked[b].slot \in Slot BY <3>1, InventoryAssumption
    <3>3. ~Overlaps(Protected(booked[c].slot), Protected(booked[b].slot))
      BY <1>2, <2>1 DEF RoomFree, Admissible
    <3>4. QED BY <3>2, <3>3, ProtectedGap
  <2>2. QED BY <1>1, <1>2, <1>3, <2>1 DEF RoomExclusive
<1>10. QED BY <1>5, <1>6, <1>7, <1>8, <1>9 DEF IInv

LEMMA RefuseHoldStep ==
  ASSUME IInv, NEW b \in Booking, RefuseHold(b)
  PROVE  IInv'
<1>1. TypeOK /\ Transactions /\ LockOrder /\ SnapshotKnown /\ RoomExclusive BY DEF IInv
<1>2. /\ tx' = [tx EXCEPT ![b] = "none"] /\ booked' = [booked EXCEPT ![b] = NoRequest]
      /\ seen' = [seen EXCEPT ![b] = {}] /\ stale' = [stale EXCEPT ![b] = {}]
      /\ locks' = [locks EXCEPT ![b] = {}] /\ missed' = [missed EXCEPT ![b] = {}]
      /\ tx[b] = "open" /\ UNCHANGED <<status, capacity, edits, payer>>
  BY DEF RefuseHold, End
<1>3. Active' = Active /\ Active \subseteq Booking BY <1>2 DEF Active
<1>4. b \notin Active BY <1>1, <1>2 DEF Active, ActiveStatus, Transactions
<1>5. TypeOK' BY <1>1, <1>2 DEF TypeOK
<1>6. Transactions'
  <2>1. ASSUME NEW c \in Booking
        PROVE  /\ tx'[c] = "none" <=> booked'[c] = NoRequest
               /\ tx'[c] = "done" <=> status'[c] # "DRAFT"
               /\ booked'[c] # NoRequest => ValidInterval(booked'[c].slot)
               /\ payer'[c] # "none" => tx'[c] = "done" /\ c \in LatePayer
    BY <1>1, <1>2 DEF Transactions, TypeOK
  <2>2. ASSUME NEW c \in Booking, NEW d \in seen'[c] \cup missed'[c]
        PROVE  tx'[d] = "done"
    <3>1. d \in Booking /\ tx[d] = "done" BY <1>1, <1>2 DEF Transactions, TypeOK
    <3>2. QED BY <3>1, <1>1, <1>2 DEF TypeOK
  <2>3. QED BY <2>1, <2>2 DEF Transactions
<1>7. LockOrder'
  <2>1. \A c \in Booking : c # b => booked'[c] = booked[c] BY <1>1, <1>2 DEF TypeOK
  <2>2. \A c \in Booking : c # b => Needed(c)' = Needed(c) BY <2>1 DEF Needed
  <2>3. \A c \in Booking : /\ locks'[c] = IF c = b THEN {} ELSE locks[c]
                           /\ tx'[c] = "open" => c # b /\ tx[c] = "open"
    BY <1>1, <1>2 DEF TypeOK
  <2>4. QED BY <1>1, <2>2, <2>3 DEF LockOrder
<1>8. SnapshotKnown' BY <1>1, <1>2, <1>3 DEF SnapshotKnown, Revived, TypeOK
<1>9. RoomExclusive'
  <2>1. \A c \in Active : booked'[c] = booked[c] BY <1>1, <1>2, <1>3, <1>4 DEF TypeOK
  <2>2. QED BY <1>1, <1>3, <2>1 DEF RoomExclusive
<1>10. QED BY <1>5, <1>6, <1>7, <1>8, <1>9 DEF IInv

(* No transition of the table, payments apart, makes a booking active that *)
(* was not, and none returns to DRAFT.                                     *)
LEMMA TableReleases ==
  ASSUME NEW from \in BookingStatus \ {"DRAFT"}, NEW to, CanTransition(from, to)
  PROVE  /\ to \in BookingStatus \ {"DRAFT"}
         /\ to \in ActiveStatus => from \in ActiveStatus
<1>1. CASE from = "HELD" BY <1>1 DEF CanTransition, ValidTransitions, ActiveStatus, BookingStatus
<1>2. CASE from = "PENDING_PAYMENT"
  BY <1>2 DEF CanTransition, ValidTransitions, ActiveStatus, BookingStatus
<1>3. CASE from = "CONFIRMED"
  BY <1>3 DEF CanTransition, ValidTransitions, ActiveStatus, BookingStatus
<1>4. CASE from = "COMPLETED" BY <1>4 DEF CanTransition, ValidTransitions
<1>5. CASE from = "REFUNDED" BY <1>5 DEF CanTransition, ValidTransitions
<1>6. CASE from = "EXPIRED"
  BY <1>6 DEF CanTransition, ValidTransitions, ActiveStatus, BookingStatus
<1>7. CASE from = "FAILED"
  BY <1>7 DEF CanTransition, ValidTransitions, ActiveStatus, BookingStatus
<1>8. CASE from = "CANCELLED"
  BY <1>8 DEF CanTransition, ValidTransitions, ActiveStatus, BookingStatus
<1>9. QED BY <1>1, <1>2, <1>3, <1>4, <1>5, <1>6, <1>7, <1>8 DEF BookingStatus

LEMMA TransitionStep ==
  ASSUME IInv, NEW b \in Booking, NEW to \in Outcomes, Transition(b, to)
  PROVE  IInv' /\ Active' \subseteq Active
<1>1. TypeOK /\ Transactions /\ LockOrder /\ SnapshotKnown /\ RoomExclusive BY DEF IInv
<1>2. /\ status' = [status EXCEPT ![b] = to] /\ tx[b] = "done" /\ CanTransition(status[b], to)
      /\ UNCHANGED <<booked, tx, seen, missed, stale, locks, capacity, edits, payer>>
  BY DEF Transition, holdVars
<1>3. status[b] \in BookingStatus \ {"DRAFT"} BY <1>1, <1>2 DEF TypeOK, Transactions
<1>4. /\ to \in BookingStatus \ {"DRAFT"}
      /\ to \in ActiveStatus => status[b] \in ActiveStatus
  BY <1>2, <1>3, TableReleases
<1>5. Active' \subseteq Active BY <1>1, <1>2, <1>4 DEF Active, TypeOK
<1>6. TypeOK' BY <1>1, <1>2, <1>4 DEF TypeOK
<1>7. Transactions' BY <1>1, <1>2, <1>4 DEF Transactions, TypeOK
<1>8. LockOrder' BY <1>1, <1>2 DEF LockOrder, Needed
<1>9. SnapshotKnown' BY <1>1, <1>2, <1>5 DEF SnapshotKnown, Revived
<1>10. RoomExclusive' BY <1>1, <1>2, <1>5 DEF RoomExclusive
<1>11. QED BY <1>5, <1>6, <1>7, <1>8, <1>9, <1>10 DEF IInv

LEMMA StartPaymentReadStep ==
  ASSUME IInv, NEW b \in LatePayer, StartPaymentRead(b)
  PROVE  IInv' /\ Active' = Active
<1>1. TypeOK /\ Transactions /\ LockOrder /\ SnapshotKnown /\ RoomExclusive BY DEF IInv
<1>2. /\ payer[b] = "none" /\ payer' = [payer EXCEPT ![b] = "read"] /\ status[b] = "HELD"
      /\ UNCHANGED <<status, booked, tx, seen, missed, stale, locks, capacity, edits>>
  BY DEF StartPaymentRead, holdVars
<1>3. b \in Booking BY InventoryAssumption
<1>4. Active' = Active /\ RoomExclusive' BY <1>2, SameBookings
<1>5. TypeOK' BY <1>1, <1>2, <1>3 DEF TypeOK
<1>6. Transactions' BY <1>1, <1>2, <1>3 DEF Transactions, TypeOK
<1>7. LockOrder' BY <1>1, <1>2 DEF LockOrder, Needed
<1>8. SnapshotKnown'
  <2>1. Revived' = Revived \ {b} BY <1>1, <1>2, <1>3 DEF Revived, TypeOK
  <2>2. b \notin Revived
    BY <1>2 DEF Revived
  <2>3. QED BY <1>1, <1>2, <1>4, <2>1, <2>2 DEF SnapshotKnown
<1>9. QED BY <1>4, <1>5, <1>6, <1>7, <1>8 DEF IInv

(* The constraint, which the database evaluates when the row becomes       *)
(* active again, is all that keeps the room exclusive here.                *)
LEMMA StartPaymentWriteStep ==
  ASSUME IInv, NEW b \in LatePayer, StartPaymentWrite(b)
  PROVE  IInv'
<1>1. TypeOK /\ Transactions /\ LockOrder /\ SnapshotKnown /\ RoomExclusive BY DEF IInv
<1>2. /\ status' = [status EXCEPT ![b] = "PENDING_PAYMENT"]
      /\ payer' = [payer EXCEPT ![b] = Paid(b)] /\ payer[b] = "read" /\ RoomFree(b)
      /\ UNCHANGED <<booked, tx, seen, missed, stale, locks, capacity, edits>>
  BY DEF StartPaymentWrite, holdVars
<1>3. b \in Booking BY InventoryAssumption
<1>4. tx[b] = "done" /\ booked[b] \in Request
  BY <1>1, <1>2, <1>3 DEF Transactions, TypeOK
<1>5. Active' = Active \cup {b} /\ Active \subseteq Booking
  BY <1>1, <1>2, <1>3 DEF Active, ActiveStatus, TypeOK
<1>6. TypeOK' BY <1>1, <1>2, <1>3 DEF TypeOK, BookingStatus, Paid
<1>7. Transactions' BY <1>1, <1>2, <1>3, <1>4 DEF Transactions, TypeOK
<1>8. LockOrder' BY <1>1, <1>2 DEF LockOrder, Needed
<1>9. SnapshotKnown'
  <2>1. Active' \ Revived' \subseteq Active \ Revived
    <3>1. CASE b \in Active
      BY <1>1, <1>2, <1>3, <1>5, <3>1 DEF Revived, Paid, TypeOK
    <3>2. CASE b \notin Active
      BY <1>1, <1>2, <1>3, <1>5, <3>2 DEF Revived, Paid, TypeOK
    <3>3. QED BY <3>1, <3>2
  <2>2. QED BY <1>1, <1>2, <2>1 DEF SnapshotKnown
<1>10. RoomExclusive'
  <2>1. ASSUME NEW c \in Active, c # b, booked[c].room = booked[b].room
        PROVE  \/ booked[c].slot.end + Turnaround =< booked[b].slot.start
               \/ booked[b].slot.end + Turnaround =< booked[c].slot.start
    <3>1. booked[c] \in Request
      BY <1>1, <1>5 DEF Transactions, TypeOK, Active, ActiveStatus
    <3>2. booked[c].slot \in Slot /\ booked[b].slot \in Slot
      BY <3>1, <1>4, InventoryAssumption
    <3>3. ~Overlaps(Protected(booked[c].slot), Protected(booked[b].slot))
      BY <1>2, <2>1 DEF RoomFree, Admissible
    <3>4. QED BY <3>2, <3>3, ProtectedGap
  <2>2. QED BY <1>1, <1>2, <1>5, <2>1 DEF RoomExclusive
<1>11. QED BY <1>6, <1>7, <1>8, <1>9, <1>10 DEF IInv

LEMMA EditStepInv ==
  ASSUME IInv, NEW e \in Equipment, EditStep(e)
  PROVE  IInv' /\ Active' = Active
<1>1. TypeOK /\ Transactions /\ LockOrder /\ SnapshotKnown /\ RoomExclusive BY DEF IInv
<1>2. PICK n \in Nat : capacity' = [capacity EXCEPT ![e] = n]
  BY InventoryAssumption DEF EditStep, UpdateEquipment, DeleteEquipment
<1>3. /\ edits < MaxEdits /\ edits' = edits + 1 /\ Touch(e)
      /\ UNCHANGED <<status, booked, tx, seen, missed, locks, payer>>
  BY DEF EditStep, UpdateEquipment, DeleteEquipment
<1>4. Active' = Active /\ RoomExclusive' BY <1>3, SameBookings
<1>5. TypeOK'
  <2>1. edits' \in 0..MaxEdits BY <1>1, <1>3, InventoryAssumption DEF TypeOK
  <2>2. capacity' \in [Equipment -> Nat] BY <1>1, <1>2 DEF TypeOK
  <2>3. /\ stale' \in [Booking -> SUBSET Equipment]
        /\ \A b \in Booking : tx[b] # "open" => stale'[b] = stale[b]
    BY <1>1, <1>3 DEF TypeOK, Touch
  <2>4. QED BY <1>1, <1>3, <2>1, <2>2, <2>3 DEF TypeOK
<1>6. Transactions' BY <1>1, <1>3 DEF Transactions
<1>7. LockOrder' BY <1>1, <1>3 DEF LockOrder, Needed
<1>8. SnapshotKnown' BY <1>1, <1>3, <1>4 DEF SnapshotKnown, Revived
<1>9. QED BY <1>4, <1>5, <1>6, <1>7, <1>8 DEF IInv

LEMMA StutterStep ==
  ASSUME IInv, UNCHANGED vars
  PROVE  IInv'
BY DEF IInv, vars, holdVars, TypeOK, Transactions, LockOrder, SnapshotKnown, RoomExclusive,
       Active, Revived, Needed

LEMMA NextInv == IInv /\ [Next]_vars => IInv'
<1> SUFFICES ASSUME IInv, [Next]_vars PROVE IInv' OBVIOUS
<1>1. ASSUME NEW b \in Booking, HoldStep(b) PROVE IInv'
  BY <1>1, BeginHoldStep, LockNextRowStep, CommitHoldStep, RefuseHoldStep DEF HoldStep
<1>2. ASSUME NEW b \in Booking, LaterStep(b) PROVE IInv'
  BY <1>2, TransitionStep, StartPaymentReadStep, StartPaymentWriteStep DEF LaterStep
<1>3. ASSUME NEW e \in Equipment, EditStep(e) PROVE IInv' BY <1>3, EditStepInv
<1>4. CASE UNCHANGED vars BY <1>4, StutterStep
<1>5. QED BY <1>1, <1>2, <1>3, <1>4 DEF Next

-----------------------------------------------------------------------------
(* The inductive invariant of the hold transactions.                       *)
THEOREM HoldInvariance == Spec => []IInv
BY InitInv, NextInv, PTL DEF Spec

(* createBookingHold and a late startPayment never leave two bookings of a *)
(* room closer than the turnaround.                                        *)
THEOREM RoomsExclusive == Spec => []RoomExclusive
<1>1. IInv => RoomExclusive BY DEF IInv
<1>2. QED BY <1>1, HoldInvariance, PTL

(* The rows a transaction may still have to wait for, seen from the next   *)
(* one: they shrink along a chain of waiting transactions.                 *)
Ahead(b) == {e \in Equipment : \E f \in Equipment : NextLock(b, f) /\ f =< e}

LEMMA WaitingShrinks ==
  ASSUME IInv, NEW b \in Booking, NEW c \in Booking, NEW d \in Booking,
         WaitsFor(b, c), WaitsFor(c, d)
  PROVE  Ahead(c) \subseteq Ahead(b) /\ Ahead(c) # Ahead(b)
<1>1. Equipment \subseteq Nat BY InventoryAssumption
<1>2. PICK e \in locks[c] : NextLock(b, e) BY DEF WaitsFor
<1>3. e \in Equipment BY <1>2 DEF NextLock, Needed
<1>4. \A f \in Equipment : NextLock(c, f) => e < f
  <2>1. tx[c] = "open" BY DEF WaitsFor
  <2>2. QED BY <1>2, <2>1 DEF IInv, LockOrder, NextLock
<1>5. \A x \in Ahead(c) : e < x
  <2> SUFFICES ASSUME NEW x \in Ahead(c) PROVE e < x OBVIOUS
  <2>1. PICK f \in Equipment : NextLock(c, f) /\ f =< x BY DEF Ahead
  <2>2. x \in Nat /\ f \in Nat /\ e \in Nat BY <1>1, <1>3 DEF Ahead
  <2>3. QED BY <1>4, <2>1, <2>2
<1>6. \A x \in Ahead(c) : x \in Ahead(b)
  <2> SUFFICES ASSUME NEW x \in Ahead(c) PROVE x \in Ahead(b) OBVIOUS
  <2>1. x \in Equipment /\ x \in Nat /\ e \in Nat BY <1>1, <1>3 DEF Ahead
  <2>2. e =< x BY <1>5, <2>1
  <2>3. QED BY <1>2, <1>3, <2>1, <2>2 DEF Ahead
<1>7. e \in Ahead(b)
  <2>1. e =< e BY <1>1, <1>3
  <2>2. QED BY <1>2, <1>3, <2>1 DEF Ahead
<1>8. e \notin Ahead(c) BY <1>1, <1>3, <1>5
<1>9. QED BY <1>6, <1>7, <1>8

(* Hold transactions of createBookingHold never wait for each other in a   *)
(* circle: one of them has the fewest rows ahead.                          *)
THEOREM NoDeadlock == Spec => []NoCircularWait
<1>1. IInv => NoCircularWait
  <2> SUFFICES ASSUME IInv, NEW D \in (SUBSET Booking) \ {{}},
                      \A b \in D : \E c \in D : WaitsFor(b, c)
               PROVE  FALSE
    BY DEF NoCircularWait
  <2> DEFINE T == {Ahead(b) : b \in D}
  <2>1. T \subseteq SUBSET Equipment /\ T # {} BY DEF Ahead
  <2>2. IsWellFoundedOn(StrictSubsetOrdering(Equipment), SUBSET Equipment)
    <3>1. FiniteSubsetsOf(Equipment) = SUBSET Equipment
      BY InventoryAssumption, FS_FiniteSubsetsOfFinite
    <3>2. IsWellFoundedOn(StrictSubsetOrdering(Equipment), FiniteSubsetsOf(Equipment))
      BY FS_StrictSubsetOrderingWellFounded
    <3>3. QED BY <3>1, <3>2
  <2>3. \E x \in T : \A y \in T : ~ (<<y, x>> \in StrictSubsetOrdering(Equipment))
    <3> HIDE DEF T
    <3>1. QED BY <2>1, <2>2, WFMin
  <2>4. PICK b \in D : \A c \in D : <<Ahead(c), Ahead(b)>> \notin StrictSubsetOrdering(Equipment)
    BY <2>3
  <2>5. PICK c \in D : WaitsFor(b, c) OBVIOUS
  <2>6. PICK d \in D : WaitsFor(c, d) OBVIOUS
  <2>7. Ahead(c) \subseteq Ahead(b) /\ Ahead(c) # Ahead(b)
    BY <2>5, <2>6, WaitingShrinks
  <2>8. <<Ahead(c), Ahead(b)>> \in StrictSubsetOrdering(Equipment)
    BY <2>7 DEF StrictSubsetOrdering, Ahead
  <2>9. QED BY <2>4, <2>8
<1>2. QED BY <1>1, HoldInvariance, PTL

(* searchAvailableRooms offers what the exclusion constraint would grant.  *)
THEOREM SearchIsExact == Spec => []SearchAgrees
<1>1. IInv => SearchAgrees
  <2> SUFFICES ASSUME IInv, NEW q \in Request, ValidInterval(q.slot), NEW c \in Active
               PROVE  Overlaps(Protected(booked[c].slot), q.slot)
                        <=> Overlaps(Protected(booked[c].slot), Protected(q.slot))
    BY DEF SearchAgrees, Offered, Admissible
  <2>1. booked[c] \in Request /\ ValidInterval(booked[c].slot)
    BY DEF IInv, TypeOK, Transactions, Active, ActiveStatus
  <2>2. booked[c].slot \in Slot /\ q.slot \in Slot BY <2>1, InventoryAssumption
  <2>3. QED BY <2>1, <2>2, GridAgrees
<1>2. QED BY <1>1, HoldInvariance, PTL

-----------------------------------------------------------------------------
(* Revived bookings apart, concurrent holds are as good as atomic ones.    *)

(* A row leaves DRAFT only by the commit of its hold.                      *)
LEMMA OnlyCommitsAdmit ==
  ASSUME IInv, [Next]_vars, NEW b \in Booking, Admits(b)
  PROVE  CommitHold(b)
<1>1. TypeOK /\ Transactions /\ LockOrder BY DEF IInv
<1>2. status[b] = "DRAFT" /\ status'[b] = "HELD" BY DEF Admits
<1>3. ASSUME NEW c \in Booking, HoldStep(c) PROVE CommitHold(b)
  <2>1. CASE CommitHold(c) BY <2>1, <1>1, <1>2 DEF CommitHold, TypeOK
  <2>2. CASE ~CommitHold(c)
    BY <2>2, <1>2, <1>3 DEF HoldStep, BeginHold, LockNextRow, RefuseHold
  <2>3. QED BY <2>1, <2>2
<1>4. ASSUME NEW c \in Booking, LaterStep(c) PROVE FALSE
  <2>1. \A to \in Outcomes : ~Transition(c, to)
    BY <1>1, <1>2, InventoryAssumption DEF Transition, TypeOK, Transactions
  <2>2. ~StartPaymentRead(c) BY <1>2 DEF StartPaymentRead
  <2>3. ~StartPaymentWrite(c) BY <1>1, <1>2 DEF StartPaymentWrite, TypeOK
  <2>4. QED BY <1>4, <2>1, <2>2, <2>3 DEF LaterStep
<1>5. ASSUME NEW e \in Equipment, EditStep(e) PROVE FALSE
  BY <1>2, <1>5 DEF EditStep, UpdateEquipment, DeleteEquipment
<1>6. ~UNCHANGED vars BY <1>2 DEF vars
<1>7. QED BY <1>3, <1>4, <1>5, <1>6 DEF Next

(* What commits has counted all it competes with: what was active is in    *)
(* the snapshot or committed since, and the latter is a serialization      *)
(* failure.                                                                *)
LEMMA CommitCounts ==
  ASSUME IInv, NEW b \in Booking, CommitHold(b),
         NEW c \in Active \ Revived, Compete(b, c)
  PROVE  c \in seen[b]
<1>1. tx[b] = "open" /\ c \notin missed[b] BY DEF CommitHold, Serializable
<1>2. c \in seen[b] \cup missed[b] BY <1>1 DEF IInv, SnapshotKnown
<1>3. QED BY <1>1, <1>2

(* createBookingHold sweeps every competitor although its snapshot is      *)
(* older than its locks.                                                   *)
THEOREM AdmissionsCountAll == Spec => AdmissionCountsAll
<1>1. IInv /\ [Next]_vars =>
        [\A b \in Booking : Admits(b) =>
           \A c \in Active \ Revived : Compete(b, c) => c \in seen[b]]_vars
  BY OnlyCommitsAdmit, CommitCounts
<1>2. QED BY <1>1, HoldInvariance, PTL DEF Spec, AdmissionCountsAll

Bar == [b \in Booking |-> IF tx[b] = "done" THEN booked[b] ELSE NoRequest]

LEMMA PromiseStart == Init => Promise!PromiseInit
<1> SUFFICES ASSUME Init PROVE Promise!PromiseInit OBVIOUS
<1>1. Active = {} BY DEF Init, Active, ActiveStatus
<1>2. Capacities \subseteq Nat BY InventoryAssumption
<1>3. capacity \in [Equipment -> Nat] BY <1>2 DEF Init
<1>4. Bar = [b \in Booking |-> NoRequest] BY DEF Init, Bar
<1>5. Revived = {} BY DEF Init, Revived
<1>6. QED BY <1>1, <1>3, <1>4, <1>5 DEF Promise!PromiseInit, Bar

LEMMA CommitGrants ==
  ASSUME IInv, NEW b \in Booking, CommitHold(b),
         NEW q \in Request, q = booked[b]
  PROVE  Promise!Grant(b, q)
<1>1. TypeOK /\ Transactions BY DEF IInv
<1>2. /\ status' = [status EXCEPT ![b] = "HELD"] /\ tx' = [tx EXCEPT ![b] = "done"]
      /\ tx[b] = "open" /\ RoomFree(b) /\ \A e \in Needed(b) : Fits(b, e)
      /\ UNCHANGED <<booked, capacity, edits, payer>>
  BY DEF CommitHold, End
<1>3. /\ b \notin Active /\ Active' = Active \cup {b} /\ Active \subseteq Booking
      /\ \A c \in Active : tx[c] = "done"
  BY <1>1, <1>2 DEF Active, ActiveStatus, Transactions, TypeOK
<1>4. Bar[b] = NoRequest /\ Bar' = [Bar EXCEPT ![b] = booked[b]]
  BY <1>1, <1>2 DEF Bar, TypeOK
<1>5. \A c \in Active \cup seen[b] : c \in Booking /\ Bar[c] = booked[c]
  BY <1>1, <1>2, <1>3 DEF Bar, Transactions, TypeOK
<1>6. \A c \in Active : Bar[c].room = booked[b].room =>
        ~Promise!Overlaps(Promise!Protected(Bar[c].slot), Promise!Protected(booked[b].slot))
  BY <1>2, <1>3, <1>5 DEF RoomFree, Admissible, Overlaps, Protected, Turnaround, Quarter,
    Promise!Overlaps, Promise!Protected, Promise!Turnaround, Promise!Quarter
<1>7. ASSUME NEW e \in Equipment, booked[b].need[e] > 0
      PROVE  /\ \A c \in Active \ Revived :
                  (Bar[c].need[e] > 0 /\ Promise!Overlaps(Bar[c].slot, booked[b].slot))
                    => c \in seen[b]
             /\ SweepPeak(Promise!Reserved(seen[b], e), booked[b].slot)
                  + booked[b].need[e] =< capacity[e]
  <2>1. ASSUME NEW c \in Active \ Revived, Bar[c].need[e] > 0,
               Promise!Overlaps(Bar[c].slot, booked[b].slot)
        PROVE  c \in seen[b]
    <3>1. Bar[c] = booked[c] /\ c \in Booking BY <1>3, <1>5
    <3>2. booked[c] \in Request /\ booked[b] \in Request
      BY <1>1, <1>2, <1>3, <3>1 DEF Transactions, TypeOK
    <3>3. booked[c].slot \in Slot /\ booked[b].slot \in Slot BY <3>2, InventoryAssumption
    <3>4. Overlaps(booked[b].slot, booked[c].slot)
      BY <2>1, <3>1, <3>3 DEF Overlaps, Promise!Overlaps, Slot
    <3>5. e \in Needed(b) \cap Needed(c) BY <1>7, <2>1, <3>1 DEF Needed
    <3>6. Compete(b, c) BY <3>4, <3>5 DEF Compete
    <3>7. QED BY <3>6, CommitCounts
  <2>2. Promise!Reserved(seen[b], e) = Reserved(seen[b], e)
    BY <1>5 DEF Promise!Reserved, Reserved, Bar
  <2>3. Fits(b, e) BY <1>2, <1>7 DEF Needed
  <2>4. QED BY <2>1, <2>2, <2>3 DEF Fits
<1>8. seen[b] \in SUBSET Booking BY <1>1 DEF TypeOK
<1>9. Revived' = Revived BY <1>2 DEF Revived
<1>10. QED BY <1>2, <1>3, <1>4, <1>6, <1>7, <1>8, <1>9 DEF Promise!Grant, Bar

(* A late payment on a booking still held changes nothing; on one that was *)
(* released, it takes the room back if the constraint lets it.             *)
LEMMA PaymentRevives ==
  ASSUME IInv, NEW b \in LatePayer, StartPaymentWrite(b)
  PROVE  [Promise!PromiseNext]_(Promise!promiseVars)
<1>1. TypeOK /\ Transactions BY DEF IInv
<1>2. /\ status' = [status EXCEPT ![b] = "PENDING_PAYMENT"]
      /\ payer' = [payer EXCEPT ![b] = Paid(b)] /\ payer[b] = "read" /\ RoomFree(b)
      /\ UNCHANGED <<booked, tx, capacity>>
  BY DEF StartPaymentWrite, holdVars
<1>3. b \in Booking BY InventoryAssumption
<1>4. tx[b] = "done" /\ booked[b] # NoRequest BY <1>1, <1>2, <1>3 DEF Transactions
<1>5. /\ Active' = Active \cup {b} /\ Active \subseteq Booking
      /\ \A c \in Active : tx[c] = "done"
  BY <1>1, <1>2, <1>3 DEF Active, ActiveStatus, Transactions, TypeOK
<1>6. Bar' = Bar /\ \A c \in Active \cup {b} : Bar[c] = booked[c]
  BY <1>2, <1>3, <1>4, <1>5 DEF Bar
<1>7. CASE b \in Active
  <2>1. Revived' = Revived BY <1>1, <1>2, <1>3, <1>7 DEF Revived, Paid, TypeOK
  <2>2. QED BY <1>2, <1>5, <1>6, <1>7, <2>1 DEF Promise!promiseVars, Bar
<1>8. CASE b \notin Active
  <2>1. Revived' = Revived \cup {b} /\ b \notin Revived
    BY <1>1, <1>2, <1>3, <1>8 DEF Revived, Paid, TypeOK
  <2>2. \A c \in Active : Bar[c].room = Bar[b].room =>
          ~Promise!Overlaps(Promise!Protected(Bar[c].slot), Promise!Protected(Bar[b].slot))
    BY <1>2, <1>6, <1>8 DEF RoomFree, Admissible, Overlaps, Protected, Turnaround, Quarter,
      Promise!Overlaps, Promise!Protected, Promise!Turnaround, Promise!Quarter
  <2>3. Bar[b] # NoRequest BY <1>4, <1>6
  <2>4. Promise!Revive(b)
    BY <1>2, <1>5, <1>6, <1>8, <2>1, <2>2, <2>3 DEF Promise!Revive, Bar
  <2>5. QED BY <1>3, <2>4 DEF Promise!PromiseNext
<1>9. QED BY <1>7, <1>8

LEMMA NextKeepsPromise ==
  ASSUME IInv, [Next]_vars
  PROVE  [Promise!PromiseNext]_(Promise!promiseVars)
<1>1. TypeOK /\ Transactions BY DEF IInv
<1>2. CASE /\ Active' = Active /\ Revived' = Revived /\ Bar' = Bar /\ UNCHANGED capacity
  BY <1>2 DEF Promise!promiseVars, Bar
<1>3. ASSUME NEW b \in Booking, HoldStep(b)
      PROVE  [Promise!PromiseNext]_(Promise!promiseVars)
  <2>1. CASE CommitHold(b)
    <3>1. booked[b] \in Request BY <2>1, <1>1 DEF CommitHold, Transactions, TypeOK
    <3>2. PICK q \in Request : q = booked[b] BY <3>1
    <3>3. Promise!Grant(b, q) BY <2>1, <3>2, CommitGrants
    <3>4. QED BY <3>3 DEF Promise!PromiseNext
  <2>2. CASE \E q \in Request : BeginHold(b, q)
    <3>1. /\ \A c \in Booking : tx'[c] # "done" <=> tx[c] # "done"
          /\ \A c \in Booking : tx[c] = "done" => booked'[c] = booked[c]
          /\ UNCHANGED <<status, capacity, payer>>
      BY <2>2, <1>1 DEF BeginHold, TypeOK
    <3>2. Active' = Active /\ Revived' = Revived /\ Bar' = Bar BY <3>1 DEF Active, Revived, Bar
    <3>3. QED BY <3>1, <3>2, <1>2
  <2>3. CASE \E e \in Equipment : LockNextRow(b, e)
    BY <2>3, <1>1, <1>2 DEF LockNextRow, Active, Revived, Bar
  <2>4. CASE RefuseHold(b)
    <3>1. /\ \A c \in Booking : tx'[c] # "done" <=> tx[c] # "done"
          /\ \A c \in Booking : tx[c] = "done" => booked'[c] = booked[c]
          /\ UNCHANGED <<status, capacity, payer>>
      BY <2>4, <1>1 DEF RefuseHold, End, TypeOK
    <3>2. Active' = Active /\ Revived' = Revived /\ Bar' = Bar BY <3>1 DEF Active, Revived, Bar
    <3>3. QED BY <3>1, <3>2, <1>2
  <2>5. QED BY <1>3, <2>1, <2>2, <2>3, <2>4 DEF HoldStep
<1>4. ASSUME NEW b \in Booking, LaterStep(b)
      PROVE  [Promise!PromiseNext]_(Promise!promiseVars)
  <2>1. CASE \E to \in Outcomes : Transition(b, to)
    <3>1. PICK to \in Outcomes : Transition(b, to) BY <2>1
    <3>2. Active' \subseteq Active BY <3>1, TransitionStep
    <3>3. /\ status' = [status EXCEPT ![b] = to]
          /\ UNCHANGED <<booked, tx, capacity, payer>>
      BY <3>1 DEF Transition, holdVars
    <3>4. Active' = Active \/ (b \in Active /\ Active' = Active \ {b})
      BY <1>1, <3>2, <3>3 DEF Active, TypeOK
    <3>5. Bar' = Bar /\ Revived' = Revived BY <3>3 DEF Bar, Revived
    <3>6. CASE Active' = Active BY <1>2, <3>3, <3>5, <3>6
    <3>7. CASE b \in Active /\ Active' = Active \ {b}
      BY <3>3, <3>5, <3>7 DEF Promise!PromiseNext, Promise!Release, Bar
    <3>8. QED BY <3>4, <3>6, <3>7
  <2>2. CASE b \in LatePayer /\ StartPaymentRead(b)
    <3>1. /\ UNCHANGED <<status, booked, tx, capacity>> /\ payer[b] = "none"
          /\ payer' = [payer EXCEPT ![b] = "read"]
      BY <2>2 DEF StartPaymentRead, holdVars
    <3>2. Active' = Active /\ Revived' = Revived /\ Bar' = Bar
      BY <1>1, <3>1 DEF Active, Revived, Bar, TypeOK
    <3>3. QED BY <1>2, <3>1, <3>2
  <2>3. CASE b \in LatePayer /\ StartPaymentWrite(b) BY <2>3, PaymentRevives
  <2>4. QED BY <1>4, <2>1, <2>2, <2>3 DEF LaterStep
<1>5. ASSUME NEW e \in Equipment, EditStep(e)
      PROVE  [Promise!PromiseNext]_(Promise!promiseVars)
  <2>1. Active' = Active /\ capacity' \in [Equipment -> Nat]
    BY <1>5, EditStepInv DEF IInv, TypeOK
  <2>2. Bar' = Bar /\ Revived' = Revived
    BY <1>5 DEF EditStep, UpdateEquipment, DeleteEquipment, Bar, Revived
  <2>3. QED BY <2>1, <2>2 DEF Promise!PromiseNext, Promise!SetCapacity, Bar
<1>6. CASE UNCHANGED vars BY <1>2, <1>6 DEF vars, holdVars, Active, Revived, Bar
<1>7. QED BY <1>3, <1>4, <1>5, <1>6 DEF Next

(* Concurrent holds, releases and edits implement InventoryPromise.        *)
THEOREM HoldsKeepPromise == Spec => ImplementsPromise
<1>1. IInv /\ [Next]_vars => [Promise!PromiseNext]_(Promise!promiseVars)
  BY NextKeepsPromise
<1>2. QED BY <1>1, PromiseStart, HoldInvariance, PTL
           DEF Spec, ImplementsPromise, Promise!PromiseSpec

-----------------------------------------------------------------------------
(* Equipment: what the sweep grants fits.                                  *)

(* Although nothing bounds the bookings, finitely many are ever active.    *)
FinitelyMany == /\ IsFiniteSet(Active)
                /\ \A b \in Booking : IsFiniteSet(seen[b])

LEMMA CommitActive ==
  ASSUME IInv, NEW b \in Booking, CommitHold(b)
  PROVE  /\ Active' = Active \cup {b} /\ Revived' = Revived
         /\ booked[b] \in Request /\ b \notin Active \cup Revived \cup seen[b]
         /\ UNCHANGED <<booked, capacity, edits>>
<1>1. TypeOK /\ Transactions BY DEF IInv
<1>2. /\ status' = [status EXCEPT ![b] = "HELD"] /\ tx[b] = "open"
      /\ UNCHANGED <<booked, capacity, edits, payer>>
  BY DEF CommitHold, End
<1>3. Active' = Active \cup {b} BY <1>1, <1>2 DEF Active, ActiveStatus, TypeOK
<1>4. Revived' = Revived BY <1>2 DEF Revived
<1>5. booked[b] \in Request /\ status[b] = "DRAFT" /\ payer[b] = "none"
  BY <1>1, <1>2 DEF Transactions, TypeOK
<1>6. b \notin seen[b] BY <1>1, <1>2 DEF Transactions
<1>7. QED BY <1>2, <1>3, <1>4, <1>5, <1>6 DEF Active, ActiveStatus, Revived

(* What a step other than a commit does to what counts as active.          *)
Quiet ==
  /\ Active' \ Revived' \subseteq Active \ Revived
  /\ \A c \in Active : booked'[c] = booked[c]
  /\ Active' \subseteq Active \/ \E b \in Booking : Active' = Active \cup {b}
  /\ seen' = seen \/ \E b \in Booking : \/ seen' = [seen EXCEPT ![b] = Active]
                                        \/ seen' = [seen EXCEPT ![b] = {}]
  /\ UNCHANGED <<capacity, edits>> \/ edits' > 0

LEMMA OthersAreQuiet ==
  ASSUME IInv, [Next]_vars, \A b \in Booking : ~CommitHold(b)
  PROVE  Quiet
<1>1. TypeOK /\ Transactions BY DEF IInv
<1>2. \A c \in Active : c \in Booking /\ tx[c] = "done"
  BY <1>1 DEF Active, ActiveStatus, Transactions
<1>3. ASSUME NEW b \in Booking, NEW q \in Request, BeginHold(b, q) PROVE Quiet
  <2>1. /\ booked' = [booked EXCEPT ![b] = q] /\ seen' = [seen EXCEPT ![b] = Active]
        /\ tx[b] = "none" /\ UNCHANGED <<status, capacity, edits, payer>>
    BY <1>3 DEF BeginHold
  <2>2. Active' = Active /\ Revived' = Revived BY <2>1 DEF Active, Revived
  <2>3. \A c \in Active : booked'[c] = booked[c] BY <1>1, <1>2, <2>1 DEF TypeOK
  <2>4. QED BY <2>1, <2>2, <2>3 DEF Quiet
<1>4. ASSUME NEW b \in Booking, NEW e \in Equipment, LockNextRow(b, e) PROVE Quiet
  <2>1. UNCHANGED <<status, booked, seen, capacity, edits, payer>> BY <1>4 DEF LockNextRow
  <2>2. Active' = Active /\ Revived' = Revived BY <2>1 DEF Active, Revived
  <2>3. QED BY <2>1, <2>2 DEF Quiet
<1>5. ASSUME NEW b \in Booking, RefuseHold(b) PROVE Quiet
  <2>1. /\ booked' = [booked EXCEPT ![b] = NoRequest] /\ seen' = [seen EXCEPT ![b] = {}]
        /\ tx[b] = "open" /\ UNCHANGED <<status, capacity, edits, payer>>
    BY <1>5 DEF RefuseHold, End
  <2>2. Active' = Active /\ Revived' = Revived BY <2>1 DEF Active, Revived
  <2>3. \A c \in Active : booked'[c] = booked[c] BY <1>1, <1>2, <2>1 DEF TypeOK
  <2>4. QED BY <2>1, <2>2, <2>3 DEF Quiet
<1>6. ASSUME NEW b \in Booking, NEW to \in Outcomes, Transition(b, to) PROVE Quiet
  <2>1. UNCHANGED <<booked, seen, capacity, edits, payer>> BY <1>6 DEF Transition, holdVars
  <2>2. Active' \subseteq Active /\ Revived' = Revived BY <1>6, <2>1, TransitionStep DEF Revived
  <2>3. QED BY <2>1, <2>2 DEF Quiet
<1>7. ASSUME NEW b \in LatePayer, StartPaymentRead(b) PROVE Quiet
  <2>1. /\ payer[b] = "none" /\ payer' = [payer EXCEPT ![b] = "read"]
        /\ UNCHANGED <<status, booked, seen, capacity, edits>>
    BY <1>7 DEF StartPaymentRead, holdVars
  <2>2. b \in Booking BY InventoryAssumption
  <2>3. Active' = Active /\ Revived' = Revived
    BY <1>1, <2>1, <2>2 DEF Active, Revived, TypeOK
  <2>4. QED BY <2>1, <2>3 DEF Quiet
<1>8. ASSUME NEW b \in LatePayer, StartPaymentWrite(b) PROVE Quiet
  <2>1. /\ payer' = [payer EXCEPT ![b] = Paid(b)] /\ payer[b] = "read"
        /\ status' = [status EXCEPT ![b] = "PENDING_PAYMENT"]
        /\ UNCHANGED <<booked, seen, capacity, edits>>
    BY <1>8 DEF StartPaymentWrite, holdVars
  <2>2. b \in Booking BY InventoryAssumption
  <2>3. Active' = Active \cup {b} BY <1>1, <2>1, <2>2 DEF Active, ActiveStatus, TypeOK
  <2>4. CASE b \in Active
    <3>1. Revived' = Revived BY <1>1, <2>1, <2>2, <2>4 DEF Revived, Paid, TypeOK
    <3>2. QED BY <2>1, <2>2, <2>3, <2>4, <3>1 DEF Quiet
  <2>5. CASE b \notin Active
    <3>1. Revived' = Revived \cup {b} BY <1>1, <2>1, <2>2, <2>5 DEF Revived, Paid, TypeOK
    <3>2. QED BY <2>1, <2>2, <2>3, <2>5, <3>1 DEF Quiet
  <2>6. QED BY <2>4, <2>5
<1>9. ASSUME NEW e \in Equipment, EditStep(e) PROVE Quiet
  <2>1. /\ edits' = edits + 1 /\ UNCHANGED <<status, booked, seen, payer>>
    BY <1>9 DEF EditStep, UpdateEquipment, DeleteEquipment
  <2>2. Active' = Active /\ Revived' = Revived BY <2>1 DEF Active, Revived
  <2>3. edits' > 0 BY <1>1, <2>1, InventoryAssumption DEF TypeOK
  <2>4. QED BY <2>1, <2>2, <2>3 DEF Quiet
<1>10. CASE UNCHANGED vars
  <2>1. UNCHANGED <<status, booked, seen, capacity, edits, payer>>
    BY <1>10 DEF vars, holdVars
  <2>2. Active' = Active /\ Revived' = Revived BY <2>1 DEF Active, Revived
  <2>3. QED BY <2>1, <2>2 DEF Quiet
<1>11. ASSUME NEW b \in Booking, HoldStep(b) PROVE Quiet
  BY <1>3, <1>4, <1>5, <1>11 DEF HoldStep
<1>12. ASSUME NEW b \in Booking, LaterStep(b) PROVE Quiet
  BY <1>6, <1>7, <1>8, <1>12 DEF LaterStep
<1>13. QED BY <1>9, <1>10, <1>11, <1>12 DEF Next

LEMMA FinitelyManyStep ==
  ASSUME IInv, FinitelyMany, [Next]_vars
  PROVE  FinitelyMany'
<1>1. IsFiniteSet(Active) /\ \A c \in Booking : IsFiniteSet(seen[c]) BY DEF FinitelyMany
<1>2. \A c : IsFiniteSet(Active \cup {c}) BY <1>1, FS_AddElement
<1>3. IsFiniteSet({}) BY FS_EmptySet
<1>4. seen \in [Booking -> SUBSET Booking] BY DEF IInv, TypeOK
<1>5. CASE \E b \in Booking : CommitHold(b)
  <2>1. PICK b \in Booking : CommitHold(b) BY <1>5
  <2>2. Active' = Active \cup {b} BY <2>1, CommitActive
  <2>3. seen' = [seen EXCEPT ![b] = {}] BY <2>1 DEF CommitHold, End
  <2>4. IsFiniteSet(Active') BY <1>2, <2>2
  <2>5. \A c \in Booking : IsFiniteSet(seen'[c]) BY <1>1, <1>3, <1>4, <2>3
  <2>6. QED BY <2>4, <2>5 DEF FinitelyMany
<1>6. CASE \A b \in Booking : ~CommitHold(b)
  <2>1. Quiet BY <1>6, OthersAreQuiet
  <2>2. IsFiniteSet(Active')
    <3>1. CASE Active' \subseteq Active BY <1>1, <3>1, FS_Subset
    <3>2. CASE \E b \in Booking : Active' = Active \cup {b} BY <1>2, <3>2
    <3>3. QED BY <2>1, <3>1, <3>2 DEF Quiet
  <2>3. ASSUME NEW c \in Booking PROVE IsFiniteSet(seen'[c])
    <3>1. seen'[c] = seen[c] \/ seen'[c] = Active \/ seen'[c] = {}
      BY <1>4, <2>1 DEF Quiet
    <3>2. QED BY <1>1, <1>3, <3>1
  <2>4. QED BY <2>2, <2>3 DEF FinitelyMany
<1>7. QED BY <1>5, <1>6

LEMMA FinitelyManyStart == Init => FinitelyMany
<1> SUFFICES ASSUME Init PROVE FinitelyMany OBVIOUS
<1>1. Active = {} BY DEF Init, Active, ActiveStatus
<1>2. \A b \in Booking : seen[b] = {} BY DEF Init
<1>3. QED BY <1>1, <1>2, FS_EmptySet DEF FinitelyMany

(* What the sweep counts are rows of inventory_reservations.               *)
LEMMA ReservedRows ==
  ASSUME IInv, NEW B \in SUBSET Booking, IsFiniteSet(B), NEW e \in Equipment
  PROVE  Reservations(Reserved(B, e))
<1> DEFINE C == {c \in B : booked[c] # NoRequest /\ booked[c].need[e] > 0}
           row == [c \in C |-> [of |-> c, slot |-> booked[c].slot,
                                quantity |-> booked[c].need[e]]]
<1>1. IsFiniteSet(C) BY FS_Subset
<1>2. Reserved(B, e) = {row[c] : c \in C} BY DEF Reserved
<1>3. ASSUME NEW c \in C
      PROVE  /\ row[c].of = c
             /\ row[c].slot.start \in Int /\ row[c].slot.end \in Int
             /\ row[c].slot.start < row[c].slot.end
             /\ row[c].quantity \in Nat \ {0}
  <2>1. c \in Booking /\ booked[c] # NoRequest /\ booked[c].need[e] > 0 OBVIOUS
  <2>2. booked[c] \in Request /\ ValidInterval(booked[c].slot)
    BY <2>1 DEF IInv, TypeOK, Transactions
  <2>3. booked[c].slot \in Slot /\ booked[c].need[e] \in Nat BY <2>2, InventoryAssumption
  <2>4. /\ booked[c].slot.start \in Int /\ booked[c].slot.end \in Int
        /\ booked[c].slot.start < booked[c].slot.end
    BY <2>2, <2>3 DEF Slot, ValidInterval
  <2>5. QED BY <2>1, <2>3, <2>4
<1> HIDE DEF row, C
<1>4. IsFiniteSet({row[c] : c \in C}) BY <1>1, ImageFinite
<1>5. QED BY <1>2, <1>3, <1>4 DEF Reservations

(* The load of a set of bookings that all belong to another one.           *)
LEMMA FewerTakeLess ==
  ASSUME IInv, NEW B \in SUBSET Booking, IsFiniteSet(B), NEW e \in Equipment, NEW t,
         NEW D \in SUBSET Booking, IsFiniteSet(D),
         \A c \in D : booked[c] # NoRequest /\ booked[c].need[e] > 0
                     /\ booked[c].slot.start <= t /\ t < booked[c].slot.end => c \in B
  PROVE  LoadAt(Reserved(D, e), t) =< LoadAt(Reserved(B, e), t)
<1>1. Reservations(Reserved(B, e)) /\ Reservations(Reserved(D, e)) BY ReservedRows
<1>2. ASSUME NEW r \in Reserved(D, e), r.slot.start <= t, t < r.slot.end
      PROVE  r \in Reserved(B, e)
  BY <1>2 DEF Reserved
<1>3. QED BY <1>1, <1>2, LoadSubset

(* At each instant of its slot, a committed hold leaves room: what is in   *)
(* use then competes with it, so it was counted.                           *)
LEMMA CommitFits ==
  ASSUME IInv, FinitelyMany, NEW b \in Booking, CommitHold(b), NEW e \in Needed(b),
         NEW t \in booked[b].slot.start .. (booked[b].slot.end - 1)
  PROVE  LoadAt(Reserved((Active \cup {b}) \ Revived, e), t) =< capacity[e]
<1> DEFINE N == (Active \cup {b}) \ Revived
           R == Reserved(N, e)
           Q == Reserved(seen[b], e)
           a == [of |-> b, slot |-> booked[b].slot, quantity |-> booked[b].need[e]]
<1>1. /\ booked[b] \in Request /\ b \notin Active \cup Revived \cup seen[b]
      /\ e \in Equipment /\ booked[b].need[e] > 0 /\ Fits(b, e)
      /\ booked[b] # NoRequest
  BY CommitActive, InventoryAssumption DEF Needed, CommitHold
<1>2. N \in SUBSET Booking /\ seen[b] \in SUBSET Booking
  BY DEF Active, IInv, TypeOK
<1>3. IsFiniteSet(N) /\ IsFiniteSet(seen[b]) /\ IsFiniteSet(seen[b] \cup {b})
  BY FS_AddElement, FS_Subset DEF FinitelyMany
<1>4. Q \cup {a} = Reserved(seen[b] \cup {b}, e) BY <1>1 DEF Reserved
<1>5. a \notin Q BY <1>1 DEF Reserved
<1>6. Reservations(R) /\ Reservations(Q \cup {a})
  <2>1. seen[b] \cup {b} \in SUBSET Booking BY <1>2
  <2>2. QED BY <1>1, <1>2, <1>3, <1>4, <2>1, ReservedRows
<1>7. t \in a.slot.start .. (a.slot.end - 1) OBVIOUS
<1>8. ASSUME NEW r \in R, r.slot.start <= t, t < r.slot.end
      PROVE  r \in Q \cup {a}
  <2>1. PICK c \in N : /\ booked[c] # NoRequest /\ booked[c].need[e] > 0
                       /\ r = [of |-> c, slot |-> booked[c].slot,
                               quantity |-> booked[c].need[e]]
    BY DEF Reserved
  <2>2. CASE c = b BY <2>1, <2>2
  <2>3. CASE c # b
    <3>1. c \in Active \ Revived BY <2>1, <2>3
    <3>2. booked[c] \in Request BY <1>2, <2>1 DEF IInv, TypeOK
    <3>3. booked[b].slot \in Slot /\ booked[c].slot \in Slot
      BY <1>1, <3>2, InventoryAssumption
    <3>4. booked[c].slot.start <= t /\ t < booked[c].slot.end BY <1>8, <2>1
    <3>5. Overlaps(booked[b].slot, booked[c].slot) BY <3>3, <3>4 DEF Overlaps, Slot
    <3>6. Compete(b, c) BY <1>1, <2>1, <3>5 DEF Compete, Needed
    <3>7. c \in seen[b] BY <3>1, <3>6, CommitCounts
    <3>8. QED BY <2>1, <3>7 DEF Reserved
  <2>4. QED BY <2>2, <2>3
<1> HIDE DEF R, Q, N
<1>9. LoadAt(R, t) =< SweepPeak(Q, a.slot) + a.quantity
  BY <1>5, <1>6, <1>7, <1>8, AdmittedFits
<1>10. SweepPeak(Q, a.slot) + a.quantity =< capacity[e]
  BY <1>1 DEF Fits, Q
<1>11. SweepPeak(Q, a.slot) \in Nat /\ LoadAt(R, t) \in Nat
  <2>1. Reservations(Q) BY <1>1, <1>2, <1>3, ReservedRows DEF Q
  <2>2. QED BY <1>6, <2>1, PeakBounds, LoadInteger
<1>12. a.quantity \in Nat BY <1>1, InventoryAssumption
<1>13. capacity[e] \in Nat BY <1>1 DEF IInv, TypeOK
<1>14. LoadAt(R, t) =< capacity[e] BY <1>9, <1>10, <1>11, <1>12, <1>13
<1>15. QED BY <1>14 DEF R, N

(* What is taken at an instant grows only by a commit, which fits there.   *)
LEMMA CommitGrowsWithin ==
  ASSUME IInv, FinitelyMany, NEW b \in Booking, CommitHold(b),
         NEW e \in Equipment, NEW t \in Int
  PROVE  /\ InUse(e, t)' =< capacity'[e] \/ InUse(e, t)' =< InUse(e, t)
         /\ InUse(e, t)' \in Nat
<1> DEFINE D == (Active \cup {b}) \ Revived
           B == Active \ Revived
<1>1. /\ Active' = Active \cup {b} /\ Revived' = Revived
      /\ booked[b] \in Request /\ booked[b] # NoRequest
      /\ UNCHANGED <<booked, capacity, edits>>
  BY CommitActive, InventoryAssumption
<1>2. InUse(e, t)' = LoadAt(Reserved(D, e), t) BY <1>1 DEF InUse, Reserved
<1>3. /\ D \in SUBSET Booking /\ B \in SUBSET Booking
      /\ IsFiniteSet(D) /\ IsFiniteSet(B)
  BY FS_AddElement, FS_Subset DEF Active, FinitelyMany
<1>4. InUse(e, t)' \in Nat BY <1>2, <1>3, ReservedRows, LoadInteger
<1>5. CASE e \in Needed(b) /\ t \in booked[b].slot.start .. (booked[b].slot.end - 1)
  BY <1>1, <1>2, <1>5, <1>4, CommitFits
<1>6. CASE ~(e \in Needed(b) /\ t \in booked[b].slot.start .. (booked[b].slot.end - 1))
  <2>1. booked[b].slot.start \in Int /\ booked[b].slot.end \in Int
    BY <1>1, InventoryAssumption DEF Slot
  <2>2. ~ (/\ booked[b].need[e] > 0
           /\ booked[b].slot.start <= t /\ t < booked[b].slot.end)
    BY <1>6, <2>1 DEF Needed
  <2>3. \A c \in D : booked[c] # NoRequest /\ booked[c].need[e] > 0
          /\ booked[c].slot.start <= t /\ t < booked[c].slot.end => c \in B
    BY <2>2
  <2> HIDE DEF D, B
  <2>4. LoadAt(Reserved(D, e), t) =< LoadAt(Reserved(B, e), t) BY <1>3, <2>3, FewerTakeLess
  <2>5. QED BY <1>2, <1>4, <2>4 DEF InUse, B
<1>7. QED BY <1>5, <1>6

LEMMA QuietTakesNoMore ==
  ASSUME IInv, FinitelyMany, Quiet, NEW e \in Equipment, NEW t
  PROVE  InUse(e, t)' =< InUse(e, t) /\ InUse(e, t)' \in Nat
<1> DEFINE D == Active' \ Revived'
           B == Active \ Revived
<1>1. D \subseteq B /\ \A c \in Active : booked'[c] = booked[c] BY DEF Quiet
<1>2. /\ D \in SUBSET Booking /\ B \in SUBSET Booking
      /\ IsFiniteSet(D) /\ IsFiniteSet(B)
  BY <1>1, FS_Subset DEF Active, FinitelyMany
<1>3. InUse(e, t)' = LoadAt(Reserved(D, e), t) BY <1>1 DEF InUse, Reserved
<1> HIDE DEF D, B
<1>4. LoadAt(Reserved(D, e), t) =< LoadAt(Reserved(B, e), t)
  BY <1>1, <1>2, FewerTakeLess
<1>5. LoadAt(Reserved(D, e), t) \in Nat BY <1>2, ReservedRows, LoadInteger
<1>6. QED BY <1>3, <1>4, <1>5 DEF InUse, B

LEMMA UseStep ==
  ASSUME IInv, FinitelyMany, [Next]_vars, NEW e \in Equipment, NEW t \in Int
  PROVE  /\ InUse(e, t)' =< capacity'[e] \/ InUse(e, t)' =< InUse(e, t)
         /\ InUse(e, t)' \in Nat
<1>1. CASE \E b \in Booking : CommitHold(b) BY <1>1, CommitGrowsWithin
<1>2. CASE \A b \in Booking : ~CommitHold(b) BY <1>2, OthersAreQuiet, QuietTakesNoMore
<1>3. QED BY <1>1, <1>2

(* No set of holds takes more than an equipment type has while it is not   *)
(* edited: the invariant that every commit needs.                          *)
WithinCapacity == edits = 0 => \A e \in Equipment, t \in Int : InUse(e, t) =< capacity[e]

EInv == IInv /\ FinitelyMany /\ WithinCapacity

LEMMA InUseNatural ==
  ASSUME IInv, FinitelyMany, NEW e \in Equipment, NEW t
  PROVE  InUse(e, t) \in Nat
<1>1. Active \ Revived \in SUBSET Booking /\ IsFiniteSet(Active \ Revived)
  BY FS_Subset DEF Active, FinitelyMany
<1>2. QED BY <1>1, ReservedRows, LoadInteger DEF InUse

LEMMA StartsEmpty == Init => EInv
<1> SUFFICES ASSUME Init PROVE EInv OBVIOUS
<1>1. IInv /\ FinitelyMany BY InitInv, FinitelyManyStart
<1>2. ASSUME NEW e \in Equipment, NEW t \in Int
      PROVE  InUse(e, t) =< capacity[e]
  <2>1. Active \ Revived = {} BY DEF Init, Active, ActiveStatus
  <2>2. Reserved({}, e) = {} BY DEF Reserved
  <2>3. LoadAt({}, t) = 0
    <3>1. {r \in {} : r.slot.start <= t /\ t < r.slot.end} = {} OBVIOUS
    <3>2. QED BY <3>1, SumEmpty DEF LoadAt
  <2>4. capacity[e] \in Nat BY <1>1 DEF IInv, TypeOK
  <2>5. QED BY <2>1, <2>2, <2>3, <2>4 DEF InUse
<1>3. QED BY <1>1, <1>2 DEF EInv, WithinCapacity

LEMMA StepsKeepCapacity == EInv /\ [Next]_vars => EInv'
<1> SUFFICES ASSUME EInv, [Next]_vars PROVE EInv' OBVIOUS
<1>1. IInv /\ FinitelyMany /\ WithinCapacity BY DEF EInv
<1>2. IInv' /\ FinitelyMany' BY <1>1, NextInv, FinitelyManyStep
<1>3. UNCHANGED <<capacity, edits>> \/ edits' > 0
  <2>1. CASE \E b \in Booking : CommitHold(b) BY <1>1, <2>1, CommitActive
  <2>2. CASE \A b \in Booking : ~CommitHold(b) BY <1>1, <2>2, OthersAreQuiet DEF Quiet
  <2>3. QED BY <2>1, <2>2
<1>4. ASSUME edits' = 0, NEW e \in Equipment, NEW t \in Int
      PROVE  InUse(e, t)' =< capacity'[e]
  <2>1. UNCHANGED <<capacity, edits>> BY <1>3, <1>4
  <2>2. InUse(e, t) =< capacity[e] BY <1>1, <1>4, <2>1 DEF WithinCapacity
  <2>3. InUse(e, t)' =< capacity'[e] \/ InUse(e, t)' =< InUse(e, t) BY <1>1, UseStep
  <2>4. /\ InUse(e, t) \in Nat /\ InUse(e, t)' \in Nat
        /\ capacity[e] \in Nat
    <3>1. InUse(e, t) \in Nat BY <1>1, InUseNatural
    <3>2. capacity[e] \in Nat BY <1>1 DEF IInv, TypeOK
    <3>3. InUse(e, t)' \in Nat BY <1>1, UseStep
    <3>4. QED BY <3>1, <3>2, <3>3
  <2>5. QED BY <2>1, <2>2, <2>3, <2>4
<1>5. WithinCapacity' BY <1>4 DEF WithinCapacity
<1>6. QED BY <1>2, <1>5 DEF EInv

(* What is taken at an instant grows only within the capacity, whoever     *)
(* books, pays or releases and however staff edit the equipment.           *)
THEOREM UseStaysWithin == Spec => UseGrowsWithin
<1>1. Spec => []EInv BY StartsEmpty, StepsKeepCapacity, PTL DEF Spec
<1>2. EInv /\ [Next]_vars =>
        [\A e \in Equipment, t \in Int :
           InUse(e, t)' =< capacity'[e] \/ InUse(e, t)' =< InUse(e, t)]_vars
  BY UseStep DEF EInv
<1>3. QED BY <1>1, <1>2, PTL DEF Spec, UseGrowsWithin

(* As long as staff edit no equipment, no instant sees more units of a     *)
(* type taken than it has, whatever number of holds ran at once, bookings  *)
(* that a late payment brought back apart.                                 *)
THEOREM EquipmentStaysKept == Spec => []EquipmentKept
<1>1. EInv => EquipmentKept
  <2> SUFFICES ASSUME EInv, edits = 0, NEW e \in Equipment, NEW b \in Active \ Revived
               PROVE  MaxLoad(Reserved(Active \ Revived, e), booked[b].slot) =< capacity[e]
    BY DEF EquipmentKept
  <2>1. IInv /\ FinitelyMany /\ WithinCapacity BY DEF EInv
  <2>2. /\ Active \ Revived \in SUBSET Booking /\ IsFiniteSet(Active \ Revived)
        /\ b \in Booking
    BY <2>1, FS_Subset DEF Active, FinitelyMany
  <2>3. booked[b] \in Request /\ ValidInterval(booked[b].slot)
    BY <2>1, <2>2 DEF IInv, TypeOK, Transactions, Active, ActiveStatus
  <2>4. /\ booked[b].slot.start \in Int /\ booked[b].slot.end \in Int
        /\ booked[b].slot.start < booked[b].slot.end
    BY <2>3, InventoryAssumption DEF Slot, ValidInterval
  <2>5. Reservations(Reserved(Active \ Revived, e)) BY <2>1, <2>2, ReservedRows
  <2>6. PICK t \in booked[b].slot.start .. (booked[b].slot.end - 1) :
          MaxLoad(Reserved(Active \ Revived, e), booked[b].slot)
            = LoadAt(Reserved(Active \ Revived, e), t)
    BY <2>4, <2>5, LoadBounds
  <2>7. t \in Int BY <2>4
  <2>8. InUse(e, t) =< capacity[e] BY <2>1, <2>7 DEF WithinCapacity
  <2>9. QED BY <2>6, <2>8 DEF InUse
<1>2. Spec => []EInv BY StartsEmpty, StepsKeepCapacity, PTL DEF Spec
<1>3. QED BY <1>1, <1>2, PTL

(* What the documents say of equipment holds except for the two causes     *)
(* that break it: an edit below what is reserved, and a late payment.      *)
THEOREM OversoldNeedsCause ==
  Spec => [](edits = 0 /\ Revived = {} => EquipmentNotOversold)
<1>1. EquipmentKept => (edits = 0 /\ Revived = {} => EquipmentNotOversold)
  <2> SUFFICES ASSUME EquipmentKept, edits = 0, Revived = {} PROVE EquipmentNotOversold
    OBVIOUS
  <2>1. Active \ Revived = Active OBVIOUS
  <2>2. QED BY <2>1 DEF EquipmentKept, EquipmentNotOversold
<1>2. QED BY <1>1, EquipmentStaysKept, PTL

(* A hold that commits leaves every type it asks for within capacity, in   *)
(* spite of its old snapshot, and whatever edits came before it.           *)
THEOREM AdmissionsFit == Spec => AdmissionFits
<1>1. Spec => [](IInv /\ FinitelyMany)
  <2>1. Init => IInv /\ FinitelyMany BY InitInv, FinitelyManyStart
  <2>2. (IInv /\ FinitelyMany) /\ [Next]_vars => (IInv /\ FinitelyMany)'
    BY NextInv, FinitelyManyStep
  <2>3. QED BY <2>1, <2>2, PTL DEF Spec
<1>2. (IInv /\ FinitelyMany) /\ [Next]_vars =>
        [\A b \in Booking : Admits(b) =>
           \A e \in Needed(b) :
             MaxLoad(Reserved(Active \ Revived, e)', booked[b].slot) =< capacity'[e]]_vars
  <2> SUFFICES ASSUME IInv, FinitelyMany, [Next]_vars, NEW b \in Booking, Admits(b),
                      NEW e \in Needed(b)
               PROVE  MaxLoad(Reserved(Active \ Revived, e)', booked[b].slot) =< capacity'[e]
    OBVIOUS
  <2> DEFINE R == Reserved((Active \cup {b}) \ Revived, e)
  <2>1. CommitHold(b) BY OnlyCommitsAdmit
  <2>2. /\ Active' = Active \cup {b} /\ Revived' = Revived
        /\ booked[b] \in Request /\ booked[b] # NoRequest
        /\ UNCHANGED <<booked, capacity>>
    BY <2>1, CommitActive, InventoryAssumption
  <2>3. Reserved(Active \ Revived, e)' = R BY <2>2 DEF Reserved
  <2>4. Reservations(R)
    <3>1. /\ (Active \cup {b}) \ Revived \in SUBSET Booking
          /\ IsFiniteSet((Active \cup {b}) \ Revived)
      BY FS_AddElement, FS_Subset DEF FinitelyMany, Active
    <3>2. e \in Equipment BY DEF Needed
    <3>3. QED BY <3>1, <3>2, ReservedRows
  <2>5. /\ booked[b].slot.start \in Int /\ booked[b].slot.end \in Int
        /\ booked[b].slot.start < booked[b].slot.end
    <3>1. ValidInterval(booked[b].slot) BY <2>2 DEF IInv, Transactions
    <3>2. QED BY <2>2, <3>1, InventoryAssumption DEF Slot, ValidInterval
  <2>6. \A t \in booked[b].slot.start .. (booked[b].slot.end - 1) : LoadAt(R, t) =< capacity[e]
    BY <2>1, CommitFits
  <2> HIDE DEF R
  <2>7. MaxLoad(R, booked[b].slot) =< capacity[e] BY <2>4, <2>5, <2>6, LoadBounds
  <2>8. QED BY <2>2, <2>3, <2>7
<1>3. QED BY <1>1, <1>2, PTL DEF Spec, AdmissionFits

(* The sweep of lockEquipment is exact on every set of reservations and    *)
(* every window that the constants name.                                   *)
THEOREM SweepIsExact == Spec => []SweepExact
<1>1. SweepExact
  <2> SUFFICES ASSUME NEW R \in RowSet, NEW w \in Window
               PROVE  /\ MaxLoad(R, w) =< SweepPeak(R, w)
                      /\ NoneTouch(R) => SweepPeak(R, w) = MaxLoad(R, w)
    BY DEF SweepExact
  <2>1. Reservations(R) /\ w \in Slot /\ w.start < w.end BY SweepAssumption
  <2>2. w.start \in Int /\ w.end \in Int BY <2>1 DEF Slot
  <2>3. QED BY <2>1, <2>2, SweepCountsExactly
<1>2. QED BY <1>1, PTL
=============================================================================
