---------------------- MODULE CancellationRefund_proofs ----------------------
(***************************************************************************)
(* Proofs about PolicyVersions and CancellationRefund, for any rates,      *)
(* slots, tiers and any number of concurrent replacements: the newest      *)
(* version is in force and never goes back, a hold copies it wherever a    *)
(* policy was ever stored, a refund never exceeds the price,               *)
(* and what a cancellation would return is settled by the hold.            *)
(***************************************************************************)
EXTENDS CancellationRefund, TLAPS

-----------------------------------------------------------------------------
(* The policies of a venue                                                 *)

LEMMA InitPolicy == Init => IInv
<1> SUFFICES ASSUME Init PROVE IInv OBVIOUS
<1>0. active \subseteq Policy /\ active \subseteq Seeded BY PolicyAssumption DEF Init
<1>1. Rows = active
  <2>1. ASSUME NEW p \in Policy
        PROVE  version[p] > 0 <=> p \in active
    <3>1. CASE p \in active
      <4>1. version[p] = 1 BY <3>1 DEF Init
      <4>2. QED BY <3>1, <4>1
    <3>2. CASE p \notin active
      <4>1. version[p] = 0 BY <3>2 DEF Init
      <4>2. QED BY <3>2, <4>1
    <3>3. QED BY <3>1, <3>2
  <2>2. QED BY <1>0, <2>1 DEF Rows
<1>2. TypeOK BY <1>0, PolicyAssumption DEF Init, TypeOK
<1>3. ReplacementInv BY <1>0, <1>1 DEF Init, ReplacementInv, Rows
<1>4. NewestInForce BY <1>1 DEF Init, NewestInForce
<1>5. SnapshotInv BY DEF Init, SnapshotInv, CopyApplied
<1>6. QED BY <1>2, <1>3, <1>4, <1>5 DEF IInv

(* A step that leaves the rows alone and keeps the replacements in order.  *)
LEMMA RowsKept ==
  ASSUME IInv, UNCHANGED <<version, active, snapshot, applied>>
  PROVE  /\ Rows' = Rows /\ NewestInForce' /\ SnapshotInv'
BY DEF IInv, Rows, NewestInForce, SnapshotInv, CopyApplied

LEMMA BeginStep ==
  ASSUME IInv, NEW p \in Policy, BeginReplace(p)
  PROVE  IInv'
<1>1. TypeOK /\ ReplacementInv BY DEF IInv
<1>2. /\ step[p] = "idle" /\ step' = [step EXCEPT ![p] = "waiting"]
      /\ aim' = [aim EXCEPT ![p] = active]
      /\ UNCHANGED <<off, next, version, active, snapshot, applied>>
  BY DEF BeginReplace, rowVars, bookingVars
<1>3. Rows' = Rows /\ NewestInForce' /\ SnapshotInv' BY <1>2, RowsKept
<1>4. TypeOK' BY <1>1, <1>2 DEF TypeOK
<1>5. ReplacementInv' BY <1>1, <1>2, <1>3 DEF ReplacementInv, TypeOK
<1>6. QED BY <1>3, <1>4, <1>5 DEF IInv

LEMMA DeactivateStep ==
  ASSUME IInv, NEW p \in Policy, Deactivate(p)
  PROVE  IInv'
<1>1. TypeOK /\ ReplacementInv BY DEF IInv
<1>2. /\ step[p] = "waiting" /\ step' = [step EXCEPT ![p] = "locked"]
      /\ off' = [off EXCEPT ![p] = aim[p] \cap active] /\ aim' = [aim EXCEPT ![p] = {}]
      /\ \A q \in Policy \ {p} : off[q] \cap aim[p] = {}
      /\ UNCHANGED <<next, version, active, snapshot, applied>>
  BY DEF Deactivate, rowVars, bookingVars
<1>3. Rows' = Rows /\ NewestInForce' /\ SnapshotInv' BY <1>2, RowsKept
<1>4. TypeOK' BY <1>1, <1>2 DEF TypeOK
<1>5. ReplacementInv' BY <1>1, <1>2, <1>3 DEF ReplacementInv, TypeOK
<1>6. QED BY <1>3, <1>4, <1>5 DEF IInv

(* The version read is above that of every committed row.                  *)
LEMMA ReadStep ==
  ASSUME IInv, NEW p \in Policy, ReadLatest(p)
  PROVE  IInv'
<1>1. TypeOK /\ ReplacementInv BY DEF IInv
<1>2. PICK v \in {0} \cup {version[q] : q \in Rows} :
        /\ \A q \in Rows : version[q] =< v
        /\ next' = [next EXCEPT ![p] = v + 1]
  BY DEF ReadLatest
<1>3. /\ step[p] = "locked" /\ step' = [step EXCEPT ![p] = "read"]
      /\ UNCHANGED <<aim, off, version, active, snapshot, applied>>
  BY DEF ReadLatest, rowVars, bookingVars
<1>4. v \in Nat BY <1>1, <1>2 DEF TypeOK, Rows
<1>5. Rows' = Rows /\ NewestInForce' /\ SnapshotInv' BY <1>3, RowsKept
<1>6. TypeOK' BY <1>1, <1>2, <1>3, <1>4 DEF TypeOK
<1>7. ReplacementInv'
  <2>1. \A q \in off[p] : version[q] < v + 1
    BY <1>1, <1>2, <1>4 DEF ReplacementInv, TypeOK, Rows
  <2>2. next'[p] = v + 1 /\ v + 1 > 0 BY <1>1, <1>2, <1>4 DEF TypeOK
  <2>3. ASSUME NEW q \in Policy
        PROVE  /\ (version'[q] > 0) => step'[q] = "done"
               /\ off'[q] # {} => step'[q] \in {"locked", "read"}
               /\ off'[q] \subseteq active' /\ aim'[q] \subseteq Rows'
    BY <1>1, <1>3, <1>5 DEF ReplacementInv, TypeOK
  <2>4. ASSUME NEW q \in Policy, step'[q] = "read"
        PROVE  next'[q] > 0 /\ \A r \in off'[q] : version'[r] < next'[q]
    <3>1. CASE q = p BY <1>3, <2>1, <2>2, <3>1
    <3>2. CASE q # p
      <4>1. step[q] = "read" /\ next'[q] = next[q] BY <1>1, <1>2, <1>3, <2>4, <3>2 DEF TypeOK
      <4>2. QED BY <4>1, <1>1, <1>3 DEF ReplacementInv
    <3>3. QED BY <3>1, <3>2
  <2>5. QED BY <1>1, <1>3, <1>5, <2>3, <2>4 DEF ReplacementInv
<1>8. QED BY <1>5, <1>6, <1>7 DEF IInv

LEMMA AbortStep ==
  ASSUME IInv, NEW p \in Policy, AbortReplace(p)
  PROVE  IInv'
<1>1. TypeOK /\ ReplacementInv BY DEF IInv
<1>2. /\ step' = [step EXCEPT ![p] = "done"] /\ off' = [off EXCEPT ![p] = {}]
      /\ aim' = [aim EXCEPT ![p] = {}] /\ next' = [next EXCEPT ![p] = 0]
      /\ UNCHANGED <<version, active, snapshot, applied>>
  BY DEF AbortReplace, rowVars, bookingVars
<1>3. Rows' = Rows /\ NewestInForce' /\ SnapshotInv' BY <1>2, RowsKept
<1>4. TypeOK' BY <1>1, <1>2 DEF TypeOK
<1>5. ReplacementInv' BY <1>1, <1>2, <1>3 DEF ReplacementInv, TypeOK
<1>6. QED BY <1>3, <1>4, <1>5 DEF IInv

(* A commit: the rows it deactivates are older than the row it adds.       *)
LEMMA CommitFacts ==
  ASSUME IInv, NEW p \in Policy, CommitReplace(p)
  PROVE  /\ version[p] = 0 /\ version'[p] = next[p] /\ next[p] > 0
         /\ \A q \in Policy \ {p} : version'[q] = version[q]
         /\ active' = (active \ off[p]) \cup {p}
         /\ \A q \in off[p] : version[q] < next[p]
         /\ Rows' = Rows \cup {p}
<1>1. TypeOK /\ ReplacementInv BY DEF IInv
<1>2. /\ step[p] = "read" /\ version' = [version EXCEPT ![p] = next[p]]
      /\ active' = (active \ off[p]) \cup {p}
  BY DEF CommitReplace
<1>3. version[p] = 0
  <2>1. version[p] \in Nat BY <1>1 DEF TypeOK
  <2>2. ~(version[p] > 0) BY <1>1, <1>2 DEF ReplacementInv
  <2>3. QED BY <2>1, <2>2
<1>4. next[p] > 0 /\ \A q \in off[p] : version[q] < next[p] BY <1>1, <1>2 DEF ReplacementInv
<1>5. version'[p] = next[p] /\ \A q \in Policy \ {p} : version'[q] = version[q]
  BY <1>1, <1>2 DEF TypeOK
<1>6. Rows' = Rows \cup {p} BY <1>4, <1>5 DEF Rows
<1>7. QED BY <1>2, <1>3, <1>4, <1>5, <1>6

LEMMA CommitStep ==
  ASSUME IInv, NEW p \in Policy, CommitReplace(p)
  PROVE  IInv'
<1>1. TypeOK /\ ReplacementInv /\ NewestInForce /\ SnapshotInv BY DEF IInv
<1>2. /\ step[p] = "read" /\ step' = [step EXCEPT ![p] = "done"]
      /\ version' = [version EXCEPT ![p] = next[p]]
      /\ off' = [off EXCEPT ![p] = {}] /\ next' = [next EXCEPT ![p] = 0]
      /\ UNCHANGED <<aim, snapshot, applied>>
  BY DEF CommitReplace, bookingVars
<1>3. /\ version[p] = 0 /\ version'[p] = next[p] /\ next[p] > 0
      /\ \A q \in Policy \ {p} : version'[q] = version[q]
      /\ active' = (active \ off[p]) \cup {p}
      /\ \A q \in off[p] : version[q] < next[p]
      /\ Rows' = Rows \cup {p}
  BY CommitFacts
<1>4. TypeOK' BY <1>1, <1>2, <1>3 DEF TypeOK
<1>5. ReplacementInv'
  <2>1. active' \subseteq Rows' /\ active' # {} BY <1>1, <1>3 DEF ReplacementInv
  <2>2. ASSUME NEW q \in Policy
        PROVE  /\ (version'[q] > 0) => step'[q] = "done"
               /\ off'[q] # {} => step'[q] \in {"locked", "read"}
               /\ off'[q] \subseteq active' /\ aim'[q] \subseteq Rows'
    <3>1. CASE q = p BY <1>1, <1>2, <1>3, <3>1 DEF ReplacementInv, TypeOK
    <3>2. CASE q # p BY <1>1, <1>2, <1>3, <3>2 DEF ReplacementInv, TypeOK
    <3>3. QED BY <3>1, <3>2
  <2>3. ASSUME NEW q \in Policy, step'[q] = "read"
        PROVE  next'[q] > 0 /\ \A r \in off'[q] : version'[r] < next'[q]
    <3>1. q # p /\ step[q] = "read" /\ off'[q] = off[q] BY <1>1, <1>2, <2>3 DEF TypeOK
    <3>2. off[q] \subseteq Rows /\ p \notin Rows BY <1>1, <1>3 DEF ReplacementInv, Rows
    <3>3. \A r \in off[q] : version'[r] = version[r] BY <1>3, <3>2 DEF Rows
    <3>4. QED BY <3>1, <3>3, <1>1, <1>2 DEF ReplacementInv
  <2>4. \A q, r \in Policy : q # r => off'[q] \cap off'[r] = {}
    BY <1>1, <1>2 DEF ReplacementInv, TypeOK
  <2>5. QED BY <2>1, <2>2, <2>3, <2>4 DEF ReplacementInv
<1>6. NewestInForce'
  <2>1. ASSUME NEW r \in Rows', \A q \in Rows' : version'[q] =< version'[r], r # p
        PROVE  r \in active'
    <3>1. r \in Rows /\ p \notin Rows /\ version'[r] = version[r] BY <1>3, <2>1 DEF Rows
    <3>2. \A q \in Rows : version[q] =< version[r] BY <1>3, <2>1, <3>1 DEF Rows
    <3>3. r \in active BY <1>1, <3>1, <3>2 DEF NewestInForce
    <3>4. version'[p] =< version'[r] BY <1>3, <2>1
    <3>5. version[r] \in Nat /\ next[p] \in Nat BY <1>1, <3>1 DEF TypeOK, Rows
    <3>6. r \notin off[p] BY <1>3, <3>1, <3>4, <3>5
    <3>7. QED BY <1>3, <3>3, <3>6
  <2>2. QED BY <1>3, <2>1 DEF NewestInForce
<1>7. SnapshotInv' BY <1>1, <1>2, <1>3 DEF SnapshotInv, CopyApplied
<1>8. QED BY <1>4, <1>5, <1>6, <1>7 DEF IInv

(* Bookings read the rows and leave them alone.                            *)
LEMMA BookingStep ==
  ASSUME IInv, NEW b \in Booking, Hold(b) \/ Cancel(b)
  PROVE  IInv'
<1>1. TypeOK /\ ReplacementInv /\ NewestInForce /\ SnapshotInv BY DEF IInv
<1>2. UNCHANGED <<version, active, step, aim, off, next>>
  BY DEF Hold, Cancel, rowVars, replaceVars
<1>3. ReplacementInv' /\ NewestInForce' /\ Rows' = Rows
  BY <1>1, <1>2 DEF ReplacementInv, NewestInForce, Rows
<1>5. CASE Hold(b)
  <2>1. PICK p \in Policy \cup {NoPolicy} :
          InForce(p) /\ snapshot' = [snapshot EXCEPT ![b] = p]
    BY <1>5 DEF Hold
  <2>2. applied' = applied /\ snapshot[b] = "none" BY <1>5 DEF Hold
  <2>4. TypeOK' BY <1>1, <1>2, <2>1, <2>2 DEF TypeOK
  <2>5. SnapshotInv'
    BY <1>1, <1>3, <2>1, <2>2, PolicyAssumption DEF SnapshotInv, CopyApplied, TypeOK
  <2>6. QED BY <1>3, <2>4, <2>5 DEF IInv
<1>6. CASE Cancel(b)
  <2>1. PICK p \in Policy \cup {NoPolicy} :
          /\ IF snapshot[b] # NoPolicy THEN p = snapshot[b] ELSE InForce(p)
          /\ applied' = [applied EXCEPT ![b] = p]
    BY <1>6 DEF Cancel, Applicable
  <2>2. snapshot' = snapshot /\ snapshot[b] # "none" BY <1>6 DEF Cancel
  <2>3. TypeOK' BY <1>1, <1>2, <2>1, <2>2 DEF TypeOK
  <2>4. SnapshotInv'
    BY <1>1, <1>3, <2>1, <2>2, PolicyAssumption DEF SnapshotInv, CopyApplied, TypeOK
  <2>5. QED BY <1>3, <2>3, <2>4 DEF IInv
<1>7. QED BY <1>5, <1>6

LEMMA NextPolicy == IInv /\ [Next]_vars => IInv'
<1> SUFFICES ASSUME IInv, [Next]_vars PROVE IInv' OBVIOUS
<1>1. ASSUME NEW p \in Policy, Replacement(p) PROVE IInv'
  BY <1>1, BeginStep, DeactivateStep, ReadStep, CommitStep, AbortStep DEF Replacement
<1>2. ASSUME NEW b \in Booking, Hold(b) \/ Cancel(b) PROVE IInv' BY <1>2, BookingStep
<1>3. CASE UNCHANGED vars
  BY <1>3 DEF IInv, vars, rowVars, replaceVars, bookingVars, TypeOK, ReplacementInv,
    NewestInForce, SnapshotInv, CopyApplied, Rows
<1>4. QED BY <1>1, <1>2, <1>3 DEF Next

-----------------------------------------------------------------------------
(* The inductive invariant of the policy rows.                             *)
THEOREM PolicyInvariance == Spec => []IInv
BY InitPolicy, NextPolicy, PTL DEF Spec

(* replaceActivePolicy keeps the rows of the highest version active.       *)
THEOREM NewestStaysInForce == Spec => []NewestInForce
<1>1. IInv => NewestInForce BY DEF IInv
<1>2. QED BY <1>1, PolicyInvariance, PTL

(* No step of a replacement lets an older version come into force.         *)
THEOREM VersionsAdvance == Spec => NoRollback
<1>1. ASSUME IInv, [Next]_vars, NEW p \in Policy, InForce(p)
      PROVE  \E q \in active' : version'[q] >= version[p]
  <2>1. p \in active /\ version[p] \in Nat
    BY <1>1, PolicyAssumption DEF InForce, IInv, TypeOK
  <2>2. CASE UNCHANGED <<version, active>> BY <2>1, <2>2
  <2>3. CASE \E r \in Policy : CommitReplace(r)
    <3>1. PICK r \in Policy : CommitReplace(r) BY <2>3
    <3>2. /\ version'[r] = next[r] /\ active' = (active \ off[r]) \cup {r}
          /\ \A q \in Policy \ {r} : version'[q] = version[q]
          /\ \A q \in off[r] : version[q] < next[r]
          /\ version[r] = 0
      BY <1>1, <3>1, CommitFacts
    <3>3. next[r] \in Nat BY <1>1 DEF IInv, TypeOK
    <3>4. CASE p \in off[r]
      <4>1. version'[r] >= version[p] BY <2>1, <3>2, <3>3, <3>4
      <4>2. QED BY <3>2, <4>1
    <3>5. CASE p \notin off[r]
      <4>1. version[p] > 0 BY <1>1, <2>1 DEF IInv, ReplacementInv, Rows
      <4>2. p # r /\ version'[p] = version[p] BY <3>2, <4>1
      <4>3. p \in active' BY <2>1, <3>2, <3>5
      <4>4. version'[p] >= version[p] BY <2>1, <4>2
      <4>5. QED BY <4>3, <4>4
    <3>6. QED BY <3>4, <3>5
  <2>4. QED BY <1>1, <2>2, <2>3
    DEF Next, Replacement, BeginReplace, Deactivate, ReadLatest, AbortReplace, Hold, Cancel,
        vars, rowVars
<1>2. IInv /\ [Next]_vars =>
        [\A p \in Policy : InForce(p) => \E q \in active' : version'[q] >= version[p]]_vars
  BY <1>1
<1>3. QED BY <1>2, PolicyInvariance, PTL DEF Spec, NoRollback

(* A venue that has stored a policy always has one in force, so each hold  *)
(* copies an active one; and cancelBooking applies the copy, whatever was  *)
(* stored since.                                                           *)
THEOREM PolicyKept == Spec => CopyTaken /\ []CopyApplied
<1>1. ASSUME IInv, [Next]_vars, NEW b \in Booking, Rows # {}, snapshot'[b] # snapshot[b]
      PROVE  snapshot'[b] \in active
  <2>1. active # {} BY <1>1 DEF IInv, ReplacementInv
  <2>2. PICK c \in Booking : Hold(c)
    BY <1>1 DEF Next, Replacement, BeginReplace, Deactivate, ReadLatest, CommitReplace,
         AbortReplace, Cancel, vars, bookingVars
  <2>3. PICK p \in Policy \cup {NoPolicy} :
          InForce(p) /\ snapshot' = [snapshot EXCEPT ![c] = p]
    BY <2>2 DEF Hold
  <2>4. p \in active BY <2>1, <2>3 DEF InForce
  <2>5. snapshot'[b] = p BY <1>1, <2>3 DEF IInv, TypeOK
  <2>6. QED BY <2>4, <2>5
<1>2. IInv /\ [Next]_vars =>
        [\A b \in Booking :
           Rows # {} /\ snapshot'[b] # snapshot[b] => snapshot'[b] \in active]_vars
  BY <1>1
<1>3. IInv => CopyApplied BY DEF IInv, SnapshotInv
<1>4. QED BY <1>2, <1>3, PolicyInvariance, PTL DEF Spec, CopyTaken

-----------------------------------------------------------------------------
(* Facts about the arithmetic                                              *)

LEMMA ShareBound ==
  ASSUME NEW part \in Nat, NEW percent \in 0..100
  PROVE  Share(part, percent) \in Nat /\ Share(part, percent) =< part
<1>1. part * percent \in Nat /\ part * percent =< part * 100 OBVIOUS
<1>2. ASSUME NEW n \in Nat, n =< part * 100 PROVE n \div 100 \in Nat /\ n \div 100 =< part
  BY <1>2
<1>3. QED BY <1>1, <1>2 DEF Share

LEMMA HourlyAmountNat ==
  ASSUME NEW r \in Nat, NEW m \in Nat
  PROVE  HourlyAmount(r, m) \in Nat
<1>1. r * m \in Nat OBVIOUS
<1>2. ASSUME NEW n \in Nat PROVE (n + 30) \div 60 \in Nat OBVIOUS
<1>3. QED BY <1>1, <1>2 DEF HourlyAmount

(* Both parts of a price made of two parts are found again.                *)
LEMMA RefundBound ==
  ASSUME NEW room \in Nat, NEW gear \in Nat, NEW t \in Terms
  PROVE  /\ RefundAmount(room + gear, room, t) \in Nat
         /\ RefundAmount(room + gear, room, t) =< room + gear
<1>1. EquipmentPart(room + gear, room) = gear BY DEF EquipmentPart
<1>2. t.roomPercent \in 0..100 /\ t.equipmentPercent \in 0..100 BY DEF Terms
<1>3. /\ Share(room, t.roomPercent) \in Nat /\ Share(room, t.roomPercent) =< room
      /\ Share(gear, t.equipmentPercent) \in Nat /\ Share(gear, t.equipmentPercent) =< gear
  BY <1>2, ShareBound
<1>4. QED BY <1>1, <1>3 DEF RefundAmount

(* Whatever the moment, the policy and its tiers, there are terms.         *)
LEMMA TermsAlways ==
  ASSUME NEW p \in Policy \cup {NoPolicy}, NEW left \in Int
  PROVE  TermsUnder(p, left) \in Terms
<1>1. TiersOf \in [Policy -> [Tier -> Terms]] BY RefundAssumption DEF PolicyTiers
<1>2. TierOf(left) \in Tier BY DEF TierOf, Tier
<1>3. DefaultTerms(left) \in Terms
  <2>1. 0 \in 0..100 /\ 50 \in 0..100 /\ 100 \in 0..100 OBVIOUS
  <2>2. QED BY <2>1 DEF DefaultTerms, Terms
<1>4. QED BY <1>1, <1>2, <1>3 DEF TermsUnder

-----------------------------------------------------------------------------
(* The money around the policies leaves them as PolicyVersions has them.   *)
THEOREM RefinesVersions == RefundSpec => Spec
<1>1. RefundInit => Init BY DEF RefundInit
<1>2. [RefundNext]_refundVars => [Next]_vars
  BY DEF RefundNext, Pass, EditRate, HoldPriced, CancelRefunded, Next, refundVars
<1>3. QED BY <1>1, <1>2, PTL DEF RefundSpec, Spec

LEMMA RefundInitial == RefundInit => RefundInv
<1> SUFFICES ASSUME RefundInit PROVE RefundInv OBVIOUS
<1>1. /\ rate \in Nat /\ now \in Nat
      /\ heldRate = [b \in Booking |-> 0] /\ price = [b \in Booking |-> 0]
      /\ refund = [b \in Booking |-> 0]
      /\ \A b \in Booking : snapshot[b] = "none"
  BY RefundAssumption DEF RefundInit, Init
<1>2. MoneyOK BY <1>1 DEF MoneyOK
<1>3. PriceInv BY <1>1 DEF PriceInv
<1>4. RefundWithinPrice BY <1>1 DEF RefundWithinPrice
<1>5. QED BY <1>2, <1>3, <1>4 DEF RefundInv

LEMMA HoldMoney ==
  ASSUME IInv, RefundInv, NEW b \in Booking, HoldPriced(b)
  PROVE  RefundInv'
<1>1. MoneyOK /\ PriceInv /\ RefundWithinPrice BY DEF RefundInv
<1>2. TypeOK /\ SnapshotInv BY DEF IInv
<1>3. PICK p \in Policy \cup {NoPolicy} : snapshot' = [snapshot EXCEPT ![b] = p]
  BY DEF HoldPriced, Hold
<1>4. /\ snapshot[b] = "none" /\ applied' = applied
      /\ heldRate' = [heldRate EXCEPT ![b] = rate]
      /\ price' = [price EXCEPT ![b] = HourlyAmount(rate, Duration[b])
                                       + HourlyAmount(Gear[b], Duration[b])]
      /\ rate' = rate /\ now' = now /\ refund' = refund
  BY DEF HoldPriced, Hold
<1>5. /\ HourlyAmount(rate, Duration[b]) \in Nat
      /\ HourlyAmount(Gear[b], Duration[b]) \in Nat
  BY <1>1, HourlyAmountNat, RefundAssumption DEF MoneyOK
<1>6. applied[b] = "none" /\ refund[b] = 0
  BY <1>1, <1>2, <1>4 DEF SnapshotInv, PriceInv
<1>7. MoneyOK' BY <1>1, <1>4, <1>5 DEF MoneyOK
<1>8. PriceInv'
  <2>1. ASSUME NEW c \in Booking, c # b
        PROVE  /\ applied'[c] = "none" => refund'[c] = 0
               /\ snapshot'[c] # "none" => price'[c] = RoomPart(c)' + HourlyAmount(Gear[c], Duration[c])
    BY <1>1, <1>2, <1>3, <1>4, <2>1 DEF PriceInv, RoomPart, MoneyOK, TypeOK
  <2>2. refund'[b] = 0 BY <1>4, <1>6
  <2>3. price'[b] = RoomPart(b)' + HourlyAmount(Gear[b], Duration[b])
    BY <1>1, <1>4 DEF RoomPart, MoneyOK
  <2>4. QED BY <2>1, <2>2, <2>3 DEF PriceInv
<1>9. RefundWithinPrice'
  <2>1. ASSUME NEW c \in Booking, c # b PROVE refund'[c] =< price'[c]
    BY <1>1, <1>4, <2>1 DEF RefundWithinPrice, MoneyOK
  <2>2. refund'[b] = 0 /\ price'[b] \in Nat BY <1>4, <1>6, <1>7 DEF MoneyOK
  <2>3. QED BY <2>1, <2>2 DEF RefundWithinPrice
<1>10. QED BY <1>7, <1>8, <1>9 DEF RefundInv

LEMMA CancelMoney ==
  ASSUME IInv, RefundInv, NEW b \in Booking, CancelRefunded(b)
  PROVE  RefundInv'
<1>1. MoneyOK /\ PriceInv /\ RefundWithinPrice BY DEF RefundInv
<1>2. TypeOK BY DEF IInv
<1>3. PICK p \in Policy \cup {NoPolicy} : applied' = [applied EXCEPT ![b] = p]
  BY DEF CancelRefunded, Cancel, Applicable
<1>4. /\ snapshot[b] # "none" /\ snapshot' = snapshot
      /\ refund' = [refund EXCEPT ![b] = Offer(b, applied'[b])]
      /\ rate' = rate /\ now' = now /\ heldRate' = heldRate /\ price' = price
  BY DEF CancelRefunded, Cancel
<1>5. applied'[b] = p BY <1>2, <1>3 DEF TypeOK
<1>6. Offer(b, p) \in Nat /\ Offer(b, p) =< price[b]
  <2>1. StartOf[b] - now \in Int BY <1>1, RefundAssumption DEF MoneyOK
  <2>2. TermsUnder(p, StartOf[b] - now) \in Terms BY <2>1, TermsAlways
  <2>3. RoomPart(b) \in Nat /\ HourlyAmount(Gear[b], Duration[b]) \in Nat
    BY <1>1, HourlyAmountNat, RefundAssumption DEF RoomPart, MoneyOK
  <2>4. price[b] = RoomPart(b) + HourlyAmount(Gear[b], Duration[b])
    BY <1>1, <1>4 DEF PriceInv
  <2>5. QED BY <2>2, <2>3, <2>4, RefundBound DEF Offer
<1>7. MoneyOK' BY <1>1, <1>4, <1>5, <1>6 DEF MoneyOK
<1>8. PriceInv'
  <2>1. ASSUME NEW c \in Booking PROVE applied'[c] = "none" => refund'[c] = 0
    BY <1>1, <1>2, <1>3, <1>4, <1>5, PolicyAssumption DEF PriceInv, MoneyOK, TypeOK
  <2>2. ASSUME NEW c \in Booking, snapshot'[c] # "none"
        PROVE  price'[c] = RoomPart(c)' + HourlyAmount(Gear[c], Duration[c])
    BY <1>1, <1>4, <2>2 DEF PriceInv, RoomPart
  <2>3. QED BY <2>1, <2>2 DEF PriceInv
<1>9. RefundWithinPrice'
  BY <1>1, <1>4, <1>5, <1>6 DEF RefundWithinPrice, MoneyOK
<1>10. QED BY <1>7, <1>8, <1>9 DEF RefundInv

LEMMA RefundStep == IInv /\ RefundInv /\ [RefundNext]_refundVars => RefundInv'
<1> SUFFICES ASSUME IInv, RefundInv, [RefundNext]_refundVars PROVE RefundInv' OBVIOUS
<1>1. MoneyOK /\ PriceInv /\ RefundWithinPrice BY DEF RefundInv
<1>2. ASSUME UNCHANGED <<snapshot, applied, heldRate, price, refund>>, rate' \in Nat, now' \in Nat
      PROVE  RefundInv'
  BY <1>1, <1>2 DEF RefundInv, MoneyOK, PriceInv, RefundWithinPrice, RoomPart
<1>3. CASE Pass BY <1>1, <1>2, <1>3, RefundAssumption DEF Pass, MoneyOK, vars, bookingVars
<1>4. ASSUME NEW r \in Rates, EditRate(r) PROVE RefundInv'
  BY <1>1, <1>2, <1>4, RefundAssumption DEF EditRate, MoneyOK, vars, bookingVars
<1>5. ASSUME NEW p \in Policy, Replacement(p), UNCHANGED moneyVars PROVE RefundInv'
  <2>1. UNCHANGED <<snapshot, applied>>
    BY <1>5 DEF Replacement, BeginReplace, Deactivate, ReadLatest, CommitReplace,
         AbortReplace, bookingVars
  <2>2. QED BY <1>1, <1>2, <1>5, <2>1 DEF moneyVars, MoneyOK
<1>6. ASSUME NEW b \in Booking, HoldPriced(b) PROVE RefundInv' BY <1>6, HoldMoney
<1>7. ASSUME NEW b \in Booking, CancelRefunded(b) PROVE RefundInv' BY <1>7, CancelMoney
<1>8. CASE UNCHANGED refundVars
  BY <1>1, <1>2, <1>8 DEF refundVars, moneyVars, MoneyOK, vars, bookingVars
<1>9. QED BY <1>3, <1>4, <1>5, <1>6, <1>7, <1>8 DEF RefundNext

(* Prices keep their two parts and no refund exceeds its price.            *)
THEOREM RefundInvariance == RefundSpec => []RefundInv
<1>1. RefundSpec => []IInv BY RefinesVersions, PolicyInvariance, PTL
<1>2. QED BY <1>1, RefundInitial, RefundStep, PTL DEF RefundSpec

(* cancelBooking never returns more than the booking cost.                 *)
THEOREM RefundBounded == RefundSpec => []RefundWithinPrice
<1>1. RefundInv => RefundWithinPrice BY DEF RefundInv
<1>2. QED BY <1>1, RefundInvariance, PTL

(* On full terms no unit is lost to rounding.                              *)
THEOREM FullRefund == RefundSpec => []FullTermsReturnAll
<1>1. ASSUME RefundInv, NEW b \in Booking, snapshot[b] # "none"
      PROVE  RefundAmount(price[b], RoomPart(b), [roomPercent |-> 100, equipmentPercent |-> 100])
               = price[b]
  <2> DEFINE gear == HourlyAmount(Gear[b], Duration[b])
  <2>1. RoomPart(b) \in Nat /\ gear \in Nat
    BY <1>1, HourlyAmountNat, RefundAssumption DEF RefundInv, MoneyOK, RoomPart
  <2>2. price[b] = RoomPart(b) + gear BY <1>1 DEF RefundInv, PriceInv
  <2> HIDE DEF gear
  <2>3. EquipmentPart(price[b], RoomPart(b)) = gear BY <2>1, <2>2 DEF EquipmentPart
  <2>4. \A part \in Nat : Share(part, 100) = part BY DEF Share
  <2>5. QED BY <2>1, <2>2, <2>3, <2>4 DEF RefundAmount
<1>2. RefundInv => FullTermsReturnAll BY <1>1 DEF FullTermsReturnAll
<1>3. QED BY <1>2, RefundInvariance, PTL

(* A held booking keeps its copy of the policy, its rate and its price.    *)
LEMMA HeldStays ==
  ASSUME IInv, RefundInv, [RefundNext]_refundVars, NEW b \in Booking, snapshot[b] # "none"
  PROVE  snapshot'[b] = snapshot[b] /\ heldRate'[b] = heldRate[b] /\ price'[b] = price[b]
<1>1. TypeOK /\ MoneyOK BY DEF IInv, RefundInv
<1>2. CASE UNCHANGED <<snapshot, heldRate, price>> BY <1>2
<1>3. ASSUME NEW c \in Booking, HoldPriced(c)
      PROVE  snapshot'[b] = snapshot[b] /\ heldRate'[b] = heldRate[b] /\ price'[b] = price[b]
  <2>1. c # b BY <1>3 DEF HoldPriced, Hold
  <2>2. QED BY <1>1, <1>3, <2>1 DEF HoldPriced, Hold, TypeOK, MoneyOK
<1>4. ASSUME NEW p \in Policy, Replacement(p), UNCHANGED moneyVars
      PROVE  UNCHANGED <<snapshot, heldRate, price>>
  BY <1>4 DEF Replacement, BeginReplace, Deactivate, ReadLatest, CommitReplace,
       AbortReplace, bookingVars, moneyVars
<1>5. QED BY <1>2, <1>3, <1>4 DEF RefundNext, Pass, EditRate, CancelRefunded, Cancel,
       refundVars, moneyVars, vars, bookingVars

(* Policies replaced and rates edited after the hold change nothing of     *)
(* what cancelBooking would return.                                        *)
THEOREM OfferSettled == RefundSpec => OfferStands
<1> DEFINE Offers(b) == {Offer(b, p) : p \in Applicable(b)}
<1>1. ASSUME IInv, RefundInv, [RefundNext]_refundVars, now' = now,
             NEW b \in Booking, snapshot[b] # "none",
             snapshot[b] # NoPolicy \/ UNCHANGED rowVars
      PROVE  Offers(b)' = Offers(b)
  <2>1. snapshot'[b] = snapshot[b] /\ heldRate'[b] = heldRate[b] /\ price'[b] = price[b]
    BY <1>1, HeldStays
  <2>2. Applicable(b)' = Applicable(b)
    <3>1. CASE snapshot[b] # NoPolicy
      <4>1. \A p : p \in Applicable(b)' <=> p \in Policy \cup {NoPolicy} /\ p = snapshot[b]
        BY <2>1, <3>1 DEF Applicable
      <4>2. \A p : p \in Applicable(b) <=> p \in Policy \cup {NoPolicy} /\ p = snapshot[b]
        BY <3>1 DEF Applicable
      <4>3. QED BY <4>1, <4>2
    <3>2. CASE UNCHANGED rowVars
      BY <2>1, <3>2 DEF Applicable, InForce, rowVars
    <3>3. QED BY <1>1, <3>1, <3>2
  <2>3. ASSUME NEW p PROVE Offer(b, p)' = Offer(b, p)
    BY <1>1, <2>1 DEF Offer, RoomPart
  <2>4. QED BY <2>2, <2>3
<1>2. ASSUME IInv, RefundInv, [RefundNext]_refundVars
      PROVE  [now' = now =>
                \A b \in Booking :
                  snapshot[b] # "none" /\ (snapshot[b] # NoPolicy \/ UNCHANGED rowVars) =>
                    Offers(b)' = Offers(b)]_refundVars
  BY <1>1, <1>2
<1>3. RefundSpec => []IInv BY RefinesVersions, PolicyInvariance, PTL
<1>4. QED BY <1>2, <1>3, RefundInvariance, PTL DEF RefundSpec, OfferStands
-----------------------------------------------------------------------------
(* Waiting                                                                 *)

LEMMA ShareGrows ==
  ASSUME NEW part \in Nat, NEW a \in 0..100, NEW c \in 0..100, a =< c
  PROVE  Share(part, a) =< Share(part, c)
<1>1. part * a \in Nat /\ part * c \in Nat /\ part * a =< part * c OBVIOUS
<1>2. ASSUME NEW m \in Nat, NEW n \in Nat, m =< n PROVE m \div 100 =< n \div 100 BY <1>2
<1>3. QED BY <1>1, <1>2 DEF Share

(* As time passes the terms of a declining policy only get worse.          *)
LEMMA TermsDecline ==
  ASSUME NEW p \in Policy \cup {NoPolicy}, Declining(p),
         NEW early \in Int, NEW late \in Int, late =< early
  PROVE  /\ TermsUnder(p, late).roomPercent =< TermsUnder(p, early).roomPercent
         /\ TermsUnder(p, late).equipmentPercent =< TermsUnder(p, early).equipmentPercent
<1>1. CASE p = NoPolicy
  <2>1. /\ DefaultTerms(late).roomPercent =< DefaultTerms(early).roomPercent
        /\ DefaultTerms(late).equipmentPercent =< DefaultTerms(early).equipmentPercent
    BY DEF DefaultTerms, Hours
  <2>2. QED BY <1>1, <2>1 DEF TermsUnder
<1>2. CASE p # NoPolicy
  <2> DEFINE t(tier) == TiersOf[p][tier]
  <2>1. \A tier \in Tier : t(tier).roomPercent \in 0..100 /\ t(tier).equipmentPercent \in 0..100
    BY <1>2, RefundAssumption DEF PolicyTiers, Terms
  <2>2. /\ t("lessThan24").roomPercent =< t("between24And48").roomPercent
        /\ t("between24And48").roomPercent =< t("moreThan48").roomPercent
        /\ t("lessThan24").equipmentPercent =< t("between24And48").equipmentPercent
        /\ t("between24And48").equipmentPercent =< t("moreThan48").equipmentPercent
    BY <1>2 DEF Declining
  <2>3. TermsUnder(p, late) = t(TierOf(late)) /\ TermsUnder(p, early) = t(TierOf(early))
    BY <1>2 DEF TermsUnder
  <2>4. /\ TierOf(late) = TierOf(early) \/ TierOf(late) = "lessThan24"
             \/ TierOf(early) = "moreThan48"
        /\ {TierOf(late), TierOf(early)} \subseteq Tier
    BY DEF TierOf, Hours, Tier
  <2>5. \A tier \in Tier :
          /\ t("lessThan24").roomPercent =< t(tier).roomPercent
          /\ t(tier).roomPercent =< t("moreThan48").roomPercent
          /\ t("lessThan24").equipmentPercent =< t(tier).equipmentPercent
          /\ t(tier).equipmentPercent =< t("moreThan48").equipmentPercent
    <3> HIDE DEF t
    <3>1. /\ t("lessThan24").roomPercent \in Nat /\ t("lessThan24").equipmentPercent \in Nat
          /\ t("between24And48").roomPercent \in Nat
          /\ t("between24And48").equipmentPercent \in Nat
          /\ t("moreThan48").roomPercent \in Nat /\ t("moreThan48").equipmentPercent \in Nat
      BY <2>1 DEF Tier
    <3>2. ASSUME NEW tier \in Tier
          PROVE  tier = "lessThan24" \/ tier = "between24And48" \/ tier = "moreThan48"
      BY DEF Tier
    <3>3. QED BY <2>2, <3>1, <3>2
  <2> HIDE DEF t
  <2>6. QED BY <2>1, <2>3, <2>4, <2>5
<1>3. QED BY <1>1, <1>2

(* Under such a policy, cancelling later never returns more.               *)
THEOREM WaitingIsUseless == RefundSpec => WaitingNeverPays
<1>1. ASSUME IInv, RefundInv, [RefundNext]_refundVars,
             NEW b \in Booking, NEW p \in Policy \cup {NoPolicy},
             snapshot[b] # "none", Declining(p)
      PROVE  Offer(b, p)' =< Offer(b, p)
  <2> DEFINE gear == HourlyAmount(Gear[b], Duration[b])
             room == RoomPart(b)
             early == StartOf[b] - now
             late == StartOf[b] - now'
  <2>1. room \in Nat /\ gear \in Nat
    BY <1>1, HourlyAmountNat, RefundAssumption DEF RefundInv, MoneyOK, RoomPart
  <2>2. EquipmentPart(price[b], room) = gear
    BY <1>1, <2>1 DEF RefundInv, PriceInv, EquipmentPart
  <2>3. price'[b] = price[b] /\ RoomPart(b)' = room
    BY <1>1, HeldStays DEF RoomPart
  <2>4. now \in Nat /\ now' \in Nat /\ now =< now'
    <3>1. now \in Nat BY <1>1 DEF RefundInv, MoneyOK
    <3>2. now' = now \/ (now' \in Moments /\ now' > now)
      BY <1>1 DEF RefundNext, Pass, EditRate, HoldPriced, CancelRefunded, refundVars, moneyVars
    <3>3. \A x \in Moments : x \in Nat BY RefundAssumption
    <3> HIDE DEF early, late, gear, room
    <3>4. QED BY <3>1, <3>2, <3>3
  <2>5. early \in Int /\ late \in Int /\ late =< early BY <2>4, RefundAssumption
  <2>6. TermsUnder(p, early) \in Terms /\ TermsUnder(p, late) \in Terms
    BY <2>5, TermsAlways
  <2>7. /\ TermsUnder(p, late).roomPercent =< TermsUnder(p, early).roomPercent
        /\ TermsUnder(p, late).equipmentPercent =< TermsUnder(p, early).equipmentPercent
    BY <1>1, <2>5, TermsDecline
  <2>8. /\ Offer(b, p) = RefundAmount(price[b], room, TermsUnder(p, early))
        /\ Offer(b, p)' = RefundAmount(price[b], room, TermsUnder(p, late))
    BY <2>3 DEF Offer
  <2> HIDE DEF gear, room, early, late
  <2>9. \A t \in Terms :
          /\ RefundAmount(price[b], room, t)
               = Share(room, t.roomPercent) + Share(gear, t.equipmentPercent)
          /\ Share(room, t.roomPercent) \in Nat /\ Share(gear, t.equipmentPercent) \in Nat
          /\ t.roomPercent \in 0..100 /\ t.equipmentPercent \in 0..100
    BY <2>1, <2>2, ShareBound DEF RefundAmount, Terms
  <2>10. /\ Share(room, TermsUnder(p, late).roomPercent)
              =< Share(room, TermsUnder(p, early).roomPercent)
         /\ Share(gear, TermsUnder(p, late).equipmentPercent)
              =< Share(gear, TermsUnder(p, early).equipmentPercent)
    BY <2>1, <2>6, <2>7, <2>9, ShareGrows
  <2>11. QED BY <2>6, <2>8, <2>9, <2>10
<1>2. ASSUME IInv, RefundInv, [RefundNext]_refundVars
      PROVE  [\A b \in Booking, p \in Policy \cup {NoPolicy} :
                snapshot[b] # "none" /\ Declining(p) => Offer(b, p)' =< Offer(b, p)]_refundVars
  BY <1>1, <1>2
<1>3. RefundSpec => []IInv BY RefinesVersions, PolicyInvariance, PTL
<1>4. QED BY <1>2, <1>3, RefundInvariance, PTL DEF RefundSpec, WaitingNeverPays
=============================================================================
