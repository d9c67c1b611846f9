--------------------------- MODULE PolicyVersions ---------------------------
(***************************************************************************)
(* Versions of one venue's cancellation policy, replaced by its admins,    *)
(* copied by holds and applied by cancellations.                           *)
(*                                                                         *)
(* replaceActivePolicy is a READ COMMITTED transaction of three            *)
(* statements.  The first deactivates the rows it sees active; it waits    *)
(* for rows another replacement has locked and then looks at them again,   *)
(* but never at rows inserted meanwhile.  The second reads the highest     *)
(* version of the moment, without a lock.                                  *)
(***************************************************************************)
EXTENDS Naturals

CONSTANTS Policy,     \* policy rows, each written by one replacement
          Seeded,     \* the row of a venue the seed gave a policy
          Booking,
          NoPolicy    \* the empty snapshot, and no policy at all

ASSUME PolicyAssumption ==
  /\ Seeded \subseteq Policy /\ \A p, q \in Seeded : p = q
  /\ NoPolicy \notin Policy /\ "none" \notin Policy /\ NoPolicy # "none"

VARIABLES
  version,    \* version of each committed row, 0 before its commit
  active,     \* the committed rows with active = true
  step,       \* progress of each replacement
  aim,        \* rows its updateMany saw active, while it waits for them
  off,        \* rows it has deactivated and keeps locked until it ends
  next,       \* the version it will write
  snapshot,   \* policy_snapshot of each booking, "none" before the hold
  applied     \* the policy each cancellation applied, "none" before it

rowVars == <<version, active>>
replaceVars == <<step, aim, off, next>>
bookingVars == <<snapshot, applied>>
vars == <<rowVars, replaceVars, bookingVars>>

Rows == {p \in Policy : version[p] > 0}

TypeOK ==
  /\ version \in [Policy -> Nat] /\ active \subseteq Policy
  /\ step \in [Policy -> {"idle", "waiting", "locked", "read", "done"}]
  /\ aim \in [Policy -> SUBSET Policy] /\ off \in [Policy -> SUBSET Policy]
  /\ next \in [Policy -> Nat]
  /\ snapshot \in [Booking -> Policy \cup {NoPolicy, "none"}]
  /\ applied \in [Booking -> Policy \cup {NoPolicy, "none"}]

(* A venue of the seed, with its policy, or one an administrator of the    *)
(* platform created, without any.                                          *)
Init ==
  /\ active \in {{}, Seeded}
  /\ version = [p \in Policy |-> IF p \in active THEN 1 ELSE 0]
  /\ step = [p \in Policy |-> IF p \in Seeded THEN "done" ELSE "idle"]
  /\ aim = [p \in Policy |-> {}] /\ off = [p \in Policy |-> {}]
  /\ next = [p \in Policy |-> 0]
  /\ snapshot = [b \in Booking |-> "none"]
  /\ applied = [b \in Booking |-> "none"]

-----------------------------------------------------------------------------
(* Replacement                                                             *)

(* updateMany takes its statement snapshot.                                *)
BeginReplace(p) ==
  /\ step[p] = "idle"
  /\ step' = [step EXCEPT ![p] = "waiting"]
  /\ aim' = [aim EXCEPT ![p] = active]
  /\ UNCHANGED <<off, next, rowVars, bookingVars>>

(* Mutant: the deactivation is committed before the new row is there.      *)
DeactivateNow(p) ==
  /\ step[p] = "waiting"
  /\ step' = [step EXCEPT ![p] = "locked"]
  /\ active' = active \ aim[p]
  /\ UNCHANGED <<aim, off, next, version, bookingVars>>

(* Once nobody else has them locked, those still active are deactivated.   *)
Deactivate(p) ==
  /\ step[p] = "waiting"
  /\ \A q \in Policy \ {p} : off[q] \cap aim[p] = {}
  /\ step' = [step EXCEPT ![p] = "locked"]
  /\ off' = [off EXCEPT ![p] = aim[p] \cap active]
  /\ aim' = [aim EXCEPT ![p] = {}]
  /\ UNCHANGED <<next, rowVars, bookingVars>>

(* Mutant: versions start again from what was deactivated.                 *)
ReadLatestActive(p) ==
  /\ step[p] = "locked"
  /\ \E v \in {0} \cup {version[q] : q \in active \ off[p]} :
       /\ \A q \in active \ off[p] : version[q] =< v
       /\ next' = [next EXCEPT ![p] = v + 1]
  /\ step' = [step EXCEPT ![p] = "read"]
  /\ UNCHANGED <<aim, off, rowVars, bookingVars>>

(* findFirst orderBy version desc, active or not; 0 without a row.         *)
ReadLatest(p) ==
  /\ step[p] = "locked"
  /\ \E v \in {0} \cup {version[q] : q \in Rows} :
       /\ \A q \in Rows : version[q] =< v
       /\ next' = [next EXCEPT ![p] = v + 1]
  /\ step' = [step EXCEPT ![p] = "read"]
  /\ UNCHANGED <<aim, off, rowVars, bookingVars>>

CommitReplace(p) ==
  /\ step[p] = "read"
  /\ version' = [version EXCEPT ![p] = next[p]]
  /\ active' = (active \ off[p]) \cup {p}
  /\ step' = [step EXCEPT ![p] = "done"]
  /\ off' = [off EXCEPT ![p] = {}]
  /\ next' = [next EXCEPT ![p] = 0]
  /\ UNCHANGED <<aim, bookingVars>>

(* A crash or a timeout rolls the transaction back.                        *)
AbortReplace(p) ==
  /\ step[p] \in {"waiting", "locked", "read"}
  /\ step' = [step EXCEPT ![p] = "done"]
  /\ aim' = [aim EXCEPT ![p] = {}] /\ off' = [off EXCEPT ![p] = {}]
  /\ next' = [next EXCEPT ![p] = 0]
  /\ UNCHANGED <<rowVars, bookingVars>>

-----------------------------------------------------------------------------
(* Use                                                                     *)

(* findFirst where active orderBy version desc: among equal versions the   *)
(* database returns either.                                                *)
InForce(p) == \/ p \in active /\ \A q \in active : version[q] =< version[p]
              \/ p = NoPolicy /\ active = {}

(* createBookingHold copies the policy in force, or {} without one.        *)
Hold(b) ==
  /\ snapshot[b] = "none"
  /\ \E p \in Policy \cup {NoPolicy} :
       InForce(p) /\ snapshot' = [snapshot EXCEPT ![b] = p]
  /\ UNCHANGED <<applied, rowVars, replaceVars>>

(* Mutant: the current policy comes before the snapshot.                   *)
ApplicableNow(b) == {p \in Policy \cup {NoPolicy} : InForce(p)}

(* snapshot.tiers ?? policy?.tiers ?? {}: the default terms apply only     *)
(* when there is neither.                                                  *)
Applicable(b) == {p \in Policy \cup {NoPolicy} :
                    IF snapshot[b] # NoPolicy THEN p = snapshot[b] ELSE InForce(p)}

Cancel(b) ==
  /\ snapshot[b] # "none" /\ applied[b] = "none"
  /\ \E p \in Applicable(b) : applied' = [applied EXCEPT ![b] = p]
  /\ UNCHANGED <<snapshot, rowVars, replaceVars>>

Replacement(p) == \/ BeginReplace(p) \/ Deactivate(p) \/ ReadLatest(p)
                  \/ CommitReplace(p) \/ AbortReplace(p)

Next == \/ \E p \in Policy : Replacement(p)
        \/ \E b \in Booking : Hold(b) \/ Cancel(b)

Spec == Init /\ [][Next]_vars
-----------------------------------------------------------------------------
(* Properties                                                              *)

(* However replacements overlap or abort, the rows of the highest version  *)
(* are in force: getActivePolicy never falls back to an older version, nor *)
(* to the defaults once a policy was stored.                               *)
NewestInForce ==
  \A p \in Rows : (\A q \in Rows : version[q] =< version[p]) => p \in active

(* The version in force never goes back, from one commit to the next.      *)
NoRollback ==
  [][\A p \in Policy : InForce(p) =>
       \E q \in active' : version'[q] >= version[p]]_vars

(* Once a venue has stored a policy, each hold copies an active one: there *)
(* is no moment, in the middle of a replacement or after one that failed,  *)
(* at which a hold finds none and leaves its terms to later policies.      *)
CopyTaken ==
  [][\A b \in Booking :
       Rows # {} /\ snapshot'[b] # snapshot[b] => snapshot'[b] \in active]_vars

(* A cancellation applies the policy the hold has copied.                  *)
CopyApplied ==
  \A b \in Booking : applied[b] = "none" \/ snapshot[b] \in {NoPolicy, applied[b]}

-----------------------------------------------------------------------------
(* The inductive invariant                                                 *)

(* A replacement deactivates rows that are active, locked by nobody else,  *)
(* and older than the version it is going to write.                        *)
ReplacementInv ==
  /\ active \subseteq Rows /\ (Rows # {} => active # {})
  /\ \A p \in Policy :
       /\ (version[p] > 0) => step[p] = "done"
       /\ off[p] # {} => step[p] \in {"locked", "read"}
       /\ off[p] \subseteq active /\ aim[p] \subseteq Rows
       /\ step[p] = "read" => next[p] > 0 /\ \A q \in off[p] : version[q] < next[p]
  /\ \A p, q \in Policy : p # q => off[p] \cap off[q] = {}

SnapshotInv == CopyApplied /\ \A b \in Booking : snapshot[b] = "none" => applied[b] = "none"

IInv == TypeOK /\ ReplacementInv /\ NewestInForce /\ SnapshotInv
=============================================================================
