----------------------------- MODULE RefundTerms -----------------------------
(***************************************************************************)
(* What a booking costs and what a cancellation returns, in minor units.   *)
(* A policy is a function from tiers to terms; a flat policy has the same  *)
(* terms in each.  Percents are whole here; the API takes any number from  *)
(* 0 to 100.                                                               *)
(***************************************************************************)
EXTENDS Integers

Tier == {"moreThan48", "between24And48", "lessThan24"}
Terms == [roomPercent : 0..100, equipmentPercent : 0..100]
PolicyTiers == [Tier -> Terms]

Hours(h) == h * 60

(* Mutant: the tiers of 24 and 48 hours are mixed up.                      *)
TierSwapped(left) == IF left > Hours(48) THEN "moreThan48"
                     ELSE IF left >= Hours(24) THEN "lessThan24" ELSE "between24And48"

(* left: minutes until the slot starts, negative once it has.              *)
TierOf(left) == IF left > Hours(48) THEN "moreThan48"
                ELSE IF left >= Hours(24) THEN "between24And48" ELSE "lessThan24"

(* Terms of a venue without a policy.                                      *)
DefaultTerms(left) ==
  [roomPercent |-> IF left > Hours(48) THEN 100 ELSE IF left >= Hours(24) THEN 50 ELSE 0,
   equipmentPercent |-> IF left > Hours(2) THEN 100 ELSE 0]

(* Math.round(rate * minutes / 60): halves are rounded up.                 *)
HourlyAmount(rate, minutes) == (rate * minutes + 30) \div 60

EquipmentPart(price, room) == IF price >= room THEN price - room ELSE 0

Share(part, percent) == (part * percent) \div 100

RefundAmount(price, room, terms) ==
  Share(room, terms.roomPercent) + Share(EquipmentPart(price, room), terms.equipmentPercent)
=============================================================================
