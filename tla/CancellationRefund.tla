------------------------- MODULE CancellationRefund -------------------------
(***************************************************************************)
(* Bookings of one room priced at their hold and refunded when they are    *)
(* cancelled, while admins replace the venue's policy (PolicyVersions) and *)
(* edit the room's rate, and the start of the slot comes closer.  A hold   *)
(* keeps the rate and the policy it was made under.                        *)
(***************************************************************************)
EXTENDS PolicyVersions, RefundTerms

CONSTANTS TiersOf,     \* the tiers each policy row stores
          Rates,       \* hourly rates the room may be given
          Moments,     \* instants at which something may happen, in minutes
          StartOf,     \* start of each booking's slot
          Duration,    \* and its length
          Gear         \* hourly rate of its equipment, times the quantity

ASSUME RefundAssumption ==
  /\ TiersOf \in [Policy -> PolicyTiers]
  /\ Rates \subseteq Nat /\ Moments \subseteq Nat
  /\ StartOf \in [Booking -> Nat]
  /\ Duration \in [Booking -> Nat] /\ Gear \in [Booking -> Nat]

VARIABLES
  rate,       \* rooms.hourly_rate_minor
  now,
  heldRate,   \* roomRateMinor in the pricing snapshot of each booking
  price,      \* amount_minor of each booking
  refund      \* what its cancellation granted, 0 before it

moneyVars == <<rate, now, heldRate, price, refund>>
refundVars == <<vars, moneyVars>>

RefundInit ==
  /\ Init
  /\ rate \in Rates /\ now \in Moments
  /\ heldRate = [b \in Booking |-> 0]
  /\ price = [b \in Booking |-> 0]
  /\ refund = [b \in Booking |-> 0]

-----------------------------------------------------------------------------
Pass == /\ \E t \in Moments : t > now /\ now' = t
        /\ UNCHANGED <<vars, rate, heldRate, price, refund>>

(* updateRoom: bookings keep their rate.                                   *)
EditRate(r) == /\ rate' = r
               /\ UNCHANGED <<vars, now, heldRate, price, refund>>

HoldPriced(b) ==
  /\ now < StartOf[b]
  /\ Hold(b)
  /\ heldRate' = [heldRate EXCEPT ![b] = rate]
  /\ price' = [price EXCEPT ![b] = HourlyAmount(rate, Duration[b])
                                   + HourlyAmount(Gear[b], Duration[b])]
  /\ UNCHANGED <<rate, now, refund>>

TermsUnder(p, left) ==
  IF p = NoPolicy THEN DefaultTerms(left) ELSE TiersOf[p][TierOf(left)]

(* Mutant: the room's part at the current rate.                            *)
RoomPartNow(b) == HourlyAmount(rate, Duration[b])

RoomPart(b) == HourlyAmount(heldRate[b], Duration[b])

(* What a cancellation of b grants now if policy p applies to it.          *)
Offer(b, p) == RefundAmount(price[b], RoomPart(b), TermsUnder(p, StartOf[b] - now))

CancelRefunded(b) ==
  /\ Cancel(b)
  /\ refund' = [refund EXCEPT ![b] = Offer(b, applied'[b])]
  /\ UNCHANGED <<rate, now, heldRate, price>>

RefundNext ==
  \/ Pass \/ \E r \in Rates : EditRate(r)
  \/ \E p \in Policy : Replacement(p) /\ UNCHANGED moneyVars
  \/ \E b \in Booking : HoldPriced(b) \/ CancelRefunded(b)

RefundSpec == RefundInit /\ [][RefundNext]_refundVars
-----------------------------------------------------------------------------
(* Properties                                                              *)

MoneyOK ==
  /\ rate \in Nat /\ now \in Nat
  /\ heldRate \in [Booking -> Nat] /\ price \in [Booking -> Nat]
  /\ refund \in [Booking -> Nat]

(* The price is made of two parts that a cancellation can tell apart again. *)
PriceInv ==
  \A b \in Booking :
    /\ applied[b] = "none" => refund[b] = 0
    /\ snapshot[b] # "none" =>
         price[b] = RoomPart(b) + HourlyAmount(Gear[b], Duration[b])

(* A cancellation never returns more than the booking cost, whatever the   *)
(* rate and the policy became since: Paygate would refuse the refund and   *)
(* it would be retried for ever.                                           *)
RefundWithinPrice == \A b \in Booking : refund[b] =< price[b]

(* What a cancellation would return is settled by the hold: policies       *)
(* replaced and rates edited afterwards change nothing, time alone does.   *)
(* A booking that found no policy to copy follows those its venue stores   *)
(* later, and nothing else.                                                *)
OfferStands ==
  [][now' = now =>
       \A b \in Booking :
         snapshot[b] # "none" /\ (snapshot[b] # NoPolicy \/ UNCHANGED rowVars) =>
           {Offer(b, p) : p \in Applicable(b)}' = {Offer(b, p) : p \in Applicable(b)}]_refundVars

RefundInv == MoneyOK /\ PriceInv /\ RefundWithinPrice

(* Waiting never pays: under a policy whose later tiers return no more     *)
(* than the earlier ones, and under the default terms, what a cancellation *)
(* would return never grows.                                               *)
Declining(p) ==
  p = NoPolicy \/ \A part \in {"roomPercent", "equipmentPercent"} :
                    /\ TiersOf[p]["lessThan24"][part] =< TiersOf[p]["between24And48"][part]
                    /\ TiersOf[p]["between24And48"][part] =< TiersOf[p]["moreThan48"][part]

WaitingNeverPays ==
  [][\A b \in Booking, p \in Policy \cup {NoPolicy} :
       snapshot[b] # "none" /\ Declining(p) => Offer(b, p)' =< Offer(b, p)]_refundVars

(* Cancelled on full terms, a booking is returned to the last unit: the    *)
(* two parts are rounded as they were when the price was made.             *)
FullTermsReturnAll ==
  \A b \in Booking : snapshot[b] # "none" =>
    RefundAmount(price[b], RoomPart(b), [roomPercent |-> 100, equipmentPercent |-> 100]) = price[b]
=============================================================================
