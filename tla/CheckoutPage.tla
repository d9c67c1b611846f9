--------------------------- MODULE CheckoutPage ---------------------------
(***************************************************************************)
(* The checkout page of one booking, reloaded any number of times, and the *)
(* server it talks to.  Each time it is opened the page draws an           *)
(* idempotency key for all its payment requests; it polls the booking as   *)
(* long as it shows a status that may still change by itself, and takes    *)
(* every answer as it comes, older ones over newer ones.                   *)
(*                                                                         *)
(* The server is seen in large steps (PaymentSettlement has the small      *)
(* ones): what matters here is which status the page reads when, and that  *)
(* a submission whose checks are old makes the booking wait for payment    *)
(* again.  The countdown of the page only takes the button away and is     *)
(* left out.                                                               *)
(***************************************************************************)
EXTENDS Naturals, FiniteSets

CONSTANTS
  MaxMounts,    \* times the page is opened
  MaxPays,      \* clicks on the pay button, all openings together
  MaxAnswers    \* reads of the booking on their way

ASSUME PageAssumption ==
  MaxMounts \in Nat \ {0} /\ MaxPays \in Nat \ {0} /\ MaxAnswers \in Nat \ {0}

NoKey == 0
Key == 1..MaxMounts
NoRequest == 0
Request == 1..MaxPays

Waiting == {"HELD", "PENDING_PAYMENT"}
Status == Waiting \cup {"CONFIRMED", "FAILED", "EXPIRED", "CANCELLED"}

(* A read of the booking, for the first load, by the poll, or after a      *)
(* payment request.                                                        *)
Answer == [for : {"load", "poll", "pay"}, saw : Status \cup {"unread"}]

VARIABLES
  status,     \* the booking, whether its hold ran out, and its payment row's key
  lapsed,
  payKey,
  charged,    \* the keys Paygate took money for
  revived,    \* history: a submission found the booking no longer held
  renewing,   \* a checkout call read the hold as good and has yet to renew it
  requests,   \* payment requests: the key of each and how far the server is
  key,        \* the page: its key, first load, status shown, request waited for
  load,
  shown,
  paying,
  answers

bookingVars == <<status, lapsed, payKey, charged, revived>>
serverVars == <<bookingVars, renewing>>
pageVars == <<key, load, shown, paying>>
vars == <<serverVars, requests, pageVars, answers>>

Step == {"none", "sent", "passed", "row", "accepted", "refused"}

TypeOK ==
  /\ status \in Status /\ lapsed \in BOOLEAN /\ revived \in BOOLEAN /\ renewing \in BOOLEAN
  /\ payKey \in Key \cup {NoKey} /\ charged \subseteq Key
  /\ requests \in [Request -> [key : Key \cup {NoKey}, step : Step]]
  /\ key \in Key /\ load \in {"checkout", "get", "done", "failed"}
  /\ shown \in Status \cup {"none"} /\ paying \in Request \cup {NoRequest}
  /\ answers \subseteq Answer

(* A hold was made and its owner goes to the checkout.                     *)
Init ==
  /\ status = "HELD" /\ lapsed = FALSE /\ payKey = NoKey /\ charged = {} /\ revived = FALSE
  /\ renewing = FALSE
  /\ requests = [r \in Request |-> [key |-> NoKey, step |-> "none"]]
  /\ key = 1 /\ load = "checkout" /\ shown = "none" /\ paying = NoRequest
  /\ answers = {}

-----------------------------------------------------------------------------
(* The server                                                              *)
HoldLapses ==
  /\ status \in Waiting /\ ~lapsed /\ lapsed' = TRUE
  /\ UNCHANGED <<status, payKey, charged, revived, renewing, requests, pageVars, answers>>

Becomes(s) ==
  /\ status' = s
  /\ UNCHANGED <<lapsed, payKey, charged, revived, renewing, requests, pageVars, answers>>

ExpireHold == status \in Waiting /\ lapsed /\ Becomes("EXPIRED")

(* The webhook of the charge.                                              *)
Settle ==
  /\ status = "PENDING_PAYMENT" /\ charged # {}
  /\ Becomes("CONFIRMED") \/ Becomes("FAILED")

(* From the detail page, in another tab.                                   *)
CancelBooking == status \in Waiting \cup {"CONFIRMED"} /\ Becomes("CANCELLED")

(* The call each opening of the checkout begins with, here and in the      *)
(* other tabs of the owner: the hold is read, and renewed by id whatever   *)
(* became of the booking in between.  Of calls that overlap one is seen.   *)
BeginCheckoutRead ==
  /\ status = "HELD" /\ ~lapsed /\ ~renewing /\ renewing' = TRUE
  /\ UNCHANGED <<bookingVars, requests, pageVars, answers>>

BeginCheckoutWrite ==
  /\ renewing /\ renewing' = FALSE /\ lapsed' = FALSE
  /\ UNCHANGED <<status, payKey, charged, revived, requests, pageVars, answers>>

Reach(r, s) == requests' = [requests EXCEPT ![r].step = s]

(* Mutant: the row is not compared with the key of the request.            *)
StartPaymentReadAny(r) ==
  /\ requests[r].step = "sent"
  /\ Reach(r, IF payKey # NoKey THEN "row"
              ELSE IF status = "HELD" /\ ~lapsed THEN "passed" ELSE "refused")
  /\ UNCHANGED <<serverVars, pageVars, answers>>

(* The checks of a payment request.                                        *)
StartPaymentRead(r) ==
  /\ requests[r].step = "sent"
  /\ Reach(r, IF payKey # NoKey THEN IF payKey = requests[r].key THEN "row" ELSE "refused"
              ELSE IF status = "HELD" /\ ~lapsed THEN "passed" ELSE "refused")
  /\ UNCHANGED <<serverVars, pageVars, answers>>

(* The state machine reads the booking again, and refuses.                 *)
TransitionRefused(r) ==
  /\ requests[r].step = "passed" /\ status # "HELD" /\ Reach(r, "refused")
  /\ UNCHANGED <<serverVars, pageVars, answers>>

(* The booking is updated by its id, whatever it became since the checks;  *)
(* it has one payment row at most.                                         *)
StartPaymentWrite(r) ==
  /\ requests[r].step = "passed"
  /\ IF payKey # NoKey THEN Reach(r, "refused") /\ UNCHANGED <<status, payKey, revived>>
     ELSE /\ Reach(r, "row")
          /\ payKey' = requests[r].key /\ status' = "PENDING_PAYMENT"
          /\ revived' = (revived \/ status \notin Waiting)
  /\ UNCHANGED <<lapsed, charged, renewing, pageVars, answers>>

(* The charge has the key of the request, which is the one of the row.     *)
Charge(r) ==
  /\ requests[r].step = "row" /\ Reach(r, "accepted")
  /\ charged' = charged \cup {requests[r].key}
  /\ UNCHANGED <<status, lapsed, payKey, revived, renewing, pageVars, answers>>

(* Three failures at Paygate: 202 all the same.                            *)
ChargeFails(r) ==
  /\ requests[r].step = "row" /\ Reach(r, "accepted")
  /\ UNCHANGED <<serverVars, pageVars, answers>>

-----------------------------------------------------------------------------
(* The page                                                                *)
Read(who) == [for |-> who, saw |-> "unread"]

(* The checkout call was answered, or failed: the page ignores either.     *)
CheckoutBegun ==
  /\ load = "checkout" /\ load' = "get"
  /\ answers' = answers \cup {Read("load")}
  /\ UNCHANGED <<serverVars, requests, key, shown, paying>>

GetBooking(a) ==
  /\ a.saw = "unread"
  /\ answers' = (answers \ {a}) \cup {[a EXCEPT !.saw = status]}
  /\ UNCHANGED <<serverVars, requests, pageVars>>

(* Mutant: only a held booking is polled.                                  *)
PollingHeld == shown \in Waiting \ {"PENDING_PAYMENT"}

(* The interval runs, from setBooking on.                                  *)
Polling == shown \in Waiting

Poll ==
  /\ Polling /\ Cardinality(answers) < MaxAnswers /\ Read("poll") \notin answers
  /\ answers' = answers \cup {Read("poll")}
  /\ UNCHANGED <<serverVars, requests, pageVars>>

Loaded(a, result) == load' = IF a.for = "load" THEN result ELSE load
Ends(a) == paying' = IF a.for = "pay" THEN NoRequest ELSE paying

Deliver(a) ==
  /\ a.saw # "unread"
  /\ answers' = answers \ {a}
  /\ shown' = a.saw
  /\ Loaded(a, "done") /\ Ends(a)
  /\ UNCHANGED <<serverVars, requests, key>>

LoseAnswer(a) ==
  /\ answers' = answers \ {a}
  /\ Loaded(a, "failed") /\ Ends(a)
  /\ UNCHANGED <<serverVars, requests, key, shown>>

(* Requests are numbered as they are sent.                                 *)
OnPay(r) ==
  /\ load = "done" /\ shown \in Waiting /\ paying = NoRequest
  /\ requests[r].step = "none" /\ \A q \in 1..(r - 1) : requests[q].step # "none"
  /\ requests' = [requests EXCEPT ![r] = [key |-> key, step |-> "sent"]]
  /\ paying' = r
  /\ UNCHANGED <<serverVars, key, load, shown, answers>>

PayAccepted(r) ==
  /\ paying = r /\ requests[r].step = "accepted"
  /\ \A a \in answers : a.for # "pay"
  /\ answers' = answers \cup {Read("pay")}
  /\ UNCHANGED <<serverVars, requests, pageVars>>

(* Refused, or no answer: the request itself may still go on.              *)
PayFails(r) ==
  /\ paying = r /\ \A a \in answers : a.for # "pay"
  /\ paying' = NoRequest
  /\ UNCHANGED <<serverVars, requests, key, load, shown, answers>>

Reload ==
  /\ key < MaxMounts /\ key' = key + 1
  /\ load' = "checkout" /\ shown' = "none" /\ paying' = NoRequest
  /\ answers' = {}
  /\ UNCHANGED <<serverVars, requests>>

Next ==
  \/ HoldLapses \/ ExpireHold \/ Settle \/ CancelBooking
  \/ BeginCheckoutRead \/ BeginCheckoutWrite
  \/ \E r \in Request :
       \/ StartPaymentRead(r) \/ TransitionRefused(r) \/ StartPaymentWrite(r)
       \/ Charge(r) \/ ChargeFails(r)
       \/ OnPay(r) \/ PayAccepted(r) \/ PayFails(r)
  \/ CheckoutBegun \/ Poll \/ Reload
  \/ \E a \in answers : GetBooking(a) \/ Deliver(a) \/ LoseAnswer(a)

(* Time passes, the expiry loop and the interval run; the requests and the *)
(* answers of reads do not all get lost.                                   *)
Fairness ==
  /\ WF_vars(HoldLapses) /\ WF_vars(ExpireHold) /\ WF_vars(Poll)
  /\ SF_vars(\E a \in answers : GetBooking(a)) /\ SF_vars(\E a \in answers : Deliver(a))

Spec == Init /\ [][Next]_vars
FairSpec == Spec /\ Fairness

-----------------------------------------------------------------------------
(* The page stops polling while the booking still waits only when a        *)
(* submission revived the booking after the page, or an answer on its way  *)
(* to it, had seen it end.                                                 *)
RestsOnTruth == load = "done" /\ ~Polling /\ status \in Waiting => revived

(* "Your payment is being confirmed. This page will update automatically." *)
UpdatesAutomatically == shown = "PENDING_PAYMENT" ~> shown # "PENDING_PAYMENT"

-----------------------------------------------------------------------------
(* The inductive invariant.  However often the page is opened and its      *)
(* button clicked, one key at most is charged, that of the payment row.    *)
OneCharge == charged \subseteq {payKey}

RowsOwn ==
  \A r \in Request :
    /\ requests[r].step # "none" => requests[r].key # NoKey
    /\ requests[r].step = "row" => requests[r].key = payKey

(* An end of the booking that was seen is real, or was undone.             *)
Seen == {shown} \cup {a.saw : a \in answers}
EndsSeen ==
  /\ status \in Waiting => revived \/ Seen \subseteq Waiting \cup {"none", "unread"}
  /\ load = "done" => shown # "none"

IInv == TypeOK /\ OneCharge /\ RowsOwn /\ EndsSeen
=============================================================================
