---------------------------- MODULE Pages_proofs ----------------------------
(***************************************************************************)
(* Proofs about CheckoutPage, for any number of openings, clicks and       *)
(* answers on their way, and about AdminForm, for any venues, roles,       *)
(* selections and clicks.                                                  *)
(***************************************************************************)
EXTENDS CheckoutPage, AdminForm, TLAPS

-----------------------------------------------------------------------------
(* The checkout page                                                       *)
LEMMA InitPage == Init => IInv
<1> SUFFICES ASSUME Init PROVE TypeOK /\ OneCharge /\ RowsOwn /\ EndsSeen
  BY DEF IInv
<1>1. requests \in [Request -> [key : Key \cup {NoKey}, step : Step]]
  BY DEF Init, Step
<1>2. 1 \in Key
  BY PageAssumption DEF Key
<1>3. TypeOK
  BY <1>1, <1>2 DEF Init, TypeOK, Status, Waiting
<1> QED
  BY <1>3 DEF Init, OneCharge, RowsOwn, EndsSeen, Seen, NoKey

LEMMA ReachType ==
  ASSUME TypeOK, NEW r \in Request, NEW s \in Step, Reach(r, s)
  PROVE  /\ requests' \in [Request -> [key : Key \cup {NoKey}, step : Step]]
         /\ requests'[r].step = s
         /\ \A q \in Request : requests'[q].key = requests[q].key
         /\ \A q \in Request \ {r} : requests'[q].step = requests[q].step
BY DEF TypeOK, Reach

LEMMA RowKey ==
  ASSUME TypeOK, RowsOwn, NEW r \in Request, requests[r].step # "none"
  PROVE  requests[r].key \in Key
BY DEF TypeOK, RowsOwn

LEMMA PageTypeStep == TypeOK /\ RowsOwn /\ [Next]_vars => TypeOK'
<1> SUFFICES ASSUME TypeOK, RowsOwn, [Next]_vars PROVE TypeOK'
  OBVIOUS
<1> USE DEF serverVars, bookingVars, pageVars
<1>1. CASE UNCHANGED vars
  BY <1>1 DEF vars, TypeOK
<1>2. CASE HoldLapses \/ BeginCheckoutRead \/ BeginCheckoutWrite
  BY <1>2 DEF HoldLapses, BeginCheckoutRead, BeginCheckoutWrite, TypeOK
<1>3. ASSUME NEW s \in Status, Becomes(s) PROVE TypeOK'
  BY <1>3 DEF Becomes, TypeOK
<1>4. CASE ExpireHold \/ Settle \/ CancelBooking
  BY <1>3, <1>4 DEF ExpireHold, Settle, CancelBooking, Status
<1>5. ASSUME NEW r \in Request, StartPaymentRead(r) \/ TransitionRefused(r) \/ ChargeFails(r)
      PROVE  TypeOK'
  <2>1. PICK s \in Step : Reach(r, s)
    BY <1>5 DEF StartPaymentRead, TransitionRefused, ChargeFails, Step
  <2> QED
    BY <1>5, <2>1, ReachType DEF StartPaymentRead, TransitionRefused, ChargeFails, TypeOK
<1>6. ASSUME NEW r \in Request, StartPaymentWrite(r) PROVE TypeOK'
  <2>1. PICK s \in Step : Reach(r, s)
    BY <1>6 DEF StartPaymentWrite, Step
  <2>2. requests[r].key \in Key
    BY <1>6, RowKey DEF StartPaymentWrite
  <2>3. "PENDING_PAYMENT" \in Status
    BY DEF Status, Waiting
  <2> QED
    BY <1>6, <2>1, <2>2, <2>3, ReachType DEF StartPaymentWrite, TypeOK
<1>7. ASSUME NEW r \in Request, Charge(r) PROVE TypeOK'
  <2>1. requests[r].key \in Key
    BY <1>7, RowKey DEF Charge
  <2>2. "accepted" \in Step
    BY DEF Step
  <2> QED
    BY <1>7, <2>1, <2>2, ReachType DEF Charge, TypeOK
<1>8. ASSUME NEW r \in Request, OnPay(r) PROVE TypeOK'
  <2>1. [key |-> key, step |-> "sent"] \in [key : Key \cup {NoKey}, step : Step]
    BY DEF TypeOK, Step
  <2> QED
    BY <1>8, <2>1 DEF OnPay, TypeOK
<1>9. ASSUME NEW who \in {"load", "poll", "pay"} PROVE Read(who) \in Answer
  BY DEF Read, Answer
<1>10. ASSUME NEW r \in Request, PayAccepted(r) \/ PayFails(r) PROVE TypeOK'
  BY <1>9, <1>10 DEF PayAccepted, PayFails, TypeOK
<1>11. CASE CheckoutBegun \/ Poll
  BY <1>9, <1>11 DEF CheckoutBegun, Poll, TypeOK
<1>12. CASE Reload
  BY <1>12, PageAssumption DEF Reload, TypeOK, Key
<1>13. ASSUME NEW a \in answers, GetBooking(a) PROVE TypeOK'
  <2>1. [a EXCEPT !.saw = status] \in Answer
    BY DEF TypeOK, Answer
  <2> QED
    BY <1>13, <2>1 DEF GetBooking, TypeOK
<1>14. ASSUME NEW a \in answers, Deliver(a) \/ LoseAnswer(a) PROVE TypeOK'
  <2>1. a.saw = "unread" \/ a.saw \in Status
    BY DEF TypeOK, Answer
  <2> QED
    BY <1>14, <2>1 DEF Deliver, LoseAnswer, Loaded, Ends, TypeOK
<1> QED
  BY <1>1, <1>2, <1>4, <1>5, <1>6, <1>7, <1>8, <1>10, <1>11, <1>12, <1>13, <1>14 DEF Next

(* Only the row's key is charged, and the row is never replaced.           *)
LEMMA RowsStep == TypeOK /\ OneCharge /\ RowsOwn /\ [Next]_vars => OneCharge' /\ RowsOwn'
<1> SUFFICES ASSUME TypeOK, OneCharge, RowsOwn, [Next]_vars PROVE OneCharge' /\ RowsOwn'
  OBVIOUS
<1> USE DEF serverVars, bookingVars, pageVars
<1>1. CASE UNCHANGED <<payKey, charged, requests>>
  BY <1>1 DEF OneCharge, RowsOwn
<1>2. ASSUME NEW r \in Request, StartPaymentRead(r) PROVE OneCharge' /\ RowsOwn'
  <2>1. PICK s \in Step : Reach(r, s) /\ (s = "row" => requests[r].key = payKey) /\ s # "none"
    BY <1>2 DEF StartPaymentRead, Step
  <2> QED
    BY <1>2, <2>1, ReachType DEF StartPaymentRead, OneCharge, RowsOwn
<1>3. ASSUME NEW r \in Request, TransitionRefused(r) \/ ChargeFails(r)
      PROVE  OneCharge' /\ RowsOwn'
  <2>1. PICK s \in Step : Reach(r, s) /\ s \notin {"row", "none"}
    BY <1>3 DEF TransitionRefused, ChargeFails, Step
  <2> QED
    BY <1>3, <2>1, ReachType DEF TransitionRefused, ChargeFails, OneCharge, RowsOwn
<1>4. ASSUME NEW r \in Request, StartPaymentWrite(r) PROVE OneCharge' /\ RowsOwn'
  <2>1. CASE payKey # NoKey
    <3>1. "refused" \in Step
      BY DEF Step
    <3> QED
      BY <1>4, <2>1, <3>1, ReachType DEF StartPaymentWrite, OneCharge, RowsOwn
  <2>2. CASE payKey = NoKey
    <3>1. "row" \in Step
      BY DEF Step
    <3>2. charged = {}
      BY <2>2 DEF OneCharge, TypeOK, NoKey, Key
    <3>3. \A q \in Request : requests[q].step # "row"
      BY <2>2 DEF RowsOwn
    <3> QED
      BY <1>4, <2>2, <3>1, <3>2, <3>3, ReachType DEF StartPaymentWrite, OneCharge, RowsOwn
  <2> QED
    BY <2>1, <2>2
<1>5. ASSUME NEW r \in Request, Charge(r) PROVE OneCharge' /\ RowsOwn'
  <2>1. "accepted" \in Step
    BY DEF Step
  <2> QED
    BY <1>5, <2>1, ReachType DEF Charge, OneCharge, RowsOwn
<1>6. ASSUME NEW r \in Request, OnPay(r) PROVE OneCharge' /\ RowsOwn'
  BY <1>6 DEF OnPay, OneCharge, RowsOwn, TypeOK, Key, NoKey
<1>7. ASSUME NEW r \in Request, PayAccepted(r) \/ PayFails(r)
      PROVE  UNCHANGED <<payKey, charged, requests>>
  BY <1>7 DEF PayAccepted, PayFails
<1>8. ASSUME NEW a \in answers, GetBooking(a) \/ Deliver(a) \/ LoseAnswer(a)
      PROVE  UNCHANGED <<payKey, charged, requests>>
  BY <1>8 DEF GetBooking, Deliver, LoseAnswer
<1>9. CASE \/ HoldLapses \/ BeginCheckoutRead \/ BeginCheckoutWrite \/ ExpireHold \/ Settle
           \/ CancelBooking \/ CheckoutBegun \/ Poll \/ Reload \/ UNCHANGED vars
  BY <1>1, <1>9 DEF HoldLapses, BeginCheckoutRead, BeginCheckoutWrite, ExpireHold, Settle,
                    CancelBooking, Becomes, CheckoutBegun, Poll, Reload, vars
<1> QED
  BY <1>1, <1>2, <1>3, <1>4, <1>5, <1>6, <1>7, <1>8, <1>9 DEF Next

(* A status that was seen is never one the booking has not had: a booking  *)
(* waits after its end was seen only if StartPaymentWrite revived it.      *)
LEMMA SeenStep == TypeOK /\ EndsSeen /\ [Next]_vars => EndsSeen'
<1> SUFFICES ASSUME TypeOK, EndsSeen, [Next]_vars PROVE EndsSeen'
  OBVIOUS
<1> USE DEF serverVars, bookingVars, pageVars
<1>1. ASSUME status' \in Waiting => status \in Waiting, revived' = revived, load' = load,
             shown' = shown, Seen' \subseteq Seen \cup {"unread"}
      PROVE  EndsSeen'
  BY <1>1 DEF EndsSeen
<1>2. CASE HoldLapses \/ BeginCheckoutRead \/ BeginCheckoutWrite \/ UNCHANGED vars
  BY <1>1, <1>2 DEF HoldLapses, BeginCheckoutRead, BeginCheckoutWrite, vars, Seen
<1>3. CASE ExpireHold \/ Settle \/ CancelBooking
  <2>1. status' \notin Waiting
    BY <1>3 DEF ExpireHold, Settle, CancelBooking, Becomes, Waiting
  <2> QED
    BY <1>3, <2>1 DEF ExpireHold, Settle, CancelBooking, Becomes, EndsSeen
<1>4. ASSUME NEW r \in Request,
             \/ StartPaymentRead(r) \/ TransitionRefused(r) \/ Charge(r) \/ ChargeFails(r)
             \/ OnPay(r) \/ PayFails(r)
      PROVE  EndsSeen'
  BY <1>1, <1>4 DEF StartPaymentRead, TransitionRefused, Charge, ChargeFails, OnPay, PayFails,
                    Seen
<1>5. ASSUME NEW r \in Request, StartPaymentWrite(r) PROVE EndsSeen'
  <2>1. UNCHANGED <<load, shown, answers>>
    BY <1>5 DEF StartPaymentWrite
  <2>2. CASE UNCHANGED <<status, revived>>
    BY <2>1, <2>2 DEF EndsSeen, Seen
  <2>3. CASE revived' = (revived \/ status \notin Waiting)
    <3>1. revived \/ status \notin Waiting => revived'
      BY <2>3
    <3> QED
      BY <2>1, <3>1 DEF EndsSeen, Seen
  <2> QED
    BY <1>5, <2>2, <2>3 DEF StartPaymentWrite
<1>6. ASSUME NEW r \in Request, PayAccepted(r) PROVE EndsSeen'
  BY <1>1, <1>6 DEF PayAccepted, Read, Seen
<1>7. CASE Poll
  BY <1>1, <1>7 DEF Poll, Read, Seen
<1>8. CASE CheckoutBegun
  BY <1>8 DEF CheckoutBegun, Read, Seen, EndsSeen
<1>9. CASE Reload
  BY <1>9 DEF Reload, Seen, EndsSeen
<1>10. ASSUME NEW a \in answers, GetBooking(a) PROVE EndsSeen'
  <2>1. [a EXCEPT !.saw = status].saw = status
    BY DEF TypeOK, Answer
  <2>2. Seen' \subseteq Seen \cup {status}
    BY <1>10, <2>1 DEF GetBooking, Seen
  <2> QED
    BY <1>10, <2>2 DEF GetBooking, EndsSeen
<1>11. ASSUME NEW a \in answers, Deliver(a) PROVE EndsSeen'
  <2>1. Seen' \subseteq Seen /\ shown' = a.saw
    BY <1>11 DEF Deliver, Seen
  <2>2. a.saw # "none"
    BY DEF TypeOK, Answer, Status, Waiting
  <2> QED
    BY <1>11, <2>1, <2>2 DEF Deliver, EndsSeen
<1>12. ASSUME NEW a \in answers, LoseAnswer(a) PROVE EndsSeen'
  <2>1. Seen' \subseteq Seen
    BY <1>12 DEF LoseAnswer, Seen
  <2>2. load' = "done" => load = "done"
    BY <1>12 DEF LoseAnswer, Loaded
  <2> QED
    BY <1>12, <2>1, <2>2 DEF LoseAnswer, EndsSeen
<1> QED
  BY <1>2, <1>3, <1>4, <1>5, <1>6, <1>7, <1>8, <1>9, <1>10, <1>11, <1>12 DEF Next

(* What a payment page may rely on, however often it is reloaded.          *)
THEOREM CheckoutInvariant == Spec => []IInv
<1>1. IInv /\ [Next]_vars => IInv'
  BY PageTypeStep, RowsStep, SeenStep DEF IInv
<1> QED
  BY InitPage, <1>1, PTL DEF Spec

(* The page rests on a status of a booking that still waits for payment    *)
(* only when a submission revived the booking.                             *)
THEOREM PollingSuffices == Spec => []RestsOnTruth
<1>1. IInv => RestsOnTruth
  BY DEF IInv, TypeOK, Status, Waiting, EndsSeen, Seen, RestsOnTruth, Polling
<1> QED
  BY <1>1, CheckoutInvariant, PTL

-----------------------------------------------------------------------------
(* The administration page                                                 *)
LEMMA InitForms == AdminInit => AdminInv
<1> SUFFICES ASSUME AdminInit PROVE AdminInv
  OBVIOUS
<1>1. loads \subseteq Load /\ \A f \in Form : [form |-> f, venue |-> selected] \in loads
  BY DEF AdminInit, FormsOf, Load
<1>2. roles \subseteq Assignment
  BY FormAssumption DEF AdminInit, Assignment
<1>3. AdminTypeOK
  <2>1. /\ values \in [Form -> Values] /\ saving \in [Form -> BOOLEAN]
        /\ stored \in [Form -> [Venue -> Values]]
    BY DEF AdminInit, Values
  <2>2. saves \subseteq Save /\ list \subseteq Assignment
        /\ replaces \subseteq [roles : SUBSET Assignment, handled : BOOLEAN]
    BY DEF AdminInit
  <2>3. selects \in 0..MaxSelects /\ clicks \in 0..MaxClicks
    BY FormAssumption DEF AdminInit
  <2> QED
    BY <1>1, <1>2, <2>1, <2>2, <2>3 DEF AdminInit, AdminTypeOK
<1> QED
  BY <1>1, <1>3 DEF AdminInit, AdminInv, SavesOwnVenue, FormsFollow, ListFollows

(* What the forms do leaves the list alone.                                *)
LEMMA FormsStep == AdminInv /\ FormNext => AdminInv'
<1> SUFFICES ASSUME AdminTypeOK, SavesOwnVenue, FormsFollow, ListFollows, FormNext
             PROVE  AdminInv'
  BY DEF AdminInv
<1>1. UNCHANGED roleVars
  BY DEF FormNext, Select, LoadAnswered, LoadFails, SaveForm, SaveHandled, SaveAnswered,
         SaveFails
<1>2. ListFollows'
  BY <1>1 DEF roleVars, ListFollows, OneChange
<1> SUFFICES
      /\ selected' \in Venue /\ values' \in [Form -> Values] /\ saving' \in [Form -> BOOLEAN]
      /\ loads' \subseteq Load /\ saves' \subseteq Save
      /\ stored' \in [Form -> [Venue -> Values]]
      /\ selects' \in 0..MaxSelects /\ raced' \in BOOLEAN
      /\ SavesOwnVenue' /\ FormsFollow'
  BY <1>1, <1>2 DEF AdminInv, AdminTypeOK, roleVars
<1> USE FormAssumption DEF AdminTypeOK
<1>3. ASSUME NEW v \in Venue, Select(v) PROVE /\ selected' \in Venue
             /\ loads' \subseteq Load /\ selects' \in 0..MaxSelects
             /\ SavesOwnVenue' /\ FormsFollow'
  <2>1. FormsOf(v) \subseteq Load /\ \A f \in Form : [form |-> f, venue |-> v] \in FormsOf(v)
    BY DEF FormsOf, Load
  <2> QED
    BY <1>3, <2>1 DEF Select, SavesOwnVenue, FormsFollow
<1>4. ASSUME NEW l \in loads, LoadAnswered(l)
      PROVE  values' \in [Form -> Values] /\ raced' \in BOOLEAN /\ FormsFollow'
  <2>1. l.form \in Form /\ l.venue \in Venue
    BY DEF Load
  <2>2. values' \in [Form -> Values] /\ values'[l.form] = l.venue
        /\ \A f \in Form \ {l.form} : values'[f] = values[f]
    BY <1>4, <2>1 DEF LoadAnswered, Shows, Values
  <2>3. \A f \in Form \ {l.form} : [form |-> f, venue |-> selected] # l
    OBVIOUS
  <2> QED
    BY <1>4, <2>1, <2>2, <2>3 DEF LoadAnswered, FormsFollow
<1>5. ASSUME NEW l \in loads, LoadFails(l) PROVE FormsFollow'
  BY <1>5 DEF LoadFails, FormsFollow
<1>6. ASSUME NEW f \in Form, SaveForm(f)
      PROVE  /\ saves' \subseteq Save /\ saving' \in [Form -> BOOLEAN] /\ raced' \in BOOLEAN
             /\ FormsFollow' /\ SavesOwnVenue'
  <2>1. [form |-> f, venue |-> selected, values |-> values[f], handled |-> FALSE] \in Save
    BY DEF Save
  <2>2. saving' \in [Form -> BOOLEAN]
    BY <1>6, Zenon DEF SaveForm
  <2>3. raced => raced'
    BY <1>6 DEF SaveForm
  <2>4. values[f] = selected \/ raced'
    BY <1>6 DEF SaveForm, FormsFollow
  <2>5. FormsFollow'
    BY <1>6, <2>3, <2>4 DEF SaveForm, FormsFollow
  <2> QED
    BY <1>6, <2>1, <2>2, <2>3, <2>5 DEF SaveForm, SavesOwnVenue
<1>7. ASSUME NEW s \in saves, SaveHandled(s)
      PROVE  /\ saves' \subseteq Save /\ stored' \in [Form -> [Venue -> Values]]
             /\ SavesOwnVenue' /\ FormsFollow'
  <2>1. s.form \in Form /\ s.venue \in Venue /\ s.values \in Values
    BY DEF Save
  <2>2. [s EXCEPT !.handled = TRUE] \in Save
        /\ [s EXCEPT !.handled = TRUE].values = s.values
        /\ [s EXCEPT !.handled = TRUE].venue = s.venue
    BY DEF Save
  <2>3. SavesOwnVenue'
    BY <1>7, <2>1 DEF SaveHandled, SavesOwnVenue, FormsFollow
  <2> QED
    BY <1>7, <2>1, <2>2, <2>3 DEF SaveHandled, FormsFollow
<1>8. ASSUME NEW s \in saves, SaveAnswered(s)
      PROVE  /\ values' \in [Form -> Values] /\ saving' \in [Form -> BOOLEAN]
             /\ raced' \in BOOLEAN /\ FormsFollow' /\ SavesOwnVenue'
  <2>1. s.venue \in Venue /\ s.values \in Values /\ "settings" \in Form
    BY DEF Save, Form
  <2>2. CASE s.form = "policy"
    <3>1. UNCHANGED <<selected, values, loads, stored, raced>> /\ saves' \subseteq saves
      BY <1>8, <2>2 DEF SaveAnswered
    <3>2. saving' \in [Form -> BOOLEAN]
      BY <1>8, Zenon DEF SaveAnswered
    <3>3. FormsFollow' /\ SavesOwnVenue'
      BY <3>1 DEF FormsFollow, SavesOwnVenue
    <3> QED
      BY <3>1, <3>2, <3>3
  <2>3. CASE s.form # "policy"
    <3>1. values' = [values EXCEPT !["settings"] = s.values]
          /\ raced' = (raced \/ s.venue # selected)
      BY <1>8, <2>3 DEF SaveAnswered
    <3>2. values'["settings"] = selected \/ raced'
      BY <2>1, <3>1 DEF FormsFollow
    <3>3. raced => raced'
      BY <3>1
    <3>4. saving' \in [Form -> BOOLEAN]
      BY <1>8, Zenon DEF SaveAnswered
    <3>5. values' \in [Form -> Values]
      BY <2>1, <3>1
    <3>6. \A f \in Form \ {"settings"} : values'[f] = values[f]
      BY <3>1
    <3>7. FormsFollow'
      BY <1>8, <3>2, <3>3, <3>6 DEF SaveAnswered, FormsFollow
    <3>8. SavesOwnVenue'
      BY <1>8, <3>3 DEF SaveAnswered, SavesOwnVenue
    <3>9. raced' \in BOOLEAN
      BY <3>1
    <3> QED
      BY <3>4, <3>5, <3>7, <3>8, <3>9
  <2> QED
    BY <2>2, <2>3
<1>9. ASSUME NEW s \in saves, SaveFails(s)
      PROVE  saving' \in [Form -> BOOLEAN] /\ FormsFollow'
  BY <1>9 DEF SaveFails, FormsFollow
<1> QED
  BY <1>3, <1>4, <1>5, <1>6, <1>7, <1>8, <1>9
     DEF FormNext, Select, LoadAnswered, LoadFails, SaveForm, SaveHandled, SaveAnswered,
         SaveFails, SavesOwnVenue

(* The list, and what it leaves alone.                                     *)
LEMMA ListStep == AdminInv /\ RoleNext => AdminInv'
<1> SUFFICES ASSUME AdminTypeOK, SavesOwnVenue, FormsFollow, ListFollows, RoleNext
             PROVE  AdminInv'
  BY DEF AdminInv
<1> USE FormAssumption DEF AdminTypeOK
<1>1. UNCHANGED formVars
  BY DEF RoleNext, ListLoaded, RemoveUserRole, SaveUserRole, Submit, OtherAdministrator,
         ReplaceHandled, ReplaceAnswered, ReplaceFails
<1> SUFFICES
      /\ roles' \subseteq Assignment /\ list' \subseteq Assignment /\ listed' \in BOOLEAN
      /\ replaces' \subseteq [roles : SUBSET Assignment, handled : BOOLEAN]
      /\ clicks' \in 0..MaxClicks /\ disturbed' \in BOOLEAN /\ ListFollows'
  BY <1>1 DEF AdminInv, SavesOwnVenue, FormsFollow, formVars
<1>2. ASSUME ListLoaded PROVE list' \subseteq Assignment /\ ListFollows'
  BY <1>2 DEF ListLoaded, ListFollows
<1>3. ASSUME NEW new \in SUBSET Assignment, Submit(new), OneChange(new, list)
      PROVE  /\ replaces' \subseteq [roles : SUBSET Assignment, handled : BOOLEAN]
             /\ clicks' \in 0..MaxClicks /\ disturbed' \in BOOLEAN /\ ListFollows'
  <2>1. [roles |-> new, handled |-> FALSE] \in [roles : SUBSET Assignment, handled : BOOLEAN]
    OBVIOUS
  <2>2. clicks' \in 0..MaxClicks
    BY <1>3 DEF Submit
  <2>3. ~disturbed' => ~disturbed /\ replaces = {}
    BY <1>3 DEF Submit
  <2>4. disturbed' \in BOOLEAN
    BY <1>3 DEF Submit
  <2>5. ListFollows'
    <3>1. CASE disturbed'
      BY <1>3, <3>1 DEF Submit, ListFollows
    <3>2. CASE ~disturbed'
      <4>1. list = roles /\ replaces' = {[roles |-> new, handled |-> FALSE]} /\ listed
            /\ UNCHANGED <<roles, list, listed>>
        BY <1>3, <2>3, <3>2 DEF Submit, ListFollows
      <4>2. OneChange(new, roles)'
        BY <1>3, <4>1 DEF OneChange
      <4> QED
        BY <4>1, <4>2 DEF ListFollows
    <3> QED
      BY <3>1, <3>2
  <2> QED
    BY <1>3, <2>1, <2>2, <2>4, <2>5 DEF Submit
<1>4. ASSUME NEW a \in Assignment, RemoveUserRole(a) \/ SaveUserRole(a)
      PROVE  \E new \in SUBSET Assignment : Submit(new) /\ OneChange(new, list)
  <2>1. CASE RemoveUserRole(a)
    <3>1. Less(a) = list \ {a}
      BY DEF Less, Assignment
    <3> QED
      BY <2>1, <3>1 DEF RemoveUserRole, OneChange
  <2>2. CASE SaveUserRole(a)
    BY <2>2 DEF SaveUserRole, OneChange
  <2> QED
    BY <1>4, <2>1, <2>2
<1>5. ASSUME NEW a \in Assignment, OtherAdministrator(a)
      PROVE  roles' \subseteq Assignment /\ disturbed' \in BOOLEAN /\ ListFollows'
  BY <1>5 DEF OtherAdministrator, ListFollows
<1>6. ASSUME NEW q \in replaces, ReplaceHandled(q)
      PROVE  /\ replaces' \subseteq [roles : SUBSET Assignment, handled : BOOLEAN]
             /\ roles' \subseteq Assignment /\ ListFollows'
  <2>1. [q EXCEPT !.handled = TRUE] \in [roles : SUBSET Assignment, handled : BOOLEAN]
        /\ [q EXCEPT !.handled = TRUE].handled /\ [q EXCEPT !.handled = TRUE].roles = q.roles
    OBVIOUS
  <2> QED
    BY <1>6, <2>1 DEF ReplaceHandled, ListFollows
<1>7. ASSUME NEW q \in replaces, ReplaceAnswered(q)
      PROVE  list' \subseteq Assignment /\ ListFollows'
  BY <1>7 DEF ReplaceAnswered, ListFollows
<1>8. ASSUME NEW q \in replaces, ReplaceFails(q) PROVE disturbed' \in BOOLEAN /\ ListFollows'
  BY <1>8 DEF ReplaceFails, ListFollows
<1> QED
  BY <1>2, <1>3, <1>4, <1>5, <1>6, <1>7, <1>8
     DEF RoleNext, ListLoaded, Submit, OtherAdministrator, ReplaceHandled, ReplaceAnswered,
         ReplaceFails

LEMMA AdminStep == AdminInv /\ [FormNext \/ RoleNext]_adminVars => AdminInv'
<1>1. AdminInv /\ UNCHANGED adminVars => AdminInv'
  BY DEF adminVars, formVars, roleVars, AdminInv, AdminTypeOK, SavesOwnVenue, FormsFollow,
         ListFollows, OneChange
<1> QED
  BY <1>1, FormsStep, ListStep

(* The forms and the list follow their venue and the server.               *)
THEOREM FormsInvariant == AdminSpec => []AdminInv
BY InitForms, AdminStep, PTL DEF AdminSpec

(* Values cross from venue to venue only after a race or a failure.        *)
THEOREM SavesStayHome == AdminSpec => []SavesOwnVenue
<1>1. AdminInv => SavesOwnVenue
  BY DEF AdminInv
<1> QED
  BY <1>1, FormsInvariant, PTL

(* One administrator who waits for each answer removes one assignment at a *)
(* time, or replaces all by one.                                           *)
THEOREM RemovalsAreSingle == AdminSpec => RemovalKeepsOthers
<1>1. AdminInv /\ [FormNext \/ RoleNext]_adminVars
        => (roles' # roles /\ ~disturbed' => OneChange(roles', roles))
  <2> SUFFICES ASSUME ListFollows, [FormNext \/ RoleNext]_adminVars,
                      roles' # roles, ~disturbed'
               PROVE  OneChange(roles', roles)
    BY DEF AdminInv
  <2>1. PICK q \in replaces : ReplaceHandled(q)
    BY DEF FormNext, Select, LoadAnswered, LoadFails, SaveForm, SaveHandled, SaveAnswered,
           SaveFails, RoleNext, ListLoaded, RemoveUserRole, SaveUserRole, Submit,
           OtherAdministrator, ReplaceAnswered, ReplaceFails, adminVars, roleVars
  <2> QED
    BY <2>1 DEF ReplaceHandled, ListFollows
<1> QED
  BY <1>1, FormsInvariant, PTL DEF AdminSpec, RemovalKeepsOthers
=============================================================================
