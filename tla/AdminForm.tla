----------------------------- MODULE AdminForm -----------------------------
(***************************************************************************)
(* The administration page: the forms with the settings and the policy of  *)
(* the selected venue, and the list of a user's role assignments.          *)
(*                                                                         *)
(* The forms are filled by answers that are not matched with the venue     *)
(* selected since, and are saved to the venue that is selected.  Values    *)
(* are represented by the venue they were loaded from: what counts is      *)
(* whether a save carries the values of one venue to another.              *)
(*                                                                         *)
(* A removal submits the whole list as the page knows it, less one         *)
(* assignment.  The server replaces the assignments in one step here;      *)
(* VenueAuthority has the overlap of two replacements.  The two parts of   *)
(* the page share no state.                                                *)
(***************************************************************************)
EXTENDS Naturals, FiniteSets

CONSTANTS
  Venue,
  Defaults,       \* what the forms contain before the first load
  FirstRoles,     \* the assignments of the user: <<role, venue>>
  MaxSelects,     \* bounds on selections, and on clicks in the list
  MaxClicks

ASSUME FormAssumption ==
  /\ Defaults \notin Venue /\ MaxSelects \in Nat /\ MaxClicks \in Nat
  /\ FirstRoles \subseteq {a[1] : a \in FirstRoles} \X Venue

Form == {"settings", "policy"}
Values == Venue \cup {Defaults}
Load == [form : Form, venue : Venue]
Save == [form : Form, venue : Venue, values : Values, handled : BOOLEAN]
Assignment == {a[1] : a \in FirstRoles} \X Venue

VARIABLES
  selected,
  values,     \* [Form -> Values], and which save button is disabled
  saving,
  loads,      \* answers of loads, and saves, on their way
  saves,
  stored,     \* at the server: where the values of each venue come from
  selects,
  raced,      \* history: see LoadAnswered, LoadFails, SaveForm and SaveAnswered
  roles,      \* at the server, and as listed on the page
  list,
  listed,     \* the list was loaded
  replaces,   \* replacements on their way: the assignments, handled or not
  clicks,
  disturbed   \* history: the list may be behind the server

formVars == <<selected, values, saving, loads, saves, stored, selects, raced>>
roleVars == <<roles, list, listed, replaces, clicks, disturbed>>
adminVars == <<formVars, roleVars>>

FormsOf(v) == [form : Form, venue : {v}]

AdminTypeOK ==
  /\ selected \in Venue /\ values \in [Form -> Values] /\ saving \in [Form -> BOOLEAN]
  /\ loads \subseteq Load /\ saves \subseteq Save
  /\ stored \in [Form -> [Venue -> Values]]
  /\ selects \in 0..MaxSelects /\ raced \in BOOLEAN
  /\ roles \subseteq Assignment /\ list \subseteq Assignment /\ listed \in BOOLEAN
  /\ replaces \subseteq [roles : SUBSET Assignment, handled : BOOLEAN]
  /\ clicks \in 0..MaxClicks /\ disturbed \in BOOLEAN

AdminInit ==
  /\ selected \in Venue
  /\ values = [f \in Form |-> Defaults] /\ saving = [f \in Form |-> FALSE]
  /\ loads = FormsOf(selected) /\ saves = {}
  /\ stored = [f \in Form |-> [v \in Venue |-> v]]
  /\ selects = 0 /\ raced = FALSE
  /\ roles = FirstRoles /\ list = {} /\ listed = FALSE /\ replaces = {}
  /\ clicks = 0 /\ disturbed = FALSE

-----------------------------------------------------------------------------
(* The forms of the selected venue                                         *)

(* Mutant: the effect does not depend on the selected venue.               *)
SelectOnly(v) ==
  /\ v # selected /\ selects < MaxSelects /\ selects' = selects + 1
  /\ selected' = v
  /\ UNCHANGED <<values, saving, loads, saves, stored, raced, roleVars>>

(* The effect loads everything again, and cancels nothing.                 *)
Select(v) ==
  /\ v # selected /\ selects < MaxSelects /\ selects' = selects + 1
  /\ selected' = v /\ loads' = loads \cup FormsOf(v)
  /\ UNCHANGED <<values, saving, saves, stored, raced, roleVars>>

Shows(l) == values' = [values EXCEPT ![l.form] = l.venue]

LoadAnswered(l) ==
  /\ loads' = loads \ {l} /\ Shows(l)
  /\ raced' = (raced \/ l.venue # selected)
  /\ UNCHANGED <<selected, saving, saves, stored, selects, roleVars>>

(* The form keeps what it shows.                                           *)
LoadFails(l) ==
  /\ loads' = loads \ {l} /\ raced' = TRUE
  /\ UNCHANGED <<selected, values, saving, saves, stored, selects, roleVars>>

(* onSave and saveVenue                                                    *)
SaveForm(f) ==
  /\ ~saving[f] /\ saving' = [saving EXCEPT ![f] = TRUE]
  /\ saves' = saves \cup
       {[form |-> f, venue |-> selected, values |-> values[f], handled |-> FALSE]}
  /\ raced' = (raced \/ [form |-> f, venue |-> selected] \in loads)
  /\ UNCHANGED <<selected, values, loads, stored, selects, roleVars>>

SaveHandled(s) ==
  /\ ~s.handled
  /\ saves' = (saves \ {s}) \cup {[s EXCEPT !.handled = TRUE]}
  /\ stored' = [stored EXCEPT ![s.form] = [stored[s.form] EXCEPT ![s.venue] = s.values]]
  /\ UNCHANGED <<selected, values, saving, loads, selects, raced, roleVars>>

(* The answer to saveVenue fills the form again, that to onSave does not.  *)
SaveAnswered(s) ==
  /\ s.handled /\ saves' = saves \ {s}
  /\ saving' = [saving EXCEPT ![s.form] = FALSE]
  /\ IF s.form = "policy" THEN UNCHANGED <<values, raced>>
     ELSE /\ values' = [values EXCEPT !["settings"] = s.values]
          /\ raced' = (raced \/ s.venue # selected)
  /\ UNCHANGED <<selected, loads, stored, selects, roleVars>>

(* Refused, or not answered; it may have been handled.                     *)
SaveFails(s) ==
  /\ saves' = saves \ {s}
  /\ saving' = [saving EXCEPT ![s.form] = FALSE]
  /\ UNCHANGED <<selected, values, loads, stored, selects, raced, roleVars>>

-----------------------------------------------------------------------------
(* The assignments of a user                                               *)
ListLoaded ==
  /\ ~listed /\ listed' = TRUE /\ list' = roles
  /\ UNCHANGED <<roles, replaces, clicks, disturbed, formVars>>

(* A click while an earlier one waits takes the list from before it.       *)
Submit(new) ==
  /\ listed /\ clicks < MaxClicks /\ clicks' = clicks + 1
  /\ replaces' = replaces \cup {[roles |-> new, handled |-> FALSE]}
  /\ disturbed' = (disturbed \/ replaces # {})
  /\ UNCHANGED <<roles, list, listed, formVars>>

(* Mutant: the filter drops what has the role or the venue.                *)
LessBoth(a) == {b \in list : b[1] # a[1] /\ b[2] # a[2]}
Less(a) == {b \in list : b[1] # a[1] \/ b[2] # a[2]}

RemoveUserRole(a) == a \in list /\ Submit(Less(a))
SaveUserRole(a) == Submit({a})

ReplaceHandled(q) ==
  /\ ~q.handled /\ roles' = q.roles
  /\ replaces' = (replaces \ {q}) \cup {[q EXCEPT !.handled = TRUE]}
  /\ UNCHANGED <<list, listed, clicks, disturbed, formVars>>

ReplaceAnswered(q) ==
  /\ q.handled /\ list' = q.roles /\ replaces' = replaces \ {q}
  /\ UNCHANGED <<roles, listed, clicks, disturbed, formVars>>

ReplaceFails(q) ==
  /\ replaces' = replaces \ {q}
  /\ disturbed' = TRUE
  /\ UNCHANGED <<roles, list, listed, clicks, formVars>>

(* Another administrator, who adds or removes one.                         *)
OtherAdministrator(a) ==
  /\ disturbed' = TRUE
  /\ roles' = (IF a \in roles THEN roles \ {a} ELSE roles \cup {a})
  /\ UNCHANGED <<list, listed, replaces, clicks, formVars>>

FormNext ==
  \/ \E v \in Venue : Select(v)
  \/ \E l \in loads : LoadAnswered(l) \/ LoadFails(l)
  \/ \E f \in Form : SaveForm(f)
  \/ \E s \in saves : SaveHandled(s) \/ SaveAnswered(s) \/ SaveFails(s)

RoleNext ==
  \/ ListLoaded
  \/ \E a \in Assignment : RemoveUserRole(a) \/ SaveUserRole(a) \/ OtherAdministrator(a)
  \/ \E q \in replaces : ReplaceHandled(q) \/ ReplaceAnswered(q) \/ ReplaceFails(q)

-----------------------------------------------------------------------------
(* The values of one venue are saved to another only after a load failed,  *)
(* came late or was not waited for, or the answer to a save came late.     *)
SavesOwnVenue == \A f \in Form, v \in Venue : stored[f][v] = v \/ raced

OneChange(new, old) == \E a \in Assignment : new = {a} \/ new = old \ {a}

(* README, "Removing an individual assignment keeps the user's other       *)
(* assignments": for the clicks of one administrator, each after the       *)
(* answer to the one before.                                               *)
RemovalKeepsOthers ==
  [][roles' # roles /\ ~disturbed' => OneChange(roles', roles)]_adminVars

AdminSpec == AdminInit /\ [][FormNext \/ RoleNext]_adminVars

-----------------------------------------------------------------------------
(* The inductive invariant: a form shows its venue or waits for it, and    *)
(* the list is what the server has, before the click or after the answer.  *)
FormsFollow ==
  /\ \A f \in Form :
       values[f] = selected \/ raced \/ [form |-> f, venue |-> selected] \in loads
  /\ \A s \in saves : s.values = s.venue \/ raced

ListFollows ==
  /\ replaces # {} => listed
  /\ listed /\ ~disturbed =>
       /\ replaces = {} => list = roles
       /\ \A q \in replaces :
            /\ replaces = {q}
            /\ IF q.handled THEN roles = q.roles
               ELSE list = roles /\ OneChange(q.roles, roles)

AdminInv == AdminTypeOK /\ SavesOwnVenue /\ FormsFollow /\ ListFollows
=============================================================================
