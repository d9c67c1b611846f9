------------------------------ MODULE MCPages ------------------------------
(***************************************************************************)
(* The pages that keep state of their own.  What is chosen first is the    *)
(* part that is used; the others stay as they are, since none shares state *)
(* with another.                                                           *)
(***************************************************************************)
EXTENDS CheckoutPage, AdminForm

CONSTANTS v1, v2
MCVenue == {v1, v2}
MCRoles == {<<"STAFF", v1>>, <<"STAFF", v2>>, <<"ADMIN", v1>>}

VARIABLE used
pagesVars == <<vars, adminVars, used>>

PagesInit ==
  /\ used \in {"checkout", "forms", "list"}
  /\ Init /\ AdminInit

PagesNext ==
  /\ UNCHANGED used
  /\ \/ used = "checkout" /\ Next /\ UNCHANGED adminVars
     \/ used = "forms" /\ FormNext /\ UNCHANGED vars
     \/ used = "list" /\ RoleNext /\ UNCHANGED vars

PagesSpec == PagesInit /\ [][PagesNext]_pagesVars /\ (used = "checkout" => Fairness)
=============================================================================
