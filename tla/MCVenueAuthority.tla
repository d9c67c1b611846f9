-------------------------- MODULE MCVenueAuthority --------------------------
(***************************************************************************)
(* Three requests in any interleaving over two open venues and one that    *)
(* may be created: a platform administrator, an administrator of v1, a     *)
(* customer who is staff of v2, and a user who may be created.             *)
(***************************************************************************)
EXTENDS VenueAuthority, TLC

CONSTANTS v1, v2, v3, root, boss, guest, fresh, x1, x2, e1, e2

InitialRolesMC ==
  [u \in User |->
     CASE u = root  -> {<<v2, "PLATFORM_ADMIN">>}
       [] u = boss  -> {<<v1, "VENUE_ADMIN">>}
       [] u = guest -> {<<v1, "CUSTOMER">>, <<v2, "VENUE_STAFF">>}
       [] OTHER     -> {}]
DefaultLimitsMC    == <<1, 2>>
InitialRoomMC      == [x \in Room |-> IF x = x1 THEN v1 ELSE None]
InitialEquipmentMC == [e \in Equipment |-> IF e = e1 THEN v1 ELSE None]

(* Nothing, one assignment of each kind, and one shared with another set.  *)
GrantMC == {{}, {<<v1, "PLATFORM_ADMIN">>}, {<<v2, "VENUE_ADMIN">>},
            {<<v1, "CUSTOMER">>, <<v2, "VENUE_ADMIN">>}}

RequestSymmetry == Permutations(Request)
=============================================================================
