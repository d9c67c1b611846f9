---------------------------- MODULE TenantAccess ----------------------------
(***************************************************************************)
(* The decisions of authorization.ts and of the two places that decide on  *)
(* their own (the report controller and the booking list), as operators on *)
(* the assignments a request was authenticated with: a set of pairs of a   *)
(* venue and a role.                                                       *)
(***************************************************************************)
CONSTANT Venue

Role == {"CUSTOMER", "VENUE_STAFF", "VENUE_ADMIN", "PLATFORM_ADMIN"}
Assignment == Venue \X Role

(* A role held anywhere: customers and platform administrators are not     *)
(* bound to the venue of their assignment.                                 *)
HasGlobalRole(held, role) == \E v \in Venue : <<v, role>> \in held

HasVenueRole(held, v, roles) == \E role \in roles : <<v, role>> \in held

(* Mutant: the venue of the assignment is not compared.                    *)
AuthorizeVenueAdminAnywhere(held, v) ==
  HasGlobalRole(held, "PLATFORM_ADMIN") \/ HasGlobalRole(held, "VENUE_ADMIN")

AuthorizeVenueAdmin(held, v) ==
  HasGlobalRole(held, "PLATFORM_ADMIN") \/ HasVenueRole(held, v, {"VENUE_ADMIN"})

(* Mutant: any administrator passes for one of the platform.               *)
RequireAnyAdmin(held) ==
  HasGlobalRole(held, "PLATFORM_ADMIN") \/ HasGlobalRole(held, "VENUE_ADMIN")

RequirePlatformAdmin(held) == HasGlobalRole(held, "PLATFORM_ADMIN")

AuthorizeHoldCreation(held) ==
  HasGlobalRole(held, "PLATFORM_ADMIN") \/ HasGlobalRole(held, "CUSTOMER")

(* A booking is given by its owner and the venue of its room.              *)
AuthorizeBookingAccess(held, user, owner, v) ==
  \/ HasGlobalRole(held, "PLATFORM_ADMIN")
  \/ HasVenueRole(held, v, {"VENUE_STAFF", "VENUE_ADMIN"})
  \/ HasGlobalRole(held, "CUSTOMER") /\ user = owner

(* The rows listBookingsForUser selects, without a venue filter.           *)
StaffAnywhere(held) ==
  HasGlobalRole(held, "VENUE_STAFF") \/ HasGlobalRole(held, "VENUE_ADMIN")

(* Mutant: staff see every booking, as platform administrators do.         *)
ListedToStaff(held, user, owner, v) ==
  HasGlobalRole(held, "PLATFORM_ADMIN") \/ StaffAnywhere(held) \/ user = owner

Listed(held, user, owner, v) ==
  \/ HasGlobalRole(held, "PLATFORM_ADMIN")
  \/ /\ ~HasGlobalRole(held, "PLATFORM_ADMIN")
     /\ StaffAnywhere(held)
     /\ HasVenueRole(held, v, {"VENUE_STAFF", "VENUE_ADMIN"})
  \/ /\ ~HasGlobalRole(held, "PLATFORM_ADMIN")
     /\ ~StaffAnywhere(held)
     /\ user = owner
=============================================================================
