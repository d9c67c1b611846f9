--------------------------- MODULE VenueAuthority ---------------------------
(***************************************************************************)
(* What the authorization of VenueAdministration achieves whatever the     *)
(* requests and their interleaving: the invariant the proofs rest on and   *)
(* the properties.                                                         *)
(***************************************************************************)
EXTENDS VenueAdministration

(* Assignments name users and venues that exist.                           *)
RowsExist ==
  \A u \in User : \A a \in roles[u] : u \in users /\ venue[a[1]] = "open"

(* A booking keeps its room and its equipment: neither can be deleted from *)
(* under it, not even with its venue or while the hold is made.            *)
BookingsKeepRows ==
  /\ \A x \in Room : booked[x] # None => RoomExists(x)
  /\ \A e \in reserved : EquipmentExists(e)

(* A request that waits for its second step was authorized for it.         *)
WorkAuthorized ==
  \A q \in Request :
    /\ at[q] = "editing" => /\ subject[q] \in Room
                            /\ roomVenue[subject[q]] # None
                            /\ AuthorizeVenueAdmin(held[q], roomVenue[subject[q]])
    /\ at[q] = "replacing" => /\ subject[q] \in User
                              /\ subject[q] \in users
                              /\ RequirePlatformAdmin(held[q])
    /\ at[q] = "holding" => subject[q] \in Room
    /\ at[q] \notin {"new", "done"} => by[q] \in users
    /\ at[q] \in {"new", "done"} => held[q] = {}
    /\ asked[q] # {} => at[q] = "replacing"

(* What TLC checks and the proofs use: the conjunction is inductive.       *)
IInv == TypeOK /\ RowsExist /\ BookingsKeepRows /\ WorkAuthorized

-----------------------------------------------------------------------------
(* The request that ends in a step, and the authority it began with.       *)

Acts(q) == at[q] \notin {"new", "done"} /\ at'[q] = "done"
IsPlatformAdmin(q) == \E v \in Venue : <<v, "PLATFORM_ADMIN">> \in held[q]
IsAdminOf(q, v) == IsPlatformAdmin(q) \/ <<v, "VENUE_ADMIN">> \in held[q]

VenueRows(v, u) == {a \in roles[u] : a[1] = v}

(* Something of venue v changes: the venue, its configuration, who works   *)
(* there, its rooms or its equipment.                                      *)
Changes(v) ==
  \/ venue'[v] # venue[v] \/ setting'[v] # setting[v]
  \/ \E u \in User : VenueRows(v, u)' # VenueRows(v, u)
  \/ \E x \in Room :
       /\ roomVenue[x] = v \/ roomVenue'[x] = v
       /\ \/ roomVenue'[x] # roomVenue[x] \/ limits'[x] # limits[x]
          \/ (x \in deletedRooms') # (x \in deletedRooms)
  \/ \E e \in Equipment :
       /\ equipmentVenue[e] = v \/ equipmentVenue'[e] = v
       /\ equipmentVenue'[e] # equipmentVenue[e] \/ (e \in removed') # (e \in removed)

(* Nothing of a venue changes unless the request that changes it came from *)
(* an administrator of that venue or of the platform; knowing the id of a  *)
(* room of another venue is not enough, whatever happened to the room, to  *)
(* the venue or to the requester's assignments since the first step.       *)
TenantIsolation ==
  [][\A v \in Venue : Changes(v) => \E q \in Request : Acts(q) /\ IsAdminOf(q, v)]_vars

(* An assignment appears only by a platform administrator, except those of *)
(* the staff of a venue, which its administrators may make too.            *)
OnlyAppointed ==
  [][\A u \in User : \A a \in roles'[u] \ roles[u] :
       \E q \in Request :
         Acts(q) /\ (IsPlatformAdmin(q) \/ (a[2] = "VENUE_STAFF" /\ IsAdminOf(q, a[1])))]_vars

(* Somebody is a platform administrator, or a request of one is under way. *)
PlatformPower ==
  \/ \E u \in User : HasGlobalRole(roles[u], "PLATFORM_ADMIN")
  \/ \E q \in Request : HasGlobalRole(held[q], "PLATFORM_ADMIN")

(* Nobody makes himself an administrator of the platform: once the last    *)
(* one is gone (by his own edit, or with the venue his assignment names),  *)
(* no sequence of requests brings one back.                                *)
LockoutIsFinal == [][~PlatformPower => ~PlatformPower']_vars

(* Whatever the booking list shows a user with some role, the booking page *)
(* lets him open: two separate pieces of code decide the two.              *)
ListedIsReadable ==
  \A u \in users, x \in Room :
    /\ booked[x] # None /\ roles[u] # {}
    /\ Listed(roles[u], u, booked[x], roomVenue[x])
    => AuthorizeBookingAccess(roles[u], u, booked[x], roomVenue[x])

(* What the README says of the replacement of a user's roles: the complete *)
(* set is replaced, so that none but the submitted assignments are left,   *)
(* except where the staff of a venue was edited during the replacement,    *)
(* which may count as done after it.                                       *)
ReplacedCompletely ==
  [][\A q \in Request :
       at[q] = "replacing" /\ Acts(q) /\ roles' # roles
       => \A a \in roles'[subject[q]] \ asked[q] : a[2] = "VENUE_STAFF"]_vars
=============================================================================
