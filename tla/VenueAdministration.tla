------------------------ MODULE VenueAdministration ------------------------
(***************************************************************************)
(* The administration of venues, users, rooms and equipment by concurrent  *)
(* requests.  A request reads the assignments of its user once, when it is *)
(* authenticated, and is authorized with them however they change later.   *)
(* Handlers that run one statement are one step after that; those that     *)
(* read and then write (the roles of a user, the limits of a room, a hold) *)
(* are two.  Ids are random: a deleted venue never comes back.             *)
(***************************************************************************)
EXTENDS Integers, TenantAccess

CONSTANTS
  User, Room, Equipment,
  Request,         \* HTTP requests
  Setting,         \* operating schedules a venue may have
  Minutes,         \* limits on the length of a booking that the table admits
  DefaultLimits,   \* the shortest and longest booking of the seeded rooms
  Grant,           \* sets of assignments an administrator may ask for
  OpenVenues, KnownUsers, InitialRoles, InitialRoom, InitialEquipment, \* seed data
  None

ASSUME AdministrationAssumption ==
  /\ Minutes \subseteq Nat /\ Setting # {}
  /\ DefaultLimits \in Minutes \X Minutes /\ DefaultLimits[1] <= DefaultLimits[2]
  /\ Grant \subseteq SUBSET Assignment
  /\ OpenVenues \subseteq Venue /\ KnownUsers \subseteq User
  /\ InitialRoles \in [User -> SUBSET Assignment]
  /\ \A u \in User : \A a \in InitialRoles[u] : u \in KnownUsers /\ a[1] \in OpenVenues
  /\ InitialRoom \in [Room -> OpenVenues \cup {None}]
  /\ InitialEquipment \in [Equipment -> OpenVenues \cup {None}]
  /\ None \notin Venue \cup User \cup Room \cup Minutes

VARIABLES
  venue,      \* a venue is "new" until created, then "open" or "deleted"
  setting,    \* its configuration
  users,      \* users that exist
  roles       \* user_venue_roles: the assignments of each user

VARIABLES
  roomVenue,       \* venue of each room, None before it is created
  limits,          \* its shortest and longest booking
  deletedRooms,    \* rooms with deleted_at set
  equipmentVenue,  \* venue of each equipment type, None before it is created
  removed,         \* equipment rows deleted
  booked,          \* the user with a booking of the room, or None
  reserved         \* equipment named by a line item

VARIABLES
  at,        \* progress of each request
  by,        \* its user
  held,      \* the assignments it was authenticated with
  subject,   \* the room or the user it works on
  seen,      \* rows the deletion of the user's assignments has found
  asked,     \* the assignments it shall set
  read       \* the limits updateRoom has read

tenantVars  == <<venue, setting, users, roles>>
roomVars    == <<roomVenue, limits, deletedRooms>>
stockVars   == <<equipmentVenue, removed>>
bookingVars == <<booked, reserved>>
requestVars == <<at, by, held, subject, seen, asked, read>>
vars == <<tenantVars, roomVars, stockVars, bookingVars, requestVars>>

Limits == Minutes \X Minutes

TypeOK ==
  /\ venue \in [Venue -> {"new", "open", "deleted"}]
  /\ setting \in [Venue -> Setting]
  /\ users \subseteq User
  /\ roles \in [User -> SUBSET Assignment]
  /\ roomVenue \in [Room -> Venue \cup {None}]
  /\ limits \in [Room -> Limits]
  /\ deletedRooms \subseteq Room
  /\ equipmentVenue \in [Equipment -> Venue \cup {None}]
  /\ removed \subseteq Equipment
  /\ booked \in [Room -> User \cup {None}]
  /\ reserved \subseteq Equipment
  /\ at \in [Request -> {"new", "authenticated", "replacing", "editing", "holding", "done"}]
  /\ by \in [Request -> User \cup {None}]
  /\ held \in [Request -> SUBSET Assignment]
  /\ subject \in [Request -> User \cup Room \cup {None}]
  /\ seen \in [Request -> SUBSET Assignment]
  /\ asked \in [Request -> SUBSET Assignment]
  /\ read \in [Request -> Limits]

Init ==
  /\ venue = [v \in Venue |-> IF v \in OpenVenues THEN "open" ELSE "new"]
  /\ setting = [v \in Venue |-> CHOOSE s \in Setting : TRUE]
  /\ users = KnownUsers
  /\ roles = InitialRoles
  /\ roomVenue = InitialRoom
  /\ limits = [x \in Room |-> DefaultLimits]
  /\ deletedRooms = {}
  /\ equipmentVenue = InitialEquipment
  /\ removed = {}
  /\ booked = [x \in Room |-> None]
  /\ reserved = {}
  /\ at = [q \in Request |-> "new"]
  /\ by = [q \in Request |-> None]
  /\ held = [q \in Request |-> {}]
  /\ subject = [q \in Request |-> None]
  /\ seen = [q \in Request |-> {}]
  /\ asked = [q \in Request |-> {}]
  /\ read = [q \in Request |-> DefaultLimits]

-----------------------------------------------------------------------------
(* Rows that exist: a deleted venue takes its rooms and equipment along.   *)

RoomExists(x) == roomVenue[x] # None /\ venue[roomVenue[x]] = "open"
RoomLive(x) == RoomExists(x) /\ x \notin deletedRooms
EquipmentExists(e) ==
  equipmentVenue[e] # None /\ venue[equipmentVenue[e]] = "open" /\ e \notin removed

(* The life of a request                                                   *)

Authenticate(q, u) ==
  /\ at[q] = "new" /\ u \in users
  /\ at' = [at EXCEPT ![q] = "authenticated"]
  /\ by' = [by EXCEPT ![q] = u]
  /\ held' = [held EXCEPT ![q] = roles[u]]
  /\ UNCHANGED <<tenantVars, roomVars, stockVars, bookingVars, subject, seen, asked, read>>

(* The response is sent and nothing of the request remains.                *)
Answer(q) ==
  /\ at' = [at EXCEPT ![q] = "done"]
  /\ by' = [by EXCEPT ![q] = None]
  /\ held' = [held EXCEPT ![q] = {}]
  /\ subject' = [subject EXCEPT ![q] = None]
  /\ asked' = [asked EXCEPT ![q] = {}]
  /\ read' = [read EXCEPT ![q] = DefaultLimits]

(* Assignment rows of u that are deleted are no longer found by the other  *)
(* deletions under way, even when equal rows are inserted again.           *)
Forget(q, u, rows) ==
  seen' = [p \in Request |-> IF p = q THEN {}
                             ELSE IF subject[p] = u THEN seen[p] \ rows ELSE seen[p]]
Finish(q) == Answer(q) /\ seen' = [seen EXCEPT ![q] = {}]

(* Forbidden, not found, invalid input or a failed statement.              *)
Reject(q) ==
  /\ at[q] \notin {"new", "done"}
  /\ Finish(q)
  /\ UNCHANGED <<tenantVars, roomVars, stockVars, bookingVars>>

-----------------------------------------------------------------------------
(* Venues                                                                  *)

SetConfiguration(q, v, s) ==
  /\ at[q] = "authenticated" /\ venue[v] = "open"
  /\ setting' = [setting EXCEPT ![v] = s]
  /\ Finish(q)
  /\ UNCHANGED <<venue, users, roles, roomVars, stockVars, bookingVars>>

UpdateVenueConfiguration(q, v, s) ==
  AuthorizeVenueAdmin(held[q], v) /\ SetConfiguration(q, v, s)

UpdatePlatformVenue(q, v, s) ==
  RequirePlatformAdmin(held[q]) /\ SetConfiguration(q, v, s)

CreatePlatformVenue(q, v) ==
  /\ at[q] = "authenticated" /\ RequirePlatformAdmin(held[q])
  /\ venue[v] = "new"
  /\ venue' = [venue EXCEPT ![v] = "open"]
  /\ Finish(q)
  /\ UNCHANGED <<setting, users, roles, roomVars, stockVars, bookingVars>>

(* Rooms with bookings and equipment of line items cannot be deleted.      *)
VenueInUse(v) ==
  \/ \E x \in Room : roomVenue[x] = v /\ booked[x] # None
  \/ \E e \in Equipment : equipmentVenue[e] = v /\ e \in reserved

(* Takes the assignments of the venue along, those of platform             *)
(* administrators included.                                                *)
DeletePlatformVenue(q, v) ==
  /\ at[q] = "authenticated" /\ RequirePlatformAdmin(held[q])
  /\ venue[v] = "open" /\ ~VenueInUse(v)
  /\ venue' = [venue EXCEPT ![v] = "deleted"]
  /\ roles' = [u \in User |-> {a \in roles[u] : a[1] # v}]
  /\ Finish(q)
  /\ UNCHANGED <<setting, users, roomVars, stockVars, bookingVars>>

-----------------------------------------------------------------------------
(* Users and their assignments                                             *)

(* Mutant: the role comes from the request.                                *)
AddVenueMember(q, v, u) ==
  /\ at[q] = "authenticated" /\ AuthorizeVenueAdmin(held[q], v)
  /\ u \in users /\ venue[v] = "open"
  /\ \E role \in Role : roles' = [roles EXCEPT ![u] = roles[u] \cup {<<v, role>>}]
  /\ Finish(q)
  /\ UNCHANGED <<venue, setting, users, roomVars, stockVars, bookingVars>>

AddVenueStaff(q, v, u) ==
  /\ at[q] = "authenticated" /\ AuthorizeVenueAdmin(held[q], v)
  /\ u \in users /\ venue[v] = "open"
  /\ roles' = [roles EXCEPT ![u] = roles[u] \cup {<<v, "VENUE_STAFF">>}]
  /\ Finish(q)
  /\ UNCHANGED <<venue, setting, users, roomVars, stockVars, bookingVars>>

RemoveVenueStaff(q, v, u) ==
  /\ at[q] = "authenticated" /\ AuthorizeVenueAdmin(held[q], v)
  /\ <<v, "VENUE_STAFF">> \in roles[u]
  /\ roles' = [roles EXCEPT ![u] = roles[u] \ {<<v, "VENUE_STAFF">>}]
  /\ Answer(q) /\ Forget(q, u, {<<v, "VENUE_STAFF">>})
  /\ UNCHANGED <<venue, setting, users, roomVars, stockVars, bookingVars>>

CreatePlatformUser(q, u, a) ==
  /\ at[q] = "authenticated" /\ RequirePlatformAdmin(held[q])
  /\ u \notin users /\ venue[a[1]] = "open"
  /\ users' = users \cup {u}
  /\ roles' = [roles EXCEPT ![u] = {a}]
  /\ Finish(q)
  /\ UNCHANGED <<venue, setting, roomVars, stockVars, bookingVars>>

(* The transaction of replacePlatformUserRoles deletes the rows it finds   *)
(* and inserts its own.  It runs at READ COMMITTED: rows inserted after    *)
(* the deletion began are not found.                                       *)
ReplaceBegin(q, u, rows) ==
  /\ at[q] = "authenticated" /\ RequirePlatformAdmin(held[q])
  /\ u \in users
  /\ at' = [at EXCEPT ![q] = "replacing"]
  /\ subject' = [subject EXCEPT ![q] = u]
  /\ seen' = [seen EXCEPT ![q] = roles[u]]
  /\ asked' = [asked EXCEPT ![q] = rows]
  /\ UNCHANGED <<tenantVars, roomVars, stockVars, bookingVars, by, held, read>>

(* An equal row that is already there breaks the primary key, a venue that *)
(* was deleted the foreign key; the transaction then rolls back (Reject).  *)
ReplaceCommit(q) ==
  /\ at[q] = "replacing"
  /\ LET u == subject[q]
         others == roles[u] \ seen[q]
     IN /\ asked[q] \cap others = {}
        /\ \A a \in asked[q] : venue[a[1]] = "open"
        /\ roles' = [roles EXCEPT ![u] = others \cup asked[q]]
        /\ Forget(q, u, seen[q])
  /\ Answer(q)
  /\ UNCHANGED <<venue, setting, users, roomVars, stockVars, bookingVars>>

-----------------------------------------------------------------------------
(* Rooms                                                                   *)

(* The constraint rooms_duration_valid of the table, on the row that is    *)
(* written; its 60 and 480 minutes are the ends of Minutes.                *)
DurationValid(bounds) == bounds[1] <= bounds[2]

CreateManagedRoom(q, v, x, bounds) ==
  /\ at[q] = "authenticated" /\ AuthorizeVenueAdmin(held[q], v)
  /\ venue[v] = "open" /\ roomVenue[x] = None
  /\ DurationValid(bounds)
  /\ roomVenue' = [roomVenue EXCEPT ![x] = v]
  /\ limits' = [limits EXCEPT ![x] = bounds]
  /\ Finish(q)
  /\ UNCHANGED <<tenantVars, deletedRooms, stockVars, bookingVars>>

(* The controller finds the room and its venue, updateRoom its limits.     *)
EditRoomRead(q, x) ==
  /\ at[q] = "authenticated" /\ RoomLive(x)
  /\ AuthorizeVenueAdmin(held[q], roomVenue[x])
  /\ at' = [at EXCEPT ![q] = "editing"]
  /\ subject' = [subject EXCEPT ![q] = x]
  /\ read' = [read EXCEPT ![q] = limits[x]]
  /\ UNCHANGED <<tenantVars, roomVars, stockVars, bookingVars, by, held, seen, asked>>

(* A limit the request leaves out stays as it is.                          *)
Given(input, old) == IF input = None THEN old ELSE input

EnsureDurationBounds(q, lo, hi) == Given(lo, read[q][1]) <= Given(hi, read[q][2])

(* The new limits are checked against the row as it was read and written   *)
(* over the row as it is, deleted or not; when another update has changed  *)
(* it, the constraint may refuse them (Reject).                            *)
EditRoomWrite(q, lo, hi) ==
  /\ at[q] = "editing"
  /\ EnsureDurationBounds(q, lo, hi)
  /\ LET x == subject[q]
         written == <<Given(lo, limits[x][1]), Given(hi, limits[x][2])>>
     IN /\ RoomExists(x) /\ DurationValid(written)
        /\ limits' = [limits EXCEPT ![x] = written]
  /\ Finish(q)
  /\ UNCHANGED <<tenantVars, roomVenue, deletedRooms, stockVars, bookingVars>>

DeleteManagedRoom(q, x) ==
  /\ at[q] = "authenticated" /\ RoomLive(x)
  /\ AuthorizeVenueAdmin(held[q], roomVenue[x])
  /\ deletedRooms' = deletedRooms \cup {x}
  /\ Finish(q)
  /\ UNCHANGED <<tenantVars, roomVenue, limits, stockVars, bookingVars>>

-----------------------------------------------------------------------------
(* Equipment and bookings                                                  *)

CreateManagedEquipment(q, v, e) ==
  /\ at[q] = "authenticated" /\ AuthorizeVenueAdmin(held[q], v)
  /\ venue[v] = "open" /\ equipmentVenue[e] = None
  /\ equipmentVenue' = [equipmentVenue EXCEPT ![e] = v]
  /\ Finish(q)
  /\ UNCHANGED <<tenantVars, roomVars, removed, bookingVars>>

(* Mutant: line items do not keep the row.                                 *)
DeleteReservedEquipment(q, e) ==
  /\ at[q] = "authenticated" /\ EquipmentExists(e)
  /\ AuthorizeVenueAdmin(held[q], equipmentVenue[e])
  /\ removed' = removed \cup {e}
  /\ Finish(q)
  /\ UNCHANGED <<tenantVars, roomVars, equipmentVenue, bookingVars>>

DeleteManagedEquipment(q, e) ==
  /\ at[q] = "authenticated" /\ EquipmentExists(e)
  /\ AuthorizeVenueAdmin(held[q], equipmentVenue[e])
  /\ e \notin reserved
  /\ removed' = removed \cup {e}
  /\ Finish(q)
  /\ UNCHANGED <<tenantVars, roomVars, equipmentVenue, bookingVars>>

(* The controller finds a room that is not deleted; the transaction of     *)
(* the hold looks only for its row.                                        *)
HoldFind(q, x) ==
  /\ at[q] = "authenticated" /\ RoomLive(x)
  /\ AuthorizeHoldCreation(held[q])
  /\ at' = [at EXCEPT ![q] = "holding"]
  /\ subject' = [subject EXCEPT ![q] = x]
  /\ UNCHANGED <<tenantVars, roomVars, stockVars, bookingVars, by, held, seen, asked, read>>

HoldCommit(q, items) ==
  /\ at[q] = "holding"
  /\ LET x == subject[q]
     IN /\ RoomExists(x) /\ booked[x] = None
        /\ \A e \in items : EquipmentExists(e) /\ equipmentVenue[e] = roomVenue[x]
        /\ booked' = [booked EXCEPT ![x] = by[q]]
  /\ reserved' = reserved \cup items
  /\ Finish(q)
  /\ UNCHANGED <<tenantVars, roomVars, stockVars>>

-----------------------------------------------------------------------------
VenueStep(q) ==
  \E v \in Venue :
    \/ \E s \in Setting : UpdateVenueConfiguration(q, v, s) \/ UpdatePlatformVenue(q, v, s)
    \/ CreatePlatformVenue(q, v)
    \/ DeletePlatformVenue(q, v)

UserStep(q) ==
  \E u \in User :
    \/ Authenticate(q, u)
    \/ \E v \in Venue : AddVenueStaff(q, v, u) \/ RemoveVenueStaff(q, v, u)
    \/ \E rows \in Grant : ReplaceBegin(q, u, rows)
    \/ \E rows \in Grant : \E a \in rows : CreatePlatformUser(q, u, a)

RoomStep(q) ==
  \E x \in Room :
    \/ \E v \in Venue, bounds \in Limits : CreateManagedRoom(q, v, x, bounds)
    \/ EditRoomRead(q, x)
    \/ DeleteManagedRoom(q, x)
    \/ HoldFind(q, x)

StockStep(q) ==
  \E e \in Equipment :
    \/ \E v \in Venue : CreateManagedEquipment(q, v, e)
    \/ DeleteManagedEquipment(q, e)

SecondStep(q) ==
  \/ Reject(q)
  \/ ReplaceCommit(q)
  \/ \E lo, hi \in Minutes \cup {None} : EditRoomWrite(q, lo, hi)
  \/ \E items \in SUBSET Equipment : HoldCommit(q, items)

Next == \E q \in Request :
          VenueStep(q) \/ UserStep(q) \/ RoomStep(q) \/ StockStep(q) \/ SecondStep(q)

Spec == Init /\ [][Next]_vars
=============================================================================
