------------------------ MODULE VenueAuthority_proofs ------------------------
(***************************************************************************)
(* Proofs about VenueAuthority, for any venues, users, rooms, requests and *)
(* interleaving: authority is never gained except from who has it, and     *)
(* bookings keep what they booked.                                         *)
(***************************************************************************)
EXTENDS VenueAuthority, TLAPS

(* What one request may do in one step.                                    *)
RequestStep(q) ==
  VenueStep(q) \/ UserStep(q) \/ RoomStep(q) \/ StockStep(q) \/ SecondStep(q)

-----------------------------------------------------------------------------
(* Facts about the end of a request                                        *)

LEMMA AnswerTyped ==
  ASSUME TypeOK, NEW q \in Request, Answer(q)
  PROVE  /\ at' \in [Request -> {"new", "authenticated", "replacing", "editing", "holding", "done"}]
         /\ by' \in [Request -> User \cup {None}]
         /\ held' \in [Request -> SUBSET Assignment]
         /\ subject' \in [Request -> User \cup Room \cup {None}]
         /\ asked' \in [Request -> SUBSET Assignment]
         /\ read' \in [Request -> Limits]
BY AdministrationAssumption DEF TypeOK, Answer, Limits

(* Only the request that ends is touched.                                  *)
LEMMA AnswerWork ==
  ASSUME TypeOK, NEW q \in Request, Answer(q)
  PROVE  /\ at'[q] = "done" /\ held'[q] = {} /\ asked'[q] = {}
         /\ \A p \in Request \ {q} : /\ at'[p] = at[p] /\ by'[p] = by[p] /\ held'[p] = held[p]
                                     /\ subject'[p] = subject[p] /\ asked'[p] = asked[p]
                                     /\ read'[p] = read[p]
BY DEF TypeOK, Answer

LEMMA SeenTyped ==
  ASSUME TypeOK, NEW q \in Request
  PROVE  /\ Finish(q) => seen' \in [Request -> SUBSET Assignment]
         /\ \A u, rows : Forget(q, u, rows) => seen' \in [Request -> SUBSET Assignment]
BY DEF TypeOK, Finish, Forget

-----------------------------------------------------------------------------
(* The parts of the invariant, action by action                            *)

LEMMA TypeStep ==
  ASSUME TypeOK, WorkAuthorized, NEW q \in Request, RequestStep(q)
  PROVE  TypeOK'
<1>1. ASSUME NEW u \in User, Authenticate(q, u)
      PROVE  TypeOK'
  BY <1>1, AnswerTyped, SeenTyped
     DEF TypeOK, Authenticate, tenantVars, roomVars, stockVars, bookingVars
<1>2. ASSUME NEW v \in Venue, NEW s \in Setting, UpdateVenueConfiguration(q, v, s)
      PROVE  TypeOK'
  BY <1>2, AnswerTyped, SeenTyped
     DEF TypeOK, UpdateVenueConfiguration, SetConfiguration, Finish, roomVars,
         stockVars, bookingVars
<1>3. ASSUME NEW v \in Venue, NEW s \in Setting, UpdatePlatformVenue(q, v, s)
      PROVE  TypeOK'
  BY <1>3, AnswerTyped, SeenTyped
     DEF TypeOK, UpdatePlatformVenue, SetConfiguration, Finish, roomVars,
         stockVars, bookingVars
<1>4. ASSUME NEW v \in Venue, CreatePlatformVenue(q, v)
      PROVE  TypeOK'
  BY <1>4, AnswerTyped, SeenTyped
     DEF TypeOK, CreatePlatformVenue, Finish, roomVars, stockVars, bookingVars
<1>5. ASSUME NEW v \in Venue, DeletePlatformVenue(q, v)
      PROVE  TypeOK'
  BY <1>5, AnswerTyped, SeenTyped
     DEF TypeOK, DeletePlatformVenue, Finish, roomVars, stockVars, bookingVars
<1>6. ASSUME NEW u \in User, NEW v \in Venue, AddVenueStaff(q, v, u)
      PROVE  TypeOK'
  BY <1>6, AnswerTyped, SeenTyped
     DEF TypeOK, AddVenueStaff, Finish, roomVars, stockVars, bookingVars,
         Assignment, Role
<1>7. ASSUME NEW u \in User, NEW v \in Venue, RemoveVenueStaff(q, v, u)
      PROVE  TypeOK'
  BY <1>7, AnswerTyped, SeenTyped
     DEF TypeOK, RemoveVenueStaff, roomVars, stockVars, bookingVars
<1>8. ASSUME NEW u \in User, NEW rows \in Grant, NEW a \in rows, CreatePlatformUser(q, u, a)
      PROVE  TypeOK'
  BY <1>8, AnswerTyped, SeenTyped, AdministrationAssumption
     DEF TypeOK, CreatePlatformUser, Finish, roomVars, stockVars, bookingVars,
         Assignment
<1>9. ASSUME NEW u \in User, NEW rows \in Grant, ReplaceBegin(q, u, rows)
      PROVE  TypeOK'
  BY <1>9, AnswerTyped, SeenTyped, AdministrationAssumption
     DEF TypeOK, ReplaceBegin, tenantVars, roomVars, stockVars, bookingVars
<1>10. ASSUME ReplaceCommit(q)
       PROVE  TypeOK'
  BY <1>10, AnswerTyped, SeenTyped
     DEF TypeOK, ReplaceCommit, roomVars, stockVars, bookingVars,
         WorkAuthorized
<1>11. ASSUME NEW x \in Room, NEW v \in Venue, NEW bounds \in Limits, CreateManagedRoom(q, v, x, bounds)
       PROVE  TypeOK'
  BY <1>11, AnswerTyped, SeenTyped
     DEF TypeOK, CreateManagedRoom, Finish, tenantVars, stockVars,
         bookingVars, Limits
<1>12. ASSUME NEW x \in Room, EditRoomRead(q, x)
       PROVE  TypeOK'
  BY <1>12, AnswerTyped, SeenTyped
     DEF TypeOK, EditRoomRead, tenantVars, roomVars, stockVars, bookingVars,
         Limits
<1>13. ASSUME NEW lo \in Minutes \cup {None}, NEW hi \in Minutes \cup {None}, EditRoomWrite(q, lo, hi)
       PROVE  TypeOK'
  BY <1>13, AnswerTyped, SeenTyped
     DEF TypeOK, EditRoomWrite, Finish, tenantVars, stockVars, bookingVars,
         Given, Limits, WorkAuthorized
<1>14. ASSUME NEW x \in Room, DeleteManagedRoom(q, x)
       PROVE  TypeOK'
  BY <1>14, AnswerTyped, SeenTyped
     DEF TypeOK, DeleteManagedRoom, Finish, tenantVars, stockVars, bookingVars
<1>15. ASSUME NEW e \in Equipment, NEW v \in Venue, CreateManagedEquipment(q, v, e)
       PROVE  TypeOK'
  BY <1>15, AnswerTyped, SeenTyped
     DEF TypeOK, CreateManagedEquipment, Finish, tenantVars, roomVars,
         bookingVars
<1>16. ASSUME NEW e \in Equipment, DeleteManagedEquipment(q, e)
       PROVE  TypeOK'
  BY <1>16, AnswerTyped, SeenTyped
     DEF TypeOK, DeleteManagedEquipment, Finish, tenantVars, roomVars,
         bookingVars
<1>17. ASSUME NEW x \in Room, HoldFind(q, x)
       PROVE  TypeOK'
  BY <1>17, AnswerTyped, SeenTyped
     DEF TypeOK, HoldFind, tenantVars, roomVars, stockVars, bookingVars
<1>18. ASSUME NEW items \in SUBSET Equipment, HoldCommit(q, items)
       PROVE  TypeOK'
  BY <1>18, AnswerTyped, SeenTyped
     DEF TypeOK, HoldCommit, Finish, tenantVars, roomVars, stockVars,
         WorkAuthorized
<1>19. ASSUME Reject(q)
       PROVE  TypeOK'
  BY <1>19, AnswerTyped, SeenTyped
     DEF TypeOK, Reject, Finish, tenantVars, roomVars, stockVars, bookingVars
<1>20. QED
  BY <1>1, <1>2, <1>3, <1>4, <1>5, <1>6, <1>7, <1>8, <1>9, <1>10,
     <1>11, <1>12, <1>13, <1>14, <1>15, <1>16, <1>17, <1>18, <1>19
     DEF RequestStep, VenueStep, UserStep, RoomStep, StockStep, SecondStep

(* A venue is deleted with the assignments that name it, and an assignment *)
(* is only made for a venue that is open at that moment.                   *)
LEMMA RowsStep ==
  ASSUME IInv, TypeOK', NEW q \in Request, RequestStep(q)
  PROVE  RowsExist'
<1>1. ASSUME NEW u \in User, Authenticate(q, u)
      PROVE  RowsExist'
  BY <1>1
     DEF IInv, TypeOK, RowsExist, Authenticate, tenantVars
<1>2. ASSUME NEW v \in Venue, NEW s \in Setting, UpdateVenueConfiguration(q, v, s)
      PROVE  RowsExist'
  BY <1>2
     DEF IInv, TypeOK, RowsExist, UpdateVenueConfiguration, SetConfiguration
<1>3. ASSUME NEW v \in Venue, NEW s \in Setting, UpdatePlatformVenue(q, v, s)
      PROVE  RowsExist'
  BY <1>3
     DEF IInv, TypeOK, RowsExist, UpdatePlatformVenue, SetConfiguration
<1>4. ASSUME NEW v \in Venue, CreatePlatformVenue(q, v)
      PROVE  RowsExist'
  BY <1>4
     DEF IInv, TypeOK, RowsExist, CreatePlatformVenue
<1>5. ASSUME NEW v \in Venue, DeletePlatformVenue(q, v)
      PROVE  RowsExist'
  BY <1>5
     DEF IInv, TypeOK, RowsExist, DeletePlatformVenue
<1>6. ASSUME NEW u \in User, NEW v \in Venue, AddVenueStaff(q, v, u)
      PROVE  RowsExist'
  BY <1>6
     DEF IInv, TypeOK, RowsExist, AddVenueStaff, Assignment
<1>7. ASSUME NEW u \in User, NEW v \in Venue, RemoveVenueStaff(q, v, u)
      PROVE  RowsExist'
  BY <1>7
     DEF IInv, TypeOK, RowsExist, RemoveVenueStaff
<1>8. ASSUME NEW u \in User, NEW rows \in Grant, NEW a \in rows, CreatePlatformUser(q, u, a)
      PROVE  RowsExist'
  BY <1>8, AdministrationAssumption
     DEF IInv, TypeOK, RowsExist, CreatePlatformUser, Assignment
<1>9. ASSUME NEW u \in User, NEW rows \in Grant, ReplaceBegin(q, u, rows)
      PROVE  RowsExist'
  BY <1>9
     DEF IInv, TypeOK, RowsExist, ReplaceBegin, tenantVars
<1>10. ASSUME ReplaceCommit(q)
       PROVE  RowsExist'
  BY <1>10
     DEF IInv, TypeOK, RowsExist, ReplaceCommit, WorkAuthorized
<1>11. ASSUME NEW x \in Room, NEW v \in Venue, NEW bounds \in Limits, CreateManagedRoom(q, v, x, bounds)
       PROVE  RowsExist'
  BY <1>11
     DEF IInv, TypeOK, RowsExist, CreateManagedRoom, tenantVars
<1>12. ASSUME NEW x \in Room, EditRoomRead(q, x)
       PROVE  RowsExist'
  BY <1>12
     DEF IInv, TypeOK, RowsExist, EditRoomRead, tenantVars
<1>13. ASSUME NEW lo \in Minutes \cup {None}, NEW hi \in Minutes \cup {None}, EditRoomWrite(q, lo, hi)
       PROVE  RowsExist'
  BY <1>13
     DEF IInv, TypeOK, RowsExist, EditRoomWrite, tenantVars
<1>14. ASSUME NEW x \in Room, DeleteManagedRoom(q, x)
       PROVE  RowsExist'
  BY <1>14
     DEF IInv, TypeOK, RowsExist, DeleteManagedRoom, tenantVars
<1>15. ASSUME NEW e \in Equipment, NEW v \in Venue, CreateManagedEquipment(q, v, e)
       PROVE  RowsExist'
  BY <1>15
     DEF IInv, TypeOK, RowsExist, CreateManagedEquipment, tenantVars
<1>16. ASSUME NEW e \in Equipment, DeleteManagedEquipment(q, e)
       PROVE  RowsExist'
  BY <1>16
     DEF IInv, TypeOK, RowsExist, DeleteManagedEquipment, tenantVars
<1>17. ASSUME NEW x \in Room, HoldFind(q, x)
       PROVE  RowsExist'
  BY <1>17
     DEF IInv, TypeOK, RowsExist, HoldFind, tenantVars
<1>18. ASSUME NEW items \in SUBSET Equipment, HoldCommit(q, items)
       PROVE  RowsExist'
  BY <1>18
     DEF IInv, TypeOK, RowsExist, HoldCommit, tenantVars
<1>19. ASSUME Reject(q)
       PROVE  RowsExist'
  BY <1>19
     DEF IInv, TypeOK, RowsExist, Reject, tenantVars
<1>20. QED
  BY <1>1, <1>2, <1>3, <1>4, <1>5, <1>6, <1>7, <1>8, <1>9, <1>10,
     <1>11, <1>12, <1>13, <1>14, <1>15, <1>16, <1>17, <1>18, <1>19
     DEF RequestStep, VenueStep, UserStep, RoomStep, StockStep, SecondStep

(* A hold finds its rows when it commits, and from then on they are in use.*)
LEMMA BookingsStep ==
  ASSUME IInv, TypeOK', NEW q \in Request, RequestStep(q)
  PROVE  BookingsKeepRows'
<1>1. ASSUME NEW u \in User, Authenticate(q, u)
      PROVE  BookingsKeepRows'
  BY <1>1
     DEF IInv, TypeOK, BookingsKeepRows, RoomExists, EquipmentExists,
         Authenticate, tenantVars, roomVars, stockVars, bookingVars
<1>2. ASSUME NEW v \in Venue, NEW s \in Setting, UpdateVenueConfiguration(q, v, s)
      PROVE  BookingsKeepRows'
  BY <1>2
     DEF IInv, TypeOK, BookingsKeepRows, RoomExists, EquipmentExists,
         UpdateVenueConfiguration, SetConfiguration, roomVars, stockVars,
         bookingVars
<1>3. ASSUME NEW v \in Venue, NEW s \in Setting, UpdatePlatformVenue(q, v, s)
      PROVE  BookingsKeepRows'
  BY <1>3
     DEF IInv, TypeOK, BookingsKeepRows, RoomExists, EquipmentExists,
         UpdatePlatformVenue, SetConfiguration, roomVars, stockVars,
         bookingVars
<1>4. ASSUME NEW v \in Venue, CreatePlatformVenue(q, v)
      PROVE  BookingsKeepRows'
  BY <1>4
     DEF IInv, TypeOK, BookingsKeepRows, RoomExists, EquipmentExists,
         CreatePlatformVenue, roomVars, stockVars, bookingVars
<1>5. ASSUME NEW v \in Venue, DeletePlatformVenue(q, v)
      PROVE  BookingsKeepRows'
  BY <1>5
     DEF IInv, TypeOK, BookingsKeepRows, RoomExists, EquipmentExists,
         DeletePlatformVenue, VenueInUse, roomVars, stockVars, bookingVars
<1>6. ASSUME NEW u \in User, NEW v \in Venue, AddVenueStaff(q, v, u)
      PROVE  BookingsKeepRows'
  BY <1>6
     DEF IInv, TypeOK, BookingsKeepRows, RoomExists, EquipmentExists,
         AddVenueStaff, roomVars, stockVars, bookingVars
<1>7. ASSUME NEW u \in User, NEW v \in Venue, RemoveVenueStaff(q, v, u)
      PROVE  BookingsKeepRows'
  BY <1>7
     DEF IInv, TypeOK, BookingsKeepRows, RoomExists, EquipmentExists,
         RemoveVenueStaff, roomVars, stockVars, bookingVars
<1>8. ASSUME NEW u \in User, NEW rows \in Grant, NEW a \in rows, CreatePlatformUser(q, u, a)
      PROVE  BookingsKeepRows'
  BY <1>8
     DEF IInv, TypeOK, BookingsKeepRows, RoomExists, EquipmentExists,
         CreatePlatformUser, roomVars, stockVars, bookingVars
<1>9. ASSUME NEW u \in User, NEW rows \in Grant, ReplaceBegin(q, u, rows)
      PROVE  BookingsKeepRows'
  BY <1>9
     DEF IInv, TypeOK, BookingsKeepRows, RoomExists, EquipmentExists,
         ReplaceBegin, tenantVars, roomVars, stockVars, bookingVars
<1>10. ASSUME ReplaceCommit(q)
       PROVE  BookingsKeepRows'
  BY <1>10
     DEF IInv, TypeOK, BookingsKeepRows, RoomExists, EquipmentExists,
         ReplaceCommit, roomVars, stockVars, bookingVars
<1>11. ASSUME NEW x \in Room, NEW v \in Venue, NEW bounds \in Limits, CreateManagedRoom(q, v, x, bounds)
       PROVE  BookingsKeepRows'
  BY <1>11, AdministrationAssumption
     DEF IInv, TypeOK, BookingsKeepRows, RoomExists, EquipmentExists,
         CreateManagedRoom, tenantVars, stockVars, bookingVars
<1>12. ASSUME NEW x \in Room, EditRoomRead(q, x)
       PROVE  BookingsKeepRows'
  BY <1>12
     DEF IInv, TypeOK, BookingsKeepRows, RoomExists, EquipmentExists,
         EditRoomRead, tenantVars, roomVars, stockVars, bookingVars
<1>13. ASSUME NEW lo \in Minutes \cup {None}, NEW hi \in Minutes \cup {None}, EditRoomWrite(q, lo, hi)
       PROVE  BookingsKeepRows'
  BY <1>13
     DEF IInv, TypeOK, BookingsKeepRows, RoomExists, EquipmentExists,
         EditRoomWrite, tenantVars, stockVars, bookingVars, WorkAuthorized
<1>14. ASSUME NEW x \in Room, DeleteManagedRoom(q, x)
       PROVE  BookingsKeepRows'
  BY <1>14
     DEF IInv, TypeOK, BookingsKeepRows, RoomExists, EquipmentExists,
         DeleteManagedRoom, tenantVars, stockVars, bookingVars
<1>15. ASSUME NEW e \in Equipment, NEW v \in Venue, CreateManagedEquipment(q, v, e)
       PROVE  BookingsKeepRows'
  BY <1>15, AdministrationAssumption
     DEF IInv, TypeOK, BookingsKeepRows, RoomExists, EquipmentExists,
         CreateManagedEquipment, tenantVars, roomVars, bookingVars
<1>16. ASSUME NEW e \in Equipment, DeleteManagedEquipment(q, e)
       PROVE  BookingsKeepRows'
  BY <1>16
     DEF IInv, TypeOK, BookingsKeepRows, RoomExists, EquipmentExists,
         DeleteManagedEquipment, tenantVars, roomVars, bookingVars
<1>17. ASSUME NEW x \in Room, HoldFind(q, x)
       PROVE  BookingsKeepRows'
  BY <1>17
     DEF IInv, TypeOK, BookingsKeepRows, RoomExists, EquipmentExists,
         HoldFind, tenantVars, roomVars, stockVars, bookingVars
<1>18. ASSUME NEW items \in SUBSET Equipment, HoldCommit(q, items)
       PROVE  BookingsKeepRows'
  BY <1>18
     DEF IInv, TypeOK, BookingsKeepRows, RoomExists, EquipmentExists,
         HoldCommit, tenantVars, roomVars, stockVars, WorkAuthorized
<1>19. ASSUME Reject(q)
       PROVE  BookingsKeepRows'
  BY <1>19
     DEF IInv, TypeOK, BookingsKeepRows, RoomExists, EquipmentExists, Reject,
         tenantVars, roomVars, stockVars, bookingVars
<1>20. QED
  BY <1>1, <1>2, <1>3, <1>4, <1>5, <1>6, <1>7, <1>8, <1>9, <1>10,
     <1>11, <1>12, <1>13, <1>14, <1>15, <1>16, <1>17, <1>18, <1>19
     DEF RequestStep, VenueStep, UserStep, RoomStep, StockStep, SecondStep

(* The room of an edit never moves to another venue, so the check made     *)
(* when its venue was read stays right.                                    *)
LEMMA WorkStep ==
  ASSUME IInv, TypeOK', NEW q \in Request, RequestStep(q)
  PROVE  WorkAuthorized'
<1>1. ASSUME NEW u \in User, Authenticate(q, u)
      PROVE  WorkAuthorized'
  BY <1>1
     DEF IInv, TypeOK, WorkAuthorized, Authenticate, tenantVars, roomVars
<1>2. ASSUME NEW v \in Venue, NEW s \in Setting, UpdateVenueConfiguration(q, v, s)
      PROVE  WorkAuthorized'
  BY <1>2, AnswerWork
     DEF IInv, TypeOK, WorkAuthorized, UpdateVenueConfiguration,
         SetConfiguration, Finish, roomVars
<1>3. ASSUME NEW v \in Venue, NEW s \in Setting, UpdatePlatformVenue(q, v, s)
      PROVE  WorkAuthorized'
  BY <1>3, AnswerWork
     DEF IInv, TypeOK, WorkAuthorized, UpdatePlatformVenue, SetConfiguration,
         Finish, roomVars
<1>4. ASSUME NEW v \in Venue, CreatePlatformVenue(q, v)
      PROVE  WorkAuthorized'
  BY <1>4, AnswerWork
     DEF IInv, TypeOK, WorkAuthorized, CreatePlatformVenue, Finish, roomVars
<1>5. ASSUME NEW v \in Venue, DeletePlatformVenue(q, v)
      PROVE  WorkAuthorized'
  BY <1>5, AnswerWork
     DEF IInv, TypeOK, WorkAuthorized, DeletePlatformVenue, Finish, roomVars
<1>6. ASSUME NEW u \in User, NEW v \in Venue, AddVenueStaff(q, v, u)
      PROVE  WorkAuthorized'
  BY <1>6, AnswerWork
     DEF IInv, TypeOK, WorkAuthorized, AddVenueStaff, Finish, roomVars
<1>7. ASSUME NEW u \in User, NEW v \in Venue, RemoveVenueStaff(q, v, u)
      PROVE  WorkAuthorized'
  BY <1>7, AnswerWork
     DEF IInv, TypeOK, WorkAuthorized, RemoveVenueStaff, roomVars
<1>8. ASSUME NEW u \in User, NEW rows \in Grant, NEW a \in rows, CreatePlatformUser(q, u, a)
      PROVE  WorkAuthorized'
  BY <1>8, AnswerWork
     DEF IInv, TypeOK, WorkAuthorized, CreatePlatformUser, Finish, roomVars
<1>9. ASSUME NEW u \in User, NEW rows \in Grant, ReplaceBegin(q, u, rows)
      PROVE  WorkAuthorized'
  BY <1>9
     DEF IInv, TypeOK, WorkAuthorized, ReplaceBegin, tenantVars, roomVars
<1>10. ASSUME ReplaceCommit(q)
       PROVE  WorkAuthorized'
  BY <1>10, AnswerWork
     DEF IInv, TypeOK, WorkAuthorized, ReplaceCommit, roomVars
<1>11. ASSUME NEW x \in Room, NEW v \in Venue, NEW bounds \in Limits, CreateManagedRoom(q, v, x, bounds)
       PROVE  WorkAuthorized'
  BY <1>11, AnswerWork
     DEF IInv, TypeOK, WorkAuthorized, CreateManagedRoom, Finish, tenantVars
<1>12. ASSUME NEW x \in Room, EditRoomRead(q, x)
       PROVE  WorkAuthorized'
  BY <1>12
     DEF IInv, TypeOK, WorkAuthorized, EditRoomRead, RoomLive, tenantVars,
         roomVars, RoomExists
<1>13. ASSUME NEW lo \in Minutes \cup {None}, NEW hi \in Minutes \cup {None}, EditRoomWrite(q, lo, hi)
       PROVE  WorkAuthorized'
  BY <1>13, AnswerWork
     DEF IInv, TypeOK, WorkAuthorized, EditRoomWrite, Finish, tenantVars
<1>14. ASSUME NEW x \in Room, DeleteManagedRoom(q, x)
       PROVE  WorkAuthorized'
  BY <1>14, AnswerWork
     DEF IInv, TypeOK, WorkAuthorized, DeleteManagedRoom, Finish, RoomLive,
         tenantVars
<1>15. ASSUME NEW e \in Equipment, NEW v \in Venue, CreateManagedEquipment(q, v, e)
       PROVE  WorkAuthorized'
  BY <1>15, AnswerWork
     DEF IInv, TypeOK, WorkAuthorized, CreateManagedEquipment, Finish,
         tenantVars, roomVars
<1>16. ASSUME NEW e \in Equipment, DeleteManagedEquipment(q, e)
       PROVE  WorkAuthorized'
  BY <1>16, AnswerWork
     DEF IInv, TypeOK, WorkAuthorized, DeleteManagedEquipment, Finish,
         tenantVars, roomVars
<1>17. ASSUME NEW x \in Room, HoldFind(q, x)
       PROVE  WorkAuthorized'
  BY <1>17
     DEF IInv, TypeOK, WorkAuthorized, HoldFind, RoomLive, tenantVars,
         roomVars
<1>18. ASSUME NEW items \in SUBSET Equipment, HoldCommit(q, items)
       PROVE  WorkAuthorized'
  BY <1>18, AnswerWork
     DEF IInv, TypeOK, WorkAuthorized, HoldCommit, Finish, tenantVars,
         roomVars
<1>19. ASSUME Reject(q)
       PROVE  WorkAuthorized'
  BY <1>19, AnswerWork
     DEF IInv, TypeOK, WorkAuthorized, Reject, Finish, tenantVars, roomVars
<1>20. QED
  BY <1>1, <1>2, <1>3, <1>4, <1>5, <1>6, <1>7, <1>8, <1>9, <1>10,
     <1>11, <1>12, <1>13, <1>14, <1>15, <1>16, <1>17, <1>18, <1>19
     DEF RequestStep, VenueStep, UserStep, RoomStep, StockStep, SecondStep

LEMMA InvariantInitial == Init => IInv
<1> SUFFICES ASSUME Init PROVE IInv OBVIOUS
<1>1. TypeOK BY AdministrationAssumption DEF Init, TypeOK, Limits
<1>2. RowsExist BY AdministrationAssumption DEF Init, RowsExist
<1>3. BookingsKeepRows BY DEF Init, BookingsKeepRows
<1>4. WorkAuthorized BY DEF Init, WorkAuthorized
<1>5. QED BY <1>1, <1>2, <1>3, <1>4 DEF IInv

LEMMA InvariantStep == IInv /\ [Next]_vars => IInv'
<1> SUFFICES ASSUME IInv, [Next]_vars PROVE IInv' OBVIOUS
<1>1. CASE UNCHANGED vars
  BY <1>1 DEF IInv, TypeOK, RowsExist, BookingsKeepRows, RoomExists, EquipmentExists, WorkAuthorized,
              vars, tenantVars, roomVars, stockVars, bookingVars, requestVars
<1>2. ASSUME NEW q \in Request, RequestStep(q) PROVE IInv'
  <2>1. TypeOK' BY <1>2, TypeStep DEF IInv
  <2>2. QED BY <1>2, <2>1, RowsStep, BookingsStep, WorkStep DEF IInv
<1>3. QED BY <1>1, <1>2 DEF Next, RequestStep

(* The invariant: assignments name existing users and venues, bookings     *)
(* keep their rows, and a request between its two steps was authorized for *)
(* the row it is about to write.                                           *)
THEOREM AuthorityInvariance == Spec => []IInv
<1>1. QED BY InvariantInitial, InvariantStep, PTL DEF Spec

(* A room with a booking and equipment of a line item are never deleted,   *)
(* nor is their venue.                                                     *)
THEOREM BookingsKept == Spec => []BookingsKeepRows
<1>1. IInv => BookingsKeepRows BY DEF IInv
<1>2. QED BY <1>1, AuthorityInvariance, PTL

-----------------------------------------------------------------------------
(* The properties                                                          *)

LEMMA AnswerActs ==
  ASSUME TypeOK, NEW q \in Request, at[q] \notin {"new", "done"}, Answer(q)
  PROVE  Acts(q)
BY AnswerWork DEF Acts

LEMMA VenueAdminChecked ==
  ASSUME NEW q \in Request, NEW v \in Venue, AuthorizeVenueAdmin(held[q], v)
  PROVE  IsAdminOf(q, v)
BY DEF AuthorizeVenueAdmin, HasGlobalRole, HasVenueRole, IsAdminOf, IsPlatformAdmin

LEMMA PlatformAdminChecked ==
  ASSUME NEW q \in Request, RequirePlatformAdmin(held[q])
  PROVE  IsPlatformAdmin(q)
BY DEF RequirePlatformAdmin, HasGlobalRole, IsPlatformAdmin

(* A step that writes is one of a request with the authority for it.       *)
LEMMA IsolationStep ==
  ASSUME IInv, TypeOK', NEW q \in Request, RequestStep(q), NEW w \in Venue, Changes(w)
  PROVE  Acts(q) /\ IsAdminOf(q, w)
<1>1. ASSUME NEW u \in User, Authenticate(q, u)
      PROVE  Acts(q) /\ IsAdminOf(q, w)
  BY <1>1
     DEF IInv, TypeOK, Changes, VenueRows, Acts, IsAdminOf, IsPlatformAdmin,
         Authenticate, tenantVars, roomVars, stockVars, bookingVars
<1>2. ASSUME NEW v \in Venue, NEW s \in Setting, UpdateVenueConfiguration(q, v, s)
      PROVE  Acts(q) /\ IsAdminOf(q, w)
  BY <1>2
     DEF IInv, TypeOK, Changes, VenueRows, Acts, IsAdminOf, IsPlatformAdmin,
         UpdateVenueConfiguration, Finish, roomVars, stockVars, bookingVars,
         Answer, SetConfiguration, AuthorizeVenueAdmin, HasVenueRole,
         HasGlobalRole
<1>3. ASSUME NEW v \in Venue, NEW s \in Setting, UpdatePlatformVenue(q, v, s)
      PROVE  Acts(q) /\ IsAdminOf(q, w)
  BY <1>3
     DEF IInv, TypeOK, Changes, VenueRows, Acts, IsAdminOf, IsPlatformAdmin,
         UpdatePlatformVenue, Finish, roomVars, stockVars, bookingVars,
         Answer, SetConfiguration, RequirePlatformAdmin, HasGlobalRole
<1>4. ASSUME NEW v \in Venue, CreatePlatformVenue(q, v)
      PROVE  Acts(q) /\ IsAdminOf(q, w)
  BY <1>4
     DEF IInv, TypeOK, Changes, VenueRows, Acts, IsAdminOf, IsPlatformAdmin,
         CreatePlatformVenue, Finish, roomVars, stockVars, bookingVars,
         Answer, RequirePlatformAdmin, HasGlobalRole
<1>5. ASSUME NEW v \in Venue, DeletePlatformVenue(q, v)
      PROVE  Acts(q) /\ IsAdminOf(q, w)
  BY <1>5
     DEF IInv, TypeOK, Changes, VenueRows, Acts, IsAdminOf, IsPlatformAdmin,
         DeletePlatformVenue, Finish, roomVars, stockVars, bookingVars,
         Answer, RequirePlatformAdmin, HasGlobalRole
<1>6. ASSUME NEW u \in User, NEW v \in Venue, AddVenueStaff(q, v, u)
      PROVE  Acts(q) /\ IsAdminOf(q, w)
  <2>1. w = v
    BY <1>6 DEF IInv, TypeOK, Changes, VenueRows, AddVenueStaff, roomVars, stockVars, bookingVars
  <2>2. Acts(q) BY <1>6, AnswerActs DEF IInv, AddVenueStaff, Finish
  <2>3. QED BY <1>6, <2>1, <2>2, VenueAdminChecked DEF AddVenueStaff
<1>7. ASSUME NEW u \in User, NEW v \in Venue, RemoveVenueStaff(q, v, u)
      PROVE  Acts(q) /\ IsAdminOf(q, w)
  <2>1. w = v
    BY <1>7 DEF IInv, TypeOK, Changes, VenueRows, RemoveVenueStaff, roomVars, stockVars, bookingVars
  <2>2. Acts(q) BY <1>7, AnswerActs DEF IInv, RemoveVenueStaff
  <2>3. QED BY <1>7, <2>1, <2>2, VenueAdminChecked DEF RemoveVenueStaff
<1>8. ASSUME NEW u \in User, NEW rows \in Grant, NEW a \in rows, CreatePlatformUser(q, u, a)
      PROVE  Acts(q) /\ IsAdminOf(q, w)
  BY <1>8
     DEF IInv, TypeOK, Changes, VenueRows, Acts, IsAdminOf, IsPlatformAdmin,
         CreatePlatformUser, Finish, roomVars, stockVars, bookingVars, Answer,
         RequirePlatformAdmin, HasGlobalRole
<1>9. ASSUME NEW u \in User, NEW rows \in Grant, ReplaceBegin(q, u, rows)
      PROVE  Acts(q) /\ IsAdminOf(q, w)
  BY <1>9
     DEF IInv, TypeOK, Changes, VenueRows, Acts, IsAdminOf, IsPlatformAdmin,
         ReplaceBegin, tenantVars, roomVars, stockVars, bookingVars
<1>10. ASSUME ReplaceCommit(q)
       PROVE  Acts(q) /\ IsAdminOf(q, w)
  BY <1>10
     DEF IInv, TypeOK, Changes, VenueRows, Acts, IsAdminOf, IsPlatformAdmin,
         ReplaceCommit, roomVars, stockVars, bookingVars, WorkAuthorized,
         Answer, RequirePlatformAdmin, HasGlobalRole
<1>11. ASSUME NEW x \in Room, NEW v \in Venue, NEW bounds \in Limits, CreateManagedRoom(q, v, x, bounds)
       PROVE  Acts(q) /\ IsAdminOf(q, w)
  <2>1. w = v
    BY <1>11, AdministrationAssumption DEF IInv, TypeOK, Changes, VenueRows, CreateManagedRoom, tenantVars, stockVars, bookingVars
  <2>2. Acts(q) BY <1>11, AnswerActs DEF IInv, CreateManagedRoom, Finish
  <2>3. QED BY <1>11, <2>1, <2>2, VenueAdminChecked DEF CreateManagedRoom
<1>12. ASSUME NEW x \in Room, EditRoomRead(q, x)
       PROVE  Acts(q) /\ IsAdminOf(q, w)
  BY <1>12
     DEF IInv, TypeOK, Changes, VenueRows, Acts, IsAdminOf, IsPlatformAdmin,
         EditRoomRead, tenantVars, roomVars, stockVars, bookingVars,
         AuthorizeVenueAdmin, HasVenueRole, HasGlobalRole
<1>13. ASSUME NEW lo \in Minutes \cup {None}, NEW hi \in Minutes \cup {None}, EditRoomWrite(q, lo, hi)
       PROVE  Acts(q) /\ IsAdminOf(q, w)
  BY <1>13
     DEF IInv, TypeOK, Changes, VenueRows, Acts, IsAdminOf, IsPlatformAdmin,
         EditRoomWrite, Finish, tenantVars, stockVars, bookingVars, Answer,
         WorkAuthorized, AuthorizeVenueAdmin, HasVenueRole, HasGlobalRole
<1>14. ASSUME NEW x \in Room, DeleteManagedRoom(q, x)
       PROVE  Acts(q) /\ IsAdminOf(q, w)
  <2>1. w = roomVenue[x]
    BY <1>14 DEF IInv, TypeOK, Changes, VenueRows, DeleteManagedRoom, tenantVars, stockVars, bookingVars
  <2>2. Acts(q) BY <1>14, AnswerActs DEF IInv, DeleteManagedRoom, Finish
  <2>3. QED BY <1>14, <2>1, <2>2, VenueAdminChecked DEF DeleteManagedRoom
<1>15. ASSUME NEW e \in Equipment, NEW v \in Venue, CreateManagedEquipment(q, v, e)
       PROVE  Acts(q) /\ IsAdminOf(q, w)
  <2>1. w = v
    BY <1>15, AdministrationAssumption DEF IInv, TypeOK, Changes, VenueRows, CreateManagedEquipment, tenantVars, roomVars, bookingVars
  <2>2. Acts(q) BY <1>15, AnswerActs DEF IInv, CreateManagedEquipment, Finish
  <2>3. QED BY <1>15, <2>1, <2>2, VenueAdminChecked DEF CreateManagedEquipment
<1>16. ASSUME NEW e \in Equipment, DeleteManagedEquipment(q, e)
       PROVE  Acts(q) /\ IsAdminOf(q, w)
  <2>1. w = equipmentVenue[e]
    BY <1>16 DEF IInv, TypeOK, Changes, VenueRows, DeleteManagedEquipment, tenantVars, roomVars, bookingVars
  <2>2. Acts(q) BY <1>16, AnswerActs DEF IInv, DeleteManagedEquipment, Finish
  <2>3. QED BY <1>16, <2>1, <2>2, VenueAdminChecked DEF DeleteManagedEquipment
<1>17. ASSUME NEW x \in Room, HoldFind(q, x)
       PROVE  Acts(q) /\ IsAdminOf(q, w)
  BY <1>17
     DEF IInv, TypeOK, Changes, VenueRows, Acts, IsAdminOf, IsPlatformAdmin,
         HoldFind, tenantVars, roomVars, stockVars, bookingVars
<1>18. ASSUME NEW items \in SUBSET Equipment, HoldCommit(q, items)
       PROVE  Acts(q) /\ IsAdminOf(q, w)
  BY <1>18
     DEF IInv, TypeOK, Changes, VenueRows, Acts, IsAdminOf, IsPlatformAdmin,
         HoldCommit, Finish, tenantVars, roomVars, stockVars, Answer
<1>19. ASSUME Reject(q)
       PROVE  Acts(q) /\ IsAdminOf(q, w)
  BY <1>19
     DEF IInv, TypeOK, Changes, VenueRows, Acts, IsAdminOf, IsPlatformAdmin,
         Reject, Finish, tenantVars, roomVars, stockVars, bookingVars, Answer
<1>20. QED
  BY <1>1, <1>2, <1>3, <1>4, <1>5, <1>6, <1>7, <1>8, <1>9, <1>10,
     <1>11, <1>12, <1>13, <1>14, <1>15, <1>16, <1>17, <1>18, <1>19
     DEF RequestStep, VenueStep, UserStep, RoomStep, StockStep, SecondStep

LEMMA AppointmentStep ==
  ASSUME IInv, TypeOK', NEW q \in Request, RequestStep(q),
         NEW m \in User, NEW b \in roles'[m] \ roles[m]
  PROVE  Acts(q) /\ (IsPlatformAdmin(q) \/ (b[2] = "VENUE_STAFF" /\ IsAdminOf(q, b[1])))
<1>1. ASSUME NEW u \in User, Authenticate(q, u)
      PROVE  Acts(q) /\ (IsPlatformAdmin(q) \/ (b[2] = "VENUE_STAFF" /\ IsAdminOf(q, b[1])))
  BY <1>1
     DEF IInv, TypeOK, Acts, IsAdminOf, IsPlatformAdmin, Authenticate,
         tenantVars
<1>2. ASSUME NEW v \in Venue, NEW s \in Setting, UpdateVenueConfiguration(q, v, s)
      PROVE  Acts(q) /\ (IsPlatformAdmin(q) \/ (b[2] = "VENUE_STAFF" /\ IsAdminOf(q, b[1])))
  BY <1>2
     DEF IInv, TypeOK, Acts, IsAdminOf, IsPlatformAdmin,
         UpdateVenueConfiguration, SetConfiguration, Finish
<1>3. ASSUME NEW v \in Venue, NEW s \in Setting, UpdatePlatformVenue(q, v, s)
      PROVE  Acts(q) /\ (IsPlatformAdmin(q) \/ (b[2] = "VENUE_STAFF" /\ IsAdminOf(q, b[1])))
  BY <1>3
     DEF IInv, TypeOK, Acts, IsAdminOf, IsPlatformAdmin, UpdatePlatformVenue,
         SetConfiguration, Finish
<1>4. ASSUME NEW v \in Venue, CreatePlatformVenue(q, v)
      PROVE  Acts(q) /\ (IsPlatformAdmin(q) \/ (b[2] = "VENUE_STAFF" /\ IsAdminOf(q, b[1])))
  BY <1>4
     DEF IInv, TypeOK, Acts, IsAdminOf, IsPlatformAdmin, CreatePlatformVenue
<1>5. ASSUME NEW v \in Venue, DeletePlatformVenue(q, v)
      PROVE  Acts(q) /\ (IsPlatformAdmin(q) \/ (b[2] = "VENUE_STAFF" /\ IsAdminOf(q, b[1])))
  BY <1>5
     DEF IInv, TypeOK, Acts, IsAdminOf, IsPlatformAdmin, DeletePlatformVenue
<1>6. ASSUME NEW u \in User, NEW v \in Venue, AddVenueStaff(q, v, u)
      PROVE  Acts(q) /\ (IsPlatformAdmin(q) \/ (b[2] = "VENUE_STAFF" /\ IsAdminOf(q, b[1])))
  <2>1. b = <<v, "VENUE_STAFF">> BY <1>6 DEF IInv, TypeOK, AddVenueStaff
  <2>2. Acts(q) BY <1>6, AnswerActs DEF IInv, AddVenueStaff, Finish
  <2>3. IsAdminOf(q, v) BY <1>6, VenueAdminChecked DEF AddVenueStaff
  <2>4. QED BY <2>1, <2>2, <2>3
<1>7. ASSUME NEW u \in User, NEW v \in Venue, RemoveVenueStaff(q, v, u)
      PROVE  Acts(q) /\ (IsPlatformAdmin(q) \/ (b[2] = "VENUE_STAFF" /\ IsAdminOf(q, b[1])))
  BY <1>7
     DEF IInv, TypeOK, Acts, IsAdminOf, IsPlatformAdmin, RemoveVenueStaff
<1>8. ASSUME NEW u \in User, NEW rows \in Grant, NEW a \in rows, CreatePlatformUser(q, u, a)
      PROVE  Acts(q) /\ (IsPlatformAdmin(q) \/ (b[2] = "VENUE_STAFF" /\ IsAdminOf(q, b[1])))
  BY <1>8
     DEF IInv, TypeOK, Acts, IsAdminOf, IsPlatformAdmin, CreatePlatformUser,
         Finish, Answer, RequirePlatformAdmin, HasGlobalRole
<1>9. ASSUME NEW u \in User, NEW rows \in Grant, ReplaceBegin(q, u, rows)
      PROVE  Acts(q) /\ (IsPlatformAdmin(q) \/ (b[2] = "VENUE_STAFF" /\ IsAdminOf(q, b[1])))
  BY <1>9
     DEF IInv, TypeOK, Acts, IsAdminOf, IsPlatformAdmin, ReplaceBegin,
         tenantVars
<1>10. ASSUME ReplaceCommit(q)
       PROVE  Acts(q) /\ (IsPlatformAdmin(q) \/ (b[2] = "VENUE_STAFF" /\ IsAdminOf(q, b[1])))
  <2>1. Acts(q) BY <1>10, AnswerActs DEF IInv, ReplaceCommit
  <2>2. RequirePlatformAdmin(held[q]) BY <1>10 DEF IInv, WorkAuthorized, ReplaceCommit
  <2>3. QED BY <2>1, <2>2, PlatformAdminChecked
<1>11. ASSUME NEW x \in Room, NEW v \in Venue, NEW bounds \in Limits, CreateManagedRoom(q, v, x, bounds)
       PROVE  Acts(q) /\ (IsPlatformAdmin(q) \/ (b[2] = "VENUE_STAFF" /\ IsAdminOf(q, b[1])))
  BY <1>11
     DEF IInv, TypeOK, Acts, IsAdminOf, IsPlatformAdmin, CreateManagedRoom,
         tenantVars
<1>12. ASSUME NEW x \in Room, EditRoomRead(q, x)
       PROVE  Acts(q) /\ (IsPlatformAdmin(q) \/ (b[2] = "VENUE_STAFF" /\ IsAdminOf(q, b[1])))
  BY <1>12
     DEF IInv, TypeOK, Acts, IsAdminOf, IsPlatformAdmin, EditRoomRead,
         tenantVars
<1>13. ASSUME NEW lo \in Minutes \cup {None}, NEW hi \in Minutes \cup {None}, EditRoomWrite(q, lo, hi)
       PROVE  Acts(q) /\ (IsPlatformAdmin(q) \/ (b[2] = "VENUE_STAFF" /\ IsAdminOf(q, b[1])))
  BY <1>13
     DEF IInv, TypeOK, Acts, IsAdminOf, IsPlatformAdmin, EditRoomWrite,
         tenantVars
<1>14. ASSUME NEW x \in Room, DeleteManagedRoom(q, x)
       PROVE  Acts(q) /\ (IsPlatformAdmin(q) \/ (b[2] = "VENUE_STAFF" /\ IsAdminOf(q, b[1])))
  BY <1>14
     DEF IInv, TypeOK, Acts, IsAdminOf, IsPlatformAdmin, DeleteManagedRoom,
         tenantVars
<1>15. ASSUME NEW e \in Equipment, NEW v \in Venue, CreateManagedEquipment(q, v, e)
       PROVE  Acts(q) /\ (IsPlatformAdmin(q) \/ (b[2] = "VENUE_STAFF" /\ IsAdminOf(q, b[1])))
  BY <1>15
     DEF IInv, TypeOK, Acts, IsAdminOf, IsPlatformAdmin,
         CreateManagedEquipment, tenantVars
<1>16. ASSUME NEW e \in Equipment, DeleteManagedEquipment(q, e)
       PROVE  Acts(q) /\ (IsPlatformAdmin(q) \/ (b[2] = "VENUE_STAFF" /\ IsAdminOf(q, b[1])))
  BY <1>16
     DEF IInv, TypeOK, Acts, IsAdminOf, IsPlatformAdmin,
         DeleteManagedEquipment, tenantVars
<1>17. ASSUME NEW x \in Room, HoldFind(q, x)
       PROVE  Acts(q) /\ (IsPlatformAdmin(q) \/ (b[2] = "VENUE_STAFF" /\ IsAdminOf(q, b[1])))
  BY <1>17
     DEF IInv, TypeOK, Acts, IsAdminOf, IsPlatformAdmin, HoldFind, tenantVars
<1>18. ASSUME NEW items \in SUBSET Equipment, HoldCommit(q, items)
       PROVE  Acts(q) /\ (IsPlatformAdmin(q) \/ (b[2] = "VENUE_STAFF" /\ IsAdminOf(q, b[1])))
  BY <1>18
     DEF IInv, TypeOK, Acts, IsAdminOf, IsPlatformAdmin, HoldCommit,
         tenantVars
<1>19. ASSUME Reject(q)
       PROVE  Acts(q) /\ (IsPlatformAdmin(q) \/ (b[2] = "VENUE_STAFF" /\ IsAdminOf(q, b[1])))
  BY <1>19
     DEF IInv, TypeOK, Acts, IsAdminOf, IsPlatformAdmin, Reject, tenantVars
<1>20. QED
  BY <1>1, <1>2, <1>3, <1>4, <1>5, <1>6, <1>7, <1>8, <1>9, <1>10,
     <1>11, <1>12, <1>13, <1>14, <1>15, <1>16, <1>17, <1>18, <1>19
     DEF RequestStep, VenueStep, UserStep, RoomStep, StockStep, SecondStep

(* Nothing of a venue changes except by a request authenticated as an      *)
(* administrator of that venue or of the platform.                         *)
THEOREM VenuesIsolated == Spec => TenantIsolation
<1> DEFINE Isolated == \A v \in Venue : Changes(v) => \E q \in Request : Acts(q) /\ IsAdminOf(q, v)
<1>1. IInv /\ IInv' /\ [Next]_vars => [Isolated]_vars
  <2> SUFFICES ASSUME IInv, IInv', Next PROVE Isolated OBVIOUS
  <2>1. ASSUME NEW q \in Request, RequestStep(q) PROVE Isolated
    BY <2>1, IsolationStep DEF IInv
  <2>2. QED BY <2>1 DEF Next, RequestStep
<1>2. QED BY <1>1, AuthorityInvariance, PTL DEF Spec, TenantIsolation

(* Assignments are made by platform administrators only, except that the   *)
(* administrators of a venue appoint its staff.                            *)
THEOREM Appointed == Spec => OnlyAppointed
<1> DEFINE Step == \A u \in User : \A a \in roles'[u] \ roles[u] :
                     \E q \in Request :
                       Acts(q) /\ (IsPlatformAdmin(q) \/ (a[2] = "VENUE_STAFF" /\ IsAdminOf(q, a[1])))
<1>1. IInv /\ IInv' /\ [Next]_vars => [Step]_vars
  <2> SUFFICES ASSUME IInv, IInv', Next PROVE Step OBVIOUS
  <2>1. ASSUME NEW q \in Request, RequestStep(q) PROVE Step
    BY <2>1, AppointmentStep DEF IInv
  <2>2. QED BY <2>1 DEF Next, RequestStep
<1>2. QED BY <1>1, AuthorityInvariance, PTL DEF Spec, OnlyAppointed

(* What a request was authenticated with, it took from the assignments.    *)
LEMMA HeldFromRoles ==
  ASSUME IInv, NEW q \in Request, RequestStep(q), NEW p \in Request
  PROVE  held'[p] \subseteq held[p] \/ \E u \in User : held'[p] = roles[u]
<1>1. ASSUME NEW u \in User, Authenticate(q, u)
      PROVE  held'[p] \subseteq held[p] \/ \E w \in User : held'[p] = roles[w]
  BY <1>1 DEF IInv, TypeOK, Authenticate
<1>2. ASSUME Answer(q) PROVE held'[p] \subseteq held[p]
  BY <1>2, AnswerWork DEF IInv
<1>3. ASSUME UNCHANGED held PROVE held'[p] \subseteq held[p]
  BY <1>3
<1>4. (\E u \in User : Authenticate(q, u)) \/ Answer(q) \/ UNCHANGED held
  BY DEF RequestStep, VenueStep, UserStep, RoomStep, StockStep, SecondStep, Finish,
         UpdateVenueConfiguration, UpdatePlatformVenue, SetConfiguration, CreatePlatformVenue,
         DeletePlatformVenue, AddVenueStaff, RemoveVenueStaff, CreatePlatformUser, ReplaceBegin,
         ReplaceCommit, CreateManagedRoom, EditRoomRead, EditRoomWrite, DeleteManagedRoom,
         CreateManagedEquipment, DeleteManagedEquipment, HoldFind, HoldCommit, Reject
<1>5. QED BY <1>1, <1>2, <1>3, <1>4

(* Without a platform administrator, and without a request of one under    *)
(* way, there never is one again: nobody appoints himself.                 *)
THEOREM Lockout == Spec => LockoutIsFinal
<1>1. IInv /\ IInv' /\ [Next]_vars => [~PlatformPower => ~PlatformPower']_vars
  <2> SUFFICES ASSUME IInv, IInv', Next, ~PlatformPower PROVE ~PlatformPower' OBVIOUS
  <2>1. PICK q \in Request : RequestStep(q) BY DEF Next, RequestStep
  <2>2. ~IsPlatformAdmin(q) BY DEF PlatformPower, HasGlobalRole, IsPlatformAdmin
  <2>3. ASSUME NEW u \in User, NEW v \in Venue, <<v, "PLATFORM_ADMIN">> \in roles'[u] PROVE FALSE
    <3>1. <<v, "PLATFORM_ADMIN">> \notin roles[u] BY DEF PlatformPower, HasGlobalRole
    <3>2. <<v, "PLATFORM_ADMIN">> \in roles'[u] \ roles[u] BY <2>3, <3>1
    <3>3. <<v, "PLATFORM_ADMIN">>[2] = "VENUE_STAFF" BY <2>1, <2>2, <3>2, AppointmentStep DEF IInv
    <3>4. QED BY <3>3
  <2>4. ASSUME NEW p \in Request, NEW v \in Venue, <<v, "PLATFORM_ADMIN">> \in held'[p] PROVE FALSE
    BY <2>1, <2>4, HeldFromRoles DEF PlatformPower, HasGlobalRole
  <2>5. QED BY <2>3, <2>4 DEF PlatformPower, HasGlobalRole
<1>2. QED BY <1>1, AuthorityInvariance, PTL DEF Spec, LockoutIsFinal

(* For any assignments, what the list shows the detail page shows.         *)
LEMMA ListedAccess ==
  ASSUME NEW rows \in SUBSET Assignment, rows # {}, NEW u, NEW owner, NEW v \in Venue,
         Listed(rows, u, owner, v)
  PROVE  AuthorizeBookingAccess(rows, u, owner, v)
<1>1. CASE HasGlobalRole(rows, "PLATFORM_ADMIN") BY <1>1 DEF AuthorizeBookingAccess
<1>2. CASE HasVenueRole(rows, v, {"VENUE_STAFF", "VENUE_ADMIN"})
  BY <1>2 DEF AuthorizeBookingAccess
<1>3. CASE ~HasGlobalRole(rows, "PLATFORM_ADMIN") /\ ~StaffAnywhere(rows) /\ u = owner
  <2>1. PICK w \in Venue, role \in Role : <<w, role>> \in rows BY DEF Assignment
  <2>2. role = "CUSTOMER" BY <1>3, <2>1 DEF Role, StaffAnywhere, HasGlobalRole
  <2>3. HasGlobalRole(rows, "CUSTOMER") BY <2>1, <2>2 DEF HasGlobalRole
  <2>4. QED BY <1>3, <2>3 DEF AuthorizeBookingAccess
<1>4. QED BY <1>1, <1>2, <1>3 DEF Listed

(* The list and the detail page agree in every reachable state.            *)
THEOREM ListReadable == Spec => []ListedIsReadable
<1>1. IInv => ListedIsReadable
  <2> SUFFICES ASSUME IInv, NEW u \in users, NEW x \in Room, booked[x] # None, roles[u] # {},
                      Listed(roles[u], u, booked[x], roomVenue[x])
               PROVE  AuthorizeBookingAccess(roles[u], u, booked[x], roomVenue[x])
    BY DEF ListedIsReadable
  <2>1. roles[u] \in SUBSET Assignment BY DEF IInv, TypeOK
  <2>2. roomVenue[x] \in Venue BY DEF IInv, TypeOK, BookingsKeepRows, RoomExists
  <2>3. QED BY <2>1, <2>2, ListedAccess
<1>2. QED BY <1>1, AuthorityInvariance, PTL
=============================================================================
