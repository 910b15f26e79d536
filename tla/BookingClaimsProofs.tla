------------------------ MODULE BookingClaimsProofs ------------------------
(***************************************************************************)
(* More proofs about Booking: resources, idempotency keys and remedies, and *)
(* the simulation that makes the service an implementation of               *)
(* SlotOwnership.  The invariants here rest on BookingInv.                  *)
(***************************************************************************)
EXTENDS BookingProofs

---------------------------------------------------------------------------
(* Resources.                                                              *)

\* What a step may do to the assignments: nothing, a release, or the row that
\* syncResourceAssignment leaves for the booking's new slot.
LEMMA AssignmentStep ==
  ASSUME BookingInv, [Next]_vars
  PROVE  \/ assignments' = assignments
         \/ \E b \in Bookings :
              assignments' = [assignments EXCEPT ![b].status = IF @ = "active" THEN "released" ELSE @]
         \/ \E b \in Bookings, s \in Slots : \E svc : \E row \in SyncedAssignments(b, svc, s) :
              assignments' = [assignments EXCEPT ![b] = row]
<1> DEFINE Goal ==
         \/ assignments' = assignments
         \/ \E b \in Bookings :
              assignments' = [assignments EXCEPT ![b].status = IF @ = "active" THEN "released" ELSE @]
         \/ \E b \in Bookings, s \in Slots : \E svc : \E row \in SyncedAssignments(b, svc, s) :
              assignments' = [assignments EXCEPT ![b] = row]
<1>1. ASSUME NEW p \in Sessions, CreateCommit(p) PROVE Goal
  <2>1. sessions[p].newSlot \in Slots
    BY <1>1 DEF CreateCommit, BookingInv, SessionsPlaced
  <2>2. \E b \in Bookings :
          \E row \in SyncedAssignments(b, ServiceBooked(sessions[p].service, sessions[p].newSlot),
                                       sessions[p].newSlot) :
            assignments' = [assignments EXCEPT ![b] = row]
    BY <1>1 DEF CreateCommit
  <2> QED
    BY <2>1, <2>2
<1>2. ASSUME NEW p \in Sessions, CancelWrite(p) PROVE Goal
  BY <1>2 DEF CancelWrite, BookingInv, SessionsPlaced
<1>3. ASSUME NEW p \in Sessions, RescheduleCommit(p) PROVE Goal
  <2>1. sessions[p].booking \in Bookings /\ sessions[p].newSlot \in Slots
    BY <1>3 DEF RescheduleCommit, BookingInv, SessionsPlaced
  <2>2. \E row \in SyncedAssignments(sessions[p].booking, bookings[sessions[p].booking].service,
                                     sessions[p].newSlot) :
          assignments' = [assignments EXCEPT ![sessions[p].booking] = row]
    BY <1>3 DEF RescheduleCommit, MoveBooking
  <2> QED
    BY <2>1, <2>2
<1>4. ASSUME NEW b \in Bookings, NEW s \in Slots, NEW a \in BOOLEAN, RescheduleGoverned(b, s, a)
      PROVE Goal
  <2>1. \E row \in SyncedAssignments(b, bookings[b].service, s) :
          assignments' = [assignments EXCEPT ![b] = row]
    BY <1>4 DEF RescheduleGoverned, MoveBooking
  <2> QED
    BY <2>1
<1>5. ASSUME assignments' = assignments PROVE Goal
  BY <1>5
<1> HIDE DEF Goal
<1>6. Goal
  BY <1>1, <1>2, <1>3, <1>4, <1>5
  DEF Next, Request, Proceed, SweepStep, vars, CreateSlot, DeleteSlot, CreateBegin,
      CreateRefused, CancelBegin, CancelLost, RescheduleBegin, RescheduleRefused, Abort,
      SweepRead, Tick, Confirm, Complete, MarkNoShow, SweepExpire
<1> QED
  BY <1>6 DEF Goal

\* A row left by syncResourceAssignment either is active on a resource that is
\* free over the slot's time, or is not active.
LEMMA SyncedRow ==
  ASSUME BookingInv, NEW b \in Bookings, NEW svc, NEW s \in Slots,
         NEW row \in SyncedAssignments(b, svc, s)
  PROVE  /\ row.status = "active" => row.slot = s /\ ResourceFree(row.resource, b, s)
         /\ NeedsResource(svc, s) =>
              row.status = "active" /\ row.slot = s /\ <<svc, s, row.resource>> \in Eligible
<1>1. CASE NeedsResource(svc, s)
  <2>1. PICK r \in Resources : /\ <<svc, s, r>> \in Eligible /\ ResourceFree(r, b, s)
                               /\ row = [status |-> "active", resource |-> r, slot |-> s]
    BY <1>1 DEF SyncedAssignments
  <2> QED
    BY <2>1
<1>2. CASE ~NeedsResource(svc, s)
  <2>1. row = IF assignments[b].status = "active"
              THEN [assignments[b] EXCEPT !.status = "released"] ELSE assignments[b]
    BY <1>2 DEF SyncedAssignments
  <2>2. assignments[b] \in AssignmentRow
    BY DEF BookingInv, TypeOK
  <2>3. row.status # "active"
    BY <2>1, <2>2 DEF AssignmentRow
  <2> QED
    BY <1>2, <2>3
<1> QED
  BY <1>1, <1>2

\* The exclusion constraint keeps what it checks at every insert and update.
LEMMA NextClash ==
  ASSUME BookingInv, NoResourceClash, [Next]_vars
  PROVE  NoResourceClash'
<1> DEFINE Apart(A) ==
      \A x, y \in Bookings :
        (x # y /\ A[x].status = "active" /\ A[y].status = "active" /\ A[x].resource = A[y].resource)
          => ~Overlap(A[x].slot, A[y].slot)
<1>1. Apart(assignments)
  BY DEF NoResourceClash
<1>2. assignments \in [Bookings -> AssignmentRow]
  BY DEF BookingInv, TypeOK
<1>3. ASSUME NEW b \in Bookings,
             assignments' = [assignments EXCEPT ![b].status = IF @ = "active" THEN "released" ELSE @]
      PROVE  Apart(assignments')
  <2>1. /\ \A x \in Bookings : x # b => assignments'[x] = assignments[x]
        /\ assignments'[b].status # "active"
    BY <1>2, <1>3 DEF AssignmentRow
  <2> QED
    BY <1>1, <2>1
<1>4. ASSUME NEW b \in Bookings, NEW s \in Slots, NEW svc, NEW row \in SyncedAssignments(b, svc, s),
             assignments' = [assignments EXCEPT ![b] = row]
      PROVE  Apart(assignments')
  <2>1. assignments'[b] = row /\ \A x \in Bookings : x # b => assignments'[x] = assignments[x]
    BY <1>2, <1>4
  <2>2. row.status = "active" => row.slot = s /\ ResourceFree(row.resource, b, s)
    BY SyncedRow
  <2>3. \A t, u : Overlap(t, u) => Overlap(u, t)
    BY DEF Overlap
  <2>4. ASSUME row.status = "active", NEW x \in Bookings, x # b,
               assignments[x].status = "active", assignments[x].resource = row.resource
        PROVE  ~Overlap(assignments[x].slot, row.slot) /\ ~Overlap(row.slot, assignments[x].slot)
    BY <2>2, <2>3, <2>4 DEF ResourceFree
  <2> SUFFICES ASSUME NEW x \in Bookings, NEW y \in Bookings, x # y,
                      assignments'[x].status = "active", assignments'[y].status = "active",
                      assignments'[x].resource = assignments'[y].resource
               PROVE  ~Overlap(assignments'[x].slot, assignments'[y].slot)
    OBVIOUS
  <2>5. CASE x = b
    BY <2>1, <2>4, <2>5
  <2>6. CASE y = b
    BY <2>1, <2>4, <2>6
  <2>7. CASE x # b /\ y # b
    BY <1>1, <2>1, <2>7
  <2> QED
    BY <2>5, <2>6, <2>7
<1>5. ASSUME assignments' = assignments PROVE Apart(assignments')
  BY <1>1, <1>5
<1> HIDE DEF Apart
<1>6. Apart(assignments')
  BY <1>3, <1>4, <1>5, AssignmentStep
<1> QED
  BY <1>6 DEF Apart, NoResourceClash, Overlap

\* Synced rows follow the booking to its slot, and only a booking that ends
\* loses its row.
LEMMA NextResource ==
  ASSUME BookingInv, LiveBookingHasResource, [Next]_vars
  PROVE  LiveBookingHasResource'
<1> DEFINE Served(row, asg) ==
      (row.status \in Holding /\ NeedsResource(row.service, row.slot)) =>
        /\ asg.status = "active"
        /\ asg.slot = row.slot
        /\ <<row.service, row.slot, asg.resource>> \in Eligible
<1>1. \A x \in Bookings : Served(bookings[x], assignments[x])
  BY DEF LiveBookingHasResource, Live
<1>2. /\ bookings \in [Bookings -> BookingRow] /\ assignments \in [Bookings -> AssignmentRow]
  BY DEF BookingInv, TypeOK
<1> SUFFICES ASSUME NEW x \in Bookings PROVE Served(bookings'[x], assignments'[x])
  BY DEF LiveBookingHasResource, Live, NeedsResource
<1>3. ASSUME NEW b \in Bookings, NEW to, NEW from, Transition(b, to, from),
             to \in Holding => from \subseteq Holding, assignments' = assignments
      PROVE  Served(bookings'[x], assignments'[x])
  <2>1. CASE x = b
    <3>1. /\ bookings'[x].status = to /\ bookings[x].status \in from
          /\ bookings'[x].slot = bookings[x].slot /\ bookings'[x].service = bookings[x].service
      BY <1>2, <1>3, <2>1 DEF Transition, BookingRow
    <3> QED
      BY <1>1, <1>3, <3>1
  <2>2. CASE x # b
    BY <1>1, <1>3, <2>2, TransitionRows
  <2> QED
    BY <2>1, <2>2
<1>4. ASSUME NEW b \in Bookings, NEW s \in Slots, NEW row \in SyncedAssignments(b, bookings'[b].service, s),
             bookings'[b].slot = s, \A y \in Bookings : y # b => bookings'[y] = bookings[y],
             assignments' = [assignments EXCEPT ![b] = row]
      PROVE  Served(bookings'[x], assignments'[x])
  <2>1. assignments'[b] = row /\ \A y \in Bookings : y # b => assignments'[y] = assignments[y]
    BY <1>2, <1>4
  <2>2. NeedsResource(bookings'[b].service, s) =>
          row.status = "active" /\ row.slot = s /\ <<bookings'[b].service, s, row.resource>> \in Eligible
    BY <1>4, SyncedRow
  <2> QED
    BY <1>1, <1>4, <2>1, <2>2
<1>5. ASSUME NEW p \in Sessions, CreateCommit(p) PROVE Served(bookings'[x], assignments'[x])
  <2> DEFINE q == sessions[p]
             svc == ServiceBooked(q.service, q.newSlot)
  <2>1. q.newSlot \in Slots
    BY <1>5 DEF CreateCommit, BookingInv, SessionsPlaced
  <2>2. PICK b \in Bookings :
          /\ \E row \in SyncedAssignments(b, svc, q.newSlot) :
               assignments' = [assignments EXCEPT ![b] = row]
          /\ bookings' = [bookings EXCEPT ![b] =
               [status |-> "pending", customer |-> q.customer, slot |-> q.newSlot,
                service |-> svc, hold |-> clock + HoldTime, moves |-> 0,
                customerMoves |-> 0, key |-> q.key]]
    BY <1>5 DEF CreateCommit
  <2> HIDE DEF svc
  <2>3. /\ bookings'[b].service = svc /\ bookings'[b].slot = q.newSlot
        /\ \A y \in Bookings : y # b => bookings'[y] = bookings[y]
    BY <1>2, <2>2
  <2> QED
    BY <1>4, <2>1, <2>2, <2>3
<1>6. ASSUME NEW b \in Bookings, NEW s \in Slots, NEW old, NEW from, NEW moves, NEW actor,
             NEW remedy, MoveBooking(b, old, from, moves, s, actor, remedy)
      PROVE  Served(bookings'[x], assignments'[x])
  <2>1. bookings'[b].slot = s /\ \A y \in Bookings : y # b => bookings'[y] = bookings[y]
    BY <1>6, MoveRows
  <2>2. bookings'[b].service = bookings[b].service
    BY <1>2, <1>6 DEF MoveBooking, BookingRow
  <2>3. PICK row \in SyncedAssignments(b, bookings[b].service, s) :
          assignments' = [assignments EXCEPT ![b] = row]
    BY <1>6 DEF MoveBooking
  <2> QED
    BY <1>4, <2>1, <2>2, <2>3
<1>7. ASSUME NEW p \in Sessions, RescheduleCommit(p) PROVE Served(bookings'[x], assignments'[x])
  <2>1. sessions[p].booking \in Bookings /\ sessions[p].newSlot \in Slots
    BY <1>7 DEF RescheduleCommit, BookingInv, SessionsPlaced
  <2> QED
    BY <1>6, <1>7, <2>1 DEF RescheduleCommit
<1>8. ASSUME NEW b \in Bookings, NEW s \in Slots, NEW a \in BOOLEAN, RescheduleGoverned(b, s, a)
      PROVE Served(bookings'[x], assignments'[x])
  BY <1>6, <1>8 DEF RescheduleGoverned
<1>9. ASSUME NEW p \in Sessions, CancelWrite(p) PROVE Served(bookings'[x], assignments'[x])
  <2> DEFINE b == sessions[p].booking
  <2>1. b \in Bookings /\ Transition(b, "cancelled", Holding)
    BY <1>9 DEF CancelWrite, BookingInv, SessionsPlaced
  <2>2. CASE x = b
    <3>1. bookings'[x].status = "cancelled"
      BY <2>1, <2>2, TransitionRows
    <3> QED
      BY <3>1 DEF Holding
  <2>3. CASE x # b
    <3>1. bookings'[x] = bookings[x]
      BY <2>1, <2>3, TransitionRows
    <3>2. assignments'[x] = assignments[x]
      BY <1>2, <1>9, <2>1, <2>3 DEF CancelWrite
    <3> QED
      BY <1>1, <3>1, <3>2
  <2> QED
    BY <2>2, <2>3
<1>10. ASSUME NEW b \in Bookings, Confirm(b) \/ Complete(b) \/ MarkNoShow(b)
       PROVE  Served(bookings'[x], assignments'[x])
  BY <1>3, <1>10 DEF Confirm, Complete, MarkNoShow, Holding
<1>11. ASSUME UNCHANGED <<bookings, assignments>> PROVE Served(bookings'[x], assignments'[x])
  BY <1>1, <1>11
<1>12. ASSUME NEW b \in Bookings, NEW s \in Slots, SweepExpire(b, s)
       PROVE  Served(bookings'[x], assignments'[x])
  BY <1>3, <1>11, <1>12 DEF SweepExpire, Holding
<1> HIDE DEF Served
<1> QED
  BY <1>5, <1>7, <1>8, <1>9, <1>10, <1>11, <1>12
  DEF Next, Request, Proceed, SweepStep, vars, CreateSlot, DeleteSlot, CreateBegin,
      CreateRefused, CancelBegin, CancelLost, RescheduleBegin, RescheduleRefused, Abort,
      SweepRead, Tick

\* No resource ever serves two overlapping appointments.
THEOREM ResourcesNeverClash == Spec => []NoResourceClash
<1>1. Init => NoResourceClash
  BY DEF Init, NoResourceClash
<1>2. BookingInv /\ NoResourceClash /\ [Next]_vars => NoResourceClash'
  BY NextClash
<1> QED
  BY <1>1, <1>2, BookingInvariant, PTL DEF Spec

\* A live booking has the resource its service needs, on the slot it is on.
THEOREM LiveBookingsAreServed == Spec => []LiveBookingHasResource
<1>1. Init => LiveBookingHasResource
  BY DEF Init, LiveBookingHasResource, Live, Holding
<1>2. BookingInv /\ LiveBookingHasResource /\ [Next]_vars => LiveBookingHasResource'
  BY NextResource
<1> QED
  BY <1>1, <1>2, BookingInvariant, PTL DEF Spec

---------------------------------------------------------------------------
(* Idempotency keys.                                                       *)

\* A create under way knows its customer, and the key of a booking row leads
\* back to that row: this is why a second insert under the key is refused.
KeysRecorded ==
  /\ \A p \in Sessions : sessions[p].pc = "create" => sessions[p].customer \in Customers
  /\ \A b \in Bookings : bookings[b].key # None =>
       /\ bookings[b].customer \in Customers
       /\ keys[<<bookings[b].customer, bookings[b].key>>] = b

\* Customer and key of a booking row are written once.
LEMMA CustomerColumns ==
  ASSUME BookingInv, [Next]_vars
  PROVE  \/ \A x \in Bookings : /\ bookings'[x].customer = bookings[x].customer
                                /\ bookings'[x].key = bookings[x].key
                                /\ keys' = keys
         \/ \E p \in Sessions : CreateCommit(p)
<1> DEFINE Kept == \A x \in Bookings : /\ bookings'[x].customer = bookings[x].customer
                                       /\ bookings'[x].key = bookings[x].key
                                       /\ keys' = keys
<1>1. bookings \in [Bookings -> BookingRow]
  BY DEF BookingInv, TypeOK
<1>2. ASSUME NEW b \in Bookings, NEW to, NEW from, Transition(b, to, from), keys' = keys
      PROVE  Kept
  BY <1>1, <1>2 DEF Transition, BookingRow
<1>3. ASSUME NEW b \in Bookings, NEW s \in Slots, NEW old, NEW from, NEW moves, NEW actor,
             NEW remedy, MoveBooking(b, old, from, moves, s, actor, remedy), keys' = keys
      PROVE  Kept
  BY <1>1, <1>3 DEF MoveBooking, BookingRow
<1>4. ASSUME NEW p \in Sessions, CancelWrite(p) \/ RescheduleCommit(p) PROVE Kept
  <2>1. sessions[p].booking \in Bookings
    BY <1>4 DEF CancelWrite, RescheduleCommit, BookingInv, SessionsPlaced
  <2>2. RescheduleCommit(p) => sessions[p].newSlot \in Slots
    BY DEF RescheduleCommit, BookingInv, SessionsPlaced
  <2> QED
    BY <1>2, <1>3, <1>4, <2>1, <2>2 DEF CancelWrite, RescheduleCommit
<1>5. ASSUME UNCHANGED <<bookings, keys>> PROVE Kept
  BY <1>5
<1>6. ASSUME NEW b \in Bookings, Confirm(b) \/ Complete(b) \/ MarkNoShow(b) PROVE Kept
  BY <1>2, <1>6 DEF Confirm, Complete, MarkNoShow
<1>7. ASSUME NEW b \in Bookings, NEW s \in Slots, SweepExpire(b, s) PROVE Kept
  BY <1>2, <1>5, <1>7 DEF SweepExpire
<1>8. ASSUME NEW b \in Bookings, NEW s \in Slots, NEW a \in BOOLEAN, RescheduleGoverned(b, s, a)
      PROVE Kept
  BY <1>3, <1>8 DEF RescheduleGoverned
<1> HIDE DEF Kept
<1>9. Kept \/ \E p \in Sessions : CreateCommit(p)
  BY <1>4, <1>5, <1>6, <1>7, <1>8
  DEF Next, Request, Proceed, SweepStep, vars, CreateSlot, DeleteSlot, CreateBegin,
      CreateRefused, CancelBegin, CancelLost, RescheduleBegin, RescheduleRefused, Abort,
      SweepRead, Tick
<1> QED
  BY <1>9 DEF Kept

\* Only CreateBegin makes a session a create, with a customer.
LEMMA CreatorsKnown ==
  ASSUME BookingInv, KeysRecorded, [Next]_vars, NEW p \in Sessions, sessions'[p].pc = "create"
  PROVE  sessions'[p].customer \in Customers
<1> DEFINE Known == sessions'[p].pc = "create" => sessions'[p].customer \in Customers
<1>1. sessions \in [Sessions -> Session]
  BY DEF BookingInv, TypeOK
<1>2. ASSUME UNCHANGED sessions PROVE Known
  BY <1>2 DEF KeysRecorded
<1>3. ASSUME NEW q \in Sessions, NEW row, sessions' = [sessions EXCEPT ![q] = row],
             row.pc = "create" => row.customer \in Customers
      PROVE  Known
  BY <1>1, <1>3 DEF KeysRecorded
<1>4. ASSUME NEW q \in Sessions, EndSession(q) PROVE Known
  BY <1>3, <1>4 DEF EndSession, Idle
<1>5. ASSUME NEW q \in Sessions, Request(q) PROVE Known
  <2>1. ASSUME NEW c \in Customers, NEW s \in Slots, NEW svc \in Services \cup {None},
               NEW k \in Keys \cup {None}, CreateBegin(q, c, s, svc, k)
        PROVE  Known
    BY <1>3, <2>1 DEF CreateBegin, Idle
  <2>2. ASSUME NEW b \in Bookings, NEW a \in Requesters, CancelBegin(q, b, a) PROVE Known
    BY <1>3, <2>2 DEF CancelBegin, Idle
  <2>3. ASSUME NEW b \in Bookings, NEW s \in Slots, NEW a \in Requesters, NEW r \in BOOLEAN,
               RescheduleBegin(q, b, s, a, r)
        PROVE  Known
    BY <1>3, <2>3 DEF RescheduleBegin, Idle
  <2> QED
    BY <1>5, <2>1, <2>2, <2>3 DEF Request
<1> HIDE DEF Known
<1>6. ASSUME NEW q \in Sessions, Proceed(q) PROVE Known
  BY <1>4, <1>6 DEF Proceed, CreateCommit, CreateRefused, CancelWrite, CancelLost,
    RescheduleCommit, RescheduleRefused, Abort
<1>7. Known
  BY <1>2, <1>5, <1>6
  DEF Next, SweepStep, vars, CreateSlot, DeleteSlot, Confirm, Complete, MarkNoShow,
      RescheduleGoverned, SweepRead, SweepExpire, Tick
<1> QED
  BY <1>7 DEF Known

\* A key that is recorded is never given to another booking.
LEMMA NextKeys ==
  ASSUME BookingInv, KeysRecorded, [Next]_vars
  PROVE  KeysRecorded'
<1>1. \A p \in Sessions : sessions'[p].pc = "create" => sessions'[p].customer \in Customers
  BY CreatorsKnown
<1>2. ASSUME NEW p \in Sessions, CreateCommit(p)
      PROVE  \A x \in Bookings : bookings'[x].key # None =>
               /\ bookings'[x].customer \in Customers
               /\ keys'[<<bookings'[x].customer, bookings'[x].key>>] = x
  <2> DEFINE q == sessions[p]
  <2>1. q.customer \in Customers /\ q.key \in Keys \cup {None}
    BY <1>2 DEF CreateCommit, KeysRecorded, BookingInv, TypeOK, Session
  <2>2. PICK b \in Bookings :
          /\ CreateAdmitted(q, b)
          /\ bookings' = [bookings EXCEPT ![b] =
               [status |-> "pending", customer |-> q.customer, slot |-> q.newSlot,
                service |-> ServiceBooked(q.service, q.newSlot), hold |-> clock + HoldTime, moves |-> 0,
                customerMoves |-> 0, key |-> q.key]]
          /\ keys' = IF q.key = None THEN keys ELSE [keys EXCEPT ![<<q.customer, q.key>>] = b]
    BY <1>2 DEF CreateCommit
  <2>3. /\ bookings'[b].customer = q.customer /\ bookings'[b].key = q.key
        /\ \A y \in Bookings : y # b => bookings'[y] = bookings[y]
    BY <2>2 DEF BookingInv, TypeOK
  <2>4. q.key # None => keys[<<q.customer, q.key>>] = None
    BY <2>2 DEF CreateAdmitted, KeyUnused
  <2>5. keys \in [Customers \X Keys -> Bookings \cup {None}] /\ None \notin Bookings
    BY NoneAssumption DEF BookingInv, TypeOK
  <2> HIDE DEF q
  <2> SUFFICES ASSUME NEW x \in Bookings, bookings'[x].key # None
               PROVE  /\ bookings'[x].customer \in Customers
                      /\ keys'[<<bookings'[x].customer, bookings'[x].key>>] = x
    OBVIOUS
  <2>6. CASE x = b
    <3>1. <<q.customer, q.key>> \in Customers \X Keys
      BY <2>1, <2>3, <2>6
    <3> QED
      BY <2>1, <2>2, <2>3, <2>5, <2>6, <3>1
  <2>7. CASE x # b
    <3> DEFINE ck == <<bookings[x].customer, bookings[x].key>>
    <3>1. bookings'[x] = bookings[x]
      BY <2>3, <2>7
    <3>2. bookings[x].customer \in Customers /\ keys[ck] = x
      BY <3>1 DEF KeysRecorded
    <3>3. q.key # None => <<q.customer, q.key>> # ck
      BY <2>4, <2>5, <3>2
    <3>4. keys'[ck] = keys[ck]
      BY <2>2, <2>5, <3>3
    <3> QED
      BY <3>1, <3>2, <3>4
  <2> QED
    BY <2>6, <2>7
<1>3. ASSUME \A x \in Bookings : /\ bookings'[x].customer = bookings[x].customer
                                 /\ bookings'[x].key = bookings[x].key
                                 /\ keys' = keys
      PROVE  \A x \in Bookings : bookings'[x].key # None =>
               /\ bookings'[x].customer \in Customers
               /\ keys'[<<bookings'[x].customer, bookings'[x].key>>] = x
  BY <1>3 DEF KeysRecorded
<1> QED
  BY <1>1, <1>2, <1>3, CustomerColumns DEF KeysRecorded

\* However many retries of a create run at once, a customer's key makes one
\* booking.
THEOREM CreatesAreIdempotent == Spec => []IdempotentCreate
<1>1. Init => KeysRecorded
  BY DEF Init, KeysRecorded, Idle
<1>2. BookingInv /\ KeysRecorded /\ [Next]_vars => KeysRecorded'
  BY NextKeys
<1>3. KeysRecorded => IdempotentCreate
  BY DEF KeysRecorded, IdempotentCreate
<1> QED
  BY <1>1, <1>2, <1>3, BookingInvariant, PTL DEF Spec

---------------------------------------------------------------------------
(* Remedies.                                                               *)

\* A remedy under way has the choice row to itself: until it commits, the
\* booking stays cancelled by the seller and unremedied.  Every other
\* reschedule set out from a live booking.
RemedyHeld(p) ==
  /\ sessions[p].pc = "reschedule" /\ ~sessions[p].remedy => sessions[p].status \in Holding
  /\ sessions[p].remedy =>
       /\ sessions[p].pc = "reschedule" /\ sessions[p].booking \in Bookings
       /\ bookings[sessions[p].booking].status = "cancelled"
       /\ cancellation[sessions[p].booking] = [by |-> "professional", remedied |-> FALSE]
       /\ \A q \in Sessions : q # p /\ sessions[q].remedy => sessions[q].booking # sessions[p].booking
RemediesHeld == \A p \in Sessions : RemedyHeld(p)

\* A step leaves a cancelled booking cancelled, unless it commits its remedy.
LEMMA CancelledStep ==
  ASSUME BookingInv, RemediesHeld, [Next]_vars, NEW x \in Bookings, bookings[x].status = "cancelled"
  PROVE  \/ bookings'[x].status = "cancelled" /\ cancellation'[x] = cancellation[x]
         \/ \E p \in Sessions : /\ RescheduleCommit(p)
                                /\ sessions[p].booking = x /\ sessions[p].remedy
<1> DEFINE Stays == bookings'[x].status = "cancelled" /\ cancellation'[x] = cancellation[x]
<1>1. ASSUME UNCHANGED <<bookings, cancellation>> PROVE Stays
  BY <1>1
<1>2. ASSUME NEW b \in Bookings, NEW to, NEW from, Transition(b, to, from), "cancelled" \notin from
      PROVE  b # x /\ bookings'[x] = bookings[x]
  BY <1>2, TransitionRows DEF Transition
<1>3. ASSUME NEW p \in Sessions, CreateCommit(p) PROVE Stays
  <2>1. bookings'[x] = bookings[x]
    BY <1>3, CreateRows
  <2> QED
    BY <1>3, <2>1 DEF CreateCommit
<1>4. ASSUME NEW p \in Sessions, CancelWrite(p) PROVE Stays
  <2>1. sessions[p].booking \in Bookings
    BY <1>4 DEF CancelWrite, BookingInv, SessionsPlaced
  <2>2. sessions[p].booking # x /\ bookings'[x] = bookings[x]
    BY <1>2, <1>4, <2>1 DEF CancelWrite, Holding
  <2> QED
    BY <1>4, <2>2 DEF CancelWrite, BookingInv, TypeOK
<1>5. ASSUME NEW p \in Sessions, RescheduleCommit(p), ~(sessions[p].booking = x /\ sessions[p].remedy)
      PROVE  Stays
  <2>1. /\ sessions[p].booking \in Bookings /\ sessions[p].newSlot \in Slots
        /\ sessions[p].remedy \in BOOLEAN
    BY <1>5 DEF RescheduleCommit, BookingInv, SessionsPlaced, TypeOK, Session
  <2>2. sessions[p].booking # x
    BY <1>5, <2>1 DEF RescheduleCommit, MoveBooking, RemediesHeld, RemedyHeld, Holding
  <2>3. bookings'[x] = bookings[x]
    BY <1>5, <2>1, <2>2, MoveRows DEF RescheduleCommit
  <2> QED
    BY <1>5, <2>2, <2>3 DEF RescheduleCommit, BookingInv, TypeOK
<1>6. ASSUME NEW b \in Bookings, Confirm(b) \/ Complete(b) \/ MarkNoShow(b) PROVE Stays
  BY <1>2, <1>6 DEF Confirm, Complete, MarkNoShow
<1>7. ASSUME NEW b \in Bookings, NEW s \in Slots, NEW a \in BOOLEAN, RescheduleGoverned(b, s, a)
      PROVE  Stays
  <2>1. b # x
    BY <1>7 DEF RescheduleGoverned, Live, Holding
  <2>2. bookings'[x] = bookings[x]
    BY <1>7, <2>1, MoveRows DEF RescheduleGoverned
  <2> QED
    BY <1>7, <2>2 DEF RescheduleGoverned
<1>8. ASSUME NEW b \in Bookings, NEW s \in Slots, SweepExpire(b, s) PROVE Stays
  BY <1>1, <1>2, <1>8 DEF SweepExpire
<1> HIDE DEF Stays
<1>9. Stays \/ \E p \in Sessions : RescheduleCommit(p) /\ sessions[p].booking = x /\ sessions[p].remedy
  BY <1>1, <1>3, <1>4, <1>5, <1>6, <1>7, <1>8
  DEF Next, Request, Proceed, SweepStep, vars, CreateSlot, DeleteSlot, CreateBegin,
      CreateRefused, CancelBegin, CancelLost, RescheduleBegin, RescheduleRefused, Abort,
      SweepRead, Tick
<1> QED
  BY <1>9 DEF Stays

\* One step changes one session: it ends, or a request sets out.
LEMMA OneSession ==
  ASSUME BookingInv, [Next]_vars
  PROVE  \/ sessions' = sessions
         \/ \E p \in Sessions : sessions' = [sessions EXCEPT ![p] = Idle]
         \/ \E p \in Sessions : /\ Request(p) /\ UNCHANGED <<bookings, cancellation>>
                                /\ \A q \in Sessions : q # p => sessions'[q] = sessions[q]
<1>1. ASSUME NEW p \in Sessions, Request(p)
      PROVE  /\ UNCHANGED <<bookings, cancellation>>
             /\ \A q \in Sessions : q # p => sessions'[q] = sessions[q]
  BY <1>1 DEF Request, CreateBegin, CancelBegin, RescheduleBegin, BookingInv, TypeOK
<1>2. ASSUME NEW p \in Sessions, Proceed(p) PROVE sessions' = [sessions EXCEPT ![p] = Idle]
  BY <1>2 DEF Proceed, CreateCommit, CreateRefused, CancelWrite, CancelLost,
    RescheduleCommit, RescheduleRefused, Abort, EndSession
<1> QED
  BY <1>1, <1>2
  DEF Next, SweepStep, vars, CreateSlot, DeleteSlot, Confirm, Complete, MarkNoShow,
      RescheduleGoverned, SweepRead, SweepExpire, Tick

\* What a request that sets out remembers of a remedy.
LEMMA RemedyRequest ==
  ASSUME BookingInv, NEW p \in Sessions, Request(p)
  PROVE  /\ sessions'[p].pc = "reschedule" /\ ~sessions'[p].remedy => sessions'[p].status \in Holding
         /\ sessions'[p].remedy => /\ sessions'[p].pc = "reschedule"
                                   /\ sessions'[p].booking \in Bookings
                                   /\ RemedyOffered(sessions'[p].booking)
<1> DEFINE Goal ==
         /\ sessions'[p].pc = "reschedule" /\ ~sessions'[p].remedy => sessions'[p].status \in Holding
         /\ sessions'[p].remedy => /\ sessions'[p].pc = "reschedule"
                                   /\ sessions'[p].booking \in Bookings
                                   /\ RemedyOffered(sessions'[p].booking)
<1>1. ASSUME NEW c \in Customers, NEW s \in Slots, NEW svc \in Services \cup {None},
             NEW k \in Keys \cup {None}, CreateBegin(p, c, s, svc, k)
      PROVE  Goal
  BY <1>1 DEF CreateBegin, Idle, BookingInv, TypeOK
<1>2. ASSUME NEW b \in Bookings, NEW a \in Requesters, CancelBegin(p, b, a) PROVE Goal
  BY <1>2 DEF CancelBegin, Idle, BookingInv, TypeOK
<1>3. ASSUME NEW b \in Bookings, NEW s \in Slots, NEW a \in Requesters, NEW r \in BOOLEAN,
             RescheduleBegin(p, b, s, a, r)
      PROVE  Goal
  <2>1. /\ sessions'[p].pc = "reschedule" /\ sessions'[p].booking = b
        /\ sessions'[p].remedy = r /\ sessions'[p].status = bookings[b].status
    BY <1>3 DEF RescheduleBegin, Idle, BookingInv, TypeOK
  <2>2. r => RemedyOffered(b)
    BY <1>3 DEF RescheduleBegin
  <2>3. ~r => bookings[b].status \in Holding
    BY <1>3 DEF RescheduleBegin, Live
  <2> QED
    BY <2>1, <2>2, <2>3
<1> HIDE DEF Goal
<1>4. Goal
  BY <1>1, <1>2, <1>3 DEF Request
<1> QED
  BY <1>4 DEF Goal

\* The choice row's lock lasts as long as the remedy that took it.
LEMMA NextRemedies ==
  ASSUME BookingInv, RemediesHeld, [Next]_vars
  PROVE  RemediesHeld'
<1>1. sessions \in [Sessions -> Session] /\ cancellation \in [Bookings -> CancellationRow]
  BY DEF BookingInv, TypeOK
<1>2. ~Idle.remedy /\ Idle.pc = "idle"
  BY DEF Idle
<1> SUFFICES ASSUME NEW p \in Sessions PROVE RemedyHeld(p)'
  BY DEF RemediesHeld
<1>3. ASSUME NEW q \in Sessions, sessions' = [sessions EXCEPT ![q] = Idle] PROVE RemedyHeld(p)'
  <2>1. CASE p = q
    BY <1>1, <1>2, <1>3, <2>1 DEF RemedyHeld
  <2>2. CASE p # q
    <3>1. /\ sessions'[p] = sessions[p]
          /\ \A r \in Sessions : sessions'[r].remedy => sessions'[r] = sessions[r]
      BY <1>1, <1>2, <1>3, <2>2
    <3>2. ASSUME sessions[p].remedy
          PROVE  /\ bookings'[sessions[p].booking].status = "cancelled"
                 /\ cancellation'[sessions[p].booking] = cancellation[sessions[p].booking]
      <4>1. ASSUME NEW r \in Sessions, RescheduleCommit(r), sessions[r].remedy,
                   sessions[r].booking = sessions[p].booking
            PROVE  FALSE
        <5>1. r = p
          BY <3>2, <4>1 DEF RemediesHeld, RemedyHeld
        <5>2. sessions'[p] = Idle
          BY <1>1, <4>1, <5>1 DEF RescheduleCommit, EndSession
        <5> QED
          BY <1>2, <3>1, <3>2, <5>2
      <4>2. sessions[p].booking \in Bookings /\ bookings[sessions[p].booking].status = "cancelled"
        BY <3>2 DEF RemediesHeld, RemedyHeld
      <4> QED
        BY <4>1, <4>2, CancelledStep
    <3> QED
      BY <3>1, <3>2 DEF RemediesHeld, RemedyHeld
  <2> QED
    BY <2>1, <2>2
<1>4. ASSUME NEW q \in Sessions, Request(q), UNCHANGED <<bookings, cancellation>>,
             \A r \in Sessions : r # q => sessions'[r] = sessions[r]
      PROVE  RemedyHeld(p)'
  <2>1. sessions'[q].remedy =>
          /\ bookings[sessions'[q].booking].status = "cancelled"
          /\ cancellation[sessions'[q].booking].by = "professional"
          /\ ~cancellation[sessions'[q].booking].remedied
          /\ \A r \in Sessions : ~(sessions[r].remedy /\ sessions[r].booking = sessions'[q].booking)
    BY <1>4, RemedyRequest DEF RemedyOffered
  <2>2. CASE p = q
    <3>1. sessions'[q].remedy =>
            cancellation[sessions'[q].booking] = [by |-> "professional", remedied |-> FALSE]
      <4>1. sessions'[q].remedy => cancellation[sessions'[q].booking] \in CancellationRow
        BY <1>1, <1>4, RemedyRequest
      <4> QED
        BY <2>1, <4>1 DEF CancellationRow
    <3> QED
      BY <1>4, <2>1, <2>2, <3>1, RemedyRequest DEF RemedyHeld
  <2>3. CASE p # q
    BY <1>4, <2>1, <2>3 DEF RemediesHeld, RemedyHeld
  <2> QED
    BY <2>2, <2>3
<1>5. ASSUME sessions' = sessions PROVE RemedyHeld(p)'
  <2>1. ASSUME sessions[p].remedy
        PROVE  /\ bookings'[sessions[p].booking].status = "cancelled"
               /\ cancellation'[sessions[p].booking] = cancellation[sessions[p].booking]
    <3>1. ASSUME NEW r \in Sessions, RescheduleCommit(r) PROVE FALSE
      BY <1>1, <1>2, <1>5, <3>1 DEF RescheduleCommit, EndSession
    <3>2. sessions[p].booking \in Bookings /\ bookings[sessions[p].booking].status = "cancelled"
      BY <2>1 DEF RemediesHeld, RemedyHeld
    <3> QED
      BY <3>1, <3>2, CancelledStep
  <2> QED
    BY <1>5, <2>1 DEF RemediesHeld, RemedyHeld
<1> QED
  BY <1>3, <1>4, <1>5, OneSession

\* A cancelled booking is revived only by the remedy the seller's cancellation
\* gave its customer, once, and owns the slot it is revived on.
THEOREM RevivalIsRemedy == Spec => RevivedOnlyAsRemedy
<1>1. Init => RemediesHeld
  BY DEF Init, RemediesHeld, RemedyHeld, Idle
<1>2. BookingInv /\ RemediesHeld /\ [Next]_vars => RemediesHeld'
  BY NextRemedies
<1>3. BookingInv /\ RemediesHeld /\ [Next]_vars =>
        [\A b \in Bookings :
           (bookings[b].status = "cancelled" /\ bookings'[b].status # "cancelled") =>
             /\ cancellation[b].by = "professional"
             /\ ~cancellation[b].remedied
             /\ slots'[bookings'[b].slot] = BookedBy(b)]_vars
  <2> SUFFICES ASSUME BookingInv, RemediesHeld, [Next]_vars, NEW b \in Bookings,
                      bookings[b].status = "cancelled", bookings'[b].status # "cancelled"
               PROVE  /\ cancellation[b].by = "professional"
                      /\ ~cancellation[b].remedied
                      /\ slots'[bookings'[b].slot] = BookedBy(b)
    OBVIOUS
  <2>1. PICK p \in Sessions : /\ RescheduleCommit(p)
                              /\ sessions[p].booking = b /\ sessions[p].remedy
    BY CancelledStep
  <2>2. cancellation[b] = [by |-> "professional", remedied |-> FALSE]
    BY <2>1 DEF RemediesHeld, RemedyHeld
  <2>3. bookings'[b].status = "confirmed"
    <3>1. MoveBooking(b, sessions[p].slot, sessions[p].status, sessions[p].moves,
                      sessions[p].newSlot, sessions[p].actor, sessions[p].remedy)
      BY <2>1 DEF RescheduleCommit
    <3>2. sessions[p].status = "cancelled"
      BY <3>1 DEF MoveBooking
    <3>3. bookings'[b].status = IF sessions[p].remedy /\ sessions[p].status = "cancelled"
                                THEN "confirmed" ELSE sessions[p].status
      BY <3>1, MoveRows
    <3> QED
      BY <2>1, <3>2, <3>3
  <2>4. LiveBookingOwnsSlot'
    BY NextOwns
  <2> QED
    BY <2>2, <2>3, <2>4 DEF LiveBookingOwnsSlot, OwnsItsSlot, BookedBy
<1> QED
  BY <1>1, <1>2, <1>3, BookingInvariant, PTL DEF Spec, RevivedOnlyAsRemedy

---------------------------------------------------------------------------
(* The booking service implements the ownership ledger.                    *)

\* What the ledger sees of a step: at most one booking changes, and it comes to
\* own a slot that nobody owns, keeps its slot or moves to such a slot, gives
\* its slot up, or had none and gets none.
Taken(b) == /\ bookings[b].status \notin Holding \cup FinalStatuses
            /\ bookings'[b].status \in Holding
            /\ bookings'[b].slot \in Slots /\ SlotIndexAdmits(b, bookings'[b].slot)
Kept(b) == /\ bookings[b].status \in Holding /\ bookings'[b].status \in Holding
           /\ \/ bookings'[b].slot = bookings[b].slot
              \/ bookings'[b].slot \in Slots /\ SlotIndexAdmits(b, bookings'[b].slot)
Ended(b) == bookings[b].status \in Holding /\ bookings'[b].status \in FinalStatuses \cup {"cancelled"}
Unseen(b) == /\ bookings[b].status \notin Holding /\ bookings'[b].status \notin Holding
             /\ bookings'[b].status \in FinalStatuses <=> bookings[b].status \in FinalStatuses

\* A transaction or sweep step shows the ledger at most one changed booking.
LEMMA LedgerStep ==
  ASSUME BookingInv, [Next]_vars
  PROVE  \/ bookings' = bookings
         \/ \E b \in Bookings : /\ \A x \in Bookings : x # b => bookings'[x] = bookings[x]
                                /\ Taken(b) \/ Kept(b) \/ Ended(b) \/ Unseen(b)
<1> DEFINE Seen(b) == /\ \A x \in Bookings : x # b => bookings'[x] = bookings[x]
                      /\ Taken(b) \/ Kept(b) \/ Ended(b) \/ Unseen(b)
<1>1. ASSUME NEW p \in Sessions, CreateCommit(p) PROVE \E b \in Bookings : Seen(b)
  BY <1>1, CreateRows DEF Taken, Holding, FinalStatuses
<1>2. ASSUME NEW b \in Bookings, NEW to, NEW from, Transition(b, to, from),
             from \subseteq Holding, to \in {"confirmed", "cancelled"} \cup FinalStatuses
      PROVE  Seen(b)
  <2>1. /\ bookings[b].status \in Holding /\ bookings'[b].status = to
        /\ bookings'[b].slot = bookings[b].slot
        /\ \A x \in Bookings : x # b => bookings'[x] = bookings[x]
    BY <1>2, TransitionRows DEF Transition
  <2> QED
    BY <1>2, <2>1 DEF Kept, Ended, Holding
<1>3. ASSUME NEW b \in Bookings, NEW s \in Slots, NEW old, NEW from \in Holding \cup {"cancelled"},
             NEW moves, NEW actor, NEW remedy \in BOOLEAN,
             MoveBooking(b, old, from, moves, s, actor, remedy)
      PROVE  Seen(b)
  <2> DEFINE to == IF remedy /\ from = "cancelled" THEN "confirmed" ELSE from
  <2>1. /\ bookings'[b].status = to /\ bookings'[b].slot = s
        /\ \A x \in Bookings : x # b => bookings'[x] = bookings[x]
    BY <1>3, MoveRows
  <2>2. bookings[b].status = from /\ SlotIndexAdmits(b, s)
    BY <1>3 DEF MoveBooking
  <2>3. CASE from \in Holding
    BY <2>1, <2>2, <2>3 DEF Kept, Holding
  <2>4. CASE from = "cancelled" /\ remedy
    BY <2>1, <2>2, <2>4 DEF Taken, Holding, FinalStatuses
  <2>5. CASE from = "cancelled" /\ ~remedy
    BY <2>1, <2>2, <2>5 DEF Unseen, Holding, FinalStatuses
  <2> QED
    BY <1>3, <2>3, <2>4, <2>5
<1> HIDE DEF Seen
<1>4. ASSUME NEW p \in Sessions, CancelWrite(p) PROVE \E b \in Bookings : Seen(b)
  <2>1. sessions[p].booking \in Bookings
    BY <1>4 DEF CancelWrite, BookingInv, SessionsPlaced
  <2> QED
    BY <1>2, <1>4, <2>1 DEF CancelWrite
<1>5. ASSUME NEW p \in Sessions, RescheduleCommit(p) PROVE \E b \in Bookings : Seen(b)
  <2>1. /\ sessions[p].booking \in Bookings /\ sessions[p].newSlot \in Slots
        /\ sessions[p].status \in Holding \cup {"cancelled"} /\ sessions[p].remedy \in BOOLEAN
    BY <1>5 DEF RescheduleCommit, BookingInv, SessionsPlaced, TypeOK, Session
  <2> QED
    BY <1>3, <1>5, <2>1 DEF RescheduleCommit
<1>6. ASSUME NEW b \in Bookings, Confirm(b) \/ Complete(b) \/ MarkNoShow(b) PROVE Seen(b)
  BY <1>2, <1>6 DEF Confirm, Complete, MarkNoShow, FinalStatuses, Holding
<1>7. ASSUME NEW b \in Bookings, NEW s \in Slots, NEW a \in BOOLEAN, RescheduleGoverned(b, s, a)
      PROVE  Seen(b)
  BY <1>3, <1>7 DEF RescheduleGoverned, Live
<1>8. ASSUME NEW b \in Bookings, NEW s \in Slots, SweepExpire(b, s)
      PROVE  Seen(b) \/ bookings' = bookings
  BY <1>2, <1>8 DEF SweepExpire, FinalStatuses, Holding
<1>9. bookings' = bookings \/ \E b \in Bookings : Seen(b)
  BY <1>1, <1>4, <1>5, <1>6, <1>7, <1>8
  DEF Next, Request, Proceed, SweepStep, vars, CreateSlot, DeleteSlot, CreateBegin,
      CreateRefused, CancelBegin, CancelLost, RescheduleBegin, RescheduleRefused, Abort,
      SweepRead, Tick
<1> QED
  BY <1>9 DEF Seen

\* The owner of a slot is the one booking that is live on it.
OwnersLive ==
  \A s \in Slots :
    /\ OwnerOf(s) \in Bookings \cup {None}
    /\ \A b \in Bookings : OwnerOf(s) = b <=> (bookings[b].status \in Holding /\ bookings[b].slot = s)

\* The ledger's reading of the calendar is right in every reachable state: no
\* two bookings are live on a slot, so the owner it names is the live booking.
LEMMA OwnerIsLive == BookingInv => OwnersLive
<1> SUFFICES ASSUME BookingInv, NEW s \in Slots
             PROVE  /\ \A b \in Bookings :
                         OwnerOf(s) = b <=> (bookings[b].status \in Holding /\ bookings[b].slot = s)
                    /\ OwnerOf(s) \in Bookings \cup {None}
  BY DEF OwnersLive
<1>1. None \notin Bookings
  BY NoneAssumption
<1>2. \A a, b \in LiveOn(s) : a = b
  BY OwnerNamed DEF LiveOn
<1>3. CASE LiveOn(s) = {}
  BY <1>1, <1>3 DEF OwnerOf, LiveOn, Live
<1>4. CASE LiveOn(s) # {}
  <2>1. OwnerOf(s) \in LiveOn(s)
    BY <1>4 DEF OwnerOf
  <2> QED
    BY <1>2, <2>1 DEF LiveOn, Live
<1> QED
  BY <1>3, <1>4

\* Every step of the booking service is a step of the ledger or leaves it alone.
LEMMA LedgerSimulates ==
  ASSUME BookingInv, OwnersLive, BookingInv', OwnersLive', [Next]_vars
  PROVE  [Ownership!OwnershipNext]_<<[s \in Slots |-> OwnerOf(s)], Over>>
<1> DEFINE own == [s \in Slots |-> OwnerOf(s)]
           ownNext == [s \in Slots |-> OwnerOf(s)']
<1>0. None \notin Bookings
  BY NoneAssumption
<1>1. CASE bookings' = bookings
  <2>1. \A s \in Slots : OwnerOf(s)' = OwnerOf(s)
    BY <1>1 DEF OwnerOf, LiveOn, Live
  <2>2. Over' = Over
    BY <1>1 DEF Over
  <2> QED
    BY <2>1, <2>2
<1>2. ASSUME NEW b \in Bookings,
             \A x \in Bookings : x # b => bookings'[x] = bookings[x],
             Taken(b) \/ Kept(b) \/ Ended(b) \/ Unseen(b)
      PROVE  [Ownership!OwnershipNext]_<<[s \in Slots |-> OwnerOf(s)], Over>>
  <2>1. \A s \in Slots :
          /\ own[s] \in Bookings \cup {None} /\ ownNext[s] \in Bookings \cup {None}
          /\ \A x \in Bookings : own[s] = x <=> (bookings[x].status \in Holding /\ bookings[x].slot = s)
          /\ \A x \in Bookings : ownNext[s] = x <=> (bookings'[x].status \in Holding /\ bookings'[x].slot = s)
    BY DEF OwnersLive
  <2>2. \A s \in Slots : \A x \in Bookings : x # b => (own[s] = x <=> ownNext[s] = x)
    BY <1>2, <2>1
  <2>3. \A s \in Slots : (own[s] # b /\ ownNext[s] # b) => ownNext[s] = own[s]
    BY <2>1, <2>2
  <2>4. bookings[b].status \in Holding => bookings[b].slot \in Slots
    BY DEF BookingInv, BookingsPlaced, Holding
  <2>5. \A s \in Slots : SlotIndexAdmits(b, s) => own[s] \in {b, None}
    BY <2>1 DEF SlotIndexAdmits, LiveOn, Live
  <2>6. CASE Taken(b)
    <3> DEFINE t == bookings'[b].slot
    <3>1. t \in Slots /\ own[t] = None /\ ownNext[t] = b
      BY <1>0, <2>1, <2>5, <2>6 DEF Taken
    <3>2. \A s \in Slots : own[s] # b /\ (s # t => ownNext[s] # b)
      BY <2>1, <2>6 DEF Taken
    <3>3. ownNext = [own EXCEPT ![t] = b]
      BY <2>3, <3>1, <3>2
    <3>4. Over' = Over /\ b \notin Over
      BY <1>2, <2>6 DEF Over, Taken, Holding, FinalStatuses
    <3>5. Ownership!Take(b, t)
      BY <3>1, <3>2, <3>3, <3>4 DEF Ownership!Take, Ownership!Owns
    <3> QED
      BY <3>1, <3>5 DEF Ownership!OwnershipNext
  <2>7. CASE Kept(b)
    <3> DEFINE s == bookings[b].slot
               t == bookings'[b].slot
    <3>1. s \in Slots /\ own[s] = b
      BY <2>1, <2>4, <2>7 DEF Kept
    <3>2. Over' = Over
      BY <1>2, <2>7 DEF Over, Kept, Holding, FinalStatuses
    <3>3. CASE t = s
      <4>1. \A x \in Slots : ownNext[x] = own[x]
        BY <2>1, <2>3, <2>7, <3>3 DEF Kept
      <4> QED
        BY <3>2, <4>1
    <3>4. CASE t # s
      <4>1. t \in Slots /\ own[t] = None /\ ownNext[t] = b
        BY <1>0, <2>1, <2>5, <2>7, <3>4 DEF Kept
      <4>2. \A x \in Slots : (x # s => own[x] # b) /\ (x # t => ownNext[x] # b)
        BY <2>1, <2>7 DEF Kept
      <4>3. ownNext[s] = None
        BY <2>1, <2>2, <3>1, <3>4, <4>2
      <4>4. ownNext = [own EXCEPT ![s] = None, ![t] = b]
        BY <2>3, <3>1, <4>1, <4>2, <4>3
      <4>5. Ownership!Move(b, s, t)
        BY <3>1, <3>2, <4>1, <4>4 DEF Ownership!Move
      <4> QED
        BY <3>1, <4>1, <4>5 DEF Ownership!OwnershipNext
    <3> QED
      BY <3>3, <3>4
  <2>8. CASE Ended(b)
    <3> DEFINE s == bookings[b].slot
    <3>1. s \in Slots /\ own[s] = b
      BY <2>1, <2>4, <2>8 DEF Ended
    <3>2. \A x \in Slots : ownNext[x] # b /\ (x # s => own[x] # b)
      BY <2>1, <2>8 DEF Ended, Holding, FinalStatuses
    <3>3. ownNext[s] = None
      BY <2>1, <2>2, <3>1, <3>2
    <3>4. ownNext = [own EXCEPT ![s] = None]
      BY <2>3, <3>1, <3>2, <3>3
    <3>5. CASE bookings'[b].status = "cancelled"
      <4>1. Over' = Over
        BY <1>2, <2>8, <3>5 DEF Over, Ended, Holding, FinalStatuses
      <4>2. Ownership!GiveUp(b, s)
        BY <3>1, <3>4, <4>1 DEF Ownership!GiveUp
      <4> QED
        BY <3>1, <4>2 DEF Ownership!OwnershipNext
    <3>6. CASE bookings'[b].status \in FinalStatuses
      <4>1. Over' = Over \cup {b}
        BY <1>2, <3>6 DEF Over
      <4>2. Ownership!Finish(b, s)
        BY <3>1, <3>4, <4>1 DEF Ownership!Finish
      <4> QED
        BY <3>1, <4>2 DEF Ownership!OwnershipNext
    <3> QED
      BY <2>8, <3>5, <3>6 DEF Ended
  <2>9. CASE Unseen(b)
    <3>1. \A x \in Slots : ownNext[x] = own[x]
      BY <2>1, <2>3, <2>9 DEF Unseen
    <3>2. Over' = Over
      BY <1>2, <2>9 DEF Over, Unseen
    <3> QED
      BY <3>1, <3>2
  <2> QED
    BY <1>2, <2>6, <2>7, <2>8, <2>9
<1> QED
  BY <1>1, <1>2, LedgerStep

\* booking.service.ts implements the ownership ledger: whatever requests, remedies
\* and sweeps interleave, each commit takes a free slot, moves a booking in one
\* step, gives a slot up, finishes a booking for good, or leaves the ledger alone.
THEOREM BookingImplementsOwnership == Spec => OwnershipRefined
<1>1. Init => Ownership!OwnershipInit
  BY DEF Init, Ownership!OwnershipInit, OwnerOf, LiveOn, Live, Holding, Over, FinalStatuses
<1>2. BookingInv /\ OwnersLive /\ BookingInv' /\ OwnersLive' /\ [Next]_vars
        => [Ownership!OwnershipNext]_<<[s \in Slots |-> OwnerOf(s)], Over>>
  BY LedgerSimulates
<1> QED
  BY <1>1, <1>2, OwnerIsLive, BookingInvariant, PTL
  DEF Spec, OwnershipRefined, Ownership!OwnershipSpec
=============================================================================
