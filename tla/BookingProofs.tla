--------------------------- MODULE BookingProofs ---------------------------
(***************************************************************************)
(* Proofs about Booking for every calendar, every number of bookings and    *)
(* requests in flight, and every setting of the limits.                    *)
(***************************************************************************)
EXTENDS Booking, TLAPS

\* The initial state has the shape of every later one: no booking, no session.
LEMMA InitInv == Init => BookingInv
  BY NoneAssumption, BoundsAssumption
  DEF Init, BookingInv, TypeOK, SessionsPlaced, BookingsPlaced, LiveBookingOwnsSlot,
      OwnsItsSlot, Bookings, SlotRow, BookingRow, AssignmentRow, CancellationRow, Session, Idle,
      Absent, NoTime, Statuses, Actors

---------------------------------------------------------------------------
(* Types.                                                                  *)

\* The rows the operations write have the shape of their tables.
LEMMA RowTypes ==
  /\ Idle \in Session
  /\ Open \in SlotRow /\ Absent \in SlotRow
  /\ \A b \in Bookings : BookedBy(b) \in SlotRow
  /\ \A b \in Bookings, t \in Int : ClaimedBy(b, t) \in SlotRow
  BY DEF Idle, Session, Open, Absent, SlotRow, BookedBy, ClaimedBy, NoTime, Actors, Statuses

\* releaseSlot leaves a table of slots.
LEMMA ReleasedType ==
  ASSUME NEW S \in [Slots -> SlotRow], NEW s, NEW b
  PROVE  Released(S, s, b) \in [Slots -> SlotRow]
  BY RowTypes DEF Released

\* syncResourceAssignment writes assignment rows.
LEMMA SyncedType ==
  ASSUME TypeOK, NEW b \in Bookings, NEW svc, NEW s \in Slots \cup {None},
         NEW row \in SyncedAssignments(b, svc, s)
  PROVE  row \in AssignmentRow
<1>1. CASE NeedsResource(svc, s)
  <2>1. PICK r \in Resources : row = [status |-> "active", resource |-> r, slot |-> s]
    BY <1>1 DEF SyncedAssignments
  <2> QED
    BY <2>1 DEF AssignmentRow
<1>2. CASE ~NeedsResource(svc, s)
  <2>1. row = IF assignments[b].status = "active"
              THEN [assignments[b] EXCEPT !.status = "released"] ELSE assignments[b]
    BY <1>2 DEF SyncedAssignments
  <2>2. assignments[b] \in AssignmentRow
    BY DEF TypeOK
  <2> QED
    BY <2>1, <2>2 DEF AssignmentRow
<1> QED
  BY <1>1, <1>2

\* A booking row with one column updated is a booking row.
LEMMA ColumnTypes ==
  ASSUME NEW r \in BookingRow
  PROVE  /\ \A t \in Statuses \cup {"none"} : [r EXCEPT !.status = t] \in BookingRow
         /\ \A s \in Slots : [r EXCEPT !.slot = s] \in BookingRow
         /\ \A t \in Int : [r EXCEPT !.hold = t] \in BookingRow
         /\ \A n \in Nat : [r EXCEPT !.moves = n] \in BookingRow
         /\ \A n \in Nat : [r EXCEPT !.customerMoves = n] \in BookingRow
         /\ r.customerMoves \in Nat
<1>1. \A t \in Statuses \cup {"none"} : [r EXCEPT !.status = t] \in BookingRow
  BY DEF BookingRow
<1>2. \A s \in Slots : [r EXCEPT !.slot = s] \in BookingRow
  BY DEF BookingRow
<1>3. \A t \in Int : [r EXCEPT !.hold = t] \in BookingRow
  BY DEF BookingRow
<1>4. \A n \in Nat : [r EXCEPT !.moves = n] \in BookingRow
  BY DEF BookingRow
<1>5. \A n \in Nat : [r EXCEPT !.customerMoves = n] \in BookingRow
  BY DEF BookingRow
<1> QED
  BY <1>1, <1>2, <1>3, <1>4, <1>5 DEF BookingRow

\* transition writes a booking row.
LEMMA TransitionType ==
  ASSUME TypeOK, NEW b \in Bookings, NEW to \in Statuses, NEW from, Transition(b, to, from)
  PROVE  bookings' \in [Bookings -> BookingRow]
<1>1. bookings[b] \in BookingRow
  BY DEF TypeOK
<1>2. [bookings[b] EXCEPT !.status = to, !.hold = NoTime] \in BookingRow
  <2> DEFINE r == [bookings[b] EXCEPT !.status = to]
  <2>1. r \in BookingRow
    BY <1>1, ColumnTypes
  <2> HIDE DEF r
  <2>2. [r EXCEPT !.hold = NoTime] \in BookingRow
    BY <2>1, ColumnTypes DEF NoTime
  <2> QED
    BY <2>2 DEF r
<1>3. bookings' = [bookings EXCEPT ![b] = [bookings[b] EXCEPT !.status = to, !.hold = NoTime]]
  BY DEF TypeOK, Transition
<1> QED
  BY <1>2, <1>3 DEF TypeOK

\* MoveBooking writes rows of every table it touches.
LEMMA MoveType ==
  ASSUME TypeOK, NEW b \in Bookings, NEW old, NEW from \in Statuses \cup {"none"},
         NEW moves \in Nat, NEW s \in Slots, NEW actor, NEW remedy,
         MoveBooking(b, old, from, moves, s, actor, remedy)
  PROVE  /\ bookings' \in [Bookings -> BookingRow]
         /\ slots' \in [Slots -> SlotRow]
         /\ assignments' \in [Bookings -> AssignmentRow]
<1> DEFINE to == IF remedy /\ from = "cancelled" THEN "confirmed" ELSE from
           until == clock + HoldTime
<1>1. until \in Int /\ to \in Statuses \cup {"none"}
  BY BoundsAssumption DEF TypeOK, Statuses
<1>2. bookings' \in [Bookings -> BookingRow]
  <2>1. bookings[b] \in BookingRow
    BY DEF TypeOK
  <2> DEFINE hold == IF to = "pending" THEN until ELSE NoTime
             count == IF actor = "customer" THEN bookings[b].customerMoves + 1
                      ELSE bookings[b].customerMoves
             row == [bookings[b] EXCEPT !.slot = s, !.status = to, !.moves = moves + 1,
                                        !.hold = hold, !.customerMoves = count]
  <2>2. hold \in Int /\ count \in Nat
    BY <1>1, <2>1, ColumnTypes DEF NoTime
  <2>3. row \in BookingRow
    <3> HIDE DEF hold, count, to
    <3> DEFINE r1 == [bookings[b] EXCEPT !.slot = s]
               r2 == [r1 EXCEPT !.status = to]
               r3 == [r2 EXCEPT !.moves = moves + 1]
               r4 == [r3 EXCEPT !.hold = hold]
    <3>1. r1 \in BookingRow
      BY <2>1, ColumnTypes
    <3> HIDE DEF r1
    <3>2. r2 \in BookingRow
      BY <1>1, <3>1, ColumnTypes
    <3> HIDE DEF r2
    <3>3. r3 \in BookingRow
      BY <3>2, ColumnTypes
    <3> HIDE DEF r3
    <3>4. r4 \in BookingRow
      BY <2>2, <3>3, ColumnTypes
    <3> HIDE DEF r4
    <3>5. [r4 EXCEPT !.customerMoves = count] \in BookingRow
      BY <2>2, <3>4, ColumnTypes
    <3> QED
      BY <3>5 DEF r1, r2, r3, r4
  <2>4. bookings' = [bookings EXCEPT ![b] = row]
    BY DEF TypeOK, MoveBooking
  <2> QED
    BY <2>3, <2>4 DEF TypeOK
<1>3. slots' \in [Slots -> SlotRow]
  <2>1. [slots EXCEPT ![s] = IF to = "confirmed" THEN BookedBy(b) ELSE ClaimedBy(b, until)]
          \in [Slots -> SlotRow]
    BY <1>1, RowTypes DEF TypeOK
  <2> QED
    BY <2>1, ReleasedType DEF MoveBooking
<1>4. assignments' \in [Bookings -> AssignmentRow]
  BY SyncedType DEF TypeOK, MoveBooking
<1> QED
  BY <1>2, <1>3, <1>4

\* Every step keeps the tables, the sessions and the sweep in their types.
LEMMA NextTypes == BookingInv /\ [Next]_vars => TypeOK'
<1> SUFFICES ASSUME BookingInv, [Next]_vars PROVE TypeOK'
  OBVIOUS
<1> USE DEF BookingInv
<1>1. ASSUME NEW s \in Slots, CreateSlot(s) PROVE TypeOK'
  BY <1>1, RowTypes DEF TypeOK, CreateSlot
<1>2. ASSUME NEW s \in Slots, DeleteSlot(s) PROVE TypeOK'
  BY <1>2, RowTypes DEF TypeOK, DeleteSlot
<1>3. ASSUME NEW p \in Sessions, NEW c \in Customers, NEW s \in Slots,
             NEW svc \in Services \cup {None}, NEW k \in Keys \cup {None},
             CreateBegin(p, c, s, svc, k)
      PROVE TypeOK'
  <2>1. [Idle EXCEPT !.pc = "create", !.customer = c, !.newSlot = s,
                     !.service = svc, !.key = k] \in Session
    BY DEF Idle, Session, Statuses, Actors
  <2> QED
    BY <1>3, <2>1 DEF TypeOK, CreateBegin
<1>4. ASSUME NEW p \in Sessions, CreateCommit(p) PROVE TypeOK'
  <2> DEFINE q == sessions[p]
             svc == ServiceBooked(q.service, q.newSlot)
  <2>1. PICK b \in Bookings :
          /\ \E row \in SyncedAssignments(b, svc, q.newSlot) :
               assignments' = [assignments EXCEPT ![b] = row]
          /\ slots' = [slots EXCEPT ![q.newSlot] = ClaimedBy(b, clock + HoldTime)]
          /\ bookings' = [bookings EXCEPT ![b] =
               [status |-> "pending", customer |-> q.customer, slot |-> q.newSlot,
                service |-> svc, hold |-> clock + HoldTime, moves |-> 0,
                customerMoves |-> 0, key |-> q.key]]
          /\ keys' = IF q.key = None THEN keys
                     ELSE [keys EXCEPT ![<<q.customer, q.key>>] = b]
    BY <1>4 DEF CreateCommit
  <2>2. q \in Session /\ q.newSlot \in Slots
    BY <1>4 DEF CreateCommit, TypeOK, SessionsPlaced
  <2>3. svc \in Services \cup {None} /\ clock + HoldTime \in Int
    BY <2>2, CalendarAssumption, BoundsAssumption DEF ServiceBooked, Session, TypeOK
  <2>4. assignments' \in [Bookings -> AssignmentRow]
    BY <2>1, <2>2, SyncedType DEF TypeOK
  <2>5. slots' \in [Slots -> SlotRow]
    BY <2>1, <2>2, <2>3, RowTypes DEF TypeOK
  <2>6. bookings' \in [Bookings -> BookingRow]
    <3>1. [status |-> "pending", customer |-> q.customer, slot |-> q.newSlot,
           service |-> svc, hold |-> clock + HoldTime, moves |-> 0,
           customerMoves |-> 0, key |-> q.key] \in BookingRow
      BY <2>2, <2>3 DEF Session, BookingRow, Statuses
    <3> QED
      BY <2>1, <3>1 DEF TypeOK
  <2>7. keys' \in [Customers \X Keys -> Bookings \cup {None}]
    BY <2>1 DEF TypeOK
  <2> QED
    BY <1>4, <2>4, <2>5, <2>6, <2>7, RowTypes DEF TypeOK, CreateCommit, EndSession
<1>5. ASSUME NEW p \in Sessions, Abort(p) PROVE TypeOK'
  BY <1>5, RowTypes DEF TypeOK, Abort, EndSession
<1>6. ASSUME NEW b \in Bookings, Confirm(b) PROVE TypeOK'
  <2>1. bookings' \in [Bookings -> BookingRow]
    BY <1>6, TransitionType DEF Confirm, Statuses
  <2> QED
    BY <1>6, <2>1, RowTypes DEF TypeOK, Confirm
<1>7. ASSUME NEW p \in Sessions, NEW b \in Bookings, NEW a \in Requesters, CancelBegin(p, b, a)
      PROVE TypeOK'
  <2>1. bookings[b] \in BookingRow
    BY DEF TypeOK
  <2>2. [Idle EXCEPT !.pc = "cancel", !.booking = b, !.actor = a,
                     !.slot = bookings[b].slot] \in Session
    BY <2>1, RequestersAssumption DEF Idle, Session, BookingRow, Statuses, Actors
  <2> QED
    BY <1>7, <2>2 DEF TypeOK, CancelBegin
<1>8. ASSUME NEW p \in Sessions, CancelWrite(p) PROVE TypeOK'
  <2> DEFINE q == sessions[p]
             b == q.booking
  <2>1. q \in Session /\ b \in Bookings
    BY <1>8 DEF CancelWrite, TypeOK, SessionsPlaced
  <2>2. bookings' \in [Bookings -> BookingRow]
    BY <1>8, <2>1, TransitionType DEF CancelWrite, Statuses
  <2>3. cancellation' \in [Bookings -> CancellationRow]
    <3>1. cancellation[b] \in CancellationRow /\ bookings[b] \in BookingRow
      BY <2>1 DEF TypeOK
    <3>2. [cancellation[b] EXCEPT !.by = q.actor] \in CancellationRow
      BY <2>1, <3>1 DEF CancellationRow, Session
    <3> QED
      BY <1>8, <2>1, <3>2 DEF TypeOK, CancelWrite
  <2>4. slots' \in [Slots -> SlotRow]
    BY <1>8, ReleasedType DEF CancelWrite, TypeOK
  <2>5. assignments' \in [Bookings -> AssignmentRow]
    <3>1. assignments[b] \in AssignmentRow
      BY <2>1 DEF TypeOK
    <3>2. [assignments[b] EXCEPT !.status = IF @ = "active" THEN "released" ELSE @]
            \in AssignmentRow
      BY <3>1 DEF AssignmentRow
    <3> QED
      BY <1>8, <2>1, <3>2 DEF TypeOK, CancelWrite
  <2> QED
    BY <1>8, <2>2, <2>3, <2>4, <2>5, RowTypes DEF TypeOK, CancelWrite, EndSession
<1>9. ASSUME NEW b \in Bookings, Complete(b) PROVE TypeOK'
  <2>1. bookings' \in [Bookings -> BookingRow]
    BY <1>9, TransitionType DEF Complete, Statuses
  <2> QED
    BY <1>9, <2>1 DEF TypeOK, Complete
<1>10. ASSUME NEW b \in Bookings, MarkNoShow(b) PROVE TypeOK'
  <2>1. bookings' \in [Bookings -> BookingRow]
    BY <1>10, TransitionType DEF MarkNoShow, Statuses
  <2> QED
    BY <1>10, <2>1 DEF TypeOK, MarkNoShow
<1>11. ASSUME NEW p \in Sessions, NEW b \in Bookings, NEW s \in Slots, NEW a \in Requesters,
              NEW r \in BOOLEAN, RescheduleBegin(p, b, s, a, r)
       PROVE TypeOK'
  <2>1. bookings[b] \in BookingRow
    BY DEF TypeOK
  <2>2. [Idle EXCEPT !.pc = "reschedule", !.booking = b, !.slot = bookings[b].slot,
                     !.newSlot = s, !.status = bookings[b].status,
                     !.moves = bookings[b].moves, !.actor = a, !.remedy = r] \in Session
    BY <2>1, RequestersAssumption DEF Idle, Session, BookingRow, Statuses, Actors
  <2> QED
    BY <1>11, <2>2 DEF TypeOK, RescheduleBegin
<1>12. ASSUME NEW p \in Sessions, RescheduleCommit(p) PROVE TypeOK'
  <2> DEFINE q == sessions[p]
  <2>1. q \in Session /\ q.booking \in Bookings /\ q.newSlot \in Slots
    BY <1>12 DEF RescheduleCommit, TypeOK, SessionsPlaced
  <2>2. q.status \in Statuses \cup {"none"} /\ q.moves \in Nat /\ q.remedy \in BOOLEAN
    BY <2>1 DEF Session
  <2>3. /\ bookings' \in [Bookings -> BookingRow]
        /\ slots' \in [Slots -> SlotRow]
        /\ assignments' \in [Bookings -> AssignmentRow]
    BY <1>12, <2>1, <2>2, MoveType DEF RescheduleCommit
  <2>4. cancellation' \in [Bookings -> CancellationRow]
    <3>1. cancellation[q.booking] \in CancellationRow
      BY <2>1 DEF TypeOK
    <3>2. [cancellation[q.booking] EXCEPT !.remedied = @ \/ q.remedy] \in CancellationRow
      BY <2>2, <3>1 DEF CancellationRow
    <3> QED
      BY <1>12, <2>1, <3>2 DEF TypeOK, RescheduleCommit
  <2> QED
    BY <1>12, <2>3, <2>4, RowTypes DEF TypeOK, RescheduleCommit, EndSession
<1>13. ASSUME NEW b \in Bookings, NEW s \in Slots, NEW a \in BOOLEAN, RescheduleGoverned(b, s, a)
       PROVE TypeOK'
  <2>1. bookings[b] \in BookingRow
    BY DEF TypeOK
  <2>2. bookings[b].status \in Statuses \cup {"none"} /\ bookings[b].moves \in Nat
    BY <2>1 DEF BookingRow
  <2>3. /\ bookings' \in [Bookings -> BookingRow]
        /\ slots' \in [Slots -> SlotRow]
        /\ assignments' \in [Bookings -> AssignmentRow]
    BY <1>13, <2>2, MoveType DEF RescheduleGoverned
  <2> QED
    BY <1>13, <2>3 DEF TypeOK, RescheduleGoverned
<1>14. CASE SweepRead
  <2>1. sweep' \subseteq Bookings \X Slots
    <3>1. \A b \in Bookings : Lapsed(b) => bookings[b].slot \in Slots
      BY DEF Lapsed, BookingsPlaced
    <3> QED
      BY <1>14, <3>1 DEF SweepRead, TypeOK
  <2> QED
    BY <1>14, <2>1 DEF TypeOK, SweepRead
<1>15. ASSUME NEW b \in Bookings, NEW s \in Slots, SweepExpire(b, s) PROVE TypeOK'
  <2>1. bookings' \in [Bookings -> BookingRow] /\ slots' \in [Slots -> SlotRow]
    BY <1>15, TransitionType, ReleasedType DEF SweepExpire, Statuses, TypeOK
  <2> QED
    BY <1>15, <2>1 DEF TypeOK, SweepExpire
<1>16. CASE Tick
  BY <1>16, BoundsAssumption DEF TypeOK, Tick
<1>17. CASE UNCHANGED vars
  BY <1>17 DEF TypeOK, vars
<1> QED
  BY <1>1, <1>2, <1>3, <1>4, <1>5, <1>6, <1>7, <1>8, <1>9, <1>10, <1>11, <1>12, <1>13,
     <1>14, <1>15, <1>16, <1>17
  DEF Next, Request, Proceed, SweepStep, CreateRefused, CancelLost, RescheduleRefused

---------------------------------------------------------------------------
(* Where sessions and bookings point.                                      *)

\* A session that ends, or begins with what it needs, keeps SessionsPlaced.
LEMMA SessionStep ==
  ASSUME BookingInv, NEW p \in Sessions, NEW q,
         sessions' = [sessions EXCEPT ![p] = q],
         q.pc = "create" => q.newSlot \in Slots,
         q.pc \in {"cancel", "reschedule"} => q.booking \in Bookings /\ q.slot \in Slots,
         q.pc = "reschedule" => /\ q.newSlot \in Slots \ {q.slot}
                                /\ q.status \in Holding \cup {"cancelled"}
  PROVE  SessionsPlaced'
  BY DEF BookingInv, TypeOK, SessionsPlaced

\* Requests remember slots and bookings that exist.
LEMMA NextSessions == BookingInv /\ [Next]_vars => SessionsPlaced'
<1> SUFFICES ASSUME BookingInv, [Next]_vars PROVE SessionsPlaced'
  OBVIOUS
<1>1. ASSUME NEW p \in Sessions, EndSession(p) PROVE SessionsPlaced'
  <2>1. Idle.pc = "idle"
    BY DEF Idle
  <2> QED
    BY <1>1, <2>1, SessionStep DEF EndSession
<1>2. ASSUME UNCHANGED sessions PROVE SessionsPlaced'
  BY <1>2 DEF BookingInv, SessionsPlaced
<1>3. ASSUME NEW p \in Sessions, NEW c \in Customers, NEW s \in Slots,
             NEW svc \in Services \cup {None}, NEW k \in Keys \cup {None},
             CreateBegin(p, c, s, svc, k)
      PROVE SessionsPlaced'
  <2> DEFINE q == [Idle EXCEPT !.pc = "create", !.customer = c, !.newSlot = s,
                               !.service = svc, !.key = k]
  <2>1. q.pc = "create" /\ q.newSlot = s
    BY DEF Idle
  <2>2. sessions' = [sessions EXCEPT ![p] = q]
    BY <1>3 DEF CreateBegin
  <2> HIDE DEF q
  <2> QED
    BY <2>1, <2>2, SessionStep
<1>4. ASSUME NEW p \in Sessions, NEW b \in Bookings, NEW a \in Requesters, CancelBegin(p, b, a)
      PROVE SessionsPlaced'
  <2> DEFINE q == [Idle EXCEPT !.pc = "cancel", !.booking = b, !.actor = a,
                               !.slot = bookings[b].slot]
  <2>1. q.pc = "cancel" /\ q.booking = b /\ q.slot = bookings[b].slot
    BY DEF Idle
  <2>2. sessions' = [sessions EXCEPT ![p] = q]
    BY <1>4 DEF CancelBegin
  <2>3. bookings[b].slot \in Slots
    BY <1>4 DEF CancelBegin, BookingInv, BookingsPlaced, Holding
  <2> HIDE DEF q
  <2> QED
    BY <2>1, <2>2, <2>3, SessionStep
<1>5. ASSUME NEW p \in Sessions, NEW b \in Bookings, NEW s \in Slots, NEW a \in Requesters,
             NEW r \in BOOLEAN, RescheduleBegin(p, b, s, a, r)
      PROVE SessionsPlaced'
  <2> DEFINE q == [Idle EXCEPT !.pc = "reschedule", !.booking = b, !.slot = bookings[b].slot,
                               !.newSlot = s, !.status = bookings[b].status,
                               !.moves = bookings[b].moves, !.actor = a, !.remedy = r]
  <2>1. /\ q.pc = "reschedule" /\ q.booking = b /\ q.slot = bookings[b].slot
        /\ q.newSlot = s /\ q.status = bookings[b].status
    BY DEF Idle
  <2>2. sessions' = [sessions EXCEPT ![p] = q]
    BY <1>5 DEF RescheduleBegin
  <2>3. /\ bookings[b].slot \in Slots /\ s # bookings[b].slot
        /\ bookings[b].status \in Holding \cup {"cancelled"}
    BY <1>5 DEF RescheduleBegin, RemedyOffered, SlotFits, Live, Holding, BookingInv, BookingsPlaced
  <2> HIDE DEF q
  <2> QED
    BY <2>1, <2>2, <2>3, SessionStep
<1> QED
  BY <1>1, <1>2, <1>3, <1>4, <1>5
  DEF Next, Request, Proceed, SweepStep, vars, CreateSlot, DeleteSlot, CreateCommit,
      CreateRefused, CancelWrite, CancelLost, RescheduleCommit, RescheduleRefused, Abort,
      Confirm, Complete, MarkNoShow, RescheduleGoverned, SweepRead, SweepExpire, Tick

---------------------------------------------------------------------------
(* Slots and bookings stay in step.                                        *)

\* What each kind of write leaves in a booking row.
LEMMA TransitionRows ==
  ASSUME BookingInv, NEW b \in Bookings, NEW to, NEW from, Transition(b, to, from)
  PROVE  /\ bookings'[b].status = to /\ bookings'[b].slot = bookings[b].slot
         /\ \A x \in Bookings : x # b => bookings'[x] = bookings[x]
  BY DEF BookingInv, TypeOK, Transition, BookingRow

LEMMA MoveRows ==
  ASSUME BookingInv, NEW b \in Bookings, NEW old, NEW from, NEW moves, NEW s, NEW actor,
         NEW remedy, MoveBooking(b, old, from, moves, s, actor, remedy)
  PROVE  LET to == IF remedy /\ from = "cancelled" THEN "confirmed" ELSE from IN
         /\ bookings'[b].status = to
         /\ bookings'[b].slot = s
         /\ bookings'[b].hold = IF to = "pending" THEN clock + HoldTime ELSE NoTime
         /\ \A x \in Bookings : x # b => bookings'[x] = bookings[x]
<1> DEFINE to == IF remedy /\ from = "cancelled" THEN "confirmed" ELSE from
<1>1. bookings' = [bookings EXCEPT
       ![b].slot = s, ![b].status = to, ![b].moves = moves + 1,
       ![b].hold = IF to = "pending" THEN clock + HoldTime ELSE NoTime,
       ![b].customerMoves = IF actor = "customer" THEN @ + 1 ELSE @]
  BY DEF MoveBooking
<1> HIDE DEF to
<1>2. /\ bookings'[b].status = to
      /\ bookings'[b].slot = s
      /\ bookings'[b].hold = IF to = "pending" THEN clock + HoldTime ELSE NoTime
      /\ \A x \in Bookings : x # b => bookings'[x] = bookings[x]
  BY <1>1 DEF BookingInv, TypeOK, BookingRow
<1> QED
  BY <1>2 DEF to

\* The slot of a live booking names it, so no other booking is live there.
LEMMA OwnerNamed ==
  ASSUME BookingInv, NEW b \in Bookings, Live(b)
  PROVE  /\ bookings[b].slot \in Slots
         /\ slots[bookings[b].slot].heldBy = b
         /\ slots[bookings[b].slot].status \in {"held", "booked"}
<1>1. bookings[b].status \in {"pending", "confirmed"}
  BY DEF Live, Holding
<1>2. bookings[b].slot \in Slots
  BY <1>1 DEF BookingInv, BookingsPlaced
<1>3. \/ slots[bookings[b].slot] = BookedBy(b)
      \/ slots[bookings[b].slot] = ClaimedBy(b, bookings[b].hold)
  BY <1>1 DEF BookingInv, LiveBookingOwnsSlot, OwnsItsSlot
<1> QED
  BY <1>2, <1>3 DEF BookedBy, ClaimedBy

\* releaseSlot touches one slot, and only while it is the booking's or nobody's.
LEMMA ReleasedRows ==
  ASSUME NEW S \in [Slots -> SlotRow], NEW s, NEW b, NEW t \in Slots,
         t # s \/ S[t].heldBy \notin {b, None}
  PROVE  Released(S, s, b)[t] = S[t]
  BY DEF Released

\* A booking that a step leaves alone still owns its slot when the slot row is
\* left alone too.
LEMMA OwnsUntouched ==
  ASSUME BookingInv, NEW x \in Bookings, bookings'[x] = bookings[x],
         Live(x) => slots'[bookings[x].slot] = slots[bookings[x].slot]
  PROVE  OwnsItsSlot(x)'
<1>1. OwnsItsSlot(x)
  BY DEF BookingInv, LiveBookingOwnsSlot
<1>2. bookings[x].status \in {"pending", "confirmed"} =>
        slots'[bookings[x].slot] = slots[bookings[x].slot]
  BY DEF Live, Holding
<1> QED
  BY <1>1, <1>2 DEF OwnsItsSlot, BookedBy, ClaimedBy

\* A release on behalf of b leaves every other live booking its slot.
LEMMA ReleaseStep ==
  ASSUME BookingInv, NEW b \in Bookings, NEW s, slots' = Released(slots, s, b),
         NEW x \in Bookings, x # b, bookings'[x] = bookings[x]
  PROVE  OwnsItsSlot(x)'
<1>1. ASSUME Live(x) PROVE slots'[bookings[x].slot] = slots[bookings[x].slot]
  <2>1. slots[bookings[x].slot].heldBy = x /\ x # None /\ bookings[x].slot \in Slots
    BY <1>1, OwnerNamed, NoneAssumption
  <2> QED
    BY <2>1, ReleasedRows DEF BookingInv, TypeOK
<1> QED
  BY <1>1, OwnsUntouched

\* reschedule: the mover owns the new slot, everyone else keeps theirs.
LEMMA MoveStep ==
  ASSUME BookingInv, NEW b \in Bookings, NEW s \in Slots, NEW old, old # s,
         NEW from, NEW moves, NEW actor, NEW remedy,
         MoveBooking(b, old, from, moves, s, actor, remedy),
         NEW x \in Bookings
  PROVE  OwnsItsSlot(x)'
<1> DEFINE to == IF remedy /\ from = "cancelled" THEN "confirmed" ELSE from
           claim == IF to = "confirmed" THEN BookedBy(b) ELSE ClaimedBy(b, clock + HoldTime)
           claimed == [slots EXCEPT ![s] = claim]
<1>1. claimed \in [Slots -> SlotRow] /\ claimed[s] = claim
  <2>1. clock + HoldTime \in Int
    BY BoundsAssumption DEF BookingInv, TypeOK
  <2>2. claim \in SlotRow
    BY <2>1, RowTypes
  <2> QED
    BY <2>2 DEF BookingInv, TypeOK
<1>2. slots' = Released(claimed, old, b)
  BY DEF MoveBooking
<1> HIDE DEF claimed
<1>3. CASE x = b
  <2>1. slots'[s] = claim
    BY <1>1, <1>2, ReleasedRows
  <2> QED
    BY <1>3, <2>1, MoveRows DEF OwnsItsSlot, BookedBy, ClaimedBy
<1>4. CASE x # b
  <2>1. bookings'[x] = bookings[x]
    BY <1>4, MoveRows
  <2>2. ASSUME Live(x) PROVE slots'[bookings[x].slot] = slots[bookings[x].slot]
    <3>1. bookings[x].slot \in Slots \ {s}
      BY <1>4, <2>2, OwnerNamed DEF MoveBooking, SlotIndexAdmits, LiveOn
    <3>2. slots[bookings[x].slot].heldBy = x /\ x # None
      BY <2>2, OwnerNamed, NoneAssumption
    <3>3. claimed[bookings[x].slot] = slots[bookings[x].slot]
      BY <3>1 DEF claimed, BookingInv, TypeOK
    <3> QED
      BY <1>1, <1>2, <1>4, <3>1, <3>2, <3>3, ReleasedRows
  <2> QED
    BY <2>1, <2>2, OwnsUntouched
<1> QED
  BY <1>3, <1>4

\* What a committed create leaves behind.
LEMMA CreateRows ==
  ASSUME BookingInv, NEW p \in Sessions, CreateCommit(p)
  PROVE  \E b \in Bookings, s \in Slots :
           /\ bookings[b].status = "none" /\ SlotIndexAdmits(b, s)
           /\ bookings'[b].status = "pending" /\ bookings'[b].slot = s
           /\ slots' = [slots EXCEPT ![s] = ClaimedBy(b, bookings'[b].hold)]
           /\ \A x \in Bookings : x # b => bookings'[x] = bookings[x]
<1> DEFINE q == sessions[p]
<1>1. q.newSlot \in Slots
  BY DEF CreateCommit, BookingInv, SessionsPlaced
<1>2. PICK b \in Bookings :
        /\ Fresh(b) /\ CreateAdmitted(q, b)
        /\ slots' = [slots EXCEPT ![q.newSlot] = ClaimedBy(b, clock + HoldTime)]
        /\ bookings' = [bookings EXCEPT ![b] =
             [status |-> "pending", customer |-> q.customer, slot |-> q.newSlot,
              service |-> ServiceBooked(q.service, q.newSlot), hold |-> clock + HoldTime,
              moves |-> 0, customerMoves |-> 0, key |-> q.key]]
  BY DEF CreateCommit
<1>3. /\ bookings'[b].status = "pending" /\ bookings'[b].slot = q.newSlot
      /\ bookings'[b].hold = clock + HoldTime
      /\ \A x \in Bookings : x # b => bookings'[x] = bookings[x]
  BY <1>2 DEF BookingInv, TypeOK
<1> QED
  BY <1>1, <1>2, <1>3 DEF Fresh, CreateAdmitted

\* Every booking row that was ever inserted references a slot.
LEMMA NextBookings == BookingInv /\ [Next]_vars => BookingsPlaced'
<1> SUFFICES ASSUME BookingInv, [Next]_vars PROVE BookingsPlaced'
  OBVIOUS
<1>1. ASSUME NEW b \in Bookings, NEW to, NEW from, Transition(b, to, from), "none" \notin from
      PROVE BookingsPlaced'
  <2>1. bookings[b].slot \in Slots
    BY <1>1 DEF Transition, BookingInv, BookingsPlaced
  <2> QED
    BY <1>1, <2>1, TransitionRows DEF BookingInv, BookingsPlaced
<1>2. ASSUME NEW b \in Bookings, NEW s \in Slots, NEW old, NEW from, NEW moves, NEW actor,
             NEW remedy, MoveBooking(b, old, from, moves, s, actor, remedy)
      PROVE BookingsPlaced'
  BY <1>2, MoveRows DEF BookingInv, BookingsPlaced
<1>3. ASSUME NEW p \in Sessions, CreateCommit(p) PROVE BookingsPlaced'
  BY <1>3, CreateRows DEF BookingInv, BookingsPlaced
<1>4. ASSUME UNCHANGED bookings PROVE BookingsPlaced'
  BY <1>4 DEF BookingInv, BookingsPlaced
<1>5. ASSUME NEW p \in Sessions, CancelWrite(p) PROVE BookingsPlaced'
  <2>1. sessions[p].booking \in Bookings
    BY <1>5 DEF CancelWrite, BookingInv, SessionsPlaced
  <2> QED
    BY <1>1, <1>5, <2>1 DEF CancelWrite, Holding
<1>6. ASSUME NEW p \in Sessions, RescheduleCommit(p) PROVE BookingsPlaced'
  <2>1. sessions[p].booking \in Bookings /\ sessions[p].newSlot \in Slots
    BY <1>6 DEF RescheduleCommit, BookingInv, SessionsPlaced
  <2> QED
    BY <1>2, <1>6, <2>1 DEF RescheduleCommit
<1>7. ASSUME NEW b \in Bookings, NEW s \in Slots, SweepExpire(b, s) PROVE BookingsPlaced'
  BY <1>1, <1>4, <1>7 DEF SweepExpire
<1>8. ASSUME NEW b \in Bookings, Confirm(b) \/ Complete(b) \/ MarkNoShow(b)
      PROVE BookingsPlaced'
  BY <1>1, <1>8 DEF Confirm, Complete, MarkNoShow
<1>9. ASSUME NEW b \in Bookings, NEW s \in Slots, NEW a \in BOOLEAN, RescheduleGoverned(b, s, a)
      PROVE BookingsPlaced'
  BY <1>2, <1>9 DEF RescheduleGoverned
<1> QED
  BY <1>3, <1>4, <1>5, <1>6, <1>7, <1>8, <1>9
  DEF Next, Request, Proceed, SweepStep, vars, CreateSlot, DeleteSlot, CreateBegin,
      CreateRefused, CancelBegin, CancelLost, RescheduleBegin, RescheduleRefused, Abort,
      SweepRead, Tick

\* A live booking's slot row names it after every step.
LEMMA NextOwns == BookingInv /\ [Next]_vars => LiveBookingOwnsSlot'
<1> SUFFICES ASSUME BookingInv, [Next]_vars, NEW x \in Bookings PROVE OwnsItsSlot(x)'
  BY DEF LiveBookingOwnsSlot
<1>1. ASSUME UNCHANGED <<bookings, slots>> PROVE OwnsItsSlot(x)'
  BY <1>1, OwnsUntouched
<1>2. ASSUME NEW s \in Slots, CreateSlot(s) \/ DeleteSlot(s) PROVE OwnsItsSlot(x)'
  <2>1. slots[s].status \in {"absent", "open"} /\ bookings' = bookings
    BY <1>2 DEF CreateSlot, DeleteSlot
  <2>2. \A t \in Slots : t # s => slots'[t] = slots[t]
    BY <1>2 DEF CreateSlot, DeleteSlot, BookingInv, TypeOK
  <2> QED
    BY <2>1, <2>2, OwnerNamed, OwnsUntouched
<1>3. ASSUME NEW p \in Sessions, CreateCommit(p) PROVE OwnsItsSlot(x)'
  <2>1. PICK b \in Bookings, s \in Slots :
          /\ bookings[b].status = "none" /\ SlotIndexAdmits(b, s)
          /\ bookings'[b].status = "pending" /\ bookings'[b].slot = s
          /\ slots' = [slots EXCEPT ![s] = ClaimedBy(b, bookings'[b].hold)]
          /\ \A y \in Bookings : y # b => bookings'[y] = bookings[y]
    BY <1>3, CreateRows
  <2>2. CASE x = b
    BY <2>1, <2>2 DEF OwnsItsSlot, ClaimedBy, BookedBy, BookingInv, TypeOK
  <2>3. CASE x # b
    <3>1. ASSUME Live(x) PROVE slots'[bookings[x].slot] = slots[bookings[x].slot]
      BY <2>1, <2>3, <3>1, OwnerNamed DEF SlotIndexAdmits, LiveOn, BookingInv, TypeOK
    <3> QED
      BY <2>1, <2>3, <3>1, OwnsUntouched
  <2> QED
    BY <2>2, <2>3
<1>4. ASSUME NEW b \in Bookings, Confirm(b) PROVE OwnsItsSlot(x)'
  <2>1. Live(b) /\ bookings[b].slot \in Slots /\ slots[bookings[b].slot].heldBy = b
    BY <1>4, OwnerNamed DEF Confirm, Transition, Live, Holding
  <2>2. /\ bookings'[b].status = "confirmed" /\ bookings'[b].slot = bookings[b].slot
        /\ \A y \in Bookings : y # b => bookings'[y] = bookings[y]
    BY <1>4, TransitionRows DEF Confirm
  <2>3. /\ slots'[bookings[b].slot] = BookedBy(b)
        /\ \A t \in Slots : t # bookings[b].slot => slots'[t] = slots[t]
    BY <1>4, <2>1 DEF Confirm, BookingInv, TypeOK
  <2>4. CASE x = b
    BY <2>2, <2>3, <2>4 DEF OwnsItsSlot, BookedBy
  <2>5. CASE x # b
    BY <2>1, <2>2, <2>3, <2>5, OwnerNamed, OwnsUntouched
  <2> QED
    BY <2>4, <2>5
<1>5. ASSUME NEW p \in Sessions, CancelWrite(p) PROVE OwnsItsSlot(x)'
  <2> DEFINE b == sessions[p].booking
  <2>1. b \in Bookings
    BY <1>5 DEF CancelWrite, BookingInv, SessionsPlaced
  <2>2. /\ bookings'[b].status = "cancelled"
        /\ \A y \in Bookings : y # b => bookings'[y] = bookings[y]
    BY <1>5, <2>1, TransitionRows DEF CancelWrite
  <2>3. slots' = Released(slots, sessions[p].slot, b)
    BY <1>5 DEF CancelWrite
  <2>4. CASE x = b
    BY <2>2, <2>4 DEF OwnsItsSlot
  <2>5. CASE x # b
    BY <2>1, <2>2, <2>3, <2>5, ReleaseStep
  <2> QED
    BY <2>4, <2>5
<1>6. ASSUME NEW b \in Bookings, Complete(b) \/ MarkNoShow(b) PROVE OwnsItsSlot(x)'
  <2>1. /\ bookings'[b].status \in {"completed", "no_show"} /\ slots' = slots
        /\ \A y \in Bookings : y # b => bookings'[y] = bookings[y]
    BY <1>6, TransitionRows DEF Complete, MarkNoShow
  <2>2. CASE x = b
    BY <2>1, <2>2 DEF OwnsItsSlot
  <2>3. CASE x # b
    BY <2>1, <2>3, OwnsUntouched
  <2> QED
    BY <2>2, <2>3
<1>7. ASSUME NEW p \in Sessions, RescheduleCommit(p) PROVE OwnsItsSlot(x)'
  <2>1. sessions[p].booking \in Bookings /\ sessions[p].newSlot \in Slots
        /\ sessions[p].slot # sessions[p].newSlot
    BY <1>7 DEF RescheduleCommit, BookingInv, SessionsPlaced
  <2> QED
    BY <1>7, <2>1, MoveStep DEF RescheduleCommit
<1>8. ASSUME NEW b \in Bookings, NEW s \in Slots, NEW a \in BOOLEAN, RescheduleGoverned(b, s, a)
      PROVE OwnsItsSlot(x)'
  BY <1>8, MoveStep DEF RescheduleGoverned, SlotFits
<1>9. ASSUME NEW b \in Bookings, NEW s \in Slots, SweepExpire(b, s) PROVE OwnsItsSlot(x)'
  <2>1. CASE bookings[b].status = "pending"
    <3>1. /\ bookings'[b].status = "expired" /\ slots' = Released(slots, s, b)
          /\ \A y \in Bookings : y # b => bookings'[y] = bookings[y]
      BY <1>9, <2>1, TransitionRows DEF SweepExpire
    <3>2. CASE x = b
      BY <3>1, <3>2 DEF OwnsItsSlot
    <3>3. CASE x # b
      BY <3>1, <3>3, ReleaseStep
    <3> QED
      BY <3>2, <3>3
  <2>2. CASE bookings[b].status # "pending"
    BY <1>1, <1>9, <2>2 DEF SweepExpire
  <2> QED
    BY <2>1, <2>2
<1> QED
  BY <1>1, <1>2, <1>3, <1>4, <1>5, <1>6, <1>7, <1>8, <1>9
  DEF Next, Request, Proceed, SweepStep, vars, CreateBegin, CreateRefused, CancelBegin,
      CancelLost, RescheduleBegin, RescheduleRefused, Abort, SweepRead, Tick

---------------------------------------------------------------------------
(* The theorems.                                                           *)

\* BookingInv is inductive.
THEOREM BookingInvariant == Spec => []BookingInv
<1>1. BookingInv /\ [Next]_vars => BookingInv'
  BY NextTypes, NextSessions, NextBookings, NextOwns DEF BookingInv
<1> QED
  BY <1>1, InitInv, PTL DEF Spec

\* Type correctness of the booking service's tables, sessions and sweep.
THEOREM TypesHold == Spec => []TypeOK
<1>1. BookingInv => TypeOK
  BY DEF BookingInv
<1> QED
  BY <1>1, BookingInvariant, PTL

\* The slot row of a pending or confirmed booking always names that booking,
\* with the hold the booking was promised, whatever cancellations, moves and
\* sweeps are in flight.
THEOREM SlotsInStep == Spec => []LiveBookingOwnsSlot
<1>1. BookingInv => LiveBookingOwnsSlot
  BY DEF BookingInv
<1> QED
  BY <1>1, BookingInvariant, PTL

\* No slot is ever sold twice, for any number of slots, customers, bookings and
\* concurrent requests.
THEOREM NeverDoubleBooked == Spec => []NoDoubleBooking
<1>1. BookingInv => NoDoubleBooking
  BY OwnerNamed DEF NoDoubleBooking
<1> QED
  BY <1>1, BookingInvariant, PTL

\* What a move does to the rows of the bookings, seen from one step.
LEMMA MovesOnlyLive ==
  ASSUME BookingInv, NEW b \in Bookings, NEW s \in Slots, NEW old, old # s, NEW from, NEW moves,
         NEW actor, NEW remedy, from \in Holding \cup {"cancelled"},
         MoveBooking(b, old, from, moves, s, actor, remedy),
         NEW x \in Bookings
  PROVE  /\ bookings[x].status \in FinalStatuses => bookings'[x] = bookings[x]
         /\ (Live(x) /\ bookings'[x].slot # bookings[x].slot) =>
              /\ bookings'[x].status = bookings[x].status
              /\ slots'[bookings'[x].slot].heldBy = x
<1>1. bookings[b].status = from
  BY DEF MoveBooking
<1>2. CASE x # b
  BY <1>2, MoveRows
<1>3. CASE x = b
  <2>1. bookings[x].status \notin FinalStatuses
    BY <1>1, <1>3 DEF Holding, FinalStatuses
  <2>2. Live(x) => bookings'[x].status = bookings[x].status
    BY <1>1, <1>3, MoveRows DEF Live, Holding
  <2>3. Live(x) => slots'[bookings'[x].slot].heldBy = x
    <3> SUFFICES ASSUME Live(x) PROVE slots'[bookings'[x].slot].heldBy = x
      OBVIOUS
    <3>1. bookings'[x].status \in {"pending", "confirmed"}
      BY <2>2 DEF Live, Holding
    <3>2. OwnsItsSlot(x)'
      BY MoveStep
    <3> QED
      BY <3>1, <3>2 DEF OwnsItsSlot, BookedBy, ClaimedBy
  <2> QED
    BY <2>1, <2>2, <2>3
<1> QED
  BY <1>2, <1>3

\* One step, seen from one booking.
LEMMA StepFacts ==
  ASSUME BookingInv, [Next]_vars, NEW x \in Bookings
  PROVE  /\ bookings[x].status \in FinalStatuses =>
              bookings'[x].status = bookings[x].status /\ bookings'[x].slot = bookings[x].slot
         /\ (Live(x) /\ bookings'[x].slot # bookings[x].slot) =>
              /\ bookings'[x].status = bookings[x].status
              /\ slots'[bookings'[x].slot].heldBy = x
<1> DEFINE Goal ==
      /\ bookings[x].status \in FinalStatuses =>
           bookings'[x].status = bookings[x].status /\ bookings'[x].slot = bookings[x].slot
      /\ (Live(x) /\ bookings'[x].slot # bookings[x].slot) =>
           /\ bookings'[x].status = bookings[x].status
           /\ slots'[bookings'[x].slot].heldBy = x
<1>1. ASSUME NEW b \in Bookings, NEW to, NEW from, Transition(b, to, from),
             from \cap FinalStatuses = {}
      PROVE Goal
  <2>1. bookings'[x].slot = bookings[x].slot /\ (x # b => bookings'[x] = bookings[x])
    BY <1>1, TransitionRows
  <2>2. bookings[b].status \notin FinalStatuses
    BY <1>1 DEF Transition
  <2> QED
    BY <2>1, <2>2
<1>2. ASSUME UNCHANGED bookings PROVE Goal
  BY <1>2
<1>3. ASSUME NEW p \in Sessions, CreateCommit(p) PROVE Goal
  BY <1>3, CreateRows DEF FinalStatuses, Live, Holding
<1>4. ASSUME NEW p \in Sessions, CancelWrite(p) PROVE Goal
  <2>1. sessions[p].booking \in Bookings
    BY <1>4 DEF CancelWrite, BookingInv, SessionsPlaced
  <2> QED
    BY <1>1, <1>4, <2>1 DEF CancelWrite, Holding, FinalStatuses
<1>5. ASSUME NEW b \in Bookings, Confirm(b) \/ Complete(b) \/ MarkNoShow(b) PROVE Goal
  BY <1>1, <1>5 DEF Confirm, Complete, MarkNoShow, FinalStatuses
<1>6. ASSUME NEW p \in Sessions, RescheduleCommit(p) PROVE Goal
  <2>1. /\ sessions[p].booking \in Bookings /\ sessions[p].newSlot \in Slots
        /\ sessions[p].slot # sessions[p].newSlot
        /\ sessions[p].status \in Holding \cup {"cancelled"}
    BY <1>6 DEF RescheduleCommit, BookingInv, SessionsPlaced
  <2> QED
    BY <1>6, <2>1, MovesOnlyLive DEF RescheduleCommit
<1>7. ASSUME NEW b \in Bookings, NEW s \in Slots, NEW a \in BOOLEAN, RescheduleGoverned(b, s, a)
      PROVE Goal
  BY <1>7, MovesOnlyLive DEF RescheduleGoverned, SlotFits, Live
<1>8. ASSUME NEW b \in Bookings, NEW s \in Slots, SweepExpire(b, s) PROVE Goal
  BY <1>1, <1>2, <1>8 DEF SweepExpire, FinalStatuses
<1> HIDE DEF Goal
<1>9. Goal
  BY <1>2, <1>3, <1>4, <1>5, <1>6, <1>7, <1>8
  DEF Next, Request, Proceed, SweepStep, vars, CreateSlot, DeleteSlot, CreateBegin,
      CreateRefused, CancelBegin, CancelLost, RescheduleBegin, RescheduleRefused, Abort,
      SweepRead, Tick
<1> QED
  BY <1>9 DEF Goal

\* completed, expired and no_show bookings never change again.
THEOREM FinalForGood == Spec => FinalStaysFinal
<1>1. BookingInv /\ [Next]_vars =>
        [\A b \in Bookings :
           bookings[b].status \in FinalStatuses =>
             bookings'[b].status = bookings[b].status /\ bookings'[b].slot = bookings[b].slot]_vars
  BY StepFacts
<1> QED
  BY <1>1, BookingInvariant, PTL DEF Spec, FinalStaysFinal

\* A reschedule never leaves a customer without a booking: the slot left is
\* given up only for a slot the booking owns in the next state.
THEOREM MovesKeepBookings == Spec => MoveKeepsABooking
<1>1. BookingInv /\ [Next]_vars =>
        [\A b \in Bookings :
           (Live(b) /\ bookings'[b].slot # bookings[b].slot) =>
             /\ bookings'[b].status = bookings[b].status
             /\ slots'[bookings'[b].slot].heldBy = b]_vars
  BY StepFacts
<1> QED
  BY <1>1, BookingInvariant, PTL DEF Spec, MoveKeepsABooking
============================================================================
