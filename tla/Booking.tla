------------------------------ MODULE Booking ------------------------------
(***************************************************************************)
(* The booking domain: availability slots, bookings, their resource        *)
(* assignments, and the hold-expiry sweep (services/booking).               *)
(*                                                                         *)
(* PostgreSQL runs every transaction at READ COMMITTED.  An operation that  *)
(* reads a row without locking it and writes later is two (or three)       *)
(* actions of a session, with the values it read kept in the session; the   *)
(* write is one action, because the row locks it takes are held to commit   *)
(* and every conditional UPDATE re-evaluates its WHERE clause against the   *)
(* committed row.  A transaction that throws rolls back: it changes nothing *)
(* but the session.                                                        *)
(*                                                                         *)
(* Instants are natural numbers.  A slot stands for its own start, end,     *)
(* professional and published service, which never change after insertion.  *)
(***************************************************************************)
EXTENDS Integers, FiniteSets

CONSTANTS
  None,              \* the SQL NULL of every reference column
  Customers, Professionals, Slots, Services, Keys, Resources, Sessions,
  MaxBookings,       \* bound on booking rows ever inserted
  StartAt, EndAt,    \* [Slots -> Nat]
  ProfessionalOf,    \* [Slots -> Professionals]
  ServiceOf,         \* [Slots -> Services \cup {None}], None: generic slot
  Requirement,       \* <<service, slot>> pairs that need a resource
  Eligible,          \* <<service, slot, resource>>: resources that may serve it
  Requesters,        \* who sends requests: of {"customer", "professional"}
  Governed,          \* bookings whose order carries accepted outcome terms
  HoldTime,          \* config.holdMinutes
  MaxHolds,          \* config.maxConcurrentHoldsPerCustomer
  MaxReschedules,    \* config.maxReschedulesPerBooking
  MinNotice,         \* config.rescheduleMinHoursBefore
  FreeMoves,         \* governance.rescheduleFreeCount
  Cutoff,            \* governance.cutoffHours
  Grace,             \* governance.graceMinutes
  MaxClock           \* bound on the clock

Bookings == 1 .. MaxBookings

ASSUME NoneAssumption ==
  None \notin Customers \cup Slots \cup Services \cup Keys \cup Resources \cup Bookings
ASSUME CalendarAssumption ==
  /\ StartAt \in [Slots -> Nat] /\ EndAt \in [Slots -> Nat]
  /\ \A s \in Slots : StartAt[s] < EndAt[s]
  /\ ProfessionalOf \in [Slots -> Professionals]
  /\ ServiceOf \in [Slots -> Services \cup {None}]
ASSUME RequestersAssumption == Requesters \subseteq {"customer", "professional"}
ASSUME BoundsAssumption ==
  /\ MaxBookings \in Nat /\ MaxClock \in Nat /\ MaxHolds \in Nat
  /\ MaxReschedules \in Nat /\ FreeMoves \in Nat
  /\ HoldTime \in Nat /\ MinNotice \in Nat /\ Cutoff \in Nat /\ Grace \in Nat

VARIABLES
  clock,
  slots,        \* booking.availability_slots
  bookings,     \* booking.bookings
  assignments,  \* booking.booking_resource_assignments
  keys,         \* booking.idempotency_keys: <<customer, key>> -> booking
  cancellation, \* who cancelled, and whether the remedy was taken
  declared,     \* bookings with a row in booking.no_show_declarations
  sessions,     \* request transactions in flight
  sweep         \* rows read by the hold-expiry sweep and not yet processed

vars == <<clock, slots, bookings, assignments, keys, cancellation, declared,
          sessions, sweep>>

---------------------------------------------------------------------------
(* Rows.                                                                   *)

NoTime == -1
Statuses == {"pending", "confirmed", "completed", "cancelled", "expired", "no_show"}
Holding == {"pending", "confirmed"}                   \* SLOT_HOLDING_STATUSES
Actors == {"customer", "professional", "system"}

SlotRow == [status : {"absent", "open", "held", "booked"},
            heldUntil : Int, heldBy : Bookings \cup {None}]

BookingRow == [status : Statuses \cup {"none"}, customer : Customers \cup {None},
               slot : Slots \cup {None}, service : Services \cup {None},
               hold : Int, moves : Nat, customerMoves : Nat,
               key : Keys \cup {None}]

AssignmentRow == [status : {"none", "active", "released"},
                  resource : Resources \cup {None}, slot : Slots \cup {None}]

CancellationRow == [by : Actors \cup {None}, remedied : BOOLEAN]

Session == [pc : {"idle", "create", "cancel", "reschedule"},
            booking : Bookings \cup {None}, customer : Customers \cup {None},
            slot : Slots \cup {None}, newSlot : Slots \cup {None},
            service : Services \cup {None}, key : Keys \cup {None},
            status : Statuses \cup {"none"}, moves : Nat,
            actor : Actors \cup {None}, remedy : BOOLEAN]

Idle == [pc |-> "idle", booking |-> None, customer |-> None, slot |-> None,
         newSlot |-> None, service |-> None, key |-> None, status |-> "none",
         moves |-> 0, actor |-> None, remedy |-> FALSE]

Absent == [status |-> "absent", heldUntil |-> NoTime, heldBy |-> None]
Open == [status |-> "open", heldUntil |-> NoTime, heldBy |-> None]

TypeOK ==
  /\ clock \in 0 .. MaxClock
  /\ slots \in [Slots -> SlotRow]
  /\ bookings \in [Bookings -> BookingRow]
  /\ assignments \in [Bookings -> AssignmentRow]
  /\ keys \in [Customers \X Keys -> Bookings \cup {None}]
  /\ cancellation \in [Bookings -> CancellationRow]
  /\ declared \subseteq Bookings
  /\ sessions \in [Sessions -> Session]
  /\ sweep \subseteq Bookings \X Slots

Init ==
  /\ clock = 0
  /\ slots = [s \in Slots |-> Absent]
  /\ bookings = [b \in Bookings |->
       [status |-> "none", customer |-> None, slot |-> None, service |-> None,
        hold |-> NoTime, moves |-> 0, customerMoves |-> 0, key |-> None]]
  /\ assignments = [b \in Bookings |->
       [status |-> "none", resource |-> None, slot |-> None]]
  /\ keys = [ck \in Customers \X Keys |-> None]
  /\ cancellation = [b \in Bookings |->
       [by |-> None, remedied |-> FALSE]]
  /\ declared = {}
  /\ sessions = [p \in Sessions |-> Idle]
  /\ sweep = {}

Live(b) == bookings[b].status \in Holding
LiveOn(s) == {b \in Bookings : Live(b) /\ bookings[b].slot = s}
HoldsOf(c) == {b \in Bookings : bookings[b].customer = c /\ bookings[b].status = "pending"}
Overlap(s, t) == StartAt[s] < EndAt[t] /\ StartAt[t] < EndAt[s]

---------------------------------------------------------------------------
(* AvailabilityService.                                                    *)

\* The exclusion constraint on (professional, [start, end)) decides overlap.
CreateSlot(s) ==
  /\ slots[s].status = "absent"
  /\ StartAt[s] >= clock
  /\ \A t \in Slots : (ProfessionalOf[t] = ProfessionalOf[s] /\ Overlap(s, t))
                        => slots[t].status = "absent"
  /\ slots' = [slots EXCEPT ![s] = Open]
  /\ UNCHANGED <<clock, bookings, assignments, keys, cancellation, declared, sessions, sweep>>

\* DELETE ... WHERE status = 'open'; the foreign key of bookings.slot_id
\* keeps every slot that a booking row still references.
DeleteSlot(s) ==
  /\ slots[s].status = "open"
  /\ \A b \in Bookings : bookings[b].slot # s
  /\ slots' = [slots EXCEPT ![s] = Absent]
  /\ UNCHANGED <<clock, bookings, assignments, keys, cancellation, declared, sessions, sweep>>

---------------------------------------------------------------------------
(* The claim, the release and the resource assignment.                     *)

\* The WHERE clause of claimSlot, and of listClaimableSlots.
Claimable(s) ==
  /\ StartAt[s] > clock
  /\ \/ slots[s].status = "open"
     \/ slots[s].status = "held" /\ slots[s].heldUntil < clock

ClaimedBy(b, until) == [status |-> "held", heldUntil |-> until, heldBy |-> b]
\* Mutant: the booking's status written into the slot row.
BookedAsBooking(b) == [status |-> "confirmed", heldUntil |-> NoTime, heldBy |-> b]
BookedBy(b) == [status |-> "booked", heldUntil |-> NoTime, heldBy |-> b]

\* Mutant: the release does not ask who holds the slot now.
ReleasedUnowned(slotRows, s, b) ==
  IF slotRows[s].status # "absent" THEN [slotRows EXCEPT ![s] = Open] ELSE slotRows

\* releaseSlot: only while the slot is still this booking's, or nobody's.
Released(slotRows, s, b) ==
  IF slotRows[s].status # "absent" /\ slotRows[s].heldBy \in {b, None}
  THEN [slotRows EXCEPT ![s] = Open]
  ELSE slotRows

\* Mutant: without the partial unique index.
SlotIndexMissing(b, s) == TRUE

\* uq_bookings_active_slot: one pending or confirmed booking per slot.
SlotIndexAdmits(b, s) == LiveOn(s) \subseteq {b}

\* Mutant: the constraint compares slots, not time ranges.
ResourceFreeBySlot(r, b, s) ==
  \A x \in Bookings \ {b} :
    assignments[x].status = "active" /\ assignments[x].resource = r
      => assignments[x].slot # s

\* ex_booking_resource_no_overlap, for the row of booking b.
ResourceFree(r, b, s) ==
  \A x \in Bookings \ {b} :
    assignments[x].status = "active" /\ assignments[x].resource = r
      => ~Overlap(assignments[x].slot, s)

NeedsResource(svc, s) == <<svc, s>> \in Requirement

\* Mutant: a booking that already has a resource keeps the row it has.
SyncedOnce(b, svc, s) ==
  IF NeedsResource(svc, s) /\ assignments[b].status # "active"
  THEN {[status |-> "active", resource |-> r, slot |-> s] :
          r \in {q \in Resources : <<svc, s, q>> \in Eligible /\ ResourceFree(q, b, s)}}
  ELSE {assignments[b]}

\* syncResourceAssignment: the rows it may leave, none when it throws.
SyncedAssignments(b, svc, s) ==
  IF NeedsResource(svc, s)
  THEN {[status |-> "active", resource |-> r, slot |-> s] :
          r \in {q \in Resources : <<svc, s, q>> \in Eligible /\ ResourceFree(q, b, s)}}
  ELSE {IF assignments[b].status = "active"
        THEN [assignments[b] EXCEPT !.status = "released"]
        ELSE assignments[b]}

EndSession(p) == sessions' = [sessions EXCEPT ![p] = Idle]

\* The transaction of session p throws: everything it wrote is rolled back.
Abort(p) ==
  /\ EndSession(p)
  /\ UNCHANGED <<clock, slots, bookings, assignments, keys, cancellation, declared, sweep>>

---------------------------------------------------------------------------
(* create: replay check and hold count first, the atomic claim later.      *)

CreateBegin(p, c, s, svc, k) ==
  /\ sessions[p].pc = "idle"
  /\ k # None => keys[<<c, k>>] = None        \* else the recorded booking is replayed
  /\ Cardinality(HoldsOf(c)) < MaxHolds
  /\ sessions' = [sessions EXCEPT ![p] =
       [Idle EXCEPT !.pc = "create", !.customer = c, !.newSlot = s,
                    !.service = svc, !.key = k]]
  /\ UNCHANGED <<clock, slots, bookings, assignments, keys, cancellation, declared, sweep>>

ServiceFits(svc, s) == svc = None \/ ServiceOf[s] = None \/ svc = ServiceOf[s]
ServiceBooked(svc, s) == IF svc # None THEN svc ELSE ServiceOf[s]
\* Mutant: the second lookup, and the primary key behind it, are missing.
KeyUnchecked(c, k) == TRUE
KeyUnused(c, k) == k # None => keys[<<c, k>>] = None

Fresh(b) == /\ bookings[b].status = "none"
            /\ \A x \in 1 .. (b - 1) : bookings[x].status # "none"

CreateAdmitted(q, b) ==
  /\ Claimable(q.newSlot)
  /\ ServiceFits(q.service, q.newSlot)
  /\ SlotIndexAdmits(b, q.newSlot)
  /\ KeyUnused(q.customer, q.key)

\* createWithin from claimSlot to commit.
CreateCommit(p) ==
  LET q == sessions[p]
      svc == ServiceBooked(q.service, q.newSlot)
  IN
  /\ q.pc = "create"
  /\ \E b \in Bookings :
       /\ Fresh(b)
       /\ CreateAdmitted(q, b)
       /\ \E row \in SyncedAssignments(b, svc, q.newSlot) :
            assignments' = [assignments EXCEPT ![b] = row]
       /\ slots' = [slots EXCEPT ![q.newSlot] = ClaimedBy(b, clock + HoldTime)]
       /\ bookings' = [bookings EXCEPT ![b] =
            [status |-> "pending", customer |-> q.customer, slot |-> q.newSlot,
             service |-> svc, hold |-> clock + HoldTime, moves |-> 0,
             customerMoves |-> 0, key |-> q.key]]
       /\ keys' = IF q.key = None THEN keys
                  ELSE [keys EXCEPT ![<<q.customer, q.key>>] = b]
  /\ EndSession(p)
  /\ UNCHANGED <<clock, cancellation, declared, sweep>>

\* SlotUnavailableException, or the replay of a key that another request won.
CreateRefused(p) ==
  LET q == sessions[p] IN
  /\ q.pc = "create"
  /\ \A b \in Bookings : Fresh(b) =>
       \/ ~CreateAdmitted(q, b)
       \/ SyncedAssignments(b, ServiceBooked(q.service, q.newSlot), q.newSlot) = {}
  /\ Abort(p)

---------------------------------------------------------------------------
(* Lifecycle transitions.                                                  *)

\* transition: UPDATE ... WHERE status IN (from).  Every caller clears
\* hold_expires_at or starts from a status in which it is null.
Transition(b, to, from) ==
  /\ bookings[b].status \in from
  /\ bookings' = [bookings EXCEPT ![b].status = to, ![b].hold = NoTime]

\* confirm: the compare-and-swap on 'pending' decides; the slot is marked
\* booked by id, without looking at who holds it.
Confirm(b) ==
  /\ Transition(b, "confirmed", {"pending"})
  /\ slots' = [slots EXCEPT ![bookings[b].slot] = BookedBy(b)]
  /\ UNCHANGED <<clock, assignments, keys, cancellation, declared, sessions, sweep>>

\* cancel reads the booking (`before`) without a lock.  A completed, expired or
\* no_show booking can no longer be cancelled: the request returns false.
CancelBegin(p, b, actor) ==
  /\ sessions[p].pc = "idle"
  /\ bookings[b].status \in Holding \cup {"cancelled"}
  /\ sessions' = [sessions EXCEPT ![p] =
       [Idle EXCEPT !.pc = "cancel", !.booking = b, !.actor = actor,
                    !.slot = bookings[b].slot]]
  /\ UNCHANGED <<clock, slots, bookings, assignments, keys, cancellation, declared, sweep>>

\* Later the compare-and-swap on the current status, the entitlement hook and
\* the release of slot and resource commit together; releaseSlot is given the
\* slot that was read before.
CancelWrite(p) ==
  LET q == sessions[p]
      b == q.booking
  IN
  /\ q.pc = "cancel"
  /\ Transition(b, "cancelled", Holding)
  /\ cancellation' = [cancellation EXCEPT ![b].by = q.actor]
  /\ slots' = Released(slots, q.slot, b)
  /\ assignments' = [assignments EXCEPT
       ![b].status = IF @ = "active" THEN "released" ELSE @]
  /\ EndSession(p)
  /\ UNCHANGED <<clock, keys, declared, sweep>>

CancelLost(p) ==
  /\ sessions[p].pc = "cancel"
  /\ bookings[sessions[p].booking].status \notin Holding
  /\ Abort(p)

Complete(b) ==
  /\ Transition(b, "completed", {"confirmed"})
  /\ UNCHANGED <<clock, slots, assignments, keys, cancellation, declared, sessions, sweep>>

\* Ungoverned: after the slot has ended.  Governed: once the grace period has
\* passed, under FOR UPDATE, with an immutable declaration row.
MarkNoShow(b) ==
  /\ Transition(b, "no_show", {"confirmed"})
  /\ IF b \in Governed
     THEN /\ clock >= StartAt[bookings[b].slot] + Grace
          /\ declared' = declared \cup {b}
     ELSE /\ clock >= EndAt[bookings[b].slot]
          /\ UNCHANGED declared
  /\ UNCHANGED <<clock, slots, assignments, keys, cancellation, sessions, sweep>>

---------------------------------------------------------------------------
(* reschedule.                                                             *)

SlotFits(b, s) ==
  /\ s # bookings[b].slot
  /\ slots[s].status # "absent"
  /\ ProfessionalOf[s] = ProfessionalOf[bookings[b].slot]
  /\ ServiceFits(bookings[b].service, s)

\* The environment guards of an ungoverned reschedule.
WithinLimits(b) ==
  /\ bookings[b].moves < MaxReschedules
  /\ StartAt[bookings[b].slot] - clock >= MinNotice

\* Mutant: the slot that is freed is the new one.
MoveFreesTarget(b, old, from, moves, s, actor, remedy) ==
  /\ Claimable(s)
  /\ bookings[b].status = from /\ bookings[b].moves = moves
  /\ SlotIndexAdmits(b, s)
  /\ \E row \in SyncedAssignments(b, bookings[b].service, s) :
       assignments' = [assignments EXCEPT ![b] = row]
  /\ bookings' = [bookings EXCEPT ![b].slot = s, ![b].moves = moves + 1]
  /\ slots' = Released(slots, s, b)

\* From claimSlot to commit, given the row the transaction read: status
\* `from` on slot `old` after `moves` reschedules.
MoveBooking(b, old, from, moves, s, actor, remedy) ==
  LET to == IF remedy /\ from = "cancelled" THEN "confirmed" ELSE from
      until == clock + HoldTime
      claimed == [slots EXCEPT ![s] =
                    IF to = "confirmed" THEN BookedBy(b) ELSE ClaimedBy(b, until)]
  IN
  /\ Claimable(s)
  /\ bookings[b].status = from /\ bookings[b].moves = moves   \* compare-and-swap
  /\ SlotIndexAdmits(b, s)
  /\ \E row \in SyncedAssignments(b, bookings[b].service, s) :
       assignments' = [assignments EXCEPT ![b] = row]
  /\ bookings' = [bookings EXCEPT
       ![b].slot = s, ![b].status = to, ![b].moves = moves + 1,
       ![b].hold = IF to = "pending" THEN until ELSE NoTime,
       ![b].customerMoves = IF actor = "customer" THEN @ + 1 ELSE @]
  /\ slots' = Released(claimed, old, b)

\* Mutant: the remedy is offered whoever cancelled.
RemedyOfferedToAll(b) ==
  /\ bookings[b].status = "cancelled"
  /\ ~cancellation[b].remedied
  /\ \A q \in Sessions : ~(sessions[q].remedy /\ sessions[q].booking = b)

\* CustomerRemedyResolutionService: the choice row exists for a collected
\* booking that the seller cancelled, is resolved once, and is locked by the
\* request that resolves it.
RemedyOffered(b) ==
  /\ bookings[b].status = "cancelled"
  /\ cancellation[b].by = "professional"
  /\ ~cancellation[b].remedied
  /\ \A q \in Sessions : ~(sessions[q].remedy /\ sessions[q].booking = b)

\* Ungoverned, or a professional's, or the customer's remedy after a
\* cancellation that was not the customer's: the booking is read unlocked.
RescheduleBegin(p, b, s, actor, remedy) ==
  /\ sessions[p].pc = "idle"
  /\ IF remedy
     THEN actor = "customer" /\ RemedyOffered(b)
     ELSE /\ actor = "professional" \/ b \notin Governed
          /\ Live(b)
          /\ WithinLimits(b)
  /\ SlotFits(b, s)
  /\ sessions' = [sessions EXCEPT ![p] =
       [Idle EXCEPT !.pc = "reschedule", !.booking = b, !.slot = bookings[b].slot,
                    !.newSlot = s, !.status = bookings[b].status,
                    !.moves = bookings[b].moves, !.actor = actor,
                    !.remedy = remedy]]
  /\ UNCHANGED <<clock, slots, bookings, assignments, keys, cancellation, declared, sweep>>

RescheduleCommit(p) ==
  LET q == sessions[p] IN
  /\ q.pc = "reschedule"
  /\ MoveBooking(q.booking, q.slot, q.status, q.moves, q.newSlot, q.actor, q.remedy)
  /\ cancellation' = [cancellation EXCEPT ![q.booking].remedied = @ \/ q.remedy]
  /\ EndSession(p)
  /\ UNCHANGED <<clock, keys, declared, sweep>>

RescheduleRefused(p) ==
  LET q == sessions[p]
      b == q.booking
  IN
  /\ q.pc = "reschedule"
  /\ \/ ~Claimable(q.newSlot)
     \/ bookings[b].status # q.status \/ bookings[b].moves # q.moves
     \/ ~SlotIndexAdmits(b, q.newSlot)
     \/ SyncedAssignments(b, bookings[b].service, q.newSlot) = {}
  /\ Abort(p)

\* A customer's reschedule under accepted terms locks order and booking first,
\* so the rows it judges are the rows it moves.  It is free while the customer
\* has free moves left and the cutoff is not past; otherwise the customer has
\* accepted a consequence of zero (a consequence that carries money is refused).
RescheduleGoverned(b, s, accepted) ==
  /\ b \in Governed
  /\ Live(b)
  /\ SlotFits(b, s)
  /\ \/ bookings[b].customerMoves < FreeMoves
        /\ clock <= StartAt[bookings[b].slot] - Cutoff
     \/ accepted
  /\ bookings[b].moves < MaxReschedules   \* bound of the model, not of the code
  /\ MoveBooking(b, bookings[b].slot, bookings[b].status, bookings[b].moves, s,
                 "customer", FALSE)
  /\ UNCHANGED <<clock, keys, cancellation, declared, sessions, sweep>>

---------------------------------------------------------------------------
(* expireStaleHolds.                                                       *)

Lapsed(b) == bookings[b].status = "pending" /\ bookings[b].hold < clock

SweepRead ==
  LET stale == {<<b, bookings[b].slot>> : b \in {x \in Bookings : Lapsed(x)}} IN
  /\ ~ stale \subseteq sweep
  /\ sweep' = sweep \cup stale
  /\ UNCHANGED <<clock, slots, bookings, assignments, keys, cancellation, declared, sessions>>

\* Mutants: the sweep trusts the row it read; the sweep frees the slot and
\* leaves the booking pending.
SweepTrusting(b, s) ==
  /\ <<b, s>> \in sweep
  /\ sweep' = sweep \ {<<b, s>>}
  /\ bookings' = [bookings EXCEPT ![b].status = "expired", ![b].hold = NoTime]
  /\ slots' = Released(slots, s, b)
  /\ UNCHANGED <<clock, assignments, keys, cancellation, declared, sessions>>

SweepForgetful(b, s) ==
  /\ <<b, s>> \in sweep
  /\ sweep' = sweep \ {<<b, s>>}
  /\ slots' = Released(slots, s, b)
  /\ UNCHANGED <<clock, bookings, assignments, keys, cancellation, declared, sessions>>

\* One transaction per row, from the slot id read earlier.
SweepExpire(b, s) ==
  /\ <<b, s>> \in sweep
  /\ sweep' = sweep \ {<<b, s>>}
  /\ IF bookings[b].status = "pending"
     THEN /\ Transition(b, "expired", {"pending"})
          /\ slots' = Released(slots, s, b)
     ELSE UNCHANGED <<bookings, slots>>
  /\ UNCHANGED <<clock, assignments, keys, cancellation, declared, sessions>>

Tick ==
  /\ clock < MaxClock
  /\ clock' = clock + 1
  /\ UNCHANGED <<slots, bookings, assignments, keys, cancellation, declared, sessions, sweep>>

---------------------------------------------------------------------------

Request(p) ==
  \/ \E c \in Customers, s \in Slots, svc \in Services \cup {None}, k \in Keys \cup {None} :
       CreateBegin(p, c, s, svc, k)
  \/ \E b \in Bookings, a \in Requesters : CancelBegin(p, b, a)
  \/ \E b \in Bookings, s \in Slots, a \in Requesters, r \in BOOLEAN :
       RescheduleBegin(p, b, s, a, r)

Proceed(p) ==
  \/ CreateCommit(p)
  \/ CreateRefused(p)
  \/ CancelWrite(p)
  \/ CancelLost(p)
  \/ RescheduleCommit(p)
  \/ RescheduleRefused(p)

SweepStep == \E b \in Bookings, s \in Slots : SweepExpire(b, s)

Next ==
  \/ \E s \in Slots : CreateSlot(s)
  \/ \E s \in Slots : DeleteSlot(s)
  \/ \E p \in Sessions : Request(p)
  \/ \E p \in Sessions : Proceed(p)
  \/ \E b \in Bookings : Confirm(b)
  \/ \E b \in Bookings : Complete(b)
  \/ \E b \in Bookings : MarkNoShow(b)
  \/ \E b \in Bookings, s \in Slots, a \in BOOLEAN : RescheduleGoverned(b, s, a)
  \/ SweepRead
  \/ SweepStep
  \/ Tick

Spec == Init /\ [][Next]_vars

\* Requests in flight finish, time passes and the sweep timer keeps firing;
\* no customer or professional is obliged to do anything.
Fairness ==
  /\ WF_vars(Tick)
  /\ WF_vars(SweepRead)
  /\ WF_vars(SweepStep)
  /\ \A p \in Sessions : WF_vars(Proceed(p))

FairSpec == Spec /\ Fairness

---------------------------------------------------------------------------
(* Properties.                                                             *)

\* A booking that occupies a slot is the one its slot row names: a confirmed
\* booking's slot is booked by it, a pending booking's slot is held by it
\* until its own hold expires.  claimSlot, releaseSlot's ownership guard,
\* confirm's blind UPDATE by slot id and the partial unique index together
\* keep the two tables in step.
OwnsItsSlot(b) ==
  /\ bookings[b].status = "confirmed" => slots[bookings[b].slot] = BookedBy(b)
  /\ bookings[b].status = "pending" =>
       slots[bookings[b].slot] = ClaimedBy(b, bookings[b].hold)
LiveBookingOwnsSlot == \A b \in Bookings : OwnsItsSlot(b)

\* What a transaction in flight still knows, and where live bookings are.
SessionsPlaced ==
  \A p \in Sessions :
    /\ sessions[p].pc = "create" => sessions[p].newSlot \in Slots
    /\ sessions[p].pc \in {"cancel", "reschedule"} =>
         sessions[p].booking \in Bookings /\ sessions[p].slot \in Slots
    /\ sessions[p].pc = "reschedule" =>
         /\ sessions[p].newSlot \in Slots \ {sessions[p].slot}
         /\ sessions[p].status \in Holding \cup {"cancelled"}
BookingsPlaced == \A b \in Bookings : bookings[b].status # "none" => bookings[b].slot \in Slots

\* The inductive invariant: releaseSlot is safe because nobody but its owner
\* can release a held slot, and a reschedule never gives up the slot it takes.
BookingInv == TypeOK /\ SessionsPlaced /\ BookingsPlaced /\ LiveBookingOwnsSlot

\* No slot is sold twice: two pending or confirmed bookings never share a slot
\* (the guarantee stated over create()).
NoDoubleBooking ==
  \A a, b \in Bookings :
    (Live(a) /\ Live(b) /\ bookings[a].slot = bookings[b].slot) => a = b

\* A resource never serves two overlapping appointments at once
\* (ex_booking_resource_no_overlap, across create, reschedule and remedy).
NoResourceClash ==
  \A a, b \in Bookings :
    ( /\ a # b
      /\ assignments[a].status = "active" /\ assignments[b].status = "active"
      /\ assignments[a].resource = assignments[b].resource )
    => ~Overlap(assignments[a].slot, assignments[b].slot)

\* A booking whose service needs a resource at its slot never goes live, or
\* moves, without one: the assignment follows the booking to its slot.
LiveBookingHasResource ==
  \A b \in Bookings :
    (Live(b) /\ NeedsResource(bookings[b].service, bookings[b].slot)) =>
      /\ assignments[b].status = "active"
      /\ assignments[b].slot = bookings[b].slot
      /\ <<bookings[b].service, bookings[b].slot, assignments[b].resource>> \in Eligible

\* Concurrent retries of one create request make one booking: no two bookings
\* of a customer carry the same idempotency key.
IdempotentCreate ==
  \A a, b \in Bookings :
    (a # b /\ bookings[a].key # None /\ bookings[a].customer = bookings[b].customer)
      => bookings[a].key # bookings[b].key

\* completed, expired and no_show are final, whatever sweep, cancellation or
\* reschedule was already under way when the booking got there.
FinalStatuses == {"completed", "expired", "no_show"}
FinalStaysFinal ==
  [][\A b \in Bookings :
       bookings[b].status \in FinalStatuses =>
         bookings'[b].status = bookings[b].status /\ bookings'[b].slot = bookings[b].slot]_vars

\* A customer is never left without a booking by a reschedule that loses a
\* race: a booking leaves its slot only for a slot it then owns.
MoveKeepsABooking ==
  [][\A b \in Bookings :
       (Live(b) /\ bookings'[b].slot # bookings[b].slot) =>
         /\ bookings'[b].status = bookings[b].status
         /\ slots'[bookings'[b].slot].heldBy = b]_vars

\* A cancelled booking comes back only as the remedy of a booking that the
\* seller cancelled, once, and onto a slot it then owns.
RevivedOnlyAsRemedy ==
  [][\A b \in Bookings :
       (bookings[b].status = "cancelled" /\ bookings'[b].status # "cancelled") =>
         /\ cancellation[b].by = "professional"
         /\ ~cancellation[b].remedied
         /\ slots'[bookings'[b].slot] = BookedBy(b)]_vars

\* The calendar as the abstract specification sees it: a slot belongs to the
\* pending or confirmed booking that references it.
OwnerOf(s) == IF LiveOn(s) = {} THEN None ELSE CHOOSE b \in LiveOn(s) : TRUE
Over == {b \in Bookings : bookings[b].status \in FinalStatuses}
Ownership == INSTANCE SlotOwnership WITH owner <- [s \in Slots |-> OwnerOf(s)], over <- Over

\* With requests, cancellations, reschedules and sweeps interleaved, every
\* transaction of the booking service is one step of the ownership ledger or
\* none: taken only when free, moved in one step, never taken back once over.
OwnershipRefined == Ownership!OwnershipSpec

\* An unpaid hold does not last: every pending booking is confirmed, cancelled
\* or expired by the sweep.
HoldsResolve ==
  \A b \in Bookings : (bookings[b].status = "pending") ~> (bookings[b].status # "pending")

---------------------------------------------------------------------------
(* What the comments and tests of the code say, refuted by the runs named  *)
(* after them.                                                             *)

\* "a customer is blocked only by an ACTIVE hold, never by how recently the
\* expiry sweep last ran": a slot the claim predicate accepts can be booked.
ClaimableIsBookable ==
  \A s \in Slots : Claimable(s) => LiveOn(s) = {}

\* "pending|confirmed -> cancelled, releasing the slot": a slot off the market
\* is off the market for a booking that is on it.
BookedSlotHasBooking ==
  \A s \in Slots : slots[s].status = "booked" =>
    /\ bookings[slots[s].heldBy].slot = s
    /\ bookings[slots[s].heldBy].status \in {"confirmed", "completed", "no_show"}

\* "active means currently occupying the resource": no expired or cancelled
\* booking keeps a resource.
ActiveAssignmentIsOccupied ==
  \A b \in Bookings : assignments[b].status = "active" =>
    bookings[b].status \notin {"expired", "cancelled"}
============================================================================
