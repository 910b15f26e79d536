------------------------------ MODULE Business ------------------------------
(***************************************************************************)
(* The business workspace: where one professional works, the branches and   *)
(* their resources, the kind a service needs, and where the booking domain  *)
(* meets them: the branch frozen onto a new slot,                           *)
(* and the assignment of a resource to a booking, which races the owner's   *)
(* retirement of that resource and closure of its branch.  The slots of the *)
(* instance overlap in time, so a resource serves one booking at once.      *)
(***************************************************************************)
EXTENDS Integers, FiniteSets

CONSTANTS
  Businesses,        \* each with one live owner
  Branches,          \* business.locations
  BusinessOf,        \* Branch -> business
  Units,             \* business.location_resources; the numbers order the ids
  BranchOf,          \* Unit -> branch
  KindOf,            \* Unit -> kind
  Openings,          \* the professional's slots
  Allotments,        \* bookings of those slots that assign a resource
  MaxRebooked        \* bound on the reschedules of a booking

Kinds == {KindOf[u] : u \in Units}
Nowhere == "nowhere"   \* a NULL delivery location
NoUnit == 0
NoKind == "none"

ASSUME BusinessAssumption ==
  /\ BusinessOf \in [Branches -> Businesses] /\ BranchOf \in [Units -> Branches]
  /\ Units \subseteq Nat \ {NoUnit} /\ NoKind \notin Kinds /\ Nowhere \notin Branches
  /\ IsFiniteSet(Units) /\ MaxRebooked \in Nat

VARIABLES
  member,       \* businesses where the professional's membership is active
  binding,      \* business_staff.location_id
  branch,       \* lifecycle of each branch
  unit,         \* lifecycle of each resource
  need,         \* business.service_resource_requirements of the one service
  opening,      \* availability slots: the branch frozen on each
  owner,        \* the owner's open retirement or closure, under the business row lock
  allot,        \* the open assignment of each booking
  seat          \* booking.booking_resource_assignments, one row per booking

placeVars == <<member, binding>>
premisesVars == <<branch, unit, need>>
assigningVars == <<opening, owner, allot, seat>>
businessVars == <<placeVars, premisesVars, assigningVars>>

NoChange == [doing |-> "none", on |-> Nowhere, units |-> {}, held |-> {}]
NotAllotting == [stage |-> "idle", at |-> Nowhere, left |-> {}, held |-> {}, pick |-> NoUnit]
NoSeat == [status |-> "none", unit |-> NoUnit, ended |-> FALSE, moves |-> 0]

BusinessTypeOK ==
  /\ member \in [Businesses -> BOOLEAN]
  /\ binding \in [Businesses -> Branches \union {Nowhere}]
  /\ branch \in [Branches -> {"absent", "active", "suspended", "closed"}]
  /\ unit \in [Units -> {"absent", "active", "retired"}]
  /\ need \in [Businesses -> Kinds \union {NoKind}]
  /\ opening \in [Openings -> Branches \union {Nowhere, "unmade"}]
  /\ owner \in [Businesses -> [doing : {"none", "retire", "close"}, on : Branches \union {Nowhere},
                               units : SUBSET Units, held : SUBSET Units]]
  /\ allot \in [Allotments -> [stage : {"idle", "choosing", "writing"}, at : Branches \union {Nowhere},
                               left : SUBSET Units, held : SUBSET Units, pick : Units \union {NoUnit}]]
  /\ seat \in [Allotments -> [status : {"none", "active", "released"}, unit : Units \union {NoUnit},
                              ended : BOOLEAN, moves : 0 .. MaxRebooked + 1]]

BusinessInit ==
  /\ member = [b \in Businesses |-> FALSE] /\ binding = [b \in Businesses |-> Nowhere]
  /\ branch = [l \in Branches |-> "absent"] /\ unit = [u \in Units |-> "absent"]
  /\ need = [b \in Businesses |-> NoKind] /\ opening = [o \in Openings |-> "unmade"]
  /\ owner = [b \in Businesses |-> NoChange] /\ allot = [k \in Allotments |-> NotAllotting]
  /\ seat = [k \in Allotments |-> NoSeat]

-----------------------------------------------------------------------------
(* Where the professional works. *)

\* assertLiveOwnedBusiness: the business row FOR NO KEY UPDATE.
BusinessRowFree(b) == owner[b].doing = "none"

\* accept: one active affiliation at a time (module Staff).
Join(b) ==
  /\ \A c \in Businesses : ~member[c]
  /\ member' = [member EXCEPT ![b] = TRUE]
  /\ UNCHANGED <<binding, premisesVars, assigningVars>>

\* deactivate, without the business row; the branch stays on the row.
Leave(b) ==
  /\ member[b]
  /\ member' = [member EXCEPT ![b] = FALSE]
  /\ UNCHANGED <<binding, premisesVars, assigningVars>>

\* StaffLocationService.set: an active branch of the business, or none; the
\* membership may have any status.
BindBranch(b, l) ==
  /\ BusinessRowFree(b) /\ binding[b] # l
  /\ l # Nowhere => (BusinessOf[l] = b /\ branch[l] = "active")
  /\ binding' = [binding EXCEPT ![b] = l]
  /\ UNCHANGED <<member, premisesVars, assigningVars>>

-----------------------------------------------------------------------------
(* Branches, resources, requirements. *)

OpenBranch(l) ==
  /\ BusinessRowFree(BusinessOf[l]) /\ branch[l] = "absent"
  /\ branch' = [branch EXCEPT ![l] = "active"]
  /\ UNCHANGED <<placeVars, unit, need, assigningVars>>

Suspend(l) ==
  /\ BusinessRowFree(BusinessOf[l]) /\ branch[l] = "active"
  /\ branch' = [branch EXCEPT ![l] = "suspended"]
  /\ UNCHANGED <<placeVars, unit, need, assigningVars>>

Reactivate(l) ==
  /\ BusinessRowFree(BusinessOf[l]) /\ branch[l] = "suspended"
  /\ branch' = [branch EXCEPT ![l] = "active"]
  /\ UNCHANGED <<placeVars, unit, need, assigningVars>>

AddUnit(u) ==
  /\ BusinessRowFree(BusinessOf[BranchOf[u]]) /\ branch[BranchOf[u]] \in {"active", "suspended"}
  /\ unit[u] = "absent"
  /\ unit' = [unit EXCEPT ![u] = "active"]
  /\ UNCHANGED <<placeVars, branch, need, assigningVars>>

\* ServiceResourceRequirementService.set: the service belongs to the business
\* while its professional is an active member.
RequireKind(b, kind) ==
  /\ BusinessRowFree(b) /\ member[b] /\ need[b] # kind
  /\ need' = [need EXCEPT ![b] = kind]
  /\ UNCHANGED <<placeVars, branch, unit, assigningVars>>

-----------------------------------------------------------------------------
(* Retirement and closure: hasFutureAssignment locks the resources first. *)

UnitsHeld == (UNION {owner[b].held : b \in Businesses}) \union (UNION {allot[k].held : k \in Allotments})

\* Both sides lock in the order of the ids.
LowestFirst(set) == {u \in set : \A v \in set : u <= v}

\* retire: refused for a retired resource or at a closed branch.
RetireBegin(u) ==
  LET l == BranchOf[u] b == BusinessOf[l] IN
  /\ BusinessRowFree(b) /\ branch[l] \in {"active", "suspended"} /\ unit[u] = "active"
  /\ owner' = [owner EXCEPT ![b] = [doing |-> "retire", on |-> l, units |-> {u}, held |-> {}]]
  /\ UNCHANGED <<placeVars, premisesVars, opening, allot, seat>>

\* transition to closed: the branch's active resources are read.
CloseBegin(l) ==
  LET b == BusinessOf[l] IN
  /\ BusinessRowFree(b) /\ branch[l] \in {"active", "suspended"}
  /\ owner' = [owner EXCEPT ![b] =
       [doing |-> "close", on |-> l, units |-> {u \in Units : BranchOf[u] = l /\ unit[u] = "active"}, held |-> {}]]
  /\ UNCHANGED <<placeVars, premisesVars, opening, allot, seat>>

OwnerLocks(b) ==
  /\ \E u \in LowestFirst(owner[b].units \ owner[b].held) :
       /\ u \notin UnitsHeld
       /\ owner' = [owner EXCEPT ![b].held = @ \union {u}]
  /\ UNCHANGED <<placeVars, premisesVars, opening, allot, seat>>

\* An active row whose interval has not ended.
FutureSeat(k) == seat[k].status = "active" /\ ~seat[k].ended
HasFutureAssignment(units) == \E k \in Allotments : FutureSeat(k) /\ seat[k].unit \in units

\* The check under the locks, the update, the commit (or the refusal).
OwnerDecides(b) ==
  LET o == owner[b] refused == HasFutureAssignment(o.units) IN
  /\ o.doing # "none" /\ o.held = o.units
  /\ unit' = IF o.doing = "retire" /\ ~refused
             THEN [u \in Units |-> IF u \in o.units THEN "retired" ELSE unit[u]] ELSE unit
  /\ branch' = IF o.doing = "close" /\ ~refused THEN [branch EXCEPT ![o.on] = "closed"] ELSE branch
  /\ owner' = [owner EXCEPT ![b] = NoChange]
  /\ UNCHANGED <<placeVars, need, opening, allot, seat>>

-----------------------------------------------------------------------------
(* Slots and assignments. *)

\* deliveryLocationFor: the active branch of the active membership, if one.
DeliveryLocation ==
  LET at == {binding[b] : b \in {c \in Businesses :
               member[c] /\ binding[c] # Nowhere /\ branch[binding[c]] = "active"}}
  IN IF Cardinality(at) = 1 THEN CHOOSE l \in at : TRUE ELSE Nowhere

\* createSlot, generateSlots: the branch is frozen onto the slot.
MakeOpening(o) ==
  /\ opening[o] = "unmade"
  /\ opening' = [opening EXCEPT ![o] = DeliveryLocation]
  /\ UNCHANGED <<placeVars, premisesVars, owner, allot, seat>>

\* eligibleResourcesFor: the lifecycle of the branch is not asked.
NothingNeeded(l) == l # Nowhere => need[BusinessOf[l]] = NoKind
EligibleUnits(l) ==
  {u \in Units : BranchOf[u] = l /\ unit[u] = "active" /\ KindOf[u] = need[BusinessOf[l]]}

\* syncResourceAssignment for a new booking or a reschedule: the first read of
\* the candidates. Nothing needed releases the row there is; none refuses.
AllotBegin(k, o) ==
  LET l == opening[o] IN
  /\ l # "unmade" /\ allot[k].stage = "idle" /\ ~seat[k].ended /\ seat[k].moves <= MaxRebooked
  /\ \/ /\ NothingNeeded(l)
        /\ seat' = [seat EXCEPT ![k] = [status |-> IF @.status = "active" THEN "released" ELSE @.status,
                                        unit |-> @.unit, ended |-> @.ended, moves |-> @.moves + 1]]
        /\ UNCHANGED allot
     \/ /\ ~NothingNeeded(l) /\ EligibleUnits(l) # {}
        /\ allot' = [allot EXCEPT ![k] = [stage |-> "choosing", at |-> l, left |-> EligibleUnits(l), held |-> {}, pick |-> NoUnit]]
        /\ seat' = [seat EXCEPT ![k].moves = @ + 1]
  /\ UNCHANGED <<placeVars, premisesVars, opening, owner>>

\* Mutant: the candidates read before the lock are trusted.
EligibleAsRead(k, u) == TRUE
\* The second read of the candidates, under the lock.
StillEligible(k, u) == ~NothingNeeded(allot[k].at) /\ u \in EligibleUnits(allot[k].at)

\* ex_booking_resource_no_overlap.
UnitFree(k, u) == \A j \in Allotments \ {k} : ~(FutureSeat(j) /\ seat[j].unit = u)

\* One turn of the candidate loop: lock, read again, write behind a savepoint.
AllotTries(k) ==
  /\ allot[k].stage = "choosing"
  /\ \E u \in LowestFirst(allot[k].left) :
       /\ u \notin UnitsHeld
       /\ LET wins == StillEligible(k, u) /\ UnitFree(k, u) IN
          allot' = [allot EXCEPT ![k] =
            [stage |-> IF wins THEN "writing" ELSE "choosing", at |-> @.at,
             left |-> @.left \ {u}, held |-> @.held \union {u}, pick |-> IF wins THEN u ELSE NoUnit]]
  /\ UNCHANGED <<placeVars, premisesVars, opening, owner, seat>>

\* SlotUnavailableException: no candidate is left, everything rolls back.
AllotRefused(k) ==
  /\ allot[k].stage = "choosing" /\ allot[k].left = {}
  /\ allot' = [allot EXCEPT ![k] = NotAllotting]
  /\ UNCHANGED <<placeVars, premisesVars, opening, owner, seat>>

AllotCommits(k) ==
  /\ allot[k].stage = "writing"
  /\ seat' = [seat EXCEPT ![k] = [status |-> "active", unit |-> allot[k].pick,
                                  ended |-> @.ended, moves |-> @.moves]]
  /\ allot' = [allot EXCEPT ![k] = NotAllotting]
  /\ UNCHANGED <<placeVars, premisesVars, opening, owner>>

\* releaseResourceAssignment, on cancellation.
ReleaseSeat(k) ==
  /\ allot[k].stage = "idle" /\ seat[k].status = "active"
  /\ seat' = [seat EXCEPT ![k].status = "released"]
  /\ UNCHANGED <<placeVars, premisesVars, opening, owner, allot>>

\* end_at passes.
SeatEnds(k) ==
  /\ allot[k].stage = "idle" /\ FutureSeat(k)
  /\ seat' = [seat EXCEPT ![k].ended = TRUE]
  /\ UNCHANGED <<placeVars, premisesVars, opening, owner, allot>>

BusinessNext ==
  \/ \E b \in Businesses :
       \/ Join(b) \/ Leave(b) \/ OwnerLocks(b) \/ OwnerDecides(b)
       \/ \E l \in Branches \union {Nowhere} : BindBranch(b, l)
       \/ \E kind \in Kinds \union {NoKind} : RequireKind(b, kind)
  \/ \E l \in Branches : OpenBranch(l) \/ Suspend(l) \/ Reactivate(l) \/ CloseBegin(l)
  \/ \E u \in Units : AddUnit(u) \/ RetireBegin(u)
  \/ \E o \in Openings : MakeOpening(o)
  \/ \E k \in Allotments :
       \/ \E o \in Openings : AllotBegin(k, o)
       \/ AllotTries(k) \/ AllotRefused(k) \/ AllotCommits(k) \/ ReleaseSeat(k) \/ SeatEnds(k)

BusinessSpec == BusinessInit /\ [][BusinessNext]_businessVars

-----------------------------------------------------------------------------
\* A retired resource has no appointment to come: an assignment that began
\* before the retirement commits before its check or reads it under the lock.
RetiredIsIdle == \A u \in Units : unit[u] = "retired" => ~HasFutureAssignment({u})

\* The transaction waits for a resource that somebody else holds.
AllotWaits(k) == allot[k].stage = "choosing" /\ allot[k].left # {} /\ LowestFirst(allot[k].left) \subseteq UnitsHeld
OwnerWaits(b) == LowestFirst(owner[b].units \ owner[b].held) # {} /\ LowestFirst(owner[b].units \ owner[b].held) \subseteq UnitsHeld

\* Among the transactions that hold resources, one can always go on: closures
\* and assignments that lock several resources never wait for each other.
NoCircularWait ==
  UnitsHeld # {} =>
    \/ \E k \in Allotments : allot[k].held # {} /\ ~AllotWaits(k)
    \/ \E b \in Businesses : owner[b].held # {} /\ ~OwnerWaits(b)
=============================================================================
