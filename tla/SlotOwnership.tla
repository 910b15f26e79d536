--------------------------- MODULE SlotOwnership ---------------------------
(***************************************************************************)
(* What the booking service promises about the calendar, with no sessions,  *)
(* holds, sweeps or resources: a slot is owned by at most one booking, a    *)
(* booking owns at most one slot, a booking changes slots in one step, and  *)
(* a booking that is over for good never owns a slot again.                *)
(***************************************************************************)
CONSTANTS None, Slots, Bookings

VARIABLES
  owner,     \* [Slots -> Bookings \cup {None}]
  over       \* bookings that completed, expired or were no-shows

OwnershipInit ==
  /\ owner = [s \in Slots |-> None]
  /\ over = {}

Owns(b) == \E s \in Slots : owner[s] = b

\* A booking is created, or a cancelled one is revived as a remedy.
Take(b, s) ==
  /\ b \notin over /\ ~Owns(b)
  /\ owner[s] = None
  /\ owner' = [owner EXCEPT ![s] = b]
  /\ UNCHANGED over

\* Rescheduled: never without a slot in between, never on two.
Move(b, s, t) ==
  /\ owner[s] = b /\ owner[t] = None
  /\ owner' = [owner EXCEPT ![s] = None, ![t] = b]
  /\ UNCHANGED over

\* Cancelled.
GiveUp(b, s) ==
  /\ owner[s] = b
  /\ owner' = [owner EXCEPT ![s] = None]
  /\ UNCHANGED over

\* Completed, expired, or no-show.
Finish(b, s) ==
  /\ owner[s] = b
  /\ owner' = [owner EXCEPT ![s] = None]
  /\ over' = over \cup {b}

OwnershipNext ==
  \E b \in Bookings, s \in Slots :
    \/ Take(b, s)
    \/ GiveUp(b, s)
    \/ Finish(b, s)
    \/ \E t \in Slots : Move(b, s, t)

OwnershipSpec == OwnershipInit /\ [][OwnershipNext]_<<owner, over>>
============================================================================
