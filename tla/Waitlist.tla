----------------------------- MODULE Waitlist -----------------------------
(***************************************************************************)
(* The waitlist of one professional: joining, the matcher that offers a     *)
(* reopened slot to the longest waiter, acceptance (one transaction that    *)
(* books the slot), decline, removal, erasure and the sweep of lapsed       *)
(* offers.                                                                  *)
(*                                                                         *)
(* The matcher is an outbox consumer.  An event it has not finished stays   *)
(* pending, and two relays may run it for two events at once.  Bookings are *)
(* represented by the slot they hold (module Booking has them in full).     *)
(*                                                                         *)
(* A decline reads its entry before it changes it, so its event may name no *)
(* slot.  TypeORM drops a null from a where clause: for such an event the   *)
(* matcher finds some slot of the table, of another professional perhaps,   *)
(* and takes any offer at all for one of this slot; "none" stands for it.   *)
(***************************************************************************)
EXTENDS Naturals, FiniteSets

CONSTANTS
  Entries,            \* the rows of waitlist.entries, one customer each
  WSlots,             \* slots of the professional
  Suits,              \* Suits[e]: the slots whose service e would take
  Matchers,           \* relays that may run the matcher
  MaxEntriesPerProfessional,
  MaxReopened         \* bound on undelivered events about one slot, or none

ASSUME WaitlistAssumption ==
  /\ Suits \in [Entries -> SUBSET WSlots]
  /\ IsFiniteSet(Entries) /\ {"open", "walkin"} \cap Entries = {} /\ {"no", "none"} \cap WSlots = {}
  /\ {MaxEntriesPerProfessional, MaxReopened} \subseteq Nat \ {0}

VARIABLES
  line,   \* waitlist.entries; status "none" before the row exists
  joined,    \* rows inserted so far: the order of created_at
  wslots,    \* the availability slot: open, or taken by "walkin" or an entry
  reopened,  \* undelivered events that name the slot, or "none"
  matching,  \* what each matcher is doing
  sweeping,  \* the stale offers the sweep has read and not yet visited
  accepting, \* how far the acceptance of each entry has come
  declining, \* the slot of each entry as its decline has read it
  due,       \* observer: the entries waiting when the slot was announced open
  excused    \* observer: slots released without an event that names them, or
             \* that met a race the code loses (see NoWaiterForgotten)

waitlistVars ==
  <<line, joined, wslots, reopened, matching, sweeping, accepting, declining, due, excused>>

Named == WSlots \union {"none"}
WaitlistStatuses ==
  {"none", "joining", "waiting", "offered", "accepted", "declined", "expired", "missed", "removed"}
WaitlistEntry == [status : WaitlistStatuses, position : Nat, slot : Named,
                  lapsed : BOOLEAN, booked : BOOLEAN]
IdleMatcher == [step |-> "idle", slot |-> "none", rows |-> {}]

WaitlistTypeOK ==
  /\ line \in [Entries -> WaitlistEntry] /\ joined \in 0 .. Cardinality(Entries)
  /\ wslots \in [WSlots -> Entries \union {"open", "walkin"}]
  /\ reopened \in [Named -> 0 .. MaxReopened]
  /\ matching \in [Matchers -> [step : {"idle", "read", "picked"}, slot : Named, rows : SUBSET Entries]]
  /\ sweeping \subseteq Entries
  /\ accepting \in [Entries -> {"no", "read", "missing"}]
  /\ declining \in [Entries -> Named \union {"no"}]
  /\ due \in [WSlots -> SUBSET Entries] /\ excused \subseteq WSlots

WaitlistInit ==
  /\ line = [e \in Entries |-> [status |-> "none", position |-> 0, slot |-> "none",
                                   lapsed |-> FALSE, booked |-> FALSE]]
  /\ joined = 0
  /\ wslots = [s \in WSlots |-> "walkin"]
  /\ reopened = [s \in Named |-> 0]
  /\ matching = [m \in Matchers |-> IdleMatcher]
  /\ sweeping = {}
  /\ accepting = [e \in Entries |-> "no"] /\ declining = [e \in Entries |-> "no"]
  /\ due = [s \in WSlots |-> {}] /\ excused = {}

InStatus(st) == {e \in Entries : line[e].status = st}
\* lapsed is now() against offer_expires_at: it is read of an offer only.
Moved(e, st) ==
  [line EXCEPT ![e] = [status |-> st, position |-> @.position, slot |-> @.slot,
                       lapsed |-> FALSE, booked |-> @.booked]]
OfferedFor(s) == {e \in InStatus("offered") : s = "none" \/ line[e].slot = s}

\* Mutant: the decline and the expiry announce nothing.
RematchNever(s) == reopened
\* WaitlistDeclined and WaitlistExpired, in the transaction of the change.
Rematch(s) == [reopened EXCEPT ![s] = @ + 1]
CanAnnounce(s) == reopened[s] < MaxReopened

---------------------------------------------------------------------------
(* Customers.                                                              *)

\* join: the count of waiting entries, outside the transaction.
JoinCount(e) ==
  /\ line[e].status = "none"
  /\ Cardinality(InStatus("waiting")) < MaxEntriesPerProfessional
  /\ line' = Moved(e, "joining")
  /\ UNCHANGED <<joined, wslots, reopened, matching, sweeping, accepting, declining, due, excused>>

JoinInsert(e) ==
  /\ line[e].status = "joining"
  /\ line' = [line EXCEPT ![e] = [status |-> "waiting", position |-> joined + 1, slot |-> @.slot,
                                  lapsed |-> @.lapsed, booked |-> @.booked]]
  /\ joined' = joined + 1
  /\ UNCHANGED <<wslots, reopened, matching, sweeping, accepting, declining, due, excused>>

\* The rows a matcher's open transaction has locked (FOR UPDATE).
LockedRows == UNION {matching[m].rows : m \in Matchers}

\* remove waits for a row lock, so it never sees a row a matcher has picked.
Remove(e) ==
  /\ line[e].status = "waiting" /\ e \notin LockedRows
  /\ line' = Moved(e, "removed")
  /\ UNCHANGED <<joined, wslots, reopened, matching, sweeping, accepting, declining, due, excused>>

\* decline: the unlocked read.  An entry past its offer never comes back to one.
DeclineReads(e) ==
  /\ declining[e] = "no" /\ line[e].status \in {"waiting", "offered"}
  /\ declining' = [declining EXCEPT ![e] = line[e].slot]
  /\ UNCHANGED <<line, joined, wslots, reopened, matching, sweeping, accepting, due, excused>>

\* ... and the compare-and-swap, whose event names the slot that was read.
DeclineWrites(e) ==
  LET read == declining[e] IN
  /\ read # "no"
  /\ declining' = [declining EXCEPT ![e] = "no"]
  /\ \/ /\ line[e].status = "offered" /\ CanAnnounce(read)
        /\ line' = Moved(e, "declined")
        /\ reopened' = Rematch(read)
        /\ excused' = excused \union ({line[e].slot} \ {read, "none"})
     \/ line[e].status # "offered" /\ UNCHANGED <<line, reopened, excused>>
  /\ UNCHANGED <<joined, wslots, matching, sweeping, accepting, due>>

\* eraseSubjectData: an open entry of an erased account is closed, with no event.
EraseEntry(e) ==
  /\ line[e].status \in {"waiting", "offered"} /\ e \notin LockedRows
  /\ line' = Moved(e, "removed")
  /\ excused' = IF line[e].status = "offered" THEN excused \union ({line[e].slot} \ {"none"}) ELSE excused
  /\ UNCHANGED <<joined, wslots, reopened, matching, sweeping, accepting, declining, due>>

---------------------------------------------------------------------------
(* The slot, as the booking service moves it.                              *)

\* A booking outside the waitlist takes the open slot.
WalkIn(s) ==
  /\ wslots[s] = "open"
  /\ wslots' = [wslots EXCEPT ![s] = "walkin"]
  /\ due' = [due EXCEPT ![s] = {}] /\ excused' = excused \ {s}
  /\ UNCHANGED <<line, joined, reopened, matching, sweeping, accepting, declining>>

\* A walk-in's BookingCancelled or BookingExpired: slot and event in one transaction.
SlotReopened(s) ==
  /\ wslots[s] = "walkin" /\ CanAnnounce(s)
  /\ wslots' = [wslots EXCEPT ![s] = "open"]
  /\ reopened' = [reopened EXCEPT ![s] = @ + 1]
  /\ due' = [due EXCEPT ![s] = {e \in InStatus("waiting") : s \in Suits[e]}]
  /\ UNCHANGED <<line, joined, matching, sweeping, accepting, declining, excused>>

\* A reschedule frees the old slot; the matcher is not registered for its event.
SlotFreedByReschedule(s) ==
  /\ wslots[s] = "walkin"
  /\ wslots' = [wslots EXCEPT ![s] = "open"]
  /\ excused' = excused \union {s}
  /\ UNCHANGED <<line, joined, reopened, matching, sweeping, accepting, declining, due>>

---------------------------------------------------------------------------
(* WaitlistMatcherHandler.                                                 *)

\* handle: an event of the slot is taken; nothing to do unless the slot is open
\* and, in the transaction that follows, not yet on offer.
MatcherRead(m, s) ==
  /\ matching[m] = IdleMatcher /\ reopened[s] > 0
  /\ reopened' = [reopened EXCEPT ![s] = @ - 1]
  /\ \/ /\ s \in WSlots => wslots[s] = "open"
        /\ matching' = [matching EXCEPT ![m] = [step |-> "read", slot |-> s, rows |-> {}]]
     \/ /\ s \in WSlots => wslots[s] # "open"
        /\ UNCHANGED matching
  /\ UNCHANGED <<line, joined, wslots, sweeping, accepting, declining, due, excused>>

\* The handler dies: the event is still unpublished.
MatcherDies(m) ==
  /\ matching[m] # IdleMatcher /\ CanAnnounce(matching[m].slot)
  /\ reopened' = [reopened EXCEPT ![matching[m].slot] = @ + 1]
  /\ matching' = [matching EXCEPT ![m] = IdleMatcher]
  /\ UNCHANGED <<line, joined, wslots, sweeping, accepting, declining, due, excused>>

\* Which entries the slot found for an event without a slot suits is open.
Suitable(s) == {e \in InStatus("waiting") : s = "none" \/ s \in Suits[e]}
\* ORDER BY created_at ASC LIMIT 1 FOR UPDATE SKIP LOCKED.
Candidates(s) ==
  {e \in Suitable(s) \ LockedRows :
     \A f \in Suitable(s) \ LockedRows : s = "none" \/ line[e].position <= line[f].position}

\* offerNextFor: the slot already on offer, or nobody to offer it to.
MatcherGivesUp(m) ==
  LET s == matching[m].slot IN
  /\ matching[m].step = "read"
  /\ \/ (s = "none" \/ OfferedFor(s) # {}) /\ UNCHANGED excused
     \/ s # "none" /\ OfferedFor(s) = {} /\ Candidates(s) = {}
        /\ excused' = IF Suitable(s) = {} THEN excused ELSE excused \union {s}
  /\ matching' = [matching EXCEPT ![m] = IdleMatcher]
  /\ UNCHANGED <<line, joined, wslots, reopened, sweeping, accepting, declining, due>>

MatcherPicks(m) ==
  LET s == matching[m].slot IN
  /\ matching[m].step = "read" /\ OfferedFor(s) = {}
  /\ \E e \in Candidates(s) :
       matching' = [matching EXCEPT ![m] = [step |-> "picked", slot |-> s, rows |-> {e}]]
  /\ UNCHANGED <<line, joined, wslots, reopened, sweeping, accepting, declining, due, excused>>

\* uq_waitlist_active_offer_slot, which compares no null.
NotOnOffer(s) == s = "none" \/ OfferedFor(s) = {}

\* The UPDATE to offered; a unique violation rolls back and yields null.
MatcherOffers(m) ==
  LET s == matching[m].slot IN
  /\ matching[m].step = "picked"
  /\ line' = IF NotOnOffer(s)
                THEN [e \in Entries |->
                        IF e \in matching[m].rows
                        THEN [status |-> "offered", position |-> line[e].position, slot |-> s,
                              lapsed |-> line[e].lapsed, booked |-> line[e].booked]
                        ELSE line[e]]
                ELSE line
  /\ matching' = [matching EXCEPT ![m] = IdleMatcher]
  /\ UNCHANGED <<joined, wslots, reopened, sweeping, accepting, declining, due, excused>>

---------------------------------------------------------------------------
(* The offer: it lapses, is swept, or is accepted.                         *)

OfferLapses(e) ==
  /\ line[e].status = "offered" /\ ~line[e].lapsed
  /\ line' = [line EXCEPT ![e].lapsed = TRUE]
  /\ UNCHANGED <<joined, wslots, reopened, matching, sweeping, accepting, declining, due, excused>>

\* expireStaleOffers: the list, read outside any transaction ...
SweepReads ==
  /\ sweeping = {}
  /\ sweeping' = {e \in InStatus("offered") : line[e].lapsed}
  /\ sweeping' # {}
  /\ UNCHANGED <<line, joined, wslots, reopened, matching, accepting, declining, due, excused>>

\* UPDATE ... WHERE id = :id AND status = 'offered'.
SweepWins(e) == line[e].status = "offered"

\* ... then one transaction per row.
SweepVisits(e) ==
  LET s == line[e].slot IN
  /\ e \in sweeping /\ CanAnnounce(s)
  /\ sweeping' = sweeping \ {e}
  /\ IF SweepWins(e)
     THEN line' = Moved(e, "expired") /\ reopened' = Rematch(s)
     ELSE UNCHANGED <<line, reopened>>
  /\ UNCHANGED <<joined, wslots, matching, accepting, declining, due, excused>>

\* claimOfferForAcceptance: the unlocked read.
AcceptReads(e) ==
  /\ accepting[e] = "no" /\ line[e].status = "offered" /\ ~line[e].lapsed /\ line[e].slot # "none"
  /\ accepting' = [accepting EXCEPT ![e] = "read"]
  /\ UNCHANGED <<line, joined, wslots, reopened, matching, sweeping, declining, due, excused>>

\* UPDATE ... SET accepted WHERE id = :id AND status = 'offered'.
ClaimWins(e) == line[e].status = "offered"

\* The rest of the transaction: claim, BookingService.create, recordResultingBooking.
AcceptCommits(e) ==
  LET s == line[e].slot IN
  /\ accepting[e] = "read"
  /\ \/ /\ ClaimWins(e) /\ wslots[s] = "open"
        /\ line' = [line EXCEPT ![e] = [status |-> "accepted", position |-> @.position, slot |-> s,
                                        lapsed |-> FALSE, booked |-> TRUE]]
        /\ wslots' = [wslots EXCEPT ![s] = e]
        /\ due' = [due EXCEPT ![s] = {}] /\ excused' = excused \ {s}
        /\ accepting' = [accepting EXCEPT ![e] = "no"]
     \/ /\ ClaimWins(e) /\ wslots[s] # "open"            \* SlotUnavailable: rolled back
        /\ accepting' = [accepting EXCEPT ![e] = "missing"]
        /\ UNCHANGED <<line, wslots, due, excused>>
     \/ /\ ~ClaimWins(e)                                 \* OfferNotAvailable
        /\ accepting' = [accepting EXCEPT ![e] = "no"]
        /\ UNCHANGED <<line, wslots, due, excused>>
  /\ UNCHANGED <<joined, reopened, matching, sweeping, declining>>

\* markMissed, after the rollback and in a statement of its own; no event.
MarkMissed(e) ==
  LET s == line[e].slot IN
  /\ accepting[e] = "missing"
  /\ accepting' = [accepting EXCEPT ![e] = "no"]
  /\ line' = IF line[e].status = "offered" THEN Moved(e, "missed") ELSE line
  /\ excused' = IF wslots[s] = "open" THEN excused \union {s} ELSE excused
  /\ UNCHANGED <<joined, wslots, reopened, matching, sweeping, declining, due>>

---------------------------------------------------------------------------
WaitlistNext ==
  \/ \E e \in Entries : \/ JoinCount(e) \/ JoinInsert(e) \/ Remove(e)
                        \/ DeclineReads(e) \/ DeclineWrites(e) \/ EraseEntry(e)
                        \/ OfferLapses(e) \/ SweepVisits(e)
                        \/ AcceptReads(e) \/ AcceptCommits(e) \/ MarkMissed(e)
  \/ \E s \in WSlots : WalkIn(s) \/ SlotReopened(s) \/ SlotFreedByReschedule(s)
  \/ \E m \in Matchers : \/ \E s \in Named : MatcherRead(m, s)
                         \/ MatcherDies(m) \/ MatcherGivesUp(m)
                         \/ MatcherPicks(m) \/ MatcherOffers(m)
  \/ SweepReads

WaitlistSpec == WaitlistInit /\ [][WaitlistNext]_waitlistVars

---------------------------------------------------------------------------
\* Two matchers, also for two events about one slot, never put the slot on
\* offer to two customers (the pre-check, the row lock and the unique index of
\* WaitlistService.offerNextFor).
OneOfferPerSlot ==
  \A e, f \in InStatus("offered") : line[e].slot = line[f].slot /\ line[e].slot # "none" => e = f

\* An entry is accepted exactly when it has its booking, and a slot the
\* waitlist booked is booked by an accepted entry: neither the sweep, a decline
\* nor markMissed, decided before the acceptance committed, takes it back.
BookedEntryStaysAccepted ==
  \A e \in Entries : /\ (line[e].status = "accepted") = line[e].booked
                     /\ \A s \in WSlots : wslots[s] = e => line[e].status = "accepted"

\* A customer who was waiting when a slot was announced open is not forgotten:
\* while the slot stays open, it is on offer to somebody, a matcher is at work
\* on it, or an event about it is still to be delivered.  Excused are the cases
\* the code does not cover: the slot was freed by a reschedule; the account with
\* the offer was erased, which emits nothing; the offer was declined by a request
\* that had read the entry before it was offered, whose event names no slot; the
\* acceptance of an offer found the slot taken and marked the entry missed only
\* after the slot was open again; every waiter was locked by a matcher that lost.
NoWaiterForgotten ==
  \A s \in WSlots \ excused :
    wslots[s] = "open" /\ (\E e \in due[s] : line[e].status = "waiting")
      => \/ OfferedFor(s) # {} \/ reopened[s] > 0
         \/ \E m \in Matchers : matching[m].slot = s

\* A freed slot is offered to one waiter at a time and passed on until it is taken
\* (offerNextFor, claimOfferForAcceptance, expireStaleOffers).
OffersFollowTheLine ==
  WaitlistTypeOK /\ OneOfferPerSlot /\ BookedEntryStaysAccepted /\ NoWaiterForgotten
=============================================================================
