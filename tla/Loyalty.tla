------------------------------ MODULE Loyalty ------------------------------
(***************************************************************************)
(* services/loyalty: the append-only points ledger, the tier read off it,   *)
(* and the membership that follows the tier; driven by the handlers of      *)
(* apps/api/src/events/loyalty-journey.handlers.ts.                        *)
(*                                                                         *)
(* An award is one READ COMMITTED transaction: it sees no entry another     *)
(* uncommitted award has written.  The handlers of bookings, orders and     *)
(* reviews bring the membership in line in a second transaction, after the  *)
(* first has committed.  ReferralLoyaltyAdapter awards inside the           *)
(* qualification's transaction and brings no membership in line.            *)
(***************************************************************************)
EXTENDS Integers, Sequences, FiniteSets, FiniteSetsExt, Functions

CONSTANTS
  Deeds,            \* what points are awarded for: (reference, reason) pairs
  ReferralDeeds,    \* the referral rewards: a reversal exists for these only
  DeedPoints,       \* [Deeds -> Nat], base points; 0 switches the award off
  TierThreshold,    \* <<threshold of tier 1, ...>>, ascending
  TierBonus,        \* multiplier of each tier, in percent
  GiftPlan,         \* a plan that belongs to no tier
  GiftBonus,        \* its multiplier, in percent
  GiftDays,         \* its billing period; tier plans have none
  FreePlans,        \* plans a member may activate without paying
  PointRelays, MaxPointCrashes, MaxDay

TierLevels == 0 .. Len(TierThreshold)      \* 0: below every threshold
TierPlans == 1 .. Len(TierThreshold)
NoExpiry == MaxDay + GiftDays + 1

ASSUME LoyaltyAssumption ==
  /\ ReferralDeeds \subseteq Deeds /\ DeedPoints \in [Deeds -> Nat]
  /\ TierThreshold \in Seq(Nat \ {0}) /\ TierBonus \in [TierPlans -> Nat]
  /\ \A i \in TierPlans : i > 1 => TierThreshold[i - 1] < TierThreshold[i]
  /\ GiftPlan \notin TierPlans /\ GiftBonus \in Nat /\ GiftDays \in Nat
  /\ FreePlans \subseteq TierPlans \cup {GiftPlan}
  /\ MaxPointCrashes \in Nat /\ MaxDay \in Nat

VARIABLES
  entries,      \* points_entries of one member, in commit order
  crossings,    \* tier_crossings, in commit order
  membership,   \* the member's one membership row
  deedEvents,   \* the outbox rows that announce the deeds
  pointCalls,   \* handler calls under way, one per relay
  dueRead,      \* expireDue: the row was read as due
  loyaltyDay, pointCrashes,
  overlapped    \* observer: two handler calls have been under way at once

loyaltyVars == <<entries, crossings, membership, deedEvents, pointCalls, dueRead,
                 loyaltyDay, pointCrashes, overlapped>>

Plans == TierPlans \cup {GiftPlan}
EntryRow == [deed : Deeds, points : Int, reversal : BOOLEAN]
PointCall == [pc : {"idle", "insert", "commit", "sync", "activate", "mark"},
              deed : Deeds \cup {"-"}, bonus : Nat, before : TierLevels, lifetime : Nat]

LoyaltyTypeOK ==
  /\ entries \in Seq(EntryRow)
  /\ crossings \in Seq(TierLevels)
  /\ membership \in [status : {"none", "active", "cancelled", "expired"},
                     plan : Plans, source : {"tier", "manual"}, expires : 0 .. NoExpiry]
  /\ deedEvents \in [Deeds -> {"none", "queued", "done"}]
  /\ pointCalls \in [PointRelays -> PointCall]
  /\ dueRead \in BOOLEAN /\ overlapped \in BOOLEAN
  /\ loyaltyDay \in 0 .. MaxDay /\ pointCrashes \in 0 .. MaxPointCrashes

NoPointCall == [pc |-> "idle", deed |-> "-", bonus |-> 0, before |-> 0, lifetime |-> 0]

LoyaltyInit ==
  /\ entries = <<>> /\ crossings = <<>>
  /\ membership = [status |-> "none", plan |-> GiftPlan, source |-> "manual", expires |-> 0]
  /\ deedEvents = [d \in Deeds |-> "none"]
  /\ pointCalls = [r \in PointRelays |-> NoPointCall]
  /\ dueRead = FALSE /\ overlapped = FALSE /\ loyaltyDay = 0 /\ pointCrashes = 0

---------------------------------------------------------------------------
(* Reading the ledger.                                                     *)

Points == [i \in DOMAIN entries |-> entries[i].points]
SumEntries(S) == SumFunctionOnSet(Points, S)
Balance == SumEntries(DOMAIN entries)

\* lifetimeEarned: only what was ever credited.
LifetimeEarned == SumEntries({i \in DOMAIN entries : entries[i].points > 0})

TierForPoints(points) == Cardinality({i \in TierPlans : points >= TierThreshold[i]})
CurrentTier == TierForPoints(LifetimeEarned)

\* pointsMultiplierBp: the best of the tier's and the active membership's.
Multiplier ==
  Max({100} \cup {TierBonus[i] : i \in {CurrentTier} \ {0}}
            \cup {IF membership.plan = GiftPlan THEN GiftBonus ELSE TierBonus[membership.plan] :
                    i \in {j \in {1} : membership.status = "active"}})
Multiplied(base, percent) == (base * percent + 50) \div 100

Entered(d, reversal) ==
  \E i \in DOMAIN entries : entries[i].deed = d /\ entries[i].reversal = reversal

---------------------------------------------------------------------------
(* Awarding.                                                               *)

Perform(d) ==
  /\ deedEvents[d] = "none"
  /\ deedEvents' = [deedEvents EXCEPT ![d] = "queued"]
  /\ UNCHANGED <<entries, crossings, membership, pointCalls, dueRead, loyaltyDay,
                 pointCrashes, overlapped>>

DoneWith(d) == [pc |-> "mark", deed |-> d, bonus |-> 0, before |-> 0, lifetime |-> 0]

\* The handler starts: multiplier and tier are read.  An award of no points
\* writes nothing, and is not followed by a sync.
BeginAward(r, d) ==
  /\ pointCalls[r].pc = "idle" /\ deedEvents[d] = "queued"
  /\ pointCalls' = [pointCalls EXCEPT ![r] =
       IF DeedPoints[d] = 0 THEN DoneWith(d)
       ELSE [pc |-> "insert", deed |-> d, bonus |-> Multiplier, before |-> CurrentTier, lifetime |-> 0]]
  /\ overlapped' = (overlapped \/ \E s \in PointRelays \ {r} : pointCalls[s].pc # "idle")
  /\ UNCHANGED <<entries, crossings, membership, deedEvents, dueRead, loyaltyDay, pointCrashes>>

CallPoints(q) == Multiplied(DeedPoints[q.deed], q.bonus)

\* insertOnce on UNIQUE(reference_type, reference_id, reason).
Won(d) == ~Entered(d, FALSE)

\* The insert waits for another transaction that holds the same key, then
\* finds it taken; the sum read next sees committed entries and its own.
InsertEntry(r) ==
  LET q == pointCalls[r] IN
  /\ q.pc = "insert"
  /\ \A s \in PointRelays \ {r} : ~(pointCalls[s].pc = "commit" /\ pointCalls[s].deed = q.deed)
  /\ pointCalls' = [pointCalls EXCEPT ![r] =
       IF Won(q.deed) THEN [pc |-> "commit", deed |-> q.deed, bonus |-> q.bonus, before |-> q.before,
                            lifetime |-> LifetimeEarned + CallPoints(q)]
       ELSE DoneWith(q.deed)]
  /\ UNCHANGED <<entries, crossings, membership, deedEvents, dueRead, loyaltyDay,
                 pointCrashes, overlapped>>

\* recordTierCrossingIfChanged.
Crossed(q) == TierForPoints(q.lifetime) # q.before

\* A booking, an order or a review goes on to the sync; a referral reward ends here.
CommitAward(r) ==
  LET q == pointCalls[r] IN
  /\ q.pc = "commit"
  /\ entries' = Append(entries, [deed |-> q.deed, points |-> CallPoints(q), reversal |-> FALSE])
  /\ crossings' = IF Crossed(q) THEN Append(crossings, TierForPoints(q.lifetime)) ELSE crossings
  /\ pointCalls' = [pointCalls EXCEPT ![r] =
       IF q.deed \in ReferralDeeds THEN DoneWith(q.deed)
       ELSE [pc |-> "sync", deed |-> q.deed, bonus |-> 0, before |-> 0, lifetime |-> q.lifetime]]
  /\ UNCHANGED <<membership, deedEvents, dueRead, loyaltyDay, pointCrashes, overlapped>>

\* A membership the member holds for another reason is left alone.
SyncSkips(plan) ==
  membership.status = "active" /\ (membership.plan = plan \/ membership.source # "tier")

\* syncFromTier, with the lifetime the award returned.
SyncFromTier(r) ==
  LET q == pointCalls[r]
      plan == TierForPoints(q.lifetime)
  IN
  /\ q.pc = "sync"
  /\ pointCalls' = [pointCalls EXCEPT ![r] =
       IF plan = 0 \/ SyncSkips(plan) THEN DoneWith(q.deed) ELSE [q EXCEPT !.pc = "activate"]]
  /\ UNCHANGED <<entries, crossings, membership, deedEvents, dueRead, loyaltyDay,
                 pointCrashes, overlapped>>

\* activate(..., tier_qualification): the upsert on user_id.
ActivateFromTier(r) ==
  /\ pointCalls[r].pc = "activate"
  /\ membership' = [status |-> "active", plan |-> TierForPoints(pointCalls[r].lifetime),
                    source |-> "tier", expires |-> NoExpiry]
  /\ pointCalls' = [pointCalls EXCEPT ![r] = DoneWith(@.deed)]
  /\ UNCHANGED <<entries, crossings, deedEvents, dueRead, loyaltyDay, pointCrashes, overlapped>>

MarkDeed(r) ==
  /\ pointCalls[r].pc = "mark"
  /\ deedEvents' = [deedEvents EXCEPT ![pointCalls[r].deed] = "done"]
  /\ pointCalls' = [pointCalls EXCEPT ![r] = NoPointCall]
  /\ UNCHANGED <<entries, crossings, membership, dueRead, loyaltyDay, pointCrashes, overlapped>>

\* The process dies or the handler throws; what has not committed is lost.
AwardCrash(r) ==
  /\ pointCalls[r].pc # "idle" /\ pointCrashes < MaxPointCrashes
  /\ pointCrashes' = pointCrashes + 1
  /\ pointCalls' = [pointCalls EXCEPT ![r] = NoPointCall]
  /\ UNCHANGED <<entries, crossings, membership, deedEvents, dueRead, loyaltyDay, overlapped>>

\* Mutant: the clawback is priced at today's multiplier.
ClawbackRepriced(d) == -Multiplied(DeedPoints[d], Multiplier)
\* The exact negation of the original entry.
Clawback(d) == -(entries[CHOOSE i \in DOMAIN entries : entries[i].deed = d
                                                     /\ ~entries[i].reversal].points)

\* LoyaltyLedgerService.reverse, inside the caller's transaction.
ReversePoints(d) ==
  /\ d \in ReferralDeeds /\ Entered(d, FALSE) /\ ~Entered(d, TRUE)
  /\ entries' = Append(entries, [deed |-> d, points |-> Clawback(d), reversal |-> TRUE])
  /\ UNCHANGED <<crossings, membership, deedEvents, pointCalls, dueRead, loyaltyDay,
                 pointCrashes, overlapped>>

---------------------------------------------------------------------------
(* The membership itself.                                                  *)

ActivateManually(p) ==
  /\ ~(membership.status = "active" /\ membership.plan = p)
  /\ membership' = [status |-> "active", plan |-> p, source |-> "manual",
                    expires |-> IF p = GiftPlan THEN loyaltyDay + GiftDays ELSE NoExpiry]
  /\ UNCHANGED <<entries, crossings, deedEvents, pointCalls, dueRead, loyaltyDay,
                 pointCrashes, overlapped>>

CancelMembership ==
  /\ membership.status = "active"
  /\ membership' = [membership EXCEPT !.status = "cancelled"]
  /\ UNCHANGED <<entries, crossings, deedEvents, pointCalls, dueRead, loyaltyDay,
                 pointCrashes, overlapped>>

\* expireDue reads the due row, and later updates it by id and status.
ReadDue ==
  /\ ~dueRead /\ membership.status = "active" /\ membership.expires <= loyaltyDay
  /\ dueRead' = TRUE
  /\ UNCHANGED <<entries, crossings, membership, deedEvents, pointCalls, loyaltyDay,
                 pointCrashes, overlapped>>

ExpireDue ==
  /\ dueRead /\ dueRead' = FALSE
  /\ membership' = IF membership.status = "active"
                   THEN [membership EXCEPT !.status = "expired"] ELSE membership
  /\ UNCHANGED <<entries, crossings, deedEvents, pointCalls, loyaltyDay, pointCrashes, overlapped>>

LoyaltyTick ==
  /\ loyaltyDay < MaxDay
  /\ loyaltyDay' = loyaltyDay + 1
  /\ UNCHANGED <<entries, crossings, membership, deedEvents, pointCalls, dueRead,
                 pointCrashes, overlapped>>

AwardStep(r) ==
  \/ \E d \in Deeds : BeginAward(r, d)
  \/ InsertEntry(r)
  \/ CommitAward(r)
  \/ SyncFromTier(r)
  \/ ActivateFromTier(r)
  \/ MarkDeed(r)

LoyaltyNext ==
  \/ \E d \in Deeds : Perform(d)
  \/ \E r \in PointRelays : AwardStep(r)
  \/ \E r \in PointRelays : AwardCrash(r)
  \/ \E d \in Deeds : ReversePoints(d)
  \/ \E p \in FreePlans : ActivateManually(p)
  \/ CancelMembership
  \/ ReadDue
  \/ ExpireDue
  \/ LoyaltyTick

LoyaltySpec == LoyaltyInit /\ [][LoyaltyNext]_loyaltyVars

---------------------------------------------------------------------------
(* Properties.                                                             *)

\* An event delivered twice, by one relay or by two at once, or after a crash,
\* pays once; an event published has paid.
DeedPaidOnce ==
  \A d \in Deeds :
    LET rows == {i \in DOMAIN entries : entries[i].deed = d /\ ~entries[i].reversal}
    IN /\ Cardinality(rows) <= 1
       /\ deedEvents[d] = "done" /\ DeedPoints[d] > 0 => rows # {}

\* A clawback takes back exactly what was credited, whatever multiplier the
\* member has by then: the balance is what the deeds still standing earned.
ClawbackExact ==
  Balance = SumEntries({i \in DOMAIN entries :
                          ~entries[i].reversal /\ ~Entered(entries[i].deed, TRUE)})

\* A tier once reached is kept, through reversals too.
TierKept == [][CurrentTier' >= CurrentTier]_loyaltyVars

\* Awards that do not overlap leave a record of every tier reached: the last
\* crossing names the current tier.
CrossingRecorded ==
  ~overlapped => CurrentTier = IF crossings = <<>> THEN 0 ELSE crossings[Len(crossings)]

\* What had been earned with the last deed whose handler syncs the membership.
SyncedLifetime ==
  SumEntries({i \in DOMAIN entries :
                /\ entries[i].points > 0
                /\ \E j \in DOMAIN entries : i <= j /\ entries[j].deed \notin ReferralDeeds})

\* The plan held by qualification is the plan of the tier reached with the last
\* booking, order or review once every handler has finished, provided calls
\* neither overlapped nor died.  A referral reward counts towards the tier and
\* leaves the membership where it is until the next of those (the code's
\* ReferralLoyaltyAdapter.award does not call syncFromTier).
MembershipFollowsTier ==
  (/\ ~overlapped /\ pointCrashes = 0
   /\ \A r \in PointRelays : pointCalls[r].pc \in {"idle", "mark"}
   /\ membership.status = "active" /\ membership.source = "tier")
    => membership.plan = TierForPoints(SyncedLifetime)

\* Points, tiers and membership follow the deeds, each paid once and taken back
\* exactly, under redelivery, overlapping handlers and a crash.
PointsFollowDeeds ==
  /\ [](/\ LoyaltyTypeOK /\ DeedPaidOnce /\ ClawbackExact
        /\ CrossingRecorded /\ MembershipFollowsTier)
  /\ TierKept
============================================================================
