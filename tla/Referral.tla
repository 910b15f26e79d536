------------------------------ MODULE Referral -----------------------------
(***************************************************************************)
(* services/referral: claiming an invitation code, the qualification that   *)
(* a completed booking brings about, and the reversal that a full refund    *)
(* brings about.  The two are driven by events of different outboxes, so    *)
(* they may arrive in either order and more than once.                      *)
(*                                                                         *)
(* One referrer, and one booking with one order for each invitee.  A        *)
(* qualification is one transaction, in two actions: its reads and writes,  *)
(* which take a FOR SHARE lock on the order row, and its commit.            *)
(***************************************************************************)
EXTENDS Integers, FiniteSets

CONSTANTS
  Invitees,
  ReferralCap,              \* REFERRAL_MONTHLY_CAP
  ClaimsPerHour,            \* REFERRAL_CLAIM_ATTEMPTS_PER_HOUR
  MaxAccountAge, PendingDays, MonthDays,
  MaxReferralDay,           \* bound on the clock; a day is one hour bucket too
  OrderTotal,               \* an order is refunded in steps of 1
  MaxClaims                 \* bound on claims made by an invitee

ASSUME ReferralAssumption ==
  /\ {ReferralCap, ClaimsPerHour, MonthDays, OrderTotal} \subseteq Nat \ {0}
  /\ {MaxAccountAge, PendingDays, MaxReferralDay, MaxClaims} \subseteq Nat
  /\ IsFiniteSet(Invitees)

VARIABLES
  referrals,       \* referral.referrals, one row per referee at most
  grants,          \* reward_grants: outcome of the referrer's side
  rewardPoints,    \* ledger entries of each side: rewards less reversals
  capCounter,      \* referrer_counters, by month
  attempts,        \* claim_attempts of the current hour
  lookups,         \* observer: codes an invitee has had looked up
  claims,          \* claims charged and not yet decided, and claims made
  completion,      \* BookingCompleted of each invitee's booking
  refunded,        \* what the order has paid back
  refundEvents,    \* OrderRefunded rows not yet consumed
  qualifying,      \* the open qualification transaction of each invitee
  referralDay

referralVars == <<referrals, grants, rewardPoints, capCounter, attempts, lookups, claims,
                  completion, refunded, refundEvents, qualifying, referralDay>>

Sides == {"referrer", "referee"}
Month(day) == day \div MonthDays
Months == 0 .. Month(MaxReferralDay)

ReferralRow == [status : {"none", "pending", "qualified", "reversed"},
                expires : 0 .. MaxReferralDay + PendingDays]
GrantRow == [outcome : {"none", "awarded", "capped"}, month : Months]

ReferralTypeOK ==
  /\ referrals \in [Invitees -> ReferralRow]
  /\ grants \in [Invitees -> GrantRow]
  /\ rewardPoints \in [Invitees -> [Sides -> Int]]
  /\ capCounter \in [Months -> 0 .. ReferralCap]
  /\ attempts \in [Invitees -> 0 .. ClaimsPerHour]
  /\ lookups \in [Invitees -> Nat]
  /\ claims \in [Invitees -> [charged : BOOLEAN, made : 0 .. MaxClaims]]
  /\ completion \in [Invitees -> {"none", "queued", "done"}]
  /\ refunded \in [Invitees -> 0 .. OrderTotal]
  /\ refundEvents \in [Invitees -> 0 .. OrderTotal]
  /\ qualifying \in [Invitees -> {"no", "open", "refunded"}]
  /\ referralDay \in 0 .. MaxReferralDay

ReferralInit ==
  /\ referrals = [i \in Invitees |-> [status |-> "none", expires |-> 0]]
  /\ grants = [i \in Invitees |-> [outcome |-> "none", month |-> 0]]
  /\ rewardPoints = [i \in Invitees |-> [s \in Sides |-> 0]]
  /\ capCounter = [m \in Months |-> 0]
  /\ attempts = [i \in Invitees |-> 0] /\ lookups = [i \in Invitees |-> 0]
  /\ claims = [i \in Invitees |-> [charged |-> FALSE, made |-> 0]]
  /\ completion = [i \in Invitees |-> "none"]
  /\ refunded = [i \in Invitees |-> 0] /\ refundEvents = [i \in Invitees |-> 0]
  /\ qualifying = [i \in Invitees |-> "no"]
  /\ referralDay = 0

---------------------------------------------------------------------------
(* Claiming.                                                               *)

\* chargeClaimAttempt commits on its own, before the claim is looked at.
AttemptsAfter(i) == attempts[i] + 1

ChargeClaim(i) ==
  /\ ~claims[i].charged /\ claims[i].made < MaxClaims
  /\ attempts[i] < ClaimsPerHour
  /\ attempts' = [attempts EXCEPT ![i] = AttemptsAfter(i)]
  /\ claims' = [claims EXCEPT ![i] = [charged |-> TRUE, made |-> @.made + 1]]
  /\ UNCHANGED <<referrals, grants, rewardPoints, capCounter, lookups, completion, refunded,
                 refundEvents, qualifying, referralDay>>

ClaimAdmitted(i, code) ==
  /\ code = "referrers"                    \* known, and not the claimant's own
  /\ referrals[i].status = "none"          \* uq_referrals_referee
  /\ referralDay <= MaxAccountAge          \* accounts are created on day 0
  /\ completion[i] = "none"                \* hasCompletedBooking

Claim(i, code) ==
  /\ claims[i].charged
  /\ claims' = [claims EXCEPT ![i].charged = FALSE]
  /\ lookups' = [lookups EXCEPT ![i] = @ + 1]
  /\ referrals' = IF ClaimAdmitted(i, code)
                  THEN [referrals EXCEPT ![i] = [status |-> "pending",
                                                 expires |-> referralDay + PendingDays]]
                  ELSE referrals
  /\ UNCHANGED <<grants, rewardPoints, capCounter, attempts, completion, refunded,
                 refundEvents, qualifying, referralDay>>

---------------------------------------------------------------------------
(* Qualification, by BookingCompletedReferralHandler.                      *)

CompleteBooking(i) ==
  /\ completion[i] = "none"
  /\ completion' = [completion EXCEPT ![i] = "queued"]
  /\ UNCHANGED <<referrals, grants, rewardPoints, capCounter, attempts, lookups, claims,
                 refunded, refundEvents, qualifying, referralDay>>

FullyRefunded(i) == refunded[i] = OrderTotal

Qualifies(i) == referrals[i].status = "pending" /\ referrals[i].expires > referralDay

\* The compare-and-swap, the charge of the cap (which waits for any other
\* transaction that has charged it), the rewards, and the read of the order.
BeginQualify(i) ==
  /\ completion[i] = "queued" /\ Qualifies(i)
  /\ \A j \in Invitees : qualifying[j] = "no"
  /\ qualifying' = [qualifying EXCEPT ![i] = IF FullyRefunded(i) THEN "refunded" ELSE "open"]
  /\ UNCHANGED <<referrals, grants, rewardPoints, capCounter, attempts, lookups, claims,
                 completion, refunded, refundEvents, referralDay>>

\* chargeReferrerCap: the upsert that stops at the cap.
WithinCap(m) == capCounter[m] < ReferralCap

\* awardIfPayable.
Payable(outcome) == outcome = "awarded"

\* Grants and ledger entries of both sides; the referee is never capped.  If
\* the order was found fully refunded, the same transaction reverses.
CommitQualify(i) ==
  LET m == Month(referralDay)
      outcome == IF WithinCap(m) THEN "awarded" ELSE "capped"
      kept == qualifying[i] = "open"
  IN
  /\ qualifying[i] # "no"
  /\ referrals' = [referrals EXCEPT ![i].status = IF kept THEN "qualified" ELSE "reversed"]
  /\ grants' = [grants EXCEPT ![i] = [outcome |-> outcome, month |-> m]]
  /\ capCounter' = [capCounter EXCEPT ![m] = IF WithinCap(m) THEN @ + 1 ELSE @]
  /\ rewardPoints' = [rewardPoints EXCEPT ![i] =
       [s \in Sides |-> IF kept /\ (s = "referee" \/ Payable(outcome)) THEN 1 ELSE 0]]
  /\ qualifying' = [qualifying EXCEPT ![i] = "no"]
  /\ UNCHANGED <<attempts, lookups, claims, completion, refunded, refundEvents, referralDay>>

\* A handler that throws or dies rolls its transaction back.
AbortQualify(i) ==
  /\ qualifying[i] # "no"
  /\ qualifying' = [qualifying EXCEPT ![i] = "no"]
  /\ UNCHANGED <<referrals, grants, rewardPoints, capCounter, attempts, lookups, claims,
                 completion, refunded, refundEvents, referralDay>>

\* Nothing to qualify, or a redelivery after the commit: no row is updated.
ConsumeCompletion(i) ==
  /\ completion[i] = "queued" /\ ~Qualifies(i) /\ qualifying[i] = "no"
  /\ completion' = [completion EXCEPT ![i] = "done"]
  /\ UNCHANGED <<referrals, grants, rewardPoints, capCounter, attempts, lookups, claims,
                 refunded, refundEvents, qualifying, referralDay>>

---------------------------------------------------------------------------
(* Reversal, by OrderRefundedReferralHandler.                              *)

\* Mutant: the order is read without a lock.
OrderUnlocked(i) == FALSE
\* The FOR SHARE lock of an open qualification.
OrderLocked(i) == qualifying[i] # "no"

\* Commerce records a refund, partial or the last one: the same event.
RefundOrder(i) ==
  /\ refunded[i] < OrderTotal /\ ~OrderLocked(i)
  /\ refunded' = [refunded EXCEPT ![i] = @ + 1]
  /\ refundEvents' = [refundEvents EXCEPT ![i] = @ + 1]
  /\ UNCHANGED <<referrals, grants, rewardPoints, capCounter, attempts, lookups, claims,
                 completion, qualifying, referralDay>>

\* Only the committed row is seen, and only a full refund counts.
Reverses(i) == FullyRefunded(i) /\ referrals[i].status = "qualified"

\* redelivered: the process dies before it can mark the row.
ConsumeRefund(i, redelivered) ==
  /\ refundEvents[i] > 0
  /\ IF Reverses(i)
     THEN /\ referrals' = [referrals EXCEPT ![i].status = "reversed"]
          /\ rewardPoints' = [rewardPoints EXCEPT ![i] =
               [s \in Sides |-> IF s = "referee" \/ grants[i].outcome = "awarded" THEN @[s] - 1 ELSE @[s]]]
     ELSE UNCHANGED <<referrals, rewardPoints>>
  /\ refundEvents' = IF redelivered THEN refundEvents ELSE [refundEvents EXCEPT ![i] = @ - 1]
  /\ UNCHANGED <<grants, capCounter, attempts, lookups, claims, completion, refunded,
                 qualifying, referralDay>>

\* The instant a qualification takes as now is that of its commit.
ReferralTick ==
  /\ referralDay < MaxReferralDay /\ \A i \in Invitees : qualifying[i] = "no"
  /\ referralDay' = referralDay + 1
  /\ attempts' = [i \in Invitees |-> 0]
  /\ UNCHANGED <<referrals, grants, rewardPoints, capCounter, lookups, claims, completion,
                 refunded, refundEvents, qualifying>>

ReferralNext ==
  \/ \E i \in Invitees : ChargeClaim(i)
  \/ \E i \in Invitees, code \in {"referrers", "own", "unknown"} : Claim(i, code)
  \/ \E i \in Invitees : CompleteBooking(i)
  \/ \E i \in Invitees : BeginQualify(i)
  \/ \E i \in Invitees : CommitQualify(i)
  \/ \E i \in Invitees : AbortQualify(i)
  \/ \E i \in Invitees : ConsumeCompletion(i)
  \/ \E i \in Invitees : RefundOrder(i)
  \/ \E i \in Invitees, redelivered \in BOOLEAN : ConsumeRefund(i, redelivered)
  \/ ReferralTick

ReferralSpec == ReferralInit /\ [][ReferralNext]_referralVars

---------------------------------------------------------------------------
(* Properties.                                                             *)

\* "No active reward standing on a fully refunded order", in whatever order
\* completion and refund are consumed: once the refund's events are consumed,
\* the referral is not, and will not become, qualified.
RefundedKeepsNoReward ==
  \A i \in Invitees :
    FullyRefunded(i) /\ refundEvents[i] = 0 => referrals[i].status # "qualified"

\* A partial refund takes nothing back.
OnlyFullRefundReverses ==
  \A i \in Invitees : referrals[i].status = "reversed" => FullyRefunded(i)

\* The ledger agrees with the referral, however often an event is delivered:
\* a qualified one has paid each side that was granted points, a reversed one
\* nets to nothing, any other has written nothing.
RewardsMatchReferral ==
  \A i \in Invitees : rewardPoints[i] =
    [s \in Sides |->
      IF referrals[i].status = "qualified" /\ (s = "referee" \/ grants[i].outcome = "awarded")
      THEN 1 ELSE 0]

\* The referrer is rewarded for at most ReferralCap qualifications of a month.
ReferralCapHolds ==
  \A m \in Months :
    Cardinality({i \in Invitees : grants[i].outcome = "awarded" /\ grants[i].month = m})
      <= ReferralCap

\* Codes cannot be guessed faster than the hourly allowance: refused claims
\* are charged like the others.
GuessingIsBounded ==
  \A i \in Invitees : lookups[i] <= ClaimsPerHour * (referralDay + 1)

\* Rewards follow referrals: paid for a qualified one within the cap, gone for a
\* refunded one, in whatever order completion and refund are consumed.
RewardsFollowReferrals ==
  /\ ReferralTypeOK /\ RefundedKeepsNoReward /\ OnlyFullRefundReverses
  /\ RewardsMatchReferral /\ ReferralCapHolds /\ GuessingIsBounded
============================================================================
