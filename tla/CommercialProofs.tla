--------------------------- MODULE CommercialProofs ---------------------------
(***************************************************************************)
(* Proofs about the commercial services of MCCommercial: referral rewards   *)
(* (Referral), daily metrics (Analytics), the workplace (Business, Staff),  *)
(* the catalogue of plans and schedules (Catalogue), the terms sellers      *)
(* choose (SellerPolicies), the credits they spend (Credits), loyalty       *)
(* points (Loyalty) and the books (Funds).  The last two count money and    *)
(* points: facts about sums come before them.                               *)
(***************************************************************************)
EXTENDS MCCommercial, FiniteSetTheorems, SequenceTheorems, WellFoundedInduction, TLAPS

(* Referral: the inductive invariant.                                      *)

ClaimRow == [charged : BOOLEAN, made : 0 .. MaxClaims]

\* An open qualification has a pending referral, and has seen the order as it is.
QualifiesAsSeen ==
  \A i \in Invitees : qualifying[i] # "no" =>
    referrals[i].status = "pending" /\ (FullyRefunded(i) <=> qualifying[i] = "refunded")

\* There is no more to consume than was refunded.
EventsRecorded == \A i \in Invitees : refundEvents[i] <= refunded[i]

\* Nothing is granted before the referral is decided.
GrantedWhenDecided ==
  \A i \in Invitees : referrals[i].status \in {"none", "pending"} => grants[i].outcome = "none"

\* The referrer's rewards of a month, and the counter that stops at the cap.
AwardedIn(m) == {i \in Invitees : grants[i].outcome = "awarded" /\ grants[i].month = m}
AwardsCounted == \A m \in Months : Cardinality(AwardedIn(m)) <= capCounter[m]

\* What was charged and is not yet looked up counts too.
Charged(i) == IF claims[i].charged THEN 1 ELSE 0
LookupsCharged ==
  \A i \in Invitees : lookups[i] + Charged(i) <= ClaimsPerHour * referralDay + attempts[i]

ReferralInv ==
  /\ ReferralTypeOK /\ RefundedKeepsNoReward /\ OnlyFullRefundReverses /\ RewardsMatchReferral
  /\ QualifiesAsSeen /\ GrantedWhenDecided /\ AwardsCounted /\ LookupsCharged
  /\ EventsRecorded

\* The bounds are numbers.
LEMMA ReferralNumbers ==
  /\ ReferralCap \in Nat /\ ClaimsPerHour \in Nat /\ MonthDays \in Nat /\ MonthDays > 0
  /\ OrderTotal \in Nat /\ OrderTotal > 0
  /\ PendingDays \in Nat /\ MaxReferralDay \in Nat /\ MaxClaims \in Nat /\ IsFiniteSet(Invitees)
  BY ReferralAssumption

\* A number of times a larger number is no smaller.
LEMMA TimesGrows ==
  ASSUME NEW a \in Nat, NEW b \in Nat, NEW c \in Nat, b + 1 <= c
  PROVE  a * b \in Nat /\ a * c \in Nat /\ a * b + a <= a * c
<1>1. PICK k \in Nat : c = b + 1 + k
  BY c - b - 1 \in Nat, c = b + 1 + (c - b - 1)
<1>2. a * c = a * b + a + a * k /\ a * k \in Nat /\ a * b \in Nat
  BY <1>1
<1> QED
  BY <1>2

\* Every day of the clock is in a month of its own or an earlier one.
LEMMA DaysHaveMonths == \A d \in 0 .. MaxReferralDay : Month(d) \in Months
<1> SUFFICES ASSUME NEW d \in 0 .. MaxReferralDay PROVE Month(d) \in Months
  OBVIOUS
<1>0. d \in Nat /\ d <= MaxReferralDay
  BY ReferralNumbers
<1> DEFINE q == d \div MonthDays
           p == MaxReferralDay \div MonthDays
<1>1. /\ q \in Nat /\ MonthDays * q <= d
      /\ p \in Nat /\ MaxReferralDay < MonthDays * p + MonthDays
  BY <1>0, ReferralNumbers
<1>2. q <= p
  <2> SUFFICES ASSUME p + 1 <= q PROVE FALSE
    BY <1>1
  <2> HIDE DEF p, q
  <2>1. MonthDays * p + MonthDays <= MonthDays * q
    BY <1>1, ReferralNumbers, TimesGrows
  <2>2. MonthDays * p \in Nat /\ MonthDays * q \in Nat
    BY <1>1, ReferralNumbers, TimesGrows
  <2> QED
    BY <1>0, <1>1, <2>1, <2>2, ReferralNumbers
<1> QED
  BY <1>1, <1>2 DEF Month, Months

\* Nobody has claimed, and nothing is paid.
LEMMA ReferralBegins == ReferralInit => ReferralInv
<1> SUFFICES ASSUME ReferralInit PROVE ReferralInv
  OBVIOUS
<1>0. Month(0) \in Months /\ Months \subseteq Nat /\ 0 \in Months
  BY DaysHaveMonths, ReferralNumbers DEF Months, Month
<1>1. ReferralTypeOK
  <2>1. /\ referrals \in [Invitees -> ReferralRow] /\ grants \in [Invitees -> GrantRow]
    BY <1>0, ReferralNumbers DEF ReferralInit, ReferralRow, GrantRow
  <2>2. /\ rewardPoints \in [Invitees -> [Sides -> Int]] /\ capCounter \in [Months -> 0 .. ReferralCap]
        /\ attempts \in [Invitees -> 0 .. ClaimsPerHour] /\ lookups \in [Invitees -> Nat]
        /\ claims \in [Invitees -> [charged : BOOLEAN, made : 0 .. MaxClaims]]
    BY ReferralNumbers DEF ReferralInit
  <2> QED
    BY <2>1, <2>2, ReferralNumbers DEF ReferralInit, ReferralTypeOK
<1>2. RefundedKeepsNoReward /\ OnlyFullRefundReverses /\ QualifiesAsSeen /\ GrantedWhenDecided /\ EventsRecorded
  BY ReferralNumbers DEF ReferralInit, EventsRecorded, RefundedKeepsNoReward, OnlyFullRefundReverses, QualifiesAsSeen, GrantedWhenDecided
<1>3. RewardsMatchReferral
  BY DEF ReferralInit, RewardsMatchReferral
<1>4. AwardsCounted
  <2>1. \A m \in Months : AwardedIn(m) = {}
    BY DEF ReferralInit, AwardedIn
  <2> QED
    BY <2>1, FS_EmptySet DEF ReferralInit, AwardsCounted
<1>5. LookupsCharged
  BY ReferralNumbers DEF ReferralInit, LookupsCharged, Charged
<1> QED
  BY <1>1, <1>2, <1>3, <1>4, <1>5 DEF ReferralInv

\* Claiming: a charge, then the code looked up against it.
LEMMA ClaimSteps ==
  ASSUME ReferralInv, NEW i \in Invitees,
         ChargeClaim(i) \/ \E code \in {"referrers", "own", "unknown"} : Claim(i, code)
  PROVE  ReferralInv'
<1>0. /\ ReferralTypeOK /\ RewardsMatchReferral /\ RefundedKeepsNoReward /\ OnlyFullRefundReverses
      /\ QualifiesAsSeen /\ GrantedWhenDecided /\ AwardsCounted /\ LookupsCharged /\ EventsRecorded
      /\ referrals \in [Invitees -> ReferralRow] /\ claims \in [Invitees -> ClaimRow]
      /\ attempts \in [Invitees -> 0 .. ClaimsPerHour] /\ lookups \in [Invitees -> Nat]
      /\ referralDay \in 0 .. MaxReferralDay
  BY DEF ReferralInv, ReferralTypeOK, ClaimRow
<1>1. UNCHANGED <<grants, rewardPoints, capCounter, completion, refunded, refundEvents, qualifying, referralDay>>
  BY DEF ChargeClaim, Claim
<1>2. AwardsCounted' /\ EventsRecorded'
  BY <1>0, <1>1 DEF AwardsCounted, AwardedIn, EventsRecorded
<1>3. CASE ChargeClaim(i)
  <2>1. /\ ~claims[i].charged /\ claims[i].made < MaxClaims /\ attempts[i] < ClaimsPerHour
        /\ attempts' = [attempts EXCEPT ![i] = attempts[i] + 1] /\ UNCHANGED <<referrals, lookups>>
        /\ claims' = [claims EXCEPT ![i] = [charged |-> TRUE, made |-> @.made + 1]]
    BY <1>3 DEF ChargeClaim, AttemptsAfter
  <2>2. claims[i].made \in 0 .. MaxClaims /\ attempts[i] \in 0 .. ClaimsPerHour
    BY <1>0 DEF ClaimRow
  <2>3. /\ claims' \in [Invitees -> ClaimRow] /\ claims'[i].charged = TRUE
        /\ \A j \in Invitees : j # i => claims'[j] = claims[j] /\ attempts'[j] = attempts[j]
        /\ attempts' \in [Invitees -> 0 .. ClaimsPerHour] /\ attempts'[i] = attempts[i] + 1
    BY <1>0, <2>1, <2>2, ReferralNumbers DEF ClaimRow
  <2>4. ReferralTypeOK'
    BY <1>0, <1>1, <2>1, <2>3 DEF ReferralTypeOK, ClaimRow
  <2>5. LookupsCharged'
    <3> SUFFICES ASSUME NEW j \in Invitees
                 PROVE  (lookups[j] + Charged(j) <= ClaimsPerHour * referralDay + attempts[j])'
      BY DEF LookupsCharged
    <3>1. /\ lookups[j] + Charged(j) <= ClaimsPerHour * referralDay + attempts[j]
          /\ lookups[j] \in Nat /\ attempts[j] \in Nat /\ ClaimsPerHour * referralDay \in Nat
      BY <1>0, ReferralNumbers DEF LookupsCharged
    <3>2. CASE j # i
      BY <1>1, <2>1, <2>3, <3>1, <3>2 DEF Charged
    <3>3. CASE j = i
      BY <1>1, <2>1, <2>3, <3>1, <3>3 DEF Charged
    <3> QED
      BY <3>2, <3>3
  <2>6. RefundedKeepsNoReward' /\ OnlyFullRefundReverses' /\ QualifiesAsSeen' /\ GrantedWhenDecided'
    BY <1>0, <1>1, <2>1 DEF RefundedKeepsNoReward, OnlyFullRefundReverses, QualifiesAsSeen,
                            GrantedWhenDecided, FullyRefunded
  <2>7. RewardsMatchReferral'
    BY <1>0, <1>1, <2>1 DEF RewardsMatchReferral
  <2> QED
    BY <1>2, <2>4, <2>5, <2>6, <2>7 DEF ReferralInv
<1>4. ASSUME NEW code \in {"referrers", "own", "unknown"}, Claim(i, code) PROVE ReferralInv'
  <2>1. /\ claims[i].charged /\ claims' = [claims EXCEPT ![i].charged = FALSE]
        /\ lookups' = [lookups EXCEPT ![i] = @ + 1] /\ attempts' = attempts
        /\ \/ referrals' = referrals
           \/ /\ referrals[i].status = "none"
              /\ referrals' = [referrals EXCEPT ![i] = [status |-> "pending", expires |-> referralDay + PendingDays]]
    BY <1>4 DEF Claim, ClaimAdmitted
  <2>2. /\ claims' \in [Invitees -> ClaimRow] /\ claims'[i].charged = FALSE /\ lookups'[i] = lookups[i] + 1
        /\ \A j \in Invitees : j # i => claims'[j] = claims[j] /\ lookups'[j] = lookups[j]
        /\ lookups' \in [Invitees -> Nat]
    <3>1. /\ claims' \in [Invitees -> ClaimRow] /\ claims'[i].charged = FALSE
          /\ \A j \in Invitees : j # i => claims'[j] = claims[j]
      <4>1. claims[i] \in ClaimRow /\ [claims[i] EXCEPT !.charged = FALSE] \in ClaimRow
        BY <1>0 DEF ClaimRow
      <4>2. claims' = [claims EXCEPT ![i] = [claims[i] EXCEPT !.charged = FALSE]]
        BY <2>1
      <4> QED
        BY <1>0, <4>1, <4>2 DEF ClaimRow
    <3>2. /\ lookups'[i] = lookups[i] + 1 /\ lookups' \in [Invitees -> Nat]
          /\ \A j \in Invitees : j # i => lookups'[j] = lookups[j]
      BY <1>0, <2>1
    <3> QED
      BY <3>1, <3>2
  <2>3. /\ referrals' \in [Invitees -> ReferralRow]
        /\ \A j \in Invitees : \/ referrals'[j] = referrals[j]
                               \/ referrals[j].status = "none" /\ referrals'[j].status = "pending"
    <3>1. referralDay + PendingDays \in 0 .. MaxReferralDay + PendingDays
      BY <1>0, ReferralNumbers
    <3> QED
      BY <1>0, <2>1, <3>1 DEF ReferralRow
  <2>4. ReferralTypeOK'
    BY <1>0, <1>1, <2>1, <2>2, <2>3 DEF ReferralTypeOK, ClaimRow
  <2>5. LookupsCharged'
    <3> SUFFICES ASSUME NEW j \in Invitees
                 PROVE  (lookups[j] + Charged(j) <= ClaimsPerHour * referralDay + attempts[j])'
      BY DEF LookupsCharged
    <3>1. /\ lookups[j] + Charged(j) <= ClaimsPerHour * referralDay + attempts[j]
          /\ lookups[j] \in Nat /\ attempts[j] \in Nat /\ ClaimsPerHour * referralDay \in Nat
      BY <1>0, ReferralNumbers DEF LookupsCharged
    <3>2. CASE j # i
      BY <1>1, <2>1, <2>2, <3>1, <3>2 DEF Charged
    <3>3. CASE j = i
      BY <1>1, <2>1, <2>2, <3>1, <3>3 DEF Charged
    <3> QED
      BY <3>2, <3>3
  <2>6. RefundedKeepsNoReward' /\ OnlyFullRefundReverses' /\ QualifiesAsSeen' /\ GrantedWhenDecided'
    BY <1>0, <1>1, <2>3 DEF RefundedKeepsNoReward, OnlyFullRefundReverses, QualifiesAsSeen,
                            GrantedWhenDecided, FullyRefunded
  <2>7. RewardsMatchReferral'
    BY <1>0, <1>1, <2>3 DEF RewardsMatchReferral
  <2> QED
    BY <1>2, <2>4, <2>5, <2>6, <2>7 DEF ReferralInv
<1> QED
  BY <1>3, <1>4

\* A qualification begins, is rolled back, or has nothing to do: no referral moves.
LEMMA CompletionSteps ==
  ASSUME ReferralInv, NEW i \in Invitees,
         CompleteBooking(i) \/ BeginQualify(i) \/ AbortQualify(i) \/ ConsumeCompletion(i)
  PROVE  ReferralInv'
<1>0. /\ ReferralTypeOK /\ QualifiesAsSeen /\ qualifying \in [Invitees -> {"no", "open", "refunded"}]
      /\ completion \in [Invitees -> {"none", "queued", "done"}]
  BY DEF ReferralInv, ReferralTypeOK
<1>1. UNCHANGED <<referrals, grants, rewardPoints, capCounter, attempts, lookups, claims, refunded, refundEvents, referralDay>>
  BY DEF CompleteBooking, BeginQualify, AbortQualify, ConsumeCompletion
<1>2. /\ completion' \in [Invitees -> {"none", "queued", "done"}]
      /\ \/ qualifying' = qualifying \/ qualifying' = [qualifying EXCEPT ![i] = "no"]
         \/ referrals[i].status = "pending"
            /\ qualifying' = [qualifying EXCEPT ![i] = IF FullyRefunded(i) THEN "refunded" ELSE "open"]
  BY <1>0 DEF CompleteBooking, BeginQualify, AbortQualify, ConsumeCompletion, Qualifies
<1>3. qualifying' \in [Invitees -> {"no", "open", "refunded"}] /\ QualifiesAsSeen'
  BY <1>0, <1>1, <1>2 DEF QualifiesAsSeen, FullyRefunded
<1>4. ReferralTypeOK'
  BY <1>0, <1>1, <1>2, <1>3 DEF ReferralTypeOK
<1>5. RefundedKeepsNoReward' /\ OnlyFullRefundReverses' /\ GrantedWhenDecided' /\ RewardsMatchReferral'
  BY <1>1 DEF ReferralInv, RefundedKeepsNoReward, OnlyFullRefundReverses, GrantedWhenDecided, RewardsMatchReferral, FullyRefunded
<1>6. AwardsCounted' /\ LookupsCharged' /\ EventsRecorded'
  BY <1>1 DEF ReferralInv, EventsRecorded, AwardsCounted, AwardedIn, LookupsCharged, Charged
<1> QED
  BY <1>3, <1>4, <1>5, <1>6 DEF ReferralInv

\* The commit of a qualification: the outcome under the cap, the rewards it pays,
\* and the reversal in the same transaction of one that found the order refunded.
LEMMA CommitSteps ==
  ASSUME ReferralInv, NEW i \in Invitees, CommitQualify(i)
  PROVE  ReferralInv'
<1> DEFINE m == Month(referralDay)
           outcome == IF WithinCap(m) THEN "awarded" ELSE "capped"
           kept == qualifying[i] = "open"
<1>0. /\ ReferralTypeOK /\ RefundedKeepsNoReward /\ OnlyFullRefundReverses /\ RewardsMatchReferral
      /\ QualifiesAsSeen /\ GrantedWhenDecided /\ AwardsCounted /\ LookupsCharged /\ EventsRecorded
      /\ referrals \in [Invitees -> ReferralRow] /\ grants \in [Invitees -> GrantRow]
      /\ capCounter \in [Months -> 0 .. ReferralCap] /\ qualifying \in [Invitees -> {"no", "open", "refunded"}]
      /\ rewardPoints \in [Invitees -> [Sides -> Int]] /\ referralDay \in 0 .. MaxReferralDay
  BY DEF ReferralInv, ReferralTypeOK
<1>1. /\ UNCHANGED <<attempts, lookups, claims, completion, refunded, refundEvents, referralDay>>
      /\ qualifying[i] # "no" /\ qualifying' = [qualifying EXCEPT ![i] = "no"]
      /\ referrals' = [referrals EXCEPT ![i].status = IF kept THEN "qualified" ELSE "reversed"]
      /\ grants' = [grants EXCEPT ![i] = [outcome |-> outcome, month |-> m]]
      /\ capCounter' = [capCounter EXCEPT ![m] = IF WithinCap(m) THEN @ + 1 ELSE @]
      /\ rewardPoints' = [rewardPoints EXCEPT ![i] =
           [s \in Sides |-> IF kept /\ (s = "referee" \/ outcome = "awarded") THEN 1 ELSE 0]]
  BY DEF CommitQualify, Payable
<1>2. m \in Months /\ outcome \in {"awarded", "capped"}
  BY <1>0, DaysHaveMonths
<1>3. referrals[i].status = "pending" /\ (kept <=> ~FullyRefunded(i)) /\ grants[i].outcome = "none"
  BY <1>0, <1>1 DEF QualifiesAsSeen, GrantedWhenDecided
<1> HIDE DEF m, outcome
<1>4. /\ referrals' \in [Invitees -> ReferralRow]
      /\ referrals'[i].status = (IF kept THEN "qualified" ELSE "reversed")
      /\ \A j \in Invitees : j # i => referrals'[j] = referrals[j]
  BY <1>0, <1>1 DEF ReferralRow
<1>5. /\ grants' \in [Invitees -> GrantRow] /\ grants'[i].outcome = outcome /\ grants'[i].month = m
      /\ \A j \in Invitees : j # i => grants'[j] = grants[j]
  BY <1>0, <1>1, <1>2 DEF GrantRow
<1>6. /\ qualifying' \in [Invitees -> {"no", "open", "refunded"}] /\ qualifying'[i] = "no"
      /\ \A j \in Invitees : j # i => qualifying'[j] = qualifying[j]
  BY <1>0, <1>1
<1>7. /\ rewardPoints' \in [Invitees -> [Sides -> Int]]
      /\ rewardPoints'[i] = [s \in Sides |-> IF kept /\ (s = "referee" \/ outcome = "awarded") THEN 1 ELSE 0]
      /\ \A j \in Invitees : j # i => rewardPoints'[j] = rewardPoints[j]
  BY <1>0, <1>1
<1>8. /\ capCounter[m] \in Nat /\ capCounter' \in [Months -> 0 .. ReferralCap]
      /\ capCounter'[m] = IF outcome = "awarded" THEN capCounter[m] + 1 ELSE capCounter[m]
      /\ \A n \in Months : n # m => capCounter'[n] = capCounter[n]
  <2>1. (outcome = "awarded" <=> capCounter[m] < ReferralCap) /\ capCounter[m] \in 0 .. ReferralCap
    BY <1>0, <1>2 DEF outcome, WithinCap
  <2> QED
    BY <1>0, <1>1, <1>2, <2>1, ReferralNumbers DEF WithinCap
<1>9. ReferralTypeOK'
  BY <1>0, <1>1, <1>4, <1>5, <1>6, <1>7, <1>8 DEF ReferralTypeOK
<1>10. RefundedKeepsNoReward' /\ OnlyFullRefundReverses'
  BY <1>0, <1>1, <1>3, <1>4 DEF RefundedKeepsNoReward, OnlyFullRefundReverses, FullyRefunded
<1>11. QualifiesAsSeen' /\ GrantedWhenDecided'
  BY <1>0, <1>1, <1>4, <1>5, <1>6 DEF QualifiesAsSeen, GrantedWhenDecided, FullyRefunded
<1>12. RewardsMatchReferral'
  <2> SUFFICES ASSUME NEW j \in Invitees
               PROVE  rewardPoints'[j] = [s \in Sides |->
                        IF referrals'[j].status = "qualified" /\ (s = "referee" \/ grants'[j].outcome = "awarded")
                        THEN 1 ELSE 0]
    BY DEF RewardsMatchReferral
  <2>1. CASE j = i
    BY <1>4, <1>5, <1>7, <2>1
  <2>2. CASE j # i
    BY <1>0, <1>4, <1>5, <1>7, <2>2 DEF RewardsMatchReferral
  <2> QED
    BY <2>1, <2>2
<1>13. AwardsCounted'
  <2> SUFFICES ASSUME NEW n \in Months PROVE Cardinality(AwardedIn(n)') <= capCounter'[n]
    BY DEF AwardsCounted
  <2>1. /\ AwardedIn(n) \subseteq Invitees /\ i \notin AwardedIn(n) /\ Cardinality(AwardedIn(n)) <= capCounter[n]
        /\ capCounter[n] \in Nat
    BY <1>0, <1>3, ReferralNumbers DEF AwardedIn, AwardsCounted
  <2>2. IsFiniteSet(AwardedIn(n)) /\ Cardinality(AwardedIn(n)) \in Nat
    BY <2>1, ReferralNumbers, FS_Subset, FS_CardinalityType
  <2>3. CASE n = m /\ outcome = "awarded"
    <3>1. AwardedIn(n)' = AwardedIn(n) \union {i}
      BY <1>5, <2>1, <2>3 DEF AwardedIn
    <3>2. Cardinality(AwardedIn(n)') = Cardinality(AwardedIn(n)) + 1
      BY <2>1, <2>2, <3>1, FS_AddElement
    <3> QED
      BY <1>8, <2>1, <2>2, <2>3, <3>2
  <2>4. CASE ~(n = m /\ outcome = "awarded")
    <3>1. AwardedIn(n)' = AwardedIn(n)
      BY <1>2, <1>5, <2>1, <2>4 DEF AwardedIn
    <3> QED
      BY <1>8, <2>1, <2>4, <3>1
  <2> QED
    BY <2>3, <2>4
<1>14. LookupsCharged' /\ EventsRecorded'
  BY <1>0, <1>1 DEF LookupsCharged, Charged, EventsRecorded
<1> QED
  BY <1>9, <1>10, <1>11, <1>12, <1>13, <1>14 DEF ReferralInv

\* Refunds are recorded and consumed, once or again, before or after the completion.
LEMMA RefundSteps ==
  ASSUME ReferralInv, NEW i \in Invitees,
         RefundOrder(i) \/ \E redelivered \in BOOLEAN : ConsumeRefund(i, redelivered)
  PROVE  ReferralInv'
<1>0. /\ ReferralTypeOK /\ RefundedKeepsNoReward /\ OnlyFullRefundReverses /\ RewardsMatchReferral
      /\ QualifiesAsSeen /\ GrantedWhenDecided /\ AwardsCounted /\ LookupsCharged /\ EventsRecorded
      /\ referrals \in [Invitees -> ReferralRow] /\ rewardPoints \in [Invitees -> [Sides -> Int]]
      /\ refunded \in [Invitees -> 0 .. OrderTotal] /\ refundEvents \in [Invitees -> 0 .. OrderTotal]
  BY DEF ReferralInv, ReferralTypeOK
<1>1. UNCHANGED <<grants, capCounter, attempts, lookups, claims, completion, qualifying, referralDay>>
  BY DEF RefundOrder, ConsumeRefund
<1>2. AwardsCounted' /\ LookupsCharged'
  BY <1>0, <1>1 DEF AwardsCounted, AwardedIn, LookupsCharged, Charged
<1>3. CASE RefundOrder(i)
  <2>1. /\ UNCHANGED <<referrals, rewardPoints>> /\ refunded[i] < OrderTotal /\ qualifying[i] = "no"
        /\ refunded' = [refunded EXCEPT ![i] = @ + 1] /\ refundEvents' = [refundEvents EXCEPT ![i] = @ + 1]
    BY <1>3 DEF RefundOrder, OrderLocked
  <2>2. /\ refunded[i] \in 0 .. OrderTotal /\ refundEvents[i] \in 0 .. OrderTotal /\ refundEvents[i] <= refunded[i]
    BY <1>0 DEF EventsRecorded
  <2>3. /\ refunded' \in [Invitees -> 0 .. OrderTotal] /\ refundEvents' \in [Invitees -> 0 .. OrderTotal]
        /\ refunded'[i] = refunded[i] + 1 /\ refundEvents'[i] = refundEvents[i] + 1
        /\ \A j \in Invitees : j # i => refunded'[j] = refunded[j] /\ refundEvents'[j] = refundEvents[j]
    BY <1>0, <2>1, <2>2, ReferralNumbers
  <2>4. ReferralTypeOK' /\ EventsRecorded'
    BY <1>0, <1>1, <2>1, <2>2, <2>3 DEF ReferralTypeOK, EventsRecorded
  <2>5. RefundedKeepsNoReward' /\ GrantedWhenDecided'
    BY <1>0, <1>1, <2>1, <2>2, <2>3 DEF RefundedKeepsNoReward, FullyRefunded, GrantedWhenDecided
  <2>6. OnlyFullRefundReverses' /\ QualifiesAsSeen'
    BY <1>0, <1>1, <2>1, <2>3, ReferralNumbers DEF OnlyFullRefundReverses, FullyRefunded, QualifiesAsSeen
  <2>7. RewardsMatchReferral'
    BY <1>0, <1>1, <2>1 DEF RewardsMatchReferral
  <2> QED
    BY <1>2, <2>4, <2>5, <2>6, <2>7 DEF ReferralInv
<1>4. ASSUME NEW redelivered \in BOOLEAN, ConsumeRefund(i, redelivered) PROVE ReferralInv'
  <2>1. /\ refundEvents[i] > 0 /\ refunded' = refunded
        /\ refundEvents' = IF redelivered THEN refundEvents ELSE [refundEvents EXCEPT ![i] = @ - 1]
    BY <1>4 DEF ConsumeRefund
  <2>2. /\ refundEvents[i] \in 0 .. OrderTotal
        /\ refundEvents' \in [Invitees -> 0 .. OrderTotal] /\ refundEvents'[i] <= refundEvents[i]
        /\ \A j \in Invitees : j # i => refundEvents'[j] = refundEvents[j]
    BY <1>0, <2>1, ReferralNumbers
  <2>3. EventsRecorded'
    BY <1>0, <2>1, <2>2 DEF EventsRecorded
  <2>4. CASE Reverses(i)
    <3>1. /\ FullyRefunded(i) /\ referrals[i].status = "qualified"
          /\ referrals' = [referrals EXCEPT ![i].status = "reversed"]
          /\ rewardPoints' = [rewardPoints EXCEPT ![i] =
               [s \in Sides |-> IF s = "referee" \/ grants[i].outcome = "awarded" THEN @[s] - 1 ELSE @[s]]]
      BY <1>4, <2>4 DEF ConsumeRefund, Reverses
    <3>2. /\ referrals' \in [Invitees -> ReferralRow] /\ referrals'[i].status = "reversed"
          /\ \A j \in Invitees : j # i => referrals'[j] = referrals[j]
      BY <1>0, <3>1 DEF ReferralRow
    <3>3. rewardPoints[i] = [s \in Sides |-> IF s = "referee" \/ grants[i].outcome = "awarded" THEN 1 ELSE 0]
      BY <1>0, <3>1 DEF RewardsMatchReferral
    <3>4. /\ rewardPoints'[i] = [s \in Sides |-> 0]
          /\ \A j \in Invitees : j # i => rewardPoints'[j] = rewardPoints[j]
          /\ rewardPoints' \in [Invitees -> [Sides -> Int]]
      <4> DEFINE paid == [s \in Sides |-> IF s = "referee" \/ grants[i].outcome = "awarded"
                                          THEN rewardPoints[i][s] - 1 ELSE rewardPoints[i][s]]
      <4>1. paid = [s \in Sides |-> 0]
        BY <3>3
      <4>2. rewardPoints' = [rewardPoints EXCEPT ![i] = paid]
        BY <3>1
      <4> QED
        BY <1>0, <4>1, <4>2
    <3>5. ReferralTypeOK'
      BY <1>0, <1>1, <2>1, <2>2, <3>2, <3>4 DEF ReferralTypeOK
    <3>6. RefundedKeepsNoReward' /\ OnlyFullRefundReverses'
      BY <1>0, <2>1, <2>2, <3>1, <3>2 DEF RefundedKeepsNoReward, OnlyFullRefundReverses, FullyRefunded
    <3>7. QualifiesAsSeen' /\ GrantedWhenDecided'
      BY <1>0, <1>1, <2>1, <3>1, <3>2 DEF QualifiesAsSeen, GrantedWhenDecided, FullyRefunded
    <3>8. RewardsMatchReferral'
      <4> SUFFICES ASSUME NEW j \in Invitees
                   PROVE  rewardPoints'[j] = [s \in Sides |->
                            IF referrals'[j].status = "qualified" /\ (s = "referee" \/ grants'[j].outcome = "awarded")
                            THEN 1 ELSE 0]
        BY DEF RewardsMatchReferral
      <4>1. CASE j = i
        BY <3>2, <3>4, <4>1
      <4>2. CASE j # i
        BY <1>0, <1>1, <3>2, <3>4, <4>2 DEF RewardsMatchReferral
      <4> QED
        BY <4>1, <4>2
    <3> QED
      BY <1>2, <2>3, <3>5, <3>6, <3>7, <3>8 DEF ReferralInv
  <2>5. CASE ~Reverses(i)
    <3>1. UNCHANGED <<referrals, rewardPoints>>
      BY <1>4, <2>5 DEF ConsumeRefund
    <3>2. ReferralTypeOK' /\ RewardsMatchReferral'
      BY <1>0, <1>1, <2>1, <2>2, <3>1 DEF ReferralTypeOK, RewardsMatchReferral
    <3>3. RefundedKeepsNoReward'
      BY <1>0, <2>1, <2>2, <2>5, <3>1 DEF RefundedKeepsNoReward, Reverses, FullyRefunded
    <3>4. OnlyFullRefundReverses' /\ QualifiesAsSeen' /\ GrantedWhenDecided'
      BY <1>0, <1>1, <2>1, <3>1 DEF OnlyFullRefundReverses, QualifiesAsSeen, GrantedWhenDecided, FullyRefunded
    <3> QED
      BY <1>2, <2>3, <3>2, <3>3, <3>4 DEF ReferralInv
  <2> QED
    BY <2>4, <2>5
<1> QED
  BY <1>3, <1>4

\* A day passes, with a fresh allowance of attempts.
LEMMA ReferralDays == ReferralInv /\ (ReferralTick \/ UNCHANGED referralVars) => ReferralInv'
<1> SUFFICES ASSUME ReferralInv, ReferralTick \/ UNCHANGED referralVars PROVE ReferralInv'
  OBVIOUS
<1>0. ReferralTypeOK /\ LookupsCharged /\ referralDay \in 0 .. MaxReferralDay
  BY DEF ReferralInv, ReferralTypeOK
<1>1. UNCHANGED <<referrals, grants, rewardPoints, capCounter, lookups, claims, completion, refunded, refundEvents, qualifying>>
  BY DEF ReferralTick, referralVars
<1>2. \/ referralDay' = referralDay /\ attempts' = attempts
      \/ /\ referralDay < MaxReferralDay /\ referralDay' = referralDay + 1
         /\ attempts' = [j \in Invitees |-> 0]
  BY DEF ReferralTick, referralVars
<1>3. ReferralTypeOK'
  <2>1. referralDay' \in 0 .. MaxReferralDay /\ attempts' \in [Invitees -> 0 .. ClaimsPerHour]
    BY <1>0, <1>2, ReferralNumbers DEF ReferralTypeOK
  <2> QED
    BY <1>0, <1>1, <2>1 DEF ReferralTypeOK
<1>4. LookupsCharged'
  <2> SUFFICES ASSUME NEW j \in Invitees
               PROVE  lookups'[j] + Charged(j)' <= ClaimsPerHour * referralDay' + attempts'[j]
    BY DEF LookupsCharged
  <2>1. /\ lookups[j] + Charged(j) <= ClaimsPerHour * referralDay + attempts[j]
        /\ lookups[j] \in Nat /\ attempts[j] \in 0 .. ClaimsPerHour /\ Charged(j) \in Nat
        /\ ClaimsPerHour * referralDay \in Nat /\ referralDay \in Nat
    BY <1>0, ReferralNumbers DEF LookupsCharged, Charged, ReferralTypeOK
  <2>2. Charged(j)' = Charged(j) /\ lookups'[j] = lookups[j]
    BY <1>1 DEF Charged
  <2>3. CASE referralDay' = referralDay /\ attempts' = attempts
    BY <2>1, <2>2, <2>3
  <2>4. CASE referralDay' = referralDay + 1 /\ attempts'[j] = 0
    <3>1. /\ ClaimsPerHour * referralDay + ClaimsPerHour <= ClaimsPerHour * referralDay'
          /\ ClaimsPerHour * referralDay' \in Nat
      BY <2>1, <2>4, ReferralNumbers, TimesGrows
    <3> QED
      BY <2>1, <2>2, <2>4, <3>1, ReferralNumbers
  <2> QED
    BY <1>2, <2>3, <2>4
<1> QED
  BY <1>1, <1>3, <1>4 DEF ReferralInv, RefundedKeepsNoReward, OnlyFullRefundReverses, RewardsMatchReferral,
       QualifiesAsSeen, GrantedWhenDecided, AwardsCounted, AwardedIn, EventsRecorded, FullyRefunded

\* Rewards are paid for a qualified referral within the cap and gone for a refunded
\* one, however completions and refunds are delivered and whatever a handler does
\* when it dies; and codes are looked up no faster than the allowance.
THEOREM RewardsFollow == ReferralSpec => []RewardsFollowReferrals
<1>1. ReferralInv /\ [ReferralNext]_referralVars => ReferralInv'
  BY ClaimSteps, CompletionSteps, CommitSteps, RefundSteps, ReferralDays DEF ReferralNext
<1>2. ReferralInv => RewardsFollowReferrals
  <2> SUFFICES ASSUME ReferralInv PROVE RewardsFollowReferrals
    OBVIOUS
  <2>1. ReferralCapHolds
    <3> SUFFICES ASSUME NEW m \in Months PROVE Cardinality(AwardedIn(m)) <= ReferralCap
      BY DEF ReferralCapHolds, AwardedIn
    <3>1. /\ Cardinality(AwardedIn(m)) <= capCounter[m] /\ capCounter[m] \in 0 .. ReferralCap
          /\ AwardedIn(m) \subseteq Invitees
      BY DEF ReferralInv, ReferralTypeOK, AwardsCounted, AwardedIn
    <3>2. Cardinality(AwardedIn(m)) \in Nat
      BY <3>1, ReferralNumbers, FS_Subset, FS_CardinalityType
    <3> QED
      BY <3>1, <3>2, ReferralNumbers
  <2>2. GuessingIsBounded
    <3> SUFFICES ASSUME NEW i \in Invitees PROVE lookups[i] <= ClaimsPerHour * (referralDay + 1)
      BY DEF GuessingIsBounded
    <3>1. /\ lookups[i] + Charged(i) <= ClaimsPerHour * referralDay + attempts[i] /\ lookups[i] \in Nat
          /\ attempts[i] \in 0 .. ClaimsPerHour /\ Charged(i) \in Nat /\ referralDay \in Nat
      BY ReferralNumbers DEF ReferralInv, ReferralTypeOK, LookupsCharged, Charged
    <3>2. /\ ClaimsPerHour * referralDay + ClaimsPerHour <= ClaimsPerHour * (referralDay + 1)
          /\ ClaimsPerHour * referralDay \in Nat /\ ClaimsPerHour * (referralDay + 1) \in Nat
      BY <3>1, ReferralNumbers, TimesGrows
    <3> QED
      BY <3>1, <3>2, ReferralNumbers
  <2> QED
    BY <2>1, <2>2 DEF ReferralInv, RewardsFollowReferrals
<1> QED
  BY <1>1, <1>2, ReferralBegins, PTL DEF ReferralSpec


(* Analytics: the inductive invariant.                                     *)

RollupRow == [read : [Days -> Nat], toWrite : SUBSET Days]
EventsOf(day) == {e \in FactEvents : occurredOn[e] = day}

\* An event has one row at most, and that after it occurred.
FactsOnce == \A e \in FactEvents : facts[e] \in {0, 1} /\ (facts[e] = 1 => occurredOn[e] # Never)

\* Neither a metric nor what a run has read counts more than the events of the day.
ReadsBounded ==
  \A d \in Days : /\ metric[d] <= Cardinality(EventsOf(d))
                  /\ \A r \in RollupRuns : rollup[r].read[d] <= Cardinality(EventsOf(d))

\* What a run is to write of a day is what the day counts, unless a fact came in
\* since or another run overlapped.
ReadsFresh ==
  \A d \in Days \ (changed \union overtaken) : \A r \in RollupRuns :
    d \in rollup[r].toWrite => rollup[r].read[d] = CountOn(d)

AnalyticsInv ==
  /\ AnalyticsTypeOK /\ rollup \in [RollupRuns -> RollupRow]
  /\ FactsOnce /\ ReadsBounded /\ ReadsFresh /\ RollupExact

\* The events of a day are finitely many, and so are the rows, which are no more.
LEMMA RowsOfEvents ==
  ASSUME FactsOnce, NEW d \in Days
  PROVE  /\ Cardinality(EventsOf(d)) \in Nat /\ CountOn(d) \in Nat
         /\ CountOn(d) <= Cardinality(EventsOf(d))
<1> DEFINE counted == {e \in EventsOf(d) : facts[e] = 1}
           row == [e \in counted |-> <<e, 1>>]
<1>1. /\ counted \subseteq EventsOf(d) /\ EventsOf(d) \subseteq FactEvents /\ IsFiniteSet(FactEvents)
  BY AnalyticsAssumption DEF EventsOf
<1>2. /\ IsFiniteSet(EventsOf(d)) /\ IsFiniteSet(counted)
      /\ Cardinality(EventsOf(d)) \in Nat /\ Cardinality(counted) \in Nat
      /\ Cardinality(counted) <= Cardinality(EventsOf(d))
  BY <1>1, FS_Subset, FS_CardinalityType
<1>3. row \in Surjection(counted, FactRows(d))
  <2>1. ASSUME NEW e \in counted PROVE row[e] \in FactRows(d)
    BY <2>1 DEF EventsOf, FactRows
  <2>2. ASSUME NEW x \in FactRows(d) PROVE \E e \in counted : row[e] = x
    <3>1. PICK e \in FactEvents, n \in 1 .. 2 : x = <<e, n>>
      BY <2>2 DEF FactRows
    <3>2. occurredOn[e] = d /\ n <= facts[e]
      BY <2>2, <3>1 DEF FactRows
    <3>3. n = 1 /\ facts[e] = 1
      BY <3>1, <3>2 DEF FactsOnce
    <3>4. e \in counted
      BY <3>2, <3>3 DEF EventsOf
    <3> QED
      BY <3>1, <3>3, <3>4
  <2> QED
    BY <2>1, <2>2 DEF Surjection
<1> HIDE DEF row, counted
<1>4. IsFiniteSet(FactRows(d)) /\ Cardinality(FactRows(d)) <= Cardinality(counted)
  BY <1>2, <1>3, FS_Surjection
<1>5. Cardinality(FactRows(d)) \in Nat
  BY <1>4, FS_CardinalityType
<1> QED
  BY <1>2, <1>4, <1>5 DEF CountOn

\* The rows of a day depend on the facts dated to it.
LEMMA SameCount ==
  ASSUME NEW d \in Days, \A e \in FactEvents : facts[e] # 0 \/ facts'[e] # 0 =>
           (facts'[e] = facts[e] /\ occurredOn'[e] = occurredOn[e]) \/ (occurredOn[e] # d /\ occurredOn'[e] # d),
         \A e \in FactEvents : facts[e] \in 0 .. 2 /\ facts'[e] \in 0 .. 2
  PROVE  CountOn(d)' = CountOn(d)
<1>1. ASSUME NEW e \in FactEvents, NEW n \in 1 .. 2
      PROVE  (occurredOn'[e] = d /\ n <= facts'[e]) <=> (occurredOn[e] = d /\ n <= facts[e])
  <2>1. CASE facts[e] = 0 /\ facts'[e] = 0
    BY <1>1, <2>1
  <2>2. CASE ~(facts[e] = 0 /\ facts'[e] = 0)
    BY <1>1, <2>2
  <2> QED
    BY <2>1, <2>2
<1>2. FactRows(d)' = FactRows(d)
  BY <1>1 DEF FactRows
<1> QED
  BY <1>2 DEF CountOn

\* Nothing has occurred.
LEMMA AnalyticsBegins == AnalyticsInit => AnalyticsInv
<1> SUFFICES ASSUME AnalyticsInit PROVE AnalyticsInv
  OBVIOUS
<1>0. LastDay \in Nat /\ 0 \in Days /\ Days \subseteq Nat /\ Never \notin Days /\ Never \in 0 .. Never
  BY AnalyticsAssumption DEF Days, Never
<1>1. AnalyticsTypeOK /\ rollup \in [RollupRuns -> RollupRow]
  BY <1>0 DEF AnalyticsInit, AnalyticsTypeOK, RollupRow
<1>2. FactsOnce /\ ReadsFresh
  BY DEF AnalyticsInit, FactsOnce, ReadsFresh
<1>3. ReadsBounded
  <2> SUFFICES ASSUME NEW d \in Days PROVE 0 <= Cardinality(EventsOf(d))
    BY DEF AnalyticsInit, ReadsBounded
  <2> QED
    BY <1>2, RowsOfEvents
<1>4. RollupExact
  <2> SUFFICES ASSUME NEW d \in Days PROVE metric[d] = CountOn(d)
    BY DEF RollupExact
  <2>1. FactRows(d) = {}
    BY DEF AnalyticsInit, FactRows
  <2> QED
    BY <2>1, FS_EmptySet DEF CountOn, AnalyticsInit
<1> QED
  BY <1>1, <1>2, <1>3, <1>4 DEF AnalyticsInv

\* An event occurs and its fact is ingested, whatever the day of the rollups.
LEMMA FactSteps ==
  ASSUME AnalyticsInv, NEW e \in FactEvents, FactOccurs(e) \/ Ingest(e)
  PROVE  AnalyticsInv'
<1>0. /\ AnalyticsTypeOK /\ rollup \in [RollupRuns -> RollupRow] /\ FactsOnce /\ ReadsBounded /\ ReadsFresh /\ RollupExact
      /\ LastDay \in Nat /\ Never \notin Days /\ Never \in 0 .. Never /\ Days \subseteq 0 .. Never
      /\ occurredOn \in [FactEvents -> 0 .. Never] /\ facts \in [FactEvents -> 0 .. 2] /\ calendar \in Days
      /\ metric \in [Days -> Nat]
  BY AnalyticsAssumption DEF AnalyticsInv, AnalyticsTypeOK, Days, Never
<1>1. UNCHANGED <<calendar, metric, rollup, overtaken>>
  BY DEF FactOccurs, Ingest
<1>2. /\ occurredOn' \in [FactEvents -> 0 .. Never] /\ facts' \in [FactEvents -> 0 .. 2]
      /\ changed \subseteq changed' /\ changed' \subseteq Days
      /\ \A f \in FactEvents : occurredOn[f] \in Days => occurredOn'[f] = occurredOn[f]
      /\ FactsOnce'
      /\ \A d \in Days \ changed' : \A f \in FactEvents : facts[f] # 0 \/ facts'[f] # 0 =>
           (facts'[f] = facts[f] /\ occurredOn'[f] = occurredOn[f]) \/ (occurredOn[f] # d /\ occurredOn'[f] # d)
  <2>1. CASE FactOccurs(e)
    <3>1. /\ occurredOn[e] = Never /\ occurredOn' = [occurredOn EXCEPT ![e] = calendar] /\ UNCHANGED <<facts, changed>>
      BY <2>1 DEF FactOccurs
    <3>2. facts[e] = 0
      BY <1>0, <3>1 DEF FactsOnce
    <3> QED
      BY <1>0, <3>1, <3>2 DEF FactsOnce, AnalyticsTypeOK
  <2>2. CASE Ingest(e)
    <3>1. /\ occurredOn[e] # Never /\ facts[e] = 0 /\ facts' = [facts EXCEPT ![e] = 1]
          /\ changed' = changed \union {occurredOn[e]} /\ occurredOn' = occurredOn
      BY <1>0, <2>2 DEF Ingest, InsertsFact
    <3>2. occurredOn[e] \in Days
      BY <1>0, <3>1 DEF Days, Never
    <3>3. /\ facts' \in [FactEvents -> 0 .. 2] /\ facts'[e] = 1
          /\ \A f \in FactEvents : f # e => facts'[f] = facts[f]
      BY <1>0, <3>1
    <3>4. changed \subseteq changed' /\ changed' \subseteq Days /\ occurredOn[e] \in changed'
      BY <1>0, <3>1, <3>2 DEF AnalyticsTypeOK
    <3>5. FactsOnce'
      BY <1>0, <3>1, <3>3 DEF FactsOnce
    <3> QED
      BY <1>0, <3>1, <3>3, <3>4, <3>5
  <2> QED
    BY <2>1, <2>2
<1>3. \A d \in Days \ changed' : CountOn(d)' = CountOn(d)
  <2> SUFFICES ASSUME NEW d \in Days \ changed' PROVE CountOn(d)' = CountOn(d)
    OBVIOUS
  <2> QED
    BY <1>0, <1>2, SameCount
<1>4. AnalyticsTypeOK' /\ rollup' \in [RollupRuns -> RollupRow]
  BY <1>0, <1>1, <1>2 DEF AnalyticsTypeOK
<1>5. ReadsBounded'
  <2>1. ASSUME NEW d \in Days PROVE Cardinality(EventsOf(d)) <= Cardinality(EventsOf(d)') /\ Cardinality(EventsOf(d)') \in Nat
                                    /\ Cardinality(EventsOf(d)) \in Nat
    <3>1. EventsOf(d) \subseteq EventsOf(d)' /\ EventsOf(d)' \subseteq FactEvents /\ IsFiniteSet(FactEvents)
      BY <1>2, AnalyticsAssumption DEF EventsOf
    <3>2. IsFiniteSet(EventsOf(d)')
      BY <3>1, FS_Subset
    <3> QED
      BY <3>1, <3>2, FS_Subset, FS_CardinalityType
  <2>2. ASSUME NEW d \in Days, NEW r \in RollupRuns PROVE rollup[r].read[d] \in Nat
    BY <1>0 DEF RollupRow
  <2>3. ASSUME NEW d \in Days PROVE metric'[d] <= Cardinality(EventsOf(d)')
    BY <1>0, <1>1, <2>1 DEF ReadsBounded
  <2>4. ASSUME NEW d \in Days, NEW r \in RollupRuns PROVE rollup'[r].read[d] <= Cardinality(EventsOf(d)')
    BY <1>0, <1>1, <2>1, <2>2 DEF ReadsBounded
  <2> QED
    BY <2>3, <2>4 DEF ReadsBounded
<1>6. ReadsFresh' /\ RollupExact'
  BY <1>0, <1>1, <1>2, <1>3 DEF ReadsFresh, RollupExact
<1> QED
  BY <1>2, <1>4, <1>5, <1>6 DEF AnalyticsInv

\* A run reads its window, writes a day of it, or fails; midnight passes.
LEMMA RollupSteps ==
  ASSUME AnalyticsInv,
         \/ \E r \in RollupRuns : ReadWindow(r) \/ RollupFails(r) \/ \E day \in Days : WriteDay(r, day)
         \/ Midnight \/ UNCHANGED analyticsVars
  PROVE  AnalyticsInv'
<1>0. /\ AnalyticsTypeOK /\ rollup \in [RollupRuns -> RollupRow] /\ FactsOnce /\ ReadsBounded /\ ReadsFresh /\ RollupExact
      /\ metric \in [Days -> Nat] /\ changed \subseteq Days /\ overtaken \subseteq Days
  BY DEF AnalyticsInv, AnalyticsTypeOK
<1>1. UNCHANGED <<occurredOn, facts>>
  BY DEF ReadWindow, RollupFails, WriteDay, Midnight, analyticsVars
<1>2. \A d \in Days : CountOn(d)' = CountOn(d) /\ EventsOf(d)' = EventsOf(d)
  BY <1>1 DEF CountOn, FactRows, EventsOf
<1>3. FactsOnce'
  BY <1>0, <1>1 DEF FactsOnce
<1>4. ASSUME NEW r \in RollupRuns, ReadWindow(r) PROVE AnalyticsInv'
  <2> DEFINE window == {d \in Window : CountOn(d) > 0}
             reads == [d \in Days |-> CountOn(d)]
  <2>1. /\ rollup[r].toWrite = {} /\ UNCHANGED <<calendar, metric>>
        /\ rollup' = [rollup EXCEPT ![r] = [read |-> reads, toWrite |-> window]]
        /\ changed' = changed \ window
        /\ overtaken' = (overtaken \ window)
                          \union {d \in window : \E q \in RollupRuns \ {r} : d \in rollup[q].toWrite}
    BY <1>4 DEF ReadWindow, Busy
  <2>2. window \subseteq Days /\ reads \in [Days -> Nat]
    BY <1>0, RowsOfEvents DEF Window
  <2>3. \A d \in Days : reads[d] = CountOn(d)
    OBVIOUS
  <2> HIDE DEF window, reads
  <2>4. /\ rollup' \in [RollupRuns -> RollupRow] /\ rollup'[r].read = reads /\ rollup'[r].toWrite = window
        /\ \A q \in RollupRuns : q # r => rollup'[q] = rollup[q]
    BY <1>0, <2>1, <2>2 DEF RollupRow
  <2>5. AnalyticsTypeOK'
    BY <1>0, <1>1, <2>1, <2>2, <2>4 DEF AnalyticsTypeOK, RollupRow
  <2>6. ReadsBounded'
    <3>1. \A d \in Days : reads[d] <= Cardinality(EventsOf(d))
      BY <1>0, <2>3, RowsOfEvents
    <3> QED
      BY <1>0, <1>2, <2>1, <2>4, <3>1 DEF ReadsBounded
  <2>7. ReadsFresh'
    <3> SUFFICES ASSUME NEW d \in Days, d \notin changed', d \notin overtaken', NEW q \in RollupRuns, d \in rollup'[q].toWrite
                 PROVE  rollup'[q].read[d] = CountOn(d)'
      BY DEF ReadsFresh
    <3>1. CASE q = r
      BY <1>2, <2>3, <2>4, <3>1
    <3>2. CASE q # r
      <4>1. d \notin window
        BY <2>1, <2>4, <3>2
      <4> QED
        BY <1>0, <1>2, <2>1, <2>4, <3>2, <4>1 DEF ReadsFresh
    <3> QED
      BY <3>1, <3>2
  <2>8. RollupExact'
    <3> SUFFICES ASSUME NEW d \in Days, d \notin changed', d \notin overtaken',
                        \A q \in RollupRuns : d \notin rollup'[q].toWrite
                 PROVE  metric'[d] = CountOn(d)'
      BY DEF RollupExact
    <3>1. d \notin window /\ \A q \in RollupRuns : d \notin rollup[q].toWrite
      BY <2>1, <2>4
    <3> QED
      BY <1>0, <1>2, <2>1, <3>1 DEF RollupExact
  <2> QED
    BY <1>3, <2>4, <2>5, <2>6, <2>7, <2>8 DEF AnalyticsInv
<1>5. ASSUME NEW r \in RollupRuns, RollupFails(r) PROVE AnalyticsInv'
  <2>1. /\ rollup' = [rollup EXCEPT ![r].toWrite = {}] /\ changed' = changed \union rollup[r].toWrite
        /\ UNCHANGED <<calendar, metric, overtaken>>
    BY <1>5 DEF RollupFails
  <2>2. /\ rollup' \in [RollupRuns -> RollupRow] /\ rollup'[r].toWrite = {} /\ rollup'[r].read = rollup[r].read
        /\ \A q \in RollupRuns : q # r => rollup'[q] = rollup[q]
    BY <1>0, <2>1 DEF RollupRow
  <2>3. AnalyticsTypeOK'
    BY <1>0, <1>1, <2>1, <2>2 DEF AnalyticsTypeOK, RollupRow
  <2>4. ReadsBounded'
    BY <1>0, <1>2, <2>1, <2>2 DEF ReadsBounded
  <2>5. ReadsFresh'
    BY <1>0, <1>2, <2>1, <2>2 DEF ReadsFresh
  <2>6. RollupExact'
    <3> SUFFICES ASSUME NEW d \in Days, d \notin changed', d \notin overtaken',
                        \A q \in RollupRuns : d \notin rollup'[q].toWrite
                 PROVE  metric'[d] = CountOn(d)'
      BY DEF RollupExact
    <3>1. \A q \in RollupRuns : d \notin rollup[q].toWrite
      BY <2>1, <2>2
    <3> QED
      BY <1>0, <1>2, <2>1, <3>1 DEF RollupExact
  <2> QED
    BY <1>3, <2>2, <2>3, <2>4, <2>5, <2>6 DEF AnalyticsInv
<1>6. ASSUME NEW r \in RollupRuns, NEW day \in Days, WriteDay(r, day) PROVE AnalyticsInv'
  <2>1. /\ day \in rollup[r].toWrite /\ metric' = [metric EXCEPT ![day] = rollup[r].read[day]]
        /\ rollup' = [rollup EXCEPT ![r].toWrite = @ \ {day}] /\ UNCHANGED <<calendar, changed, overtaken>>
    BY <1>6 DEF WriteDay, Replaced
  <2>2. /\ rollup' \in [RollupRuns -> RollupRow] /\ rollup'[r].toWrite = rollup[r].toWrite \ {day}
        /\ rollup'[r].read = rollup[r].read /\ \A q \in RollupRuns : q # r => rollup'[q] = rollup[q]
    BY <1>0, <2>1 DEF RollupRow
  <2>3. /\ metric' \in [Days -> Nat] /\ metric'[day] = rollup[r].read[day]
        /\ \A d \in Days : d # day => metric'[d] = metric[d]
    BY <1>0, <2>1 DEF RollupRow
  <2>4. AnalyticsTypeOK'
    BY <1>0, <1>1, <2>1, <2>2, <2>3 DEF AnalyticsTypeOK, RollupRow
  <2>5. ReadsBounded'
    BY <1>0, <1>2, <2>2, <2>3 DEF ReadsBounded
  <2>6. ReadsFresh'
    BY <1>0, <1>2, <2>1, <2>2 DEF ReadsFresh
  <2>7. RollupExact'
    <3> SUFFICES ASSUME NEW d \in Days, d \notin changed', d \notin overtaken',
                        \A q \in RollupRuns : d \notin rollup'[q].toWrite
                 PROVE  metric'[d] = CountOn(d)'
      BY DEF RollupExact
    <3>1. CASE d = day
      BY <1>0, <1>2, <2>1, <2>3, <3>1 DEF ReadsFresh
    <3>2. CASE d # day
      <4>1. \A q \in RollupRuns : d \notin rollup[q].toWrite
        BY <2>2, <3>2
      <4> QED
        BY <1>0, <1>2, <2>1, <2>3, <3>2, <4>1 DEF RollupExact
    <3> QED
      BY <3>1, <3>2
  <2> QED
    BY <1>3, <2>2, <2>4, <2>5, <2>6, <2>7 DEF AnalyticsInv
<1>7. CASE Midnight \/ UNCHANGED analyticsVars
  <2>1. UNCHANGED <<metric, rollup, changed, overtaken>> /\ calendar' \in Days
    BY <1>0, <1>7, AnalyticsAssumption DEF Midnight, analyticsVars, AnalyticsTypeOK, Days
  <2>2. AnalyticsTypeOK' /\ rollup' \in [RollupRuns -> RollupRow]
    BY <1>0, <1>1, <2>1 DEF AnalyticsTypeOK
  <2>3. ReadsBounded' /\ ReadsFresh' /\ RollupExact'
    BY <1>0, <1>2, <2>1 DEF ReadsBounded, ReadsFresh, RollupExact
  <2> QED
    BY <1>3, <2>2, <2>3 DEF AnalyticsInv
<1> QED
  BY <1>4, <1>5, <1>6, <1>7

\* However facts arrive and rollups overlap or fail, a metric never counts an event
\* twice, and a day that no overlap touched and no late fact changed is exact.
THEOREM EventsCountOnce == AnalyticsSpec => []MetricsCountOnce
<1>1. AnalyticsInv /\ [AnalyticsNext]_analyticsVars => AnalyticsInv'
  BY FactSteps, RollupSteps DEF AnalyticsNext
<1>2. AnalyticsInv => MetricsCountOnce
  BY DEF AnalyticsInv, MetricsCountOnce, ReadsBounded, NeverOvercounted, EventsOf
<1> QED
  BY <1>1, <1>2, AnalyticsBegins, PTL DEF AnalyticsSpec


(* The workplace: the inductive invariants.                                *)

AffiliationsApart == \A b, c \in Employers : affiliation[b] = "active" /\ affiliation[c] = "active" => b = c
StaffInv == StaffTypeOK /\ AffiliationsApart

AllotRow == [stage : {"idle", "choosing", "writing"}, at : Branches \union {Nowhere},
             left : SUBSET Units, held : SUBSET Units, pick : Units \union {NoUnit}]
OwnerRow == [doing : {"none", "retire", "close"}, on : Branches \union {Nowhere},
             units : SUBSET Units, held : SUBSET Units]
SeatRow == [status : {"none", "active", "released"}, unit : Units \union {NoUnit},
            ended : BOOLEAN, moves : 0 .. MaxRebooked + 1]

\* A resource is locked by one transaction at most.
LocksApart ==
  /\ \A k, j \in Allotments : k # j => allot[k].held \cap allot[j].held = {}
  /\ \A b, c \in Businesses : b # c => owner[b].held \cap owner[c].held = {}
  /\ \A k \in Allotments, b \in Businesses : allot[k].held \cap owner[b].held = {}

\* What is still to lock comes after what is locked.
LocksOrdered ==
  /\ \A k \in Allotments : \A u \in allot[k].held, v \in allot[k].left : u < v
  /\ \A b \in Businesses : \A u \in owner[b].held, v \in owner[b].units \ owner[b].held : u < v

\* An assignment about to commit holds its resource, which is active.
PicksActive ==
  \A k \in Allotments : allot[k].stage = "writing" => allot[k].pick \in allot[k].held /\ unit[allot[k].pick] = "active"

BusinessInv == BusinessTypeOK /\ LocksApart /\ LocksOrdered /\ PicksActive /\ RetiredIsIdle

\* The staff of the professional changes in one business at a time.
LEMMA StaffSteps ==
  /\ StaffInit => StaffInv
  /\ StaffInv /\ [StaffNext]_staffVars => StaffInv'
  /\ StaffInv => OneAffiliation
<1>1. StaffInit => StaffInv
  BY DEF StaffInit, StaffInv, StaffTypeOK, AffiliationsApart
<1>2. ASSUME StaffInv, [StaffNext]_staffVars PROVE StaffInv'
  <2>0. StaffTypeOK /\ AffiliationsApart
    BY <1>2 DEF StaffInv
  <2>1. ASSUME NEW b \in Employers,
               Invite(b) \/ AcceptInvitation(b) \/ DeclineInvitation(b) \/ Deactivate(b)
        PROVE  StaffInv'
    BY <2>0, <2>1 DEF StaffInv, StaffTypeOK, AffiliationsApart, Invite, AcceptInvitation, AffiliationFree,
                      DeclineInvitation, Deactivate
  <2>2. ASSUME NEW b \in Employers, NEW r \in DutyRoles, GrantDuty(b, r) \/ RevokeDuty(b, r) PROVE StaffInv'
    BY <2>0, <2>2 DEF StaffInv, StaffTypeOK, AffiliationsApart, GrantDuty, RevokeDuty
  <2>3. CASE UNCHANGED staffVars
    BY <2>0, <2>3 DEF StaffInv, StaffTypeOK, AffiliationsApart, staffVars
  <2> QED
    BY <1>2, <2>1, <2>2, <2>3 DEF StaffNext
<1>3. ASSUME StaffInv PROVE OneAffiliation
  <2> DEFINE at == {b \in Employers : affiliation[b] = "active"}
  <2>1. at = {} \/ \E b \in at : at = {b}
    BY <1>3 DEF StaffInv, AffiliationsApart
  <2> HIDE DEF at
  <2>2. Cardinality({}) = 0 /\ \A b : Cardinality({b}) = 1
    BY FS_EmptySet, FS_Singleton
  <2>3. Cardinality(at) = 0 \/ Cardinality(at) = 1
    BY <2>1, <2>2
  <2> QED
    BY <2>3 DEF at, OneAffiliation
<1> QED
  BY <1>1, <1>2, <1>3

\* Every set of numbers has a least one.
LEMMA LeastNumber ==
  ASSUME NEW T \in SUBSET Nat, T # {}
  PROVE  \E x \in T : \A y \in T : x <= y
<1> DEFINE R == OpToRel(<, Nat)
<1>1. \A x, y \in Nat : x < y => <<x, y>> \in R
  BY DEF OpToRel
<1>2. IsWellFoundedOn(R, Nat)
  BY NatLessThanWellFounded
<1> HIDE DEF R
<1>3. \E x \in T : \A y \in T : ~(<<y, x>> \in R)
  BY <1>2, WFMin
<1>4. PICK x \in T : \A y \in T : <<y, x>> \notin R
  BY <1>3
<1>5. \A y \in T : ~(y < x)
  BY <1>1, <1>4
<1>6. \A a, b \in Nat : ~(b < a) => a <= b
  OBVIOUS
<1>7. \A y \in T : x <= y
  BY <1>5, <1>6
<1> QED
  BY <1>7

\* Among some of the resources there is a first one, and one that all others precede.
LEMMA FirstAndLast ==
  ASSUME NEW S \in SUBSET Units, S # {}
  PROVE  LowestFirst(S) # {} /\ \E u \in S : \A v \in S : v <= u
<1>0. S \in SUBSET Nat /\ Units \subseteq Nat /\ IsFiniteSet(Units)
  BY BusinessAssumption
<1>1. LowestFirst(S) # {}
  BY <1>0, LeastNumber DEF LowestFirst
<1> DEFINE From(v) == {w \in Units : v <= w}
           sizes == {Cardinality(From(v)) : v \in S}
<1>2. \A v \in S : IsFiniteSet(From(v)) /\ Cardinality(From(v)) \in Nat
  <2> SUFFICES ASSUME NEW v \in S PROVE IsFiniteSet(From(v)) /\ Cardinality(From(v)) \in Nat
    OBVIOUS
  <2>1. From(v) \subseteq Units
    OBVIOUS
  <2> HIDE DEF From
  <2> QED
    BY <1>0, <2>1, FS_Subset, FS_CardinalityType
<1>3. sizes \in SUBSET Nat /\ sizes # {}
  BY <1>2
<1>4. PICK n \in sizes : \A m \in sizes : n <= m
  <2> HIDE DEF sizes
  <2> QED
    BY <1>3, LeastNumber
<1>5. PICK x \in S : Cardinality(From(x)) = n
  BY DEF sizes
<1>6. ASSUME NEW v \in S, x < v PROVE FALSE
  <2>1. v \in Nat /\ x \in Nat /\ \A w \in Units : v <= w => x <= w
    BY <1>0, <1>6
  <2>2. From(v) \subseteq From(x) /\ x \in From(x) /\ x \notin From(v)
    <3>1. x \in Units /\ x <= x /\ ~(v <= x)
      BY <1>6, <2>1
    <3> QED
      BY <2>1, <3>1
  <2>3. Cardinality(From(v)) \in sizes
    OBVIOUS
  <2> HIDE DEF From, sizes
  <2>4. From(v) \subseteq From(x) \ {x}
    BY <2>2
  <2>5. IsFiniteSet(From(x) \ {x}) /\ Cardinality(From(x) \ {x}) = Cardinality(From(x)) - 1
    BY <1>2, <2>2, FS_RemoveElement
  <2>6. Cardinality(From(v)) <= Cardinality(From(x) \ {x})
    BY <2>4, <2>5, FS_Subset
  <2> QED
    BY <1>2, <1>4, <1>5, <2>3, <2>5, <2>6
<1> QED
  BY <1>0, <1>1, <1>6

\* What is held is held by an assignment or by an owner.
LEMMA HeldBySomebody ==
  \A u : u \in UnitsHeld <=> (\E k \in Allotments : u \in allot[k].held) \/ (\E b \in Businesses : u \in owner[b].held)
<1>1. \A u : u \in UnitsHeld <=> \/ \E S \in {owner[b].held : b \in Businesses} : u \in S
                                 \/ \E S \in {allot[k].held : k \in Allotments} : u \in S
  BY DEF UnitsHeld
<1> QED
  BY <1>1

\* The transaction that holds the last of the locked resources waits for nobody.
LEMMA LastHolderGoesOn == BusinessInv => NoCircularWait
<1> SUFFICES ASSUME BusinessInv, UnitsHeld # {}
             PROVE  \/ \E k \in Allotments : allot[k].held # {} /\ ~AllotWaits(k)
                    \/ \E b \in Businesses : owner[b].held # {} /\ ~OwnerWaits(b)
  BY DEF NoCircularWait
<1>0. /\ LocksOrdered /\ allot \in [Allotments -> AllotRow] /\ owner \in [Businesses -> OwnerRow] /\ Units \subseteq Nat
  BY BusinessAssumption DEF BusinessInv, BusinessTypeOK, AllotRow, OwnerRow
<1>1. UnitsHeld \in SUBSET Units
  BY <1>0, HeldBySomebody DEF AllotRow, OwnerRow
<1>2. PICK u \in UnitsHeld : \A v \in UnitsHeld : v <= u
  BY <1>1, FirstAndLast
<1>3. CASE \E k \in Allotments : u \in allot[k].held
  <2> PICK k \in Allotments : u \in allot[k].held
    BY <1>3
  <2>1. ~AllotWaits(k)
    <3> SUFFICES ASSUME AllotWaits(k) PROVE FALSE
      OBVIOUS
    <3>1. allot[k].left \in SUBSET Units /\ allot[k].left # {} /\ LowestFirst(allot[k].left) \subseteq UnitsHeld
      BY <1>0 DEF AllotWaits, AllotRow
    <3>2. PICK v \in LowestFirst(allot[k].left) : TRUE
      BY <3>1, FirstAndLast
    <3>3. v \in allot[k].left /\ v \in UnitsHeld
      BY <3>1 DEF LowestFirst
    <3>4. u < v /\ v <= u /\ u \in Nat /\ v \in Nat
      BY <1>0, <1>1, <1>2, <3>3 DEF LocksOrdered
    <3> QED
      BY <3>4
  <2> QED
    BY <2>1
<1>4. CASE \E b \in Businesses : u \in owner[b].held
  <2> PICK b \in Businesses : u \in owner[b].held
    BY <1>4
  <2>1. ~OwnerWaits(b)
    <3> SUFFICES ASSUME OwnerWaits(b) PROVE FALSE
      OBVIOUS
    <3>1. PICK v \in LowestFirst(owner[b].units \ owner[b].held) : v \in UnitsHeld
      BY DEF OwnerWaits
    <3>2. v \in owner[b].units \ owner[b].held
      BY DEF LowestFirst
    <3>3. u < v /\ v <= u /\ u \in Nat /\ v \in Nat
      BY <1>0, <1>1, <1>2, <3>1, <3>2 DEF LocksOrdered
    <3> QED
      BY <3>3
  <2> QED
    BY <2>1
<1> QED
  BY <1>2, <1>3, <1>4, HeldBySomebody

\* The workplace begins empty.
LEMMA BusinessBegins == BusinessInit => BusinessInv
<1> SUFFICES ASSUME BusinessInit PROVE BusinessInv
  OBVIOUS
<1>1. BusinessTypeOK
  BY BusinessAssumption DEF BusinessInit, BusinessTypeOK, NoChange, NotAllotting, NoSeat
<1>2. LocksApart /\ LocksOrdered /\ PicksActive
  BY DEF BusinessInit, LocksApart, LocksOrdered, PicksActive, NoChange, NotAllotting
<1>3. RetiredIsIdle
  BY DEF BusinessInit, RetiredIsIdle
<1> QED
  BY <1>1, <1>2, <1>3 DEF BusinessInv

\* The slot's branch is a branch, or none.
LEMMA DeliveredSomewhere == BusinessTypeOK => DeliveryLocation \in Branches \union {Nowhere}
<1> SUFFICES ASSUME BusinessTypeOK PROVE DeliveryLocation \in Branches \union {Nowhere}
  OBVIOUS
<1> DEFINE at == {binding[b] : b \in {c \in Businesses :
                    member[c] /\ binding[c] # Nowhere /\ branch[binding[c]] = "active"}}
<1>1. at \subseteq Branches
  BY DEF BusinessTypeOK
<1>2. DeliveryLocation = IF Cardinality(at) = 1 THEN CHOOSE l \in at : TRUE ELSE Nowhere
  BY DEF DeliveryLocation
<1> HIDE DEF at
<1>3. Cardinality(at) = 1 => at # {}
  BY FS_EmptySet
<1> QED
  BY <1>1, <1>2, <1>3

\* Members, branches, resources to come and slots: no lock, assignment or active
\* resource is touched.
LEMMA PlaceSteps ==
  ASSUME BusinessInv,
         \/ \E b \in Businesses : \/ Join(b) \/ Leave(b)
                                  \/ \E l \in Branches \union {Nowhere} : BindBranch(b, l)
                                  \/ \E kind \in Kinds \union {NoKind} : RequireKind(b, kind)
         \/ \E l \in Branches : OpenBranch(l) \/ Suspend(l) \/ Reactivate(l)
         \/ \E u \in Units : AddUnit(u)
         \/ \E o \in Openings : MakeOpening(o)
         \/ UNCHANGED businessVars
  PROVE  BusinessInv'
<1>0. BusinessTypeOK /\ LocksApart /\ LocksOrdered /\ PicksActive /\ RetiredIsIdle
  BY DEF BusinessInv
<1>1. UNCHANGED <<owner, allot, seat>>
  BY DEF Join, Leave, BindBranch, RequireKind, OpenBranch, Suspend, Reactivate, AddUnit, MakeOpening,
         businessVars, assigningVars, premisesVars, placeVars
<1> DEFINE UnitsKept == \A u \in Units : unit'[u] = unit[u] \/ (unit[u] = "absent" /\ unit'[u] = "active")
           Placed == BusinessTypeOK' /\ UnitsKept
<1>2. ASSUME NEW b \in Businesses, Join(b) \/ Leave(b) PROVE Placed
  BY <1>0, <1>1, <1>2 DEF BusinessTypeOK, Join, Leave, premisesVars, assigningVars
<1>3. ASSUME NEW b \in Businesses, NEW l \in Branches \union {Nowhere}, BindBranch(b, l) PROVE Placed
  BY <1>0, <1>1, <1>3 DEF BusinessTypeOK, BindBranch, premisesVars, assigningVars
<1>4. ASSUME NEW b \in Businesses, NEW kind \in Kinds \union {NoKind}, RequireKind(b, kind) PROVE Placed
  BY <1>0, <1>1, <1>4 DEF BusinessTypeOK, RequireKind, placeVars, assigningVars
<1>5. ASSUME NEW l \in Branches, OpenBranch(l) \/ Suspend(l) \/ Reactivate(l) PROVE Placed
  BY <1>0, <1>1, <1>5 DEF BusinessTypeOK, OpenBranch, Suspend, Reactivate, placeVars, assigningVars
<1>6. ASSUME NEW u \in Units, AddUnit(u) PROVE Placed
  BY <1>0, <1>1, <1>6 DEF BusinessTypeOK, AddUnit, placeVars, assigningVars
<1>7. ASSUME NEW o \in Openings, MakeOpening(o) PROVE Placed
  <2>1. opening' = [opening EXCEPT ![o] = DeliveryLocation] /\ UNCHANGED <<placeVars, premisesVars>>
    BY <1>7 DEF MakeOpening
  <2>2. DeliveryLocation \in Branches \union {Nowhere}
    BY <1>0, DeliveredSomewhere
  <2> QED
    BY <1>0, <1>1, <2>1, <2>2 DEF BusinessTypeOK, placeVars, premisesVars
<1>8. ASSUME UNCHANGED businessVars PROVE Placed
  BY <1>0, <1>8 DEF BusinessTypeOK, businessVars, placeVars, premisesVars, assigningVars
<1>9. Placed
  BY <1>2, <1>3, <1>4, <1>5, <1>6, <1>7, <1>8
<1>10. LocksApart' /\ LocksOrdered'
  BY <1>0, <1>1 DEF LocksApart, LocksOrdered
<1>11. PicksActive'
  <2> SUFFICES ASSUME NEW k \in Allotments, allot'[k].stage = "writing"
               PROVE  allot'[k].pick \in allot'[k].held /\ unit'[allot'[k].pick] = "active"
    BY DEF PicksActive
  <2>1. allot[k].pick \in allot[k].held /\ unit[allot[k].pick] = "active" /\ allot[k].pick \in Units
    BY <1>0, <1>1 DEF PicksActive, BusinessTypeOK
  <2> QED
    BY <1>1, <1>9, <2>1
<1>12. RetiredIsIdle'
  <2> SUFFICES ASSUME NEW u \in Units, unit'[u] = "retired" PROVE ~HasFutureAssignment({u})'
    BY DEF RetiredIsIdle
  <2>1. unit[u] = "retired"
    BY <1>9
  <2> QED
    BY <1>0, <1>1, <2>1 DEF RetiredIsIdle, HasFutureAssignment, FutureSeat
<1> QED
  BY <1>9, <1>10, <1>11, <1>12 DEF BusinessInv

\* Retirement and closure: what the owner locks is free, and no assignment about
\* to commit has picked it when the owner decides.
LEMMA OwnerSteps ==
  ASSUME BusinessInv,
         \/ \E u \in Units : RetireBegin(u)
         \/ \E l \in Branches : CloseBegin(l)
         \/ \E b \in Businesses : OwnerLocks(b) \/ OwnerDecides(b)
  PROVE  BusinessInv'
<1>0. BusinessTypeOK /\ LocksApart /\ LocksOrdered /\ PicksActive /\ RetiredIsIdle
  BY DEF BusinessInv
<1>a. owner \in [Businesses -> OwnerRow] /\ \A k \in Allotments : allot[k] \in AllotRow
  BY <1>0 DEF BusinessTypeOK, OwnerRow, AllotRow
<1>1. ASSUME UNCHANGED <<placeVars, premisesVars, opening, allot, seat>>,
             owner' \in [Businesses -> OwnerRow], LocksApart', LocksOrdered'
      PROVE  BusinessInv'
  <2>1. BusinessTypeOK'
    BY <1>0, <1>1 DEF BusinessTypeOK, placeVars, premisesVars, OwnerRow
  <2>2. PicksActive'
    BY <1>0, <1>1 DEF PicksActive, premisesVars
  <2>3. RetiredIsIdle'
    BY <1>0, <1>1 DEF RetiredIsIdle, HasFutureAssignment, FutureSeat, premisesVars
  <2> QED
    BY <1>1, <2>1, <2>2, <2>3 DEF BusinessInv
<1>2. ASSUME NEW b \in Businesses, NEW row \in OwnerRow, row.held = {},
             owner' = [owner EXCEPT ![b] = row], UNCHANGED allot
      PROVE  owner' \in [Businesses -> OwnerRow] /\ LocksApart' /\ LocksOrdered'
  <2>1. owner' \in [Businesses -> OwnerRow] /\ \A c \in Businesses : c # b => owner'[c] = owner[c]
    BY <1>a, <1>2
  <2>2. owner'[b].held = {}
    BY <1>a, <1>2
  <2>3. LocksApart'
    BY <1>0, <1>2, <2>1, <2>2 DEF LocksApart
  <2>4. LocksOrdered'
    BY <1>0, <1>2, <2>1, <2>2 DEF LocksOrdered
  <2> QED
    BY <2>1, <2>3, <2>4
<1>3. ASSUME NEW u \in Units, RetireBegin(u) PROVE BusinessInv'
  <2> DEFINE l == BranchOf[u]
             row == [doing |-> "retire", on |-> l, units |-> {u}, held |-> {}]
  <2>1. l \in Branches /\ BusinessOf[l] \in Businesses
    BY BusinessAssumption
  <2>2. row \in OwnerRow /\ row.held = {}
    BY <2>1 DEF OwnerRow
  <2>3. owner' = [owner EXCEPT ![BusinessOf[l]] = row] /\ UNCHANGED <<placeVars, premisesVars, opening, allot, seat>>
    BY <1>3 DEF RetireBegin
  <2> HIDE DEF l, row
  <2> QED
    BY <1>1, <1>2, <2>1, <2>2, <2>3
<1>4. ASSUME NEW l \in Branches, CloseBegin(l) PROVE BusinessInv'
  <2> DEFINE row == [doing |-> "close", on |-> l,
                     units |-> {u \in Units : BranchOf[u] = l /\ unit[u] = "active"}, held |-> {}]
  <2>1. BusinessOf[l] \in Businesses
    BY BusinessAssumption
  <2>2. row \in OwnerRow /\ row.held = {}
    BY DEF OwnerRow
  <2>3. owner' = [owner EXCEPT ![BusinessOf[l]] = row] /\ UNCHANGED <<placeVars, premisesVars, opening, allot, seat>>
    BY <1>4 DEF CloseBegin
  <2> HIDE DEF row
  <2> QED
    BY <1>1, <1>2, <2>1, <2>2, <2>3
<1>5. ASSUME NEW b \in Businesses, OwnerLocks(b) PROVE BusinessInv'
  <2>1. PICK u \in LowestFirst(owner[b].units \ owner[b].held) :
          u \notin UnitsHeld /\ owner' = [owner EXCEPT ![b].held = @ \union {u}]
    BY <1>5 DEF OwnerLocks
  <2>2. UNCHANGED <<placeVars, premisesVars, opening, allot, seat>>
    BY <1>5 DEF OwnerLocks
  <2>3. /\ u \in owner[b].units /\ u \notin owner[b].held /\ u \in Units
        /\ \A v \in owner[b].units \ owner[b].held : u <= v
    BY <1>a, <2>1 DEF LowestFirst, OwnerRow
  <2>4. /\ \A c \in Businesses : u \notin owner[c].held
        /\ \A k \in Allotments : u \notin allot[k].held
    BY <2>1, HeldBySomebody
  <2>5. owner' \in [Businesses -> OwnerRow]
    BY <1>a, <2>1, <2>3 DEF OwnerRow
  <2>6. /\ \A c \in Businesses : c # b => owner'[c] = owner[c]
        /\ owner'[b].held = owner[b].held \union {u} /\ owner'[b].units = owner[b].units
    BY <1>a, <2>1 DEF OwnerRow
  <2>7. LocksApart'
    BY <1>0, <2>2, <2>4, <2>6 DEF LocksApart
  <2>8. LocksOrdered'
    <3>1. \A w \in owner[b].held \union {u}, v \in owner[b].units \ (owner[b].held \union {u}) : w < v
      <4> SUFFICES ASSUME NEW w \in owner[b].held \union {u}, NEW v \in owner[b].units \ (owner[b].held \union {u})
                   PROVE  w < v
        OBVIOUS
      <4>1. CASE w \in owner[b].held
        BY <1>0, <4>1 DEF LocksOrdered
      <4>2. CASE w = u
        <5>1. u <= v /\ u # v /\ u \in Nat /\ v \in Nat
          BY <1>a, <2>3, BusinessAssumption DEF OwnerRow
        <5> QED
          BY <4>2, <5>1
      <4> QED
        BY <4>1, <4>2
    <3> QED
      BY <1>0, <2>2, <2>6, <3>1 DEF LocksOrdered
  <2> QED
    BY <1>1, <2>2, <2>5, <2>7, <2>8
<1>6. ASSUME NEW b \in Businesses, OwnerDecides(b) PROVE BusinessInv'
  <2> DEFINE o == owner[b]
             refused == HasFutureAssignment(o.units)
  <2>1. /\ o.held = o.units /\ owner' = [owner EXCEPT ![b] = NoChange]
        /\ UNCHANGED <<placeVars, need, opening, allot, seat>>
        /\ unit' = IF o.doing = "retire" /\ ~refused
                   THEN [u \in Units |-> IF u \in o.units THEN "retired" ELSE unit[u]] ELSE unit
        /\ branch' = IF o.doing = "close" /\ ~refused THEN [branch EXCEPT ![o.on] = "closed"] ELSE branch
    BY <1>6 DEF OwnerDecides
  <2>2. NoChange \in OwnerRow /\ NoChange.held = {}
    BY DEF OwnerRow, NoChange
  <2>3. owner' \in [Businesses -> OwnerRow] /\ LocksApart' /\ LocksOrdered'
    BY <1>2, <2>1, <2>2
  <2>4. \A u \in Units : unit'[u] = unit[u] \/ (u \in o.held /\ unit'[u] = "retired" /\ ~refused)
    BY <2>1
  <2>5. unit' \in [Units -> {"absent", "active", "retired"}]
    <3>1. unit \in [Units -> {"absent", "active", "retired"}]
      BY <1>0 DEF BusinessTypeOK
    <3> QED
      BY <2>1, <3>1
  <2>6. branch' \in [Branches -> {"absent", "active", "suspended", "closed"}]
    <3>1. branch \in [Branches -> {"absent", "active", "suspended", "closed"}]
      BY <1>0 DEF BusinessTypeOK
    <3> QED
      BY <2>1, <3>1
  <2>7. BusinessTypeOK'
    BY <1>0, <2>1, <2>3, <2>5, <2>6 DEF BusinessTypeOK, placeVars, OwnerRow
  <2>8. PicksActive'
    <3> SUFFICES ASSUME NEW k \in Allotments, allot'[k].stage = "writing"
                 PROVE  allot'[k].pick \in allot'[k].held /\ unit'[allot'[k].pick] = "active"
      BY DEF PicksActive
    <3>1. allot'[k] = allot[k]
      BY <2>1
    <3>2. allot[k].pick \in allot[k].held /\ unit[allot[k].pick] = "active" /\ allot[k].pick \in Units
      BY <1>0, <1>a, <3>1 DEF PicksActive, AllotRow
    <3>3. allot[k].pick \notin o.held
      BY <1>0, <3>2 DEF LocksApart
    <3> QED
      BY <2>4, <3>1, <3>2, <3>3
  <2>9. RetiredIsIdle'
    <3> SUFFICES ASSUME NEW u \in Units, unit'[u] = "retired" PROVE ~HasFutureAssignment({u})'
      BY DEF RetiredIsIdle
    <3>1. ~HasFutureAssignment({u})
      BY <1>0, <2>1, <2>4 DEF RetiredIsIdle, HasFutureAssignment
    <3> QED
      BY <2>1, <3>1 DEF HasFutureAssignment, FutureSeat
  <2> QED
    BY <2>3, <2>7, <2>8, <2>9 DEF BusinessInv
<1> QED
  BY <1>3, <1>4, <1>5, <1>6

\* Assignments: the resource picked was read, active, under its lock, and the lock
\* is kept until the assignment commits.
LEMMA AllotSteps ==
  ASSUME BusinessInv, NEW k \in Allotments,
         \/ \E o \in Openings : AllotBegin(k, o)
         \/ AllotTries(k) \/ AllotRefused(k) \/ AllotCommits(k) \/ ReleaseSeat(k) \/ SeatEnds(k)
  PROVE  BusinessInv'
<1>0. BusinessTypeOK /\ LocksApart /\ LocksOrdered /\ PicksActive /\ RetiredIsIdle
  BY DEF BusinessInv
<1>a. allot \in [Allotments -> AllotRow] /\ seat \in [Allotments -> SeatRow]
  BY <1>0 DEF BusinessTypeOK, AllotRow, SeatRow
<1>b. allot[k] \in AllotRow /\ seat[k] \in SeatRow
  BY <1>a
<1>1. ASSUME UNCHANGED <<placeVars, premisesVars, opening, owner>>,
             NEW arow \in AllotRow, NEW srow \in SeatRow,
             allot' = [allot EXCEPT ![k] = arow], seat' = [seat EXCEPT ![k] = srow],
             arow.held = {} \/ arow = allot[k] \/ \E u \in Units :
               /\ u \notin UnitsHeld /\ u \in LowestFirst(allot[k].left)
               /\ arow.held = allot[k].held \union {u} /\ arow.left = allot[k].left \ {u},
             arow.stage = "writing" => arow.pick \in arow.held /\ unit[arow.pick] = "active",
             srow.status = "active" /\ ~srow.ended =>
               (FutureSeat(k) /\ seat[k].unit = srow.unit) \/ unit[srow.unit] = "active"
      PROVE  BusinessInv'
  <2>1. /\ allot' \in [Allotments -> AllotRow] /\ allot'[k] = arow
        /\ \A j \in Allotments : j # k => allot'[j] = allot[j]
    BY <1>a, <1>1
  <2>2. /\ seat' \in [Allotments -> SeatRow] /\ seat'[k] = srow
        /\ \A j \in Allotments : j # k => seat'[j] = seat[j]
    BY <1>a, <1>1
  <2>3. BusinessTypeOK'
    BY <1>0, <1>1, <2>1, <2>2 DEF BusinessTypeOK, placeVars, premisesVars, AllotRow, SeatRow
  <2>4. \A u \in arow.held : u \in allot[k].held \/ u \notin UnitsHeld
    BY <1>1
  <2>5. \A u : u \notin UnitsHeld => /\ \A j \in Allotments : u \notin allot[j].held
                                     /\ \A b \in Businesses : u \notin owner[b].held
    BY HeldBySomebody
  <2>6. LocksApart'
    <3>1. \A j \in Allotments : j # k => arow.held \cap allot[j].held = {}
      BY <1>0, <2>4, <2>5 DEF LocksApart
    <3>2. \A b \in Businesses : arow.held \cap owner[b].held = {}
      BY <1>0, <2>4, <2>5 DEF LocksApart
    <3> QED
      BY <1>0, <1>1, <2>1, <3>1, <3>2 DEF LocksApart
  <2>7. LocksOrdered'
    <3>1. \A w \in arow.held, v \in arow.left : w < v
      <4>1. CASE arow.held = {} \/ arow = allot[k]
        BY <1>0, <4>1 DEF LocksOrdered
      <4>2. ASSUME NEW u \in Units, u \in LowestFirst(allot[k].left),
                   arow.held = allot[k].held \union {u}, arow.left = allot[k].left \ {u},
                   NEW w \in arow.held, NEW v \in arow.left
            PROVE  w < v
        <5>1. v \in Nat /\ u \in Nat /\ v # u /\ v \in allot[k].left /\ u <= v
          BY <1>b, <4>2, BusinessAssumption DEF AllotRow, LowestFirst
        <5>2. CASE w = u
          BY <5>1, <5>2
        <5>3. CASE w \in allot[k].held
          BY <1>0, <5>1, <5>3 DEF LocksOrdered
        <5> QED
          BY <4>2, <5>2, <5>3
      <4> QED
        BY <1>1, <4>1, <4>2
    <3> QED
      BY <1>0, <1>1, <2>1, <3>1 DEF LocksOrdered
  <2>8. PicksActive'
    BY <1>0, <1>1, <2>1 DEF PicksActive, premisesVars
  <2>9. RetiredIsIdle'
    <3> SUFFICES ASSUME NEW u \in Units, unit[u] = "retired", NEW j \in Allotments,
                        seat'[j].status = "active", ~seat'[j].ended, seat'[j].unit = u
                 PROVE  FALSE
      BY <1>1 DEF RetiredIsIdle, HasFutureAssignment, FutureSeat, premisesVars
    <3>1. FutureSeat(j) /\ seat[j].unit = u
      BY <1>1, <2>2 DEF FutureSeat
    <3> QED
      BY <1>0, <3>1 DEF RetiredIsIdle, HasFutureAssignment
  <2> QED
    BY <2>3, <2>6, <2>7, <2>8, <2>9 DEF BusinessInv
<1>2. ASSUME UNCHANGED <<placeVars, premisesVars, opening, owner, allot>>,
             NEW srow \in SeatRow, seat' = [seat EXCEPT ![k] = srow],
             srow.status = "active" /\ ~srow.ended => FutureSeat(k) /\ seat[k].unit = srow.unit
      PROVE  BusinessInv'
  <2>1. allot' = [allot EXCEPT ![k] = allot[k]]
    BY <1>a, <1>2
  <2>2. allot[k].stage = "writing" => allot[k].pick \in allot[k].held /\ unit[allot[k].pick] = "active"
    BY <1>0 DEF PicksActive
  <2> QED
    BY <1>1, <1>2, <1>b, <2>1, <2>2
<1>3. ASSUME UNCHANGED <<placeVars, premisesVars, opening, owner, seat>>,
             NEW arow \in AllotRow, allot' = [allot EXCEPT ![k] = arow],
             arow.held = {} \/ \E u \in Units :
               /\ u \notin UnitsHeld /\ u \in LowestFirst(allot[k].left)
               /\ arow.held = allot[k].held \union {u} /\ arow.left = allot[k].left \ {u},
             arow.stage = "writing" => arow.pick \in arow.held /\ unit[arow.pick] = "active"
      PROVE  BusinessInv'
  <2>1. seat' = [seat EXCEPT ![k] = seat[k]]
    BY <1>a, <1>3
  <2>2. seat[k].status = "active" /\ ~seat[k].ended => FutureSeat(k) /\ seat[k].unit = seat[k].unit
    BY DEF FutureSeat
  <2> QED
    BY <1>1, <1>3, <1>b, <2>1, <2>2
<1>4. ASSUME NEW o \in Openings, AllotBegin(k, o) PROVE BusinessInv'
  <2> DEFINE l == opening[o]
             released == [status |-> IF seat[k].status = "active" THEN "released" ELSE seat[k].status,
                          unit |-> seat[k].unit, ended |-> seat[k].ended, moves |-> seat[k].moves + 1]
             moved == [seat[k] EXCEPT !.moves = @ + 1]
             arow == [stage |-> "choosing", at |-> l, left |-> EligibleUnits(l), held |-> {}, pick |-> NoUnit]
  <2>1. UNCHANGED <<placeVars, premisesVars, opening, owner>> /\ seat[k].moves <= MaxRebooked /\ l # "unmade"
    BY <1>4 DEF AllotBegin
  <2>2. seat[k].moves + 1 \in 0 .. MaxRebooked + 1
    <3>1. seat[k].moves \in 0 .. MaxRebooked + 1 /\ MaxRebooked \in Nat
      BY <1>b, BusinessAssumption DEF SeatRow
    <3> QED
      BY <2>1, <3>1
  <2>3. CASE seat' = [seat EXCEPT ![k] = released] /\ UNCHANGED allot
    <3>1. released \in SeatRow /\ released.status # "active"
      BY <1>b, <2>2 DEF SeatRow
    <3> HIDE DEF released
    <3> QED
      BY <1>2, <2>1, <2>3, <3>1
  <2>4. CASE allot' = [allot EXCEPT ![k] = arow] /\ seat' = [seat EXCEPT ![k].moves = @ + 1]
    <3>1. moved \in SeatRow /\ (moved.status = "active" /\ ~moved.ended => FutureSeat(k) /\ seat[k].unit = moved.unit)
      BY <1>b, <2>2 DEF SeatRow, FutureSeat
    <3>2. seat' = [seat EXCEPT ![k] = moved]
      BY <2>4
    <3>3. l \in Branches \union {Nowhere} /\ EligibleUnits(l) \in SUBSET Units
      BY <1>0, <2>1 DEF BusinessTypeOK, EligibleUnits
    <3>4. arow \in AllotRow /\ arow.held = {} /\ arow.stage # "writing"
      BY <3>3 DEF AllotRow
    <3> HIDE DEF moved, arow
    <3> QED
      BY <1>1, <2>1, <2>4, <3>1, <3>2, <3>4
  <2> QED
    BY <1>4, <2>3, <2>4 DEF AllotBegin
<1>5. ASSUME AllotTries(k) PROVE BusinessInv'
  <2>1. PICK u \in LowestFirst(allot[k].left) :
          /\ u \notin UnitsHeld
          /\ LET wins == StillEligible(k, u) /\ UnitFree(k, u) IN
             allot' = [allot EXCEPT ![k] =
               [stage |-> IF wins THEN "writing" ELSE "choosing", at |-> @.at,
                left |-> @.left \ {u}, held |-> @.held \union {u}, pick |-> IF wins THEN u ELSE NoUnit]]
    BY <1>5 DEF AllotTries
  <2> DEFINE wins == StillEligible(k, u) /\ UnitFree(k, u)
             arow == [stage |-> IF wins THEN "writing" ELSE "choosing", at |-> allot[k].at,
                      left |-> allot[k].left \ {u}, held |-> allot[k].held \union {u},
                      pick |-> IF wins THEN u ELSE NoUnit]
  <2>2. u \in Units /\ u \in allot[k].left
    BY <1>b DEF LowestFirst, AllotRow
  <2>3. wins => unit[u] = "active"
    BY DEF StillEligible, EligibleUnits
  <2>4. allot' = [allot EXCEPT ![k] = arow] /\ UNCHANGED <<placeVars, premisesVars, opening, owner, seat>>
    BY <1>5, <2>1 DEF AllotTries
  <2> HIDE DEF wins
  <2>5. arow \in AllotRow
    BY <1>b, <2>2 DEF AllotRow
  <2>6. arow.stage = "writing" => arow.pick \in arow.held /\ unit[arow.pick] = "active"
    BY <2>3
  <2>7. arow.held = allot[k].held \union {u} /\ arow.left = allot[k].left \ {u}
    OBVIOUS
  <2> HIDE DEF arow
  <2> QED
    BY <1>3, <2>1, <2>2, <2>4, <2>5, <2>6, <2>7
<1>6. ASSUME AllotRefused(k) \/ AllotCommits(k) PROVE BusinessInv'
  <2>1. NotAllotting \in AllotRow /\ NotAllotting.held = {} /\ NotAllotting.stage # "writing"
    BY DEF AllotRow, NotAllotting
  <2>2. CASE AllotRefused(k)
    BY <1>3, <2>1, <2>2 DEF AllotRefused
  <2>3. CASE AllotCommits(k)
    <3> DEFINE srow == [status |-> "active", unit |-> allot[k].pick, ended |-> seat[k].ended, moves |-> seat[k].moves]
    <3>1. /\ seat' = [seat EXCEPT ![k] = srow] /\ allot' = [allot EXCEPT ![k] = NotAllotting]
          /\ UNCHANGED <<placeVars, premisesVars, opening, owner>> /\ allot[k].stage = "writing"
      BY <2>3 DEF AllotCommits
    <3>2. srow \in SeatRow /\ unit[srow.unit] = "active"
      BY <1>0, <1>b, <3>1 DEF AllotRow, SeatRow, PicksActive
    <3> HIDE DEF srow
    <3> QED
      BY <1>1, <2>1, <3>1, <3>2
  <2> QED
    BY <1>6, <2>2, <2>3
<1>7. ASSUME ReleaseSeat(k) \/ SeatEnds(k) PROVE BusinessInv'
  <2>1. PICK srow \in {[seat[k] EXCEPT !.status = "released"], [seat[k] EXCEPT !.ended = TRUE]} :
          seat' = [seat EXCEPT ![k] = srow]
    BY <1>7 DEF ReleaseSeat, SeatEnds
  <2>2. UNCHANGED <<placeVars, premisesVars, opening, owner, allot>>
    BY <1>7 DEF ReleaseSeat, SeatEnds
  <2>3. srow \in SeatRow /\ ~(srow.status = "active" /\ ~srow.ended)
    BY <1>b, <2>1 DEF SeatRow
  <2> QED
    BY <1>2, <2>1, <2>2, <2>3
<1> QED
  BY <1>4, <1>5, <1>6, <1>7

\* A business can count on its people and resources: nothing retired is booked,
\* nobody is active in two places, and the locks never wait in a circle, however
\* retirement, closure, assignment and staffing interleave (WorkplaceConsistent).
THEOREM WorkplaceHolds == CommercialSpec => []WorkplaceConsistent
<1>1. Init => BusinessInv /\ StaffInv
  BY BusinessBegins, StaffSteps DEF Init
<1>2. BusinessInv /\ [BusinessNext]_businessVars => BusinessInv'
  BY PlaceSteps, OwnerSteps, AllotSteps DEF BusinessNext
<1>3. BusinessInv /\ StaffInv /\ [Next]_vars => (BusinessInv /\ StaffInv)'
  <2>1. [Next]_vars => [BusinessNext]_businessVars /\ [StaffNext]_staffVars
    BY DEF Next, vars
  <2> QED
    BY <1>2, <2>1, StaffSteps
<1>4. BusinessInv /\ StaffInv => WorkplaceConsistent
  BY LastHolderGoesOn, StaffSteps DEF BusinessInv, StaffInv, WorkplaceConsistent
<1> QED
  BY <1>1, <1>3, <1>4, PTL DEF CommercialSpec


(* The catalogue: the inductive invariant.                                 *)

CatalogueRow == CatalogueVersion \union {NoVersion, Discarded}
DeskRow == [doing : {"nothing", "drafting", "editing"},
            key : PlanKeys \union ScheduleKeys \union {"none"}, number : 0 .. MaxRows]

\* Version numbers do not outrun the rows used: the next one is at most the next row.
Used == {i \in RowIds : versions[i].state # "none"}
VersionsNumbered ==
  /\ \A i \in Existing : versions[i].version <= Cardinality(Used)
  /\ \A a \in Administrators : desks[a].doing = "drafting" =>
       desks[a].key \in PlanKeys \union ScheduleKeys /\ desks[a].number \in 1 .. Cardinality(Used) + 1

\* An edit is of a row.
EditsPlaced == \A a \in Administrators : desks[a].doing = "editing" => desks[a].number \in RowIds

\* Only a plan is assigned automatically.
AutoIsPlan == \A i \in Existing : versions[i].auto => versions[i].key \in PlanKeys

\* What the exclusion constraints keep apart among published rows.
PublishedApart ==
  \A i, j \in InState("published") :
    /\ i # j
    /\ versions[i].key = versions[j].key \/ (versions[i].auto /\ versions[j].auto)
    => versions[i].window \cap versions[j].window = {}

\* The schedule of a published plan is a draft no longer, and of a plan to assign
\* automatically it is free.
SchedulesSettled ==
  \A i \in InState("published") : versions[i].key \in PlanKeys =>
    /\ versions[versions[i].schedule].state \in {"published", "retired"}
    /\ versions[i].auto => versions[versions[i].schedule].terms = "free"

CatalogueInv ==
  /\ CatalogueTypeOK /\ VersionsNumbered /\ EditsPlaced /\ AutoIsPlan
  /\ PublishedApart /\ SchedulesSettled /\ PublishedTermsFixed

\* What the rows and desks are.
LEMMA CatalogueTypes ==
  ASSUME CatalogueTypeOK
  PROVE  /\ versions \in [RowIds -> CatalogueRow] /\ desks \in [Administrators -> DeskRow]
         /\ MaxRows \in Nat /\ MaxRows > 0 /\ RowIds = 1 .. MaxRows
         /\ \A i \in Existing : versions[i] \in CatalogueVersion
         /\ \A i \in RowIds : /\ versions[i].state \in {"draft", "published", "retired"} => i \in Existing
                              /\ versions[i].state = "none" => versions[i] = NoVersion
         /\ IsFiniteSet(Used) /\ Cardinality(Used) \in 0 .. MaxRows
         /\ Unused # {} => Cardinality(Used) < MaxRows
<1>1. /\ versions \in [RowIds -> CatalogueRow] /\ desks \in [Administrators -> DeskRow]
      /\ MaxRows \in Nat /\ MaxRows > 0 /\ RowIds = 1 .. MaxRows
  BY CatalogueAssumption DEF CatalogueTypeOK, CatalogueRow, DeskRow, RowIds
<1>2. NoVersion.state = "none" /\ Discarded.state = "discarded"
  BY DEF NoVersion, Discarded
<1>3. /\ \A i \in Existing : versions[i] \in CatalogueVersion
      /\ \A i \in RowIds : /\ versions[i].state \in {"draft", "published", "retired"} => i \in Existing
                           /\ versions[i].state = "none" => versions[i] = NoVersion
  <2>1. \A v \in CatalogueVersion : v.state \in {"draft", "published", "retired"}
    BY DEF CatalogueVersion
  <2>2. \A i \in RowIds : versions[i] \in CatalogueVersion \/ versions[i] = NoVersion \/ versions[i] = Discarded
    BY <1>1 DEF CatalogueRow
  <2> QED
    BY <1>2, <2>1, <2>2 DEF Existing
<1>4. IsFiniteSet(RowIds) /\ Cardinality(RowIds) = MaxRows
  BY <1>1, FS_Interval
<1>5. Used \subseteq RowIds /\ (Unused # {} => Used # RowIds)
  BY DEF Used, Unused
<1>6. /\ IsFiniteSet(Used) /\ Cardinality(Used) <= MaxRows /\ Cardinality(Used) \in Nat
      /\ Cardinality(Used) = MaxRows => Used = RowIds
  <2> HIDE DEF Used, RowIds
  <2>1. Used \in SUBSET RowIds
    BY <1>5
  <2>2. /\ IsFiniteSet(Used) /\ Cardinality(Used) <= Cardinality(RowIds)
        /\ Cardinality(Used) = Cardinality(RowIds) => Used = RowIds
    BY <1>4, <2>1, FS_Subset
  <2>3. Cardinality(Used) \in Nat
    BY <2>2, FS_CardinalityType
  <2> QED
    BY <1>4, <2>2, <2>3
<1>7. Cardinality(Used) \in 0 .. MaxRows /\ (Unused # {} => Cardinality(Used) < MaxRows)
  BY <1>1, <1>5, <1>6
<1> QED
  BY <1>1, <1>3, <1>6, <1>7

\* The catalogue begins empty.
LEMMA CatalogueBegins == CatalogueInit => CatalogueInv
<1> SUFFICES ASSUME CatalogueInit PROVE CatalogueInv
  OBVIOUS
<1>1. /\ \A i \in RowIds : versions[i] = NoVersion
      /\ \A a \in Administrators : desks[a] = AtRest
  BY DEF CatalogueInit
<1>2. CatalogueTypeOK
  BY CatalogueAssumption DEF CatalogueInit, CatalogueTypeOK, AtRest
<1>3. Existing = {} /\ InState("published") = {} /\ InState("retired") = {}
  BY <1>1 DEF Existing, InState, NoVersion
<1>4. VersionsNumbered /\ EditsPlaced
  BY <1>1, <1>3 DEF VersionsNumbered, EditsPlaced, AtRest
<1> QED
  BY <1>2, <1>3, <1>4 DEF CatalogueInv, AutoIsPlan, PublishedApart, SchedulesSettled, PublishedTermsFixed

\* A row that is not published yet changes, or comes to be: nothing published does.
LEMMA DraftsOnly ==
  ASSUME CatalogueInv, NEW i \in RowIds, NEW r \in CatalogueVersion \union {Discarded},
         versions' = [versions EXCEPT ![i] = r], UNCHANGED publishedAs,
         versions[i].state \in {"none", "draft"}, r.state \in {"draft", "discarded"},
         r.state = "draft" /\ r.auto => r.key \in PlanKeys,
         r.state = "draft" => r.version <= Cardinality(Used'),
         Cardinality(Used) <= Cardinality(Used'), Cardinality(Used') \in Nat,
         desks' \in [Administrators -> DeskRow],
         \A a \in Administrators : desks'[a] = AtRest \/ desks'[a] = desks[a]
  PROVE  CatalogueInv'
<1>0. /\ CatalogueTypeOK /\ VersionsNumbered /\ EditsPlaced /\ AutoIsPlan
      /\ PublishedApart /\ SchedulesSettled /\ PublishedTermsFixed
  BY DEF CatalogueInv
<1>1. /\ versions \in [RowIds -> CatalogueRow] /\ RowIds = 1 .. MaxRows /\ MaxRows \in Nat
      /\ \A j \in Existing : versions[j] \in CatalogueVersion
      /\ Cardinality(Used) \in Nat
  BY <1>0, CatalogueTypes
<1>2. /\ versions' \in [RowIds -> CatalogueRow] /\ versions'[i] = r
      /\ \A j \in RowIds : j # i => versions'[j] = versions[j]
  BY <1>1 DEF CatalogueRow
<1>3. CatalogueTypeOK'
  BY <1>0, <1>2 DEF CatalogueTypeOK, CatalogueRow, DeskRow
<1>4. Existing' \subseteq Existing \union {i} /\ (i \in Existing' => r.state = "draft")
  BY <1>2 DEF Existing
<1>5. \A st \in {"published", "retired"} : InState(st)' = InState(st) /\ i \notin InState(st)
  BY <1>2 DEF InState, Existing
<1>6. VersionsNumbered'
  <2>1. ASSUME NEW j \in Existing' PROVE versions'[j].version <= Cardinality(Used')
    <3>1. CASE j = i
      BY <1>2, <1>4, <3>1, <2>1
    <3>2. CASE j # i
      <4>1. j \in Existing /\ j \in RowIds /\ versions'[j] = versions[j]
        BY <1>2, <1>4, <3>2, <2>1 DEF Existing
      <4>2. versions[j].version \in Nat /\ versions[j].version <= Cardinality(Used)
        BY <1>0, <1>1, <4>1 DEF VersionsNumbered, CatalogueVersion
      <4> QED
        BY <1>1, <4>1, <4>2
    <3> QED
      BY <3>1, <3>2
  <2>2. ASSUME NEW a \in Administrators, desks'[a].doing = "drafting"
        PROVE  desks'[a].key \in PlanKeys \union ScheduleKeys /\ desks'[a].number \in 1 .. Cardinality(Used') + 1
    <3>1. desks'[a] = desks[a]
      BY <2>2 DEF AtRest
    <3>2. desks[a].key \in PlanKeys \union ScheduleKeys /\ desks[a].number \in 1 .. Cardinality(Used) + 1
      BY <1>0, <2>2, <3>1 DEF VersionsNumbered
    <3> QED
      BY <1>1, <3>1, <3>2
  <2> QED
    BY <2>1, <2>2 DEF VersionsNumbered
<1>7. EditsPlaced'
  BY <1>0 DEF EditsPlaced, AtRest
<1>8. AutoIsPlan'
  <2> SUFFICES ASSUME NEW j \in Existing', versions'[j].auto PROVE versions'[j].key \in PlanKeys
    BY DEF AutoIsPlan
  <2>1. CASE j = i
    BY <1>2, <1>4, <2>1
  <2>2. CASE j # i
    BY <1>0, <1>2, <1>4, <2>2 DEF AutoIsPlan, Existing
  <2> QED
    BY <2>1, <2>2
<1>9. \A j \in InState("published") : versions'[j] = versions[j]
  BY <1>2, <1>5 DEF InState, Existing
<1>10. PublishedApart'
  BY <1>0, <1>5, <1>9 DEF PublishedApart
<1>11. SchedulesSettled'
  <2> SUFFICES ASSUME NEW j \in InState("published"), versions[j].key \in PlanKeys
               PROVE  /\ versions'[versions[j].schedule].state \in {"published", "retired"}
                      /\ versions[j].auto => versions'[versions[j].schedule].terms = "free"
    BY <1>5, <1>9 DEF SchedulesSettled
  <2> DEFINE s == versions[j].schedule
  <2>1. /\ versions[s].state \in {"published", "retired"} /\ (versions[j].auto => versions[s].terms = "free")
    BY <1>0 DEF SchedulesSettled
  <2>2. s # i
    BY <2>1
  <2>3. versions'[s] = versions[s]
    BY <1>1, <2>2
  <2> QED
    BY <2>1, <2>3
<1>12. PublishedTermsFixed'
  BY <1>0, <1>2, <1>5 DEF PublishedTermsFixed, InState, Existing
<1> QED
  BY <1>3, <1>6, <1>7, <1>8, <1>10, <1>11, <1>12 DEF CatalogueInv

\* An administrator sits down to draft or to edit: the rows are as before.
LEMMA DeskSteps ==
  ASSUME CatalogueInv, NEW a \in Administrators,
         (\E key \in PlanKeys \union ScheduleKeys : Allocate(a, key)) \/ (\E i \in RowIds : ReadDraft(a, i))
  PROVE  CatalogueInv'
<1>0. CatalogueTypeOK /\ VersionsNumbered /\ EditsPlaced
  BY DEF CatalogueInv
<1>1. /\ desks \in [Administrators -> DeskRow] /\ RowIds = 1 .. MaxRows /\ MaxRows \in Nat
      /\ \A i \in Existing : versions[i] \in CatalogueVersion
      /\ Cardinality(Used) \in Nat /\ (Unused # {} => Cardinality(Used) < MaxRows)
  BY <1>0, CatalogueTypes
<1>2. UNCHANGED <<versions, publishedAs>>
  BY DEF Allocate, ReadDraft
<1>3. ASSUME NEW d \in DeskRow, desks' = [desks EXCEPT ![a] = d],
             d.doing = "drafting" => d.key \in PlanKeys \union ScheduleKeys /\ d.number \in 1 .. Cardinality(Used) + 1,
             d.doing = "editing" => d.number \in RowIds
      PROVE  CatalogueInv'
  <2>1. desks' \in [Administrators -> DeskRow] /\ \A c \in Administrators : desks'[c] = IF c = a THEN d ELSE desks[c]
    BY <1>1, <1>3
  <2>2. CatalogueTypeOK'
    BY <1>0, <1>2, <2>1 DEF CatalogueTypeOK, DeskRow
  <2>3. UNCHANGED <<Existing, Used>> /\ \A st : InState(st)' = InState(st)
    BY <1>2 DEF Existing, Used, InState
  <2>4. VersionsNumbered'
    BY <1>0, <1>2, <1>3, <2>1, <2>3 DEF VersionsNumbered
  <2>5. EditsPlaced'
    BY <1>0, <1>3, <2>1 DEF EditsPlaced
  <2> QED
    BY <1>2, <2>2, <2>3, <2>4, <2>5 DEF CatalogueInv, AutoIsPlan, PublishedApart, SchedulesSettled, PublishedTermsFixed
<1>4. ASSUME NEW key \in PlanKeys \union ScheduleKeys, Allocate(a, key) PROVE CatalogueInv'
  <2> DEFINE numbers == {versions[i].version : i \in RowsOf(key)} \union {0}
             Greatest(n) == n \in numbers /\ \A i \in RowsOf(key) : versions[i].version <= n
             above == {n \in Nat : \A i \in RowsOf(key) : versions[i].version <= n}
  <2>1. /\ RowsOf(key) \subseteq Existing
        /\ \A i \in RowsOf(key) : versions[i].version \in Nat /\ versions[i].version <= Cardinality(Used)
    BY <1>0, <1>1 DEF RowsOf, VersionsNumbered, CatalogueVersion
  <2>2. Cardinality(Used) \in above /\ above \in SUBSET Nat
    BY <1>1, <2>1
  <2>3. PICK n \in above : \A m \in above : n <= m
    <3> HIDE DEF above
    <3> QED
      BY <2>2, LeastNumber
  <2>4. n <= Cardinality(Used) /\ n \in Nat
    BY <2>2, <2>3
  <2>5. n \in numbers
    <3> SUFFICES ASSUME n \notin numbers PROVE FALSE
      OBVIOUS
    <3>1. n > 0 /\ \A i \in RowsOf(key) : versions[i].version # n
      BY <2>4
    <3>2. n - 1 \in Nat /\ \A i \in RowsOf(key) : versions[i].version <= n - 1
      BY <2>1, <2>3, <2>4, <3>1
    <3>3. n - 1 \in above
      BY <3>2
    <3> QED
      BY <2>3, <2>4, <3>3
  <2>6. desks' = [desks EXCEPT ![a] =
          [doing |-> "drafting", key |-> key, number |-> 1 + CHOOSE m \in 0 .. MaxRows : Greatest(m)]]
    BY <1>4 DEF Allocate
  <2>7. Unused # {}
    BY <1>4 DEF Allocate
  <2>8. n \in 0 .. MaxRows /\ Greatest(n)
    BY <1>1, <2>3, <2>4, <2>5, <2>7
  <2>9. \A m \in 0 .. MaxRows : Greatest(m) => m <= Cardinality(Used)
    BY <1>1, <2>1
  <2> HIDE DEF Greatest
  <2> DEFINE g == CHOOSE m \in 0 .. MaxRows : Greatest(m)
  <2>10. g \in 0 .. MaxRows /\ Greatest(g)
    BY <2>8
  <2>11. g <= Cardinality(Used)
    BY <2>9, <2>10
  <2> HIDE DEF g
  <2> DEFINE d == [doing |-> "drafting", key |-> key, number |-> 1 + g]
  <2>12. d \in DeskRow /\ d.number \in 1 .. Cardinality(Used) + 1
    BY <1>1, <2>7, <2>10, <2>11 DEF DeskRow
  <2>13. desks' = [desks EXCEPT ![a] = d]
    BY <2>6 DEF g
  <2>14. d.doing = "drafting" /\ d.key = key
    OBVIOUS
  <2> HIDE DEF d
  <2> QED
    BY <1>3, <2>12, <2>13, <2>14
<1>5. ASSUME NEW i \in RowIds, ReadDraft(a, i) PROVE CatalogueInv'
  <2> DEFINE d == [doing |-> "editing", key |-> "none", number |-> i]
  <2>1. d \in DeskRow /\ d.doing = "editing" /\ d.number \in RowIds
    BY <1>1 DEF DeskRow
  <2>2. desks' = [desks EXCEPT ![a] = d]
    BY <1>5 DEF ReadDraft
  <2> HIDE DEF d
  <2> QED
    BY <1>3, <2>1, <2>2
<1> QED
  BY <1>4, <1>5

\* Drafts are inserted, edited and discarded.
LEMMA DraftSteps ==
  ASSUME CatalogueInv,
         \/ \E a \in Administrators : InsertDraft(a) \/ WriteEdit(a)
         \/ \E i \in RowIds : Discard(i)
  PROVE  CatalogueInv'
<1>0. CatalogueTypeOK /\ VersionsNumbered /\ EditsPlaced /\ AutoIsPlan
  BY DEF CatalogueInv
<1>1. /\ versions \in [RowIds -> CatalogueRow] /\ desks \in [Administrators -> DeskRow]
      /\ RowIds = 1 .. MaxRows /\ MaxRows \in Nat
      /\ \A i \in Existing : versions[i] \in CatalogueVersion
      /\ IsFiniteSet(Used) /\ Cardinality(Used) \in Nat /\ (Unused # {} => Cardinality(Used) < MaxRows)
  BY <1>0, CatalogueTypes
<1>a. AtRest \in DeskRow
  BY <1>1 DEF AtRest, DeskRow
<1>b. ASSUME NEW a \in Administrators, Dismiss(a)
      PROVE  /\ desks' \in [Administrators -> DeskRow]
             /\ \A c \in Administrators : desks'[c] = AtRest \/ desks'[c] = desks[c]
  BY <1>1, <1>a, <1>b DEF Dismiss
<1>c. ASSUME NEW a \in Administrators, Dismiss(a), UNCHANGED <<versions, publishedAs>> PROVE CatalogueInv'
  <2>1. /\ desks' \in [Administrators -> DeskRow]
        /\ \A c \in Administrators : desks'[c] = AtRest \/ desks'[c] = desks[c]
    BY <1>b, <1>c
  <2>2. CatalogueTypeOK'
    BY <1>0, <1>c, <2>1 DEF CatalogueTypeOK, DeskRow
  <2>3. UNCHANGED <<Existing, Used>> /\ \A st : InState(st)' = InState(st)
    BY <1>c DEF Existing, Used, InState
  <2>4. VersionsNumbered' /\ EditsPlaced'
    BY <1>0, <1>c, <2>1, <2>3 DEF VersionsNumbered, EditsPlaced, AtRest
  <2> QED
    BY <1>c, <2>2, <2>3, <2>4 DEF CatalogueInv, AutoIsPlan, PublishedApart, SchedulesSettled, PublishedTermsFixed
<1>d. ASSUME NEW i \in RowIds, NEW r \in CatalogueVersion \union {Discarded}, versions' = [versions EXCEPT ![i] = r],
             versions[i].state = "draft"
      PROVE  Used' = Used
  <2>1. r.state # "none"
    BY DEF CatalogueVersion, Discarded, NoVersion
  <2> QED
    BY <1>1, <1>d, <2>1 DEF Used
<1>e. \A key : ScheduleFor(key) \subseteq 0 .. MaxRows
  BY <1>1 DEF ScheduleFor, Existing
<1>2. ASSUME NEW a \in Administrators, InsertDraft(a) PROVE CatalogueInv'
  <2> DEFINE d == desks[a]
             i == CHOOSE j \in Unused : TRUE
  <2>1. CASE UNCHANGED versions
    BY <1>2, <1>c, <2>1 DEF InsertDraft
  <2>2. ASSUME NEW w \in Windows, NEW t \in {"free", "paid"}, NEW auto \in BOOLEAN,
               NEW s \in ScheduleFor(d.key),
               d.key \in ScheduleKeys => ~auto,
               versions' = [versions EXCEPT ![i] =
                 [key |-> d.key, version |-> d.number, state |-> "draft", terms |-> t,
                  window |-> w, schedule |-> s, auto |-> auto]]
        PROVE  CatalogueInv'
    <3> DEFINE r == [key |-> d.key, version |-> d.number, state |-> "draft", terms |-> t,
                     window |-> w, schedule |-> s, auto |-> auto]
    <3>1. /\ d.doing = "drafting" /\ Unused # {} /\ Dismiss(a) /\ UNCHANGED publishedAs
      BY <1>2 DEF InsertDraft
    <3>2. i \in Unused /\ i \in RowIds /\ versions[i].state = "none"
      BY <3>1 DEF Unused
    <3>3. d.key \in PlanKeys \union ScheduleKeys /\ d.number \in 1 .. Cardinality(Used) + 1
      BY <1>0, <3>1 DEF VersionsNumbered
    <3>4. d.number \in RowIds
      BY <1>1, <3>1, <3>3
    <3>5. s \in 0 .. MaxRows
      BY <1>e
    <3>6. r \in CatalogueVersion
      BY <3>3, <3>4, <3>5 DEF CatalogueVersion
    <3>7. r.state = "draft" /\ r.version = d.number /\ r.key = d.key /\ r.auto = auto
      OBVIOUS
    <3> HIDE DEF r, i
    <3>8. versions' = [versions EXCEPT ![i] = r]
      BY <2>2 DEF r
    <3>9. Used' = Used \union {i} /\ i \notin Used
      BY <1>1, <3>2, <3>7, <3>8 DEF Used
    <3>10. Cardinality(Used') = Cardinality(Used) + 1
      <4> HIDE DEF Used
      <4> QED
        BY <1>1, <3>9, FS_AddElement
    <3>11. /\ r.version <= Cardinality(Used') /\ Cardinality(Used) <= Cardinality(Used') /\ Cardinality(Used') \in Nat
      BY <1>1, <3>3, <3>7, <3>10
    <3>12. r.auto => r.key \in PlanKeys
      BY <2>2, <3>3, <3>7
    <3>13. /\ desks' \in [Administrators -> DeskRow]
           /\ \A c \in Administrators : desks'[c] = AtRest \/ desks'[c] = desks[c]
      BY <1>b, <3>1
    <3> HIDE DEF Used
    <3> QED
      BY <3>1, <3>2, <3>6, <3>7, <3>8, <3>11, <3>12, <3>13, DraftsOnly
  <2> QED
    BY <1>2, <2>1, <2>2 DEF InsertDraft
<1>3. ASSUME NEW a \in Administrators, WriteEdit(a) PROVE CatalogueInv'
  <2> DEFINE i == desks[a].number
  <2>1. CASE UNCHANGED versions
    BY <1>3, <1>c, <2>1 DEF WriteEdit
  <2>2. ASSUME versions[i].state = "draft", NEW w \in Windows, NEW t \in {"free", "paid"},
               NEW s \in ScheduleFor(versions[i].key), NEW auto \in BOOLEAN,
               versions[i].key \in ScheduleKeys => ~auto,
               versions' = [versions EXCEPT ![i] =
                 [key |-> @.key, version |-> @.version, state |-> @.state, terms |-> t,
                  window |-> w, schedule |-> s, auto |-> auto]]
        PROVE  CatalogueInv'
    <3> DEFINE v == versions[i]
               r == [key |-> v.key, version |-> v.version, state |-> v.state, terms |-> t,
                     window |-> w, schedule |-> s, auto |-> auto]
    <3>1. desks[a].doing = "editing" /\ Dismiss(a) /\ UNCHANGED publishedAs
      BY <1>3 DEF WriteEdit
    <3>2. i \in RowIds /\ i \in Existing /\ v \in CatalogueVersion
      BY <1>0, <1>1, <2>2, <3>1 DEF EditsPlaced, Existing
    <3>3. r \in CatalogueVersion
      BY <1>e, <3>2 DEF CatalogueVersion
    <3>4. r.state = "draft" /\ r.version = v.version /\ r.key = v.key /\ r.auto = auto
      BY <2>2
    <3>5. (auto => v.key \in PlanKeys) /\ v.version <= Cardinality(Used)
      BY <1>0, <2>2, <3>2 DEF CatalogueVersion, VersionsNumbered
    <3>6. versions' = [versions EXCEPT ![i] = r]
      BY <2>2
    <3> HIDE DEF r, i
    <3>7. Used' = Used
      BY <1>d, <2>2, <3>2, <3>3, <3>6
    <3>8. /\ desks' \in [Administrators -> DeskRow]
          /\ \A c \in Administrators : desks'[c] = AtRest \/ desks'[c] = desks[c]
      BY <1>b, <3>1
    <3>9. Cardinality(Used) <= Cardinality(Used) /\ r.version <= Cardinality(Used)
      BY <1>1, <3>4, <3>5
    <3> HIDE DEF Used
    <3> QED
      <4>1. versions[i].state = "draft" /\ (r.auto => r.key \in PlanKeys)
        BY <2>2, <3>4, <3>5
      <4>2. Cardinality(Used) <= Cardinality(Used') /\ Cardinality(Used') \in Nat /\ r.version <= Cardinality(Used')
        BY <1>1, <3>7, <3>9
      <4> QED
        BY <3>1, <3>2, <3>3, <3>4, <3>6, <3>8, <4>1, <4>2, DraftsOnly
  <2>3. CASE EditLands(i)
    <3>1. PICK w \in Windows, t \in {"free", "paid"}, s \in ScheduleFor(versions[i].key), auto \in BOOLEAN :
            /\ versions[i].key \in ScheduleKeys => ~auto
            /\ versions' = [versions EXCEPT ![i] =
                 [key |-> @.key, version |-> @.version, state |-> @.state, terms |-> t,
                  window |-> w, schedule |-> s, auto |-> auto]]
      BY <1>3, <2>3 DEF WriteEdit
    <3>2. versions[i].state = "draft"
      BY <2>3 DEF EditLands
    <3> QED
      BY <2>2, <3>1, <3>2
  <2> QED
    BY <1>3, <2>1, <2>3 DEF WriteEdit
<1>4. ASSUME NEW i \in RowIds, Discard(i) PROVE CatalogueInv'
  <2>1. versions[i].state = "draft" /\ versions' = [versions EXCEPT ![i] = Discarded] /\ UNCHANGED publishedAs
    BY <1>4 DEF Discard
  <2>2. /\ desks' \in [Administrators -> DeskRow]
        /\ \A c \in Administrators : desks'[c] = AtRest \/ desks'[c] = desks[c]
    BY <1>1, <1>4, <1>a DEF Discard
  <2>3. Used' = Used
    BY <1>d, <2>1
  <2>4. Discarded.state = "discarded" /\ Discarded \in CatalogueVersion \union {Discarded}
    BY DEF Discarded, NoVersion
  <2>5. Cardinality(Used) <= Cardinality(Used)
    BY <1>1
  <2> HIDE DEF Used
  <2> QED
    BY <1>1, <2>1, <2>2, <2>3, <2>4, <2>5, DraftsOnly
<1> QED
  BY <1>2, <1>3, <1>4

\* Publication and retirement: the constraints are checked against what is published.
LEMMA TransitionSteps ==
  ASSUME CatalogueInv, NEW i \in RowIds, Publish(i) \/ Retire(i)
  PROVE  CatalogueInv'
<1>0. /\ CatalogueTypeOK /\ VersionsNumbered /\ EditsPlaced /\ AutoIsPlan
      /\ PublishedApart /\ SchedulesSettled /\ PublishedTermsFixed
  BY DEF CatalogueInv
<1>1. /\ versions \in [RowIds -> CatalogueRow] /\ RowIds = 1 .. MaxRows
      /\ \A j \in Existing : versions[j] \in CatalogueVersion
      /\ publishedAs \in [RowIds -> CatalogueVersion \union {NoVersion}]
  BY <1>0, CatalogueTypes DEF CatalogueTypeOK
<1>2. versions[i].state \in {"draft", "published"} /\ UNCHANGED desks
  BY DEF Publish, Retire
<1>3. i \in Existing /\ versions[i] \in CatalogueVersion
  BY <1>1, <1>2 DEF Existing
<1>4. PICK st \in {"published", "retired"} : versions' = [versions EXCEPT ![i].state = st]
  BY DEF Publish, Retire
<1> DEFINE v == versions[i]
           r == [v EXCEPT !.state = st]
<1>5. /\ r \in CatalogueVersion /\ r.state = st /\ r.key = v.key /\ r.auto = v.auto /\ r.window = v.window
      /\ r.terms = v.terms /\ r.schedule = v.schedule /\ r.version = v.version
      /\ [r EXCEPT !.state = "published"] = [v EXCEPT !.state = "published"]
      /\ st = "published" => [r EXCEPT !.state = "published"] = r
  BY <1>3 DEF CatalogueVersion
<1>6. /\ versions' \in [RowIds -> CatalogueRow] /\ versions'[i] = r
      /\ \A j \in RowIds : j # i => versions'[j] = versions[j]
  BY <1>1, <1>4, <1>5 DEF CatalogueRow
<1> HIDE DEF r
<1>7. publishedAs' \in [RowIds -> CatalogueVersion \union {NoVersion}]
  BY <1>1, <1>5, <1>6 DEF Publish, Retire
<1>8. CatalogueTypeOK'
  BY <1>0, <1>2, <1>6, <1>7 DEF CatalogueTypeOK, CatalogueRow
<1>9. UNCHANGED <<Existing, Used>>
  BY <1>2, <1>5, <1>6 DEF Existing, Used
<1>10. VersionsNumbered' /\ EditsPlaced' /\ AutoIsPlan'
  <2>1. \A j \in Existing : versions'[j].version = versions[j].version /\ versions'[j].auto = versions[j].auto
                            /\ versions'[j].key = versions[j].key
    BY <1>5, <1>6 DEF Existing
  <2> QED
    BY <1>0, <1>2, <1>9, <2>1 DEF VersionsNumbered, EditsPlaced, AutoIsPlan
<1>11. \A j \in RowIds : /\ versions'[j].key = versions[j].key /\ versions'[j].auto = versions[j].auto
                         /\ versions'[j].window = versions[j].window /\ versions'[j].terms = versions[j].terms
                         /\ versions'[j].schedule = versions[j].schedule
                         /\ versions[j].state \in {"published", "retired"} =>
                              versions'[j].state \in {"published", "retired"}
  BY <1>2, <1>5, <1>6
<1>12. \A j \in InState("published")' : j \in InState("published") \/ (j = i /\ Publish(i))
  <2> SUFFICES ASSUME NEW j \in InState("published")', j \notin InState("published") PROVE j = i /\ Publish(i)
    OBVIOUS
  <2>0. j \in Existing /\ j \in RowIds /\ versions'[j].state = "published" /\ versions[j].state # "published"
    <3>1. j \in Existing' /\ versions'[j].state = "published"
      BY DEF InState
    <3>2. j \in Existing /\ j \in RowIds
      BY <1>9, <3>1 DEF Existing
    <3> QED
      BY <3>1, <3>2 DEF InState
  <2>1. j = i
    BY <1>6, <2>0
  <2>2. ~Retire(i)
    <3> SUFFICES ASSUME Retire(i) PROVE FALSE
      OBVIOUS
    <3>1. versions' = [versions EXCEPT ![i].state = "retired"]
      BY DEF Retire
    <3>2. versions'[i].state = "retired"
      BY <1>1, <1>3, <3>1 DEF CatalogueVersion, Existing
    <3> QED
      BY <2>0, <2>1, <3>2
  <2> QED
    BY <2>1, <2>2
<1>13. PublishedApart'
  <2> SUFFICES ASSUME NEW j \in InState("published")', NEW k \in InState("published")', j # k,
                      versions'[j].key = versions'[k].key \/ (versions'[j].auto /\ versions'[k].auto)
               PROVE  versions'[j].window \cap versions'[k].window = {}
    BY DEF PublishedApart
  <2>0. j \in Existing /\ k \in Existing /\ j \in RowIds /\ k \in RowIds
    BY <1>9 DEF InState, Existing
  <2>1. versions[j].key = versions[k].key \/ (versions[j].auto /\ versions[k].auto)
    BY <1>11, <2>0
  <2>2. CASE j \in InState("published") /\ k \in InState("published")
    BY <1>0, <1>11, <2>0, <2>1, <2>2 DEF PublishedApart
  <2>3. ASSUME NEW l \in InState("published"), l # i, Publish(i),
               versions[i].key = versions[l].key \/ (versions[i].auto /\ versions[l].auto)
        PROVE  versions[i].window \cap versions[l].window = {}
    BY <2>3 DEF Publish, WindowFree, Excluded, Overlap, InState
  <2>4. CASE j = i /\ Publish(i)
    <3>1. k \in InState("published") /\ k # i
      BY <1>12, <2>4
    <3> QED
      BY <1>11, <2>0, <2>1, <2>3, <2>4, <3>1
  <2>5. CASE k = i /\ Publish(i)
    <3>1. j \in InState("published") /\ j # i
      BY <1>12, <2>5
    <3>2. versions[i].window \cap versions[j].window = {}
      BY <2>1, <2>3, <2>5, <3>1
    <3> QED
      BY <1>11, <2>0, <2>5, <3>2
  <2> QED
    BY <1>12, <2>2, <2>4, <2>5
<1>14. SchedulesSettled'
  <2> SUFFICES ASSUME NEW j \in InState("published")', versions'[j].key \in PlanKeys
               PROVE  /\ versions'[versions'[j].schedule].state \in {"published", "retired"}
                      /\ versions'[j].auto => versions'[versions'[j].schedule].terms = "free"
    BY DEF SchedulesSettled
  <2>0. j \in RowIds
    BY <1>9 DEF InState, Existing
  <2> DEFINE s == versions[j].schedule
  <2>1. versions'[j].schedule = s /\ versions'[j].auto = versions[j].auto /\ versions[j].key \in PlanKeys
    BY <1>11, <2>0
  <2>2. versions[s].state \in {"published", "retired"} /\ (versions[j].auto => versions[s].terms = "free")
    <3>1. CASE j \in InState("published")
      BY <1>0, <2>1, <3>1 DEF SchedulesSettled
    <3>2. CASE j = i /\ Publish(i)
      BY <2>1, <3>2 DEF Publish, Sellable
    <3> QED
      BY <1>12, <3>1, <3>2
  <2>3. CASE s \in RowIds
    BY <1>11, <2>1, <2>2, <2>3
  <2>4. CASE s \notin RowIds
    <3>1. versions'[s] = versions[s]
      BY <1>1, <1>3, <1>4, <2>4 DEF Existing
    <3> QED
      BY <2>1, <2>2, <3>1
  <2> QED
    BY <2>3, <2>4
<1>15. PublishedTermsFixed'
  <2> SUFFICES ASSUME NEW j \in InState("published")' \union InState("retired")'
               PROVE  [versions'[j] EXCEPT !.state = "published"] = publishedAs'[j]
    BY DEF PublishedTermsFixed
  <2>0. j \in Existing /\ j \in RowIds
    BY <1>9 DEF InState, Existing
  <2>1. CASE j # i
    <3>1. versions'[j] = versions[j] /\ publishedAs'[j] = publishedAs[j]
      BY <1>1, <1>6, <2>0, <2>1 DEF Publish, Retire
    <3>2. j \in InState("published") \union InState("retired")
      BY <1>9, <3>1 DEF InState
    <3> QED
      BY <1>0, <3>1, <3>2 DEF PublishedTermsFixed
  <2>2. CASE j = i /\ Publish(i)
    <3>1. publishedAs'[i] = versions'[i] /\ st = "published"
      <4>1. versions' = [versions EXCEPT ![i].state = "published"]
        BY <2>2 DEF Publish
      <4>2. versions'[i].state = "published"
        BY <1>1, <1>3, <4>1 DEF CatalogueVersion, Existing
      <4> QED
        BY <1>1, <1>5, <1>6, <2>2, <4>2 DEF Publish
    <3> QED
      BY <1>5, <1>6, <2>2, <3>1
  <2>3. CASE j = i /\ Retire(i)
    <3>1. publishedAs'[i] = publishedAs[i] /\ i \in InState("published")
      BY <1>3, <2>3 DEF Retire, InState
    <3>2. [v EXCEPT !.state = "published"] = publishedAs[i]
      BY <1>0, <3>1 DEF PublishedTermsFixed
    <3> QED
      BY <1>5, <1>6, <2>3, <3>1, <3>2
  <2> QED
    BY <2>1, <2>2, <2>3
<1> QED
  BY <1>8, <1>10, <1>13, <1>14, <1>15 DEF CatalogueInv

\* The catalogue's terms are unambiguous, free where they must be, and fixed.
LEMMA CatalogueSteps ==
  /\ CatalogueInv /\ [CatalogueNext]_catalogueVars => CatalogueInv'
  /\ CatalogueInv => CatalogueTypeOK /\ ResolutionUnambiguous /\ AutoAssignedIsFree /\ PublishedTermsFixed
<1>1. ASSUME CatalogueInv, UNCHANGED catalogueVars PROVE CatalogueInv'
  BY <1>1 DEF catalogueVars, CatalogueInv, CatalogueTypeOK, VersionsNumbered, EditsPlaced, AutoIsPlan, PublishedApart,
              SchedulesSettled, PublishedTermsFixed, InState, Existing, Used
<1>2. CatalogueInv /\ [CatalogueNext]_catalogueVars => CatalogueInv'
  BY <1>1, DeskSteps, DraftSteps, TransitionSteps DEF CatalogueNext
<1>3. CatalogueInv => ResolutionUnambiguous
  BY DEF CatalogueInv, PublishedApart, ResolutionUnambiguous, ActiveAt
<1>4. CatalogueInv => AutoAssignedIsFree
  <2> SUFFICES ASSUME CatalogueInv, NEW i \in InState("published"), versions[i].auto
               PROVE  versions[versions[i].schedule].terms = "free"
    BY DEF AutoAssignedIsFree
  <2>1. versions[i].key \in PlanKeys
    BY DEF CatalogueInv, AutoIsPlan, InState
  <2> QED
    BY <2>1 DEF CatalogueInv, SchedulesSettled
<1> QED
  BY <1>2, <1>3, <1>4 DEF CatalogueInv

(* The seller's policies: the inductive invariant.                         *)

TermRow == [key : PolicyKeys \union CopyKeys \union {NoKey}, offers : SUBSET (Options \union {NoKey}),
            state : {"none", "draft", "published", "lapsed", "retired"}]
ChoiceRow == [key : PolicyKeys \union {NoKey}, option : Options \union {NoKey},
              state : {"none", "current", "superseded"}]
AssignerRow == [at : {"idle", "read", "locked", "superseding", "done"}, seen : 0 .. MaxAssignments,
                key : PolicyKeys \union {NoKey}, option : Options \union {NoKey}, version : 0 .. MaxTerms]
AcceptedRow == [version : 0 .. MaxTerms, copy : 0 .. MaxTerms]
PolicyOrderRow ==
  [at : {"quoting", "asking", "waiting", "assigned", "resolved", "unbound", "legacy", "ordered", "refused"},
   row : 0 .. MaxAssignments, shown : 0 .. MaxAssignments,
   version : 0 .. MaxTerms, copy : 0 .. MaxTerms, accepted : AcceptedRow]

ChoiceSingle == \A i, j \in CurrentAssignments : i = j

\* The choice an order holds is in force and nobody is replacing it.
ChoicesHeld == \A o \in PolicyOrders : policyOrders[o].at \in {"assigned", "resolved"} =>
                 policyOrders[o].row \in CurrentAssignments /\ ~BeingSuperseded(policyOrders[o].row)

\* What an order holds at its stage: the row t of order o.
LiveTerms(v) == v \in TermIds /\ terms[v].state \in {"published", "lapsed"}
OrderHolds(t) ==
  /\ t.at = "waiting" => t.row \in AssignmentIds
  /\ t.at \notin {"resolved", "ordered", "refused"} => t.version = 0 /\ t.copy = 0
  /\ t.at = "resolved" => LiveTerms(t.version) /\ (t.copy # 0 => LiveTerms(t.copy))
  /\ (policyKind = "outcome" /\ t.at = "ordered") =>
       t.version = t.accepted.version /\ t.copy = t.accepted.copy
OrdersHold == \A o \in PolicyOrders : OrderHolds(policyOrders[o])

\* The choice a request of the seller replaces is a row.
SeenExists == \A a \in Assigners : assigners[a].seen # 0 => assignments[assigners[a].seen].state # "none"

\* The choice a quote was made from was in force then, and an order that is bound by another
\* finds it superseded.
ShownAs(t) ==
  /\ t.shown # 0 => assignments[t.shown].state \in {"current", "superseded"}
  /\ t.accepted.version # 0 => t.shown # 0
  /\ (policyKind = "outcome" /\ t.at = "ordered" /\ t.version # 0) =>
       t.row = t.shown \/ assignments[t.shown].state = "superseded"
OrdersShown == \A o \in PolicyOrders : ShownAs(policyOrders[o])

PoliciesInv == PoliciesTypeOK /\ ChoiceSingle /\ ChoicesHeld /\ OrdersHold /\ OrdersShown /\ SeenExists

\* What the rows are.
LEMMA PolicyTypes ==
  ASSUME PoliciesTypeOK
  PROVE  /\ terms \in [TermIds -> TermRow] /\ assignments \in [AssignmentIds -> ChoiceRow]
         /\ assigners \in [Assigners -> AssignerRow] /\ policyOrders \in [PolicyOrders -> PolicyOrderRow]
         /\ MaxTerms \in Nat /\ MaxAssignments \in Nat
         /\ TermIds = 1 .. MaxTerms /\ AssignmentIds = 1 .. MaxAssignments
         /\ CurrentAssignments \subseteq AssignmentIds
         /\ \A key : ActiveTerms(key) \subseteq {v \in TermIds : LiveTerms(v)}
         /\ ActiveCopies \subseteq {v \in TermIds : LiveTerms(v)}
<1>1. /\ terms \in [TermIds -> TermRow] /\ assignments \in [AssignmentIds -> ChoiceRow]
      /\ assigners \in [Assigners -> AssignerRow] /\ policyOrders \in [PolicyOrders -> PolicyOrderRow]
  BY DEF PoliciesTypeOK, TermRow, ChoiceRow, AssignerRow, PolicyOrderRow, AcceptedRow
<1>2. \A key : ActiveTerms(key) \subseteq {v \in TermIds : LiveTerms(v)}
  BY DEF ActiveTerms, LiveTerms
<1>3. ActiveCopies \subseteq {v \in TermIds : LiveTerms(v)}
  BY <1>2 DEF ActiveCopies
<1> QED
  BY <1>1, <1>2, <1>3, SellerPoliciesAssumption DEF TermIds, AssignmentIds, CurrentAssignments

\* Nothing is chosen, published or ordered at the start.
LEMMA PoliciesBegin == PoliciesInit => PoliciesInv
<1> SUFFICES ASSUME PoliciesInit PROVE PoliciesInv
  OBVIOUS
<1>1. PoliciesTypeOK
  BY SellerPoliciesAssumption DEF PoliciesInit, PoliciesTypeOK, NoTerms, NoAssignment, NotAssigning, NotOrdering, Unquoted
<1>2. CurrentAssignments = {} /\ \A o \in PolicyOrders : policyOrders[o] = NotOrdering
  BY DEF PoliciesInit, CurrentAssignments, NoAssignment
<1>3. OrdersHold /\ OrdersShown /\ SeenExists
  BY <1>2 DEF PoliciesInit, OrdersHold, OrderHolds, OrdersShown, ShownAs, NotOrdering, Unquoted, SeenExists, NotAssigning
<1> QED
  BY <1>1, <1>2, <1>3 DEF PoliciesInv, ChoiceSingle, ChoicesHeld, NotOrdering

\* A choice, once made, is in force or superseded, and superseded for ever.
LEMMA ShownStands ==
  ASSUME PoliciesTypeOK, OrdersHold, OrdersShown, UNCHANGED <<policyKind, policyOrders>>,
         \A k \in AssignmentIds :
           /\ assignments[k].state = "superseded" => assignments'[k].state = "superseded"
           /\ assignments[k].state = "current" => assignments'[k].state \in {"current", "superseded"}
  PROVE  OrdersShown'
<1> SUFFICES ASSUME NEW o \in PolicyOrders, NEW t, t = policyOrders[o] PROVE ShownAs(t)'
  BY DEF OrdersShown
<1>1. ShownAs(t) /\ t.shown \in 0 .. MaxAssignments
  BY PolicyTypes DEF OrdersShown, PolicyOrderRow
<1>2. MaxAssignments \in Nat /\ (t.shown # 0 => t.shown \in AssignmentIds)
  BY <1>1, PolicyTypes
<1>3. t.version # 0 /\ t.at = "ordered" /\ policyKind = "outcome" => t.shown # 0
  BY <1>1 DEF OrdersHold, OrderHolds, ShownAs
<1> QED
  BY <1>1, <1>2, <1>3 DEF ShownAs

\* A version that an order has resolved stays published until it commits.
LEMMA VersionSteps ==
  ASSUME PoliciesInv,
         \/ \E key \in PolicyKeys : DraftPolicy(key)
         \/ \E key \in CopyKeys : DraftCopy(key)
         \/ \E v \in TermIds : ReplaceDraft(v) \/ DiscardTermsDraft(v) \/ PublishTerms(v) \/ Lapse(v) \/ RetireTerms(v)
  PROVE  PoliciesInv'
<1>0. PoliciesTypeOK /\ ChoiceSingle /\ ChoicesHeld /\ OrdersHold /\ OrdersShown /\ SeenExists
  BY DEF PoliciesInv
<1>1. terms \in [TermIds -> TermRow] /\ policyOrders \in [PolicyOrders -> PolicyOrderRow]
  BY <1>0, PolicyTypes
<1>2. ASSUME NEW v \in TermIds, NEW t \in TermRow, EditedTerms(v, t),
             terms[v].state \in {"none", "draft"} \/ t.state \in {"published", "lapsed"} \/ ~SharesTerms(v)
      PROVE  PoliciesInv'
  <2>1. /\ terms' \in [TermIds -> TermRow] /\ terms'[v] = t /\ \A w \in TermIds : w # v => terms'[w] = terms[w]
        /\ UNCHANGED <<policyKind, assignments, assigners, policyOrders>>
    BY <1>1, <1>2 DEF EditedTerms
  <2>2. PoliciesTypeOK'
    BY <1>0, <2>1 DEF PoliciesTypeOK, TermRow
  <2>3. ChoiceSingle' /\ ChoicesHeld' /\ SeenExists'
    BY <1>0, <2>1 DEF SeenExists, ChoiceSingle, ChoicesHeld, CurrentAssignments, BeingSuperseded
  <2>4. OrdersHold'
    <3> SUFFICES ASSUME NEW o \in PolicyOrders, policyOrders[o].at = "resolved", NEW w, LiveTerms(w),
                        w \in {policyOrders[o].version, policyOrders[o].copy}
                 PROVE  LiveTerms(w)'
      BY <1>0, <2>1 DEF OrdersHold, OrderHolds
    <3>1. CASE w = v
      <4>1. t.state \in {"published", "lapsed"}
        BY <1>2, <3>1 DEF LiveTerms, SharesTerms
      <4> QED
        BY <2>1, <3>1, <4>1 DEF LiveTerms
    <3>2. CASE w # v
      BY <2>1, <3>2 DEF LiveTerms
    <3> QED
      BY <3>1, <3>2
  <2>5. OrdersShown'
    BY <1>0, <2>1 DEF OrdersShown, ShownAs
  <2> QED
    BY <2>2, <2>3, <2>4, <2>5 DEF PoliciesInv
<1>3. \A offers \in Offers : offers \in SUBSET (Options \union {NoKey})
  BY DEF Offers
<1>4. ASSUME NEW key \in PolicyKeys, DraftPolicy(key) PROVE PoliciesInv'
  <2>1. PICK v \in FreshTerms, offers \in Offers : EditedTerms(v, [key |-> key, state |-> "draft", offers |-> offers])
    BY <1>4 DEF DraftPolicy
  <2>2. [key |-> key, state |-> "draft", offers |-> offers] \in TermRow
    BY <1>3 DEF TermRow
  <2> QED
    BY <1>2, <2>1, <2>2 DEF FreshTerms
<1>5. ASSUME NEW key \in CopyKeys, DraftCopy(key) PROVE PoliciesInv'
  <2>1. PICK v \in FreshTerms : EditedTerms(v, [key |-> key, state |-> "draft", offers |-> {}])
    BY <1>5 DEF DraftCopy
  <2>2. [key |-> key, state |-> "draft", offers |-> {}] \in TermRow
    BY DEF TermRow
  <2> QED
    BY <1>2, <2>1, <2>2 DEF FreshTerms
<1>6. ASSUME NEW v \in TermIds, ReplaceDraft(v) PROVE PoliciesInv'
  <2>1. PICK offers \in Offers : EditedTerms(v, [terms[v] EXCEPT !.offers = offers])
    BY <1>6 DEF ReplaceDraft
  <2>2. [terms[v] EXCEPT !.offers = offers] \in TermRow
    BY <1>1, <1>3 DEF TermRow
  <2> QED
    BY <1>2, <1>6, <2>1, <2>2 DEF ReplaceDraft
<1>7. ASSUME NEW v \in TermIds, DiscardTermsDraft(v) PROVE PoliciesInv'
  <2>1. NoTerms \in TermRow
    BY DEF NoTerms, TermRow
  <2> QED
    BY <1>2, <1>7, <2>1 DEF DiscardTermsDraft
<1>8. ASSUME NEW v \in TermIds, PublishTerms(v) \/ Lapse(v) \/ RetireTerms(v) PROVE PoliciesInv'
  <2>1. PICK st \in {"published", "lapsed", "retired"} :
          /\ EditedTerms(v, [terms[v] EXCEPT !.state = st])
          /\ st = "retired" => ~SharesTerms(v)
    BY <1>8 DEF PublishTerms, Lapse, RetireTerms, TermsLockFree
  <2>2. [terms[v] EXCEPT !.state = st] \in TermRow /\ [terms[v] EXCEPT !.state = st].state = st
    BY <1>1 DEF TermRow
  <2> QED
    BY <1>2, <2>1, <2>2
<1> QED
  BY <1>4, <1>5, <1>6, <1>7, <1>8

\* The seller's staff: what replaces a choice waits for the orders that hold it.
LEMMA AssignerSteps ==
  ASSUME PoliciesInv, NEW a \in Assigners,
         \/ \E key \in PolicyKeys, option \in UNION Offers : ReadAssignment(a, key, option)
         \/ LockSelectable(a) \/ Supersede(a) \/ InsertAssignment(a)
  PROVE  PoliciesInv'
<1>0. PoliciesTypeOK /\ ChoiceSingle /\ ChoicesHeld /\ OrdersHold /\ OrdersShown /\ SeenExists
  BY DEF PoliciesInv
<1>1. /\ assigners \in [Assigners -> AssignerRow] /\ assignments \in [AssignmentIds -> ChoiceRow]
      /\ AssignmentIds = 1 .. MaxAssignments /\ MaxAssignments \in Nat /\ MaxTerms \in Nat /\ TermIds = 1 .. MaxTerms
      /\ CurrentAssignments \subseteq AssignmentIds /\ \A key : ActiveTerms(key) \subseteq TermIds
  BY <1>0, PolicyTypes
<1>2. AssignmentOver \in AssignerRow /\ AssignmentOver.at = "done" /\ AssignmentOver.seen = 0
  BY <1>1 DEF AssignmentOver, NotAssigning, AssignerRow
<1>3. ASSUME UNCHANGED <<policyKind, terms, policyOrders>> PROVE OrdersHold'
  BY <1>0, <1>3 DEF OrdersHold, OrderHolds, LiveTerms
<1>4. ASSUME NEW t \in AssignerRow, AssigningOnly(a, t), t.at = "superseding" => ~SharesAssignment(t.seen),
             t.seen = 0 \/ assignments[t.seen].state # "none"
      PROVE  PoliciesInv'
  <2>1. /\ assigners' \in [Assigners -> AssignerRow] /\ assigners'[a] = t
        /\ \A b \in Assigners : b # a => assigners'[b] = assigners[b]
        /\ UNCHANGED <<policyKind, terms, policyOrders, assignments>>
    BY <1>1, <1>4 DEF AssigningOnly, Assigning
  <2>2. PoliciesTypeOK'
    BY <1>0, <2>1 DEF PoliciesTypeOK, AssignerRow
  <2>3. UNCHANGED CurrentAssignments
    BY <2>1 DEF CurrentAssignments
  <2>4. ChoicesHeld'
    <3> SUFFICES ASSUME NEW o \in PolicyOrders, policyOrders[o].at \in {"assigned", "resolved"}
                 PROVE  policyOrders[o].row \in CurrentAssignments /\ ~BeingSuperseded(policyOrders[o].row)'
      BY <2>1, <2>3 DEF ChoicesHeld, BeingSuperseded
    <3>1. policyOrders[o].row \in CurrentAssignments /\ ~BeingSuperseded(policyOrders[o].row)
      BY <1>0 DEF ChoicesHeld
    <3>2. SharesAssignment(policyOrders[o].row)
      BY DEF SharesAssignment
    <3>3. ~(t.at = "superseding" /\ t.seen = policyOrders[o].row)
      BY <1>4, <3>2
    <3> QED
      BY <2>1, <3>1, <3>3 DEF BeingSuperseded
  <2>5. OrdersShown'
    BY <1>0, <2>1 DEF OrdersShown, ShownAs
  <2> QED
    BY <1>0, <1>3, <1>4, <2>1, <2>2, <2>3, <2>4, <2>5 DEF PoliciesInv, ChoiceSingle, SeenExists
<1>5. ASSUME NEW key \in PolicyKeys, NEW option \in UNION Offers, ReadAssignment(a, key, option) PROVE PoliciesInv'
  <2>1. option \in Options \union {NoKey}
    BY DEF Offers
  <2>2. PICK i \in CurrentAssignments \union {0} :
          \/ AssigningOnly(a, AssignmentOver)
          \/ AssigningOnly(a, [at |-> "read", seen |-> i, key |-> key, option |-> option, version |-> 0])
    BY <1>5 DEF ReadAssignment
  <2>3. i \in 0 .. MaxAssignments /\ (i = 0 \/ assignments[i].state # "none")
    BY <1>1 DEF CurrentAssignments
  <2>4. [at |-> "read", seen |-> i, key |-> key, option |-> option, version |-> 0] \in AssignerRow
    BY <1>1, <2>1, <2>3 DEF AssignerRow
  <2> QED
    BY <1>2, <1>4, <2>2, <2>3, <2>4
<1>6. ASSUME LockSelectable(a) PROVE PoliciesInv'
  <2>1. CASE AssigningOnly(a, AssignmentOver)
    BY <1>2, <1>4, <2>1
  <2>2. ASSUME NEW v \in ActiveTerms(assigners[a].key),
               AssigningOnly(a, [at |-> "locked", seen |-> assigners[a].seen, key |-> assigners[a].key,
                                 option |-> assigners[a].option, version |-> v])
        PROVE  PoliciesInv'
    <3>1. v \in 0 .. MaxTerms
      BY <1>1
    <3>2. [at |-> "locked", seen |-> assigners[a].seen, key |-> assigners[a].key,
           option |-> assigners[a].option, version |-> v] \in AssignerRow
      BY <1>1, <3>1 DEF AssignerRow
    <3> QED
      BY <1>0, <1>4, <2>2, <3>2 DEF SeenExists
  <2> QED
    BY <1>6, <2>1, <2>2 DEF LockSelectable
<1>7. ASSUME Supersede(a) PROVE PoliciesInv'
  <2> DEFINE t == [assigners[a] EXCEPT !.at = "superseding"]
  <2>1. AssigningOnly(a, t) \/ AssigningOnly(a, AssignmentOver)
    BY <1>7 DEF Supersede
  <2>2. t \in AssignerRow /\ t.seen = assigners[a].seen
    BY <1>1 DEF AssignerRow
  <2>3. ~SharesAssignment(assigners[a].seen)
    BY <1>7 DEF Supersede
  <2> HIDE DEF t
  <2> QED
    BY <1>0, <1>2, <1>4, <2>1, <2>2, <2>3 DEF SeenExists
<1>8. ASSUME InsertAssignment(a) PROVE PoliciesInv'
  <2> DEFINE i == assigners[a].seen
             Successor(j) == [k \in AssignmentIds |->
                   CASE k = j -> [key |-> assigners[a].key, option |-> assigners[a].option, state |-> "current"]
                     [] k = i -> [assignments[i] EXCEPT !.state = "superseded"]
                     [] OTHER -> assignments[k]]
  <2>1. Assigning(a, AssignmentOver) /\ (assigners[a].at = "superseding" \/ i = 0)
    BY <1>8 DEF InsertAssignment
  <2>2. PICK j \in AssignmentIds : /\ assignments[j].state = "none"
                                   /\ assignments' = IF ~OneCurrent(a) THEN assignments ELSE Successor(j)
    BY <1>8 DEF InsertAssignment
  <2>3. CASE assignments' = assignments
    BY <1>2, <1>4, <2>1, <2>3 DEF AssigningOnly
  <2>4. CASE OneCurrent(a) /\ assignments' = Successor(j)
    <3>1. /\ assigners' \in [Assigners -> AssignerRow] /\ assigners'[a].at = "done"
          /\ \A b \in Assigners : b # a => assigners'[b] = assigners[b]
          /\ UNCHANGED <<policyKind, terms, policyOrders>>
      BY <1>1, <1>2, <2>1 DEF Assigning
    <3>2. [key |-> assigners[a].key, option |-> assigners[a].option, state |-> "current"] \in ChoiceRow
      BY <1>1 DEF ChoiceRow, AssignerRow
    <3>3. i \in AssignmentIds => [assignments[i] EXCEPT !.state = "superseded"] \in ChoiceRow
                                 /\ [assignments[i] EXCEPT !.state = "superseded"].state = "superseded"
      BY <1>1 DEF ChoiceRow
    <3>4. /\ assignments' \in [AssignmentIds -> ChoiceRow] /\ assignments'[j].state = "current"
          /\ i # j /\ i \in AssignmentIds => assignments'[i].state = "superseded"
          /\ \A k \in AssignmentIds : k # i /\ k # j => assignments'[k] = assignments[k]
      <4> DEFINE next == [key |-> assigners[a].key, option |-> assigners[a].option, state |-> "current"]
                 last == [assignments[i] EXCEPT !.state = "superseded"]
      <4>1. next \in ChoiceRow /\ next.state = "current"
        BY <3>2
      <4>2. i \in AssignmentIds => last \in ChoiceRow /\ last.state = "superseded"
        BY <3>3
      <4>3. assignments' = [k \in AssignmentIds |->
                              CASE k = j -> next [] k = i -> last [] OTHER -> assignments[k]]
        BY <2>4
      <4> HIDE DEF next, last
      <4>4. \A k \in AssignmentIds : assignments'[k] = IF k = j THEN next ELSE IF k = i THEN last ELSE assignments[k]
        <5> SUFFICES ASSUME NEW k \in AssignmentIds
                     PROVE  assignments'[k] = IF k = j THEN next ELSE IF k = i THEN last ELSE assignments[k]
          OBVIOUS
        <5>1. assignments'[k] = CASE k = j -> next [] k = i -> last [] OTHER -> assignments[k]
          BY <4>3
        <5>2. CASE k = j
          <6>1. k # i
            BY <1>0, <1>1, <2>2, <5>2 DEF SeenExists
          <6> QED
            BY <5>1, <5>2, <6>1
        <5>3. CASE k # j
          BY <5>1, <5>3
        <5> QED
          BY <5>2, <5>3
      <4>5. \A k \in AssignmentIds : assignments'[k] \in ChoiceRow
        BY <1>1, <4>1, <4>2, <4>4
      <4>6. assignments' \in [AssignmentIds -> ChoiceRow]
        BY <4>3, <4>5
      <4> QED
        BY <4>1, <4>2, <4>4, <4>6
    <3>5. PoliciesTypeOK'
      BY <1>0, <3>1, <3>4 DEF PoliciesTypeOK, AssignerRow, ChoiceRow
    <3>6. CurrentAssignments' \subseteq {j}
      <4> SUFFICES ASSUME NEW k \in AssignmentIds, assignments'[k].state = "current", k # j PROVE FALSE
        BY DEF CurrentAssignments
      <4>1. k # i
        BY <3>4
      <4>2. k \in CurrentAssignments
        BY <3>4, <4>1 DEF CurrentAssignments
      <4> QED
        BY <2>4, <4>1, <4>2 DEF OneCurrent
    <3>7. \A o \in PolicyOrders : policyOrders[o].at \notin {"assigned", "resolved"}
      <4> SUFFICES ASSUME NEW o \in PolicyOrders, policyOrders[o].at \in {"assigned", "resolved"} PROVE FALSE
        OBVIOUS
      <4>1. policyOrders[o].row \in CurrentAssignments /\ ~BeingSuperseded(policyOrders[o].row)
        BY <1>0 DEF ChoicesHeld
      <4>2. policyOrders[o].row = i
        BY <2>4, <4>1 DEF OneCurrent
      <4>3. i # 0
        BY <1>1, <4>1, <4>2
      <4> QED
        BY <2>1, <4>1, <4>2, <4>3 DEF BeingSuperseded
    <3>8. ChoiceSingle' /\ ChoicesHeld'
      BY <3>1, <3>6, <3>7 DEF ChoiceSingle, ChoicesHeld
    <3>9. SeenExists'
      <4> SUFFICES ASSUME NEW b \in Assigners, assigners'[b].seen # 0
                   PROVE  assignments'[assigners'[b].seen].state # "none"
        BY DEF SeenExists
      <4>1. b # a /\ assigners'[b] = assigners[b]
        BY <1>1, <1>2, <2>1, <3>1 DEF Assigning
      <4>2. assigners[b].seen \in AssignmentIds /\ assignments[assigners[b].seen].state # "none"
        BY <1>0, <1>1, <4>1 DEF SeenExists, AssignerRow
      <4> QED
        BY <3>4, <4>1, <4>2
    <3>10. OrdersShown'
      <4>1. \A k \in AssignmentIds :
              /\ assignments[k].state = "superseded" => assignments'[k].state = "superseded"
              /\ assignments[k].state = "current" => assignments'[k].state \in {"current", "superseded"}
        BY <2>2, <3>4
      <4> QED
        BY <1>0, <3>1, <4>1, ShownStands
    <3> QED
      BY <1>3, <3>1, <3>5, <3>8, <3>9, <3>10 DEF PoliciesInv
  <2> QED
    BY <2>2, <2>3, <2>4
<1> QED
  BY <1>5, <1>6, <1>7, <1>8

\* Orders: what one holds is held by its locks, and what it commits was accepted.
LEMMA PolicyOrderSteps ==
  ASSUME PoliciesInv, NEW o \in PolicyOrders,
         QuoteTerms(o) \/ AskAssignment(o) \/ AssignmentReread(o) \/ ResolveTerms(o) \/ CommitOrder(o)
  PROVE  PoliciesInv'
<1>0. PoliciesTypeOK /\ ChoiceSingle /\ ChoicesHeld /\ OrdersHold /\ OrdersShown /\ SeenExists
  BY DEF PoliciesInv
<1>1. /\ policyOrders \in [PolicyOrders -> PolicyOrderRow] /\ assignments \in [AssignmentIds -> ChoiceRow]
      /\ AssignmentIds = 1 .. MaxAssignments /\ MaxAssignments \in Nat /\ MaxTerms \in Nat /\ TermIds = 1 .. MaxTerms
      /\ CurrentAssignments \subseteq AssignmentIds
      /\ \A key : \A v \in ActiveTerms(key) : LiveTerms(v) /\ v \in TermIds
      /\ \A c \in ActiveCopies : LiveTerms(c) /\ c \in TermIds
  BY <1>0, PolicyTypes
<1> DEFINE q == policyOrders[o]
<1>2. q \in PolicyOrderRow /\ OrderHolds(q) /\ ShownAs(q) /\ q.accepted \in AcceptedRow
  BY <1>0, <1>1 DEF OrdersHold, OrdersShown, PolicyOrderRow
<1>3. Unquoted \in AcceptedRow /\ NotOrdering \in PolicyOrderRow
  BY <1>1 DEF Unquoted, NotOrdering, AcceptedRow, PolicyOrderRow
<1>4. ASSUME NEW t \in PolicyOrderRow, Ordering(o, t), OrderHolds(t), ShownAs(t),
             t.at \in {"assigned", "resolved"} => t.row \in CurrentAssignments /\ ~BeingSuperseded(t.row)
      PROVE  PoliciesInv'
  <2>1. /\ policyOrders' \in [PolicyOrders -> PolicyOrderRow] /\ policyOrders'[o] = t
        /\ \A p \in PolicyOrders : p # o => policyOrders'[p] = policyOrders[p]
        /\ UNCHANGED <<policyKind, terms, assignments, assigners>>
    BY <1>1, <1>4 DEF Ordering
  <2>2. PoliciesTypeOK'
    BY <1>0, <2>1 DEF PoliciesTypeOK, PolicyOrderRow, AcceptedRow
  <2>3. UNCHANGED CurrentAssignments /\ \A i : BeingSuperseded(i)' <=> BeingSuperseded(i)
    BY <2>1 DEF CurrentAssignments, BeingSuperseded
  <2>4. ChoicesHeld' /\ ChoiceSingle' /\ SeenExists'
    BY <1>0, <1>4, <2>1, <2>3 DEF ChoicesHeld, ChoiceSingle, SeenExists
  <2>5. OrdersHold'
    BY <1>0, <1>4, <2>1 DEF OrdersHold, OrderHolds, LiveTerms
  <2>6. OrdersShown'
    BY <1>0, <1>4, <2>1 DEF OrdersShown, ShownAs
  <2> QED
    BY <2>2, <2>4, <2>5, <2>6 DEF PoliciesInv
<1>5. CASE QuoteTerms(o)
  <2>1. ASSUME Ordering(o, [NotOrdering EXCEPT !.at = "asking"]) PROVE PoliciesInv'
    <3> DEFINE t == [NotOrdering EXCEPT !.at = "asking"]
    <3>1. t \in PolicyOrderRow /\ OrderHolds(t) /\ ShownAs(t) /\ t.at = "asking"
      BY <1>1, <1>3 DEF NotOrdering, PolicyOrderRow, OrderHolds, ShownAs, Unquoted
    <3> HIDE DEF t
    <3> QED
      BY <1>4, <2>1, <3>1 DEF t
  <2>2. ASSUME NEW i \in CurrentAssignments, NEW v \in ActiveTerms(assignments[i].key), NEW c \in ActiveCopies,
               Ordering(o, [at |-> "asking", row |-> 0, shown |-> i, version |-> 0, copy |-> 0,
                            accepted |-> [version |-> v, copy |-> c]])
        PROVE  PoliciesInv'
    <3> DEFINE t == [at |-> "asking", row |-> 0, shown |-> i, version |-> 0, copy |-> 0,
                     accepted |-> [version |-> v, copy |-> c]]
    <3>1. v \in 0 .. MaxTerms /\ c \in 0 .. MaxTerms /\ i \in 1 .. MaxAssignments
      BY <1>1
    <3>2. assignments[i].state = "current"
      BY DEF CurrentAssignments
    <3>3. t.accepted \in AcceptedRow
      BY <3>1 DEF AcceptedRow
    <3>4. t \in PolicyOrderRow /\ OrderHolds(t) /\ ShownAs(t) /\ t.at = "asking"
      BY <1>1, <3>1, <3>2, <3>3 DEF PolicyOrderRow, OrderHolds, ShownAs
    <3> HIDE DEF t
    <3> QED
      BY <1>4, <2>2, <3>4 DEF t
  <2> QED
    BY <1>5, <2>1, <2>2 DEF QuoteTerms
<1>6. CASE AskAssignment(o)
  <2>1. ASSUME Ordering(o, [q EXCEPT !.at = "legacy"]) PROVE PoliciesInv'
    <3>1. q.at = "asking"
      BY <1>6 DEF AskAssignment
    <3> DEFINE t == [q EXCEPT !.at = "legacy"]
    <3>2. t \in PolicyOrderRow /\ OrderHolds(t) /\ ShownAs(t) /\ t.at = "legacy"
      BY <1>2, <3>1 DEF PolicyOrderRow, OrderHolds, ShownAs
    <3> HIDE DEF t
    <3> QED
      BY <1>4, <2>1, <3>2 DEF t
  <2>2. ASSUME NEW i \in CurrentAssignments,
               Ordering(o, [at |-> IF BeingSuperseded(i) THEN "waiting" ELSE "assigned", row |-> i,
                            shown |-> q.shown, version |-> 0, copy |-> 0, accepted |-> q.accepted])
        PROVE  PoliciesInv'
    <3> DEFINE t == [at |-> IF BeingSuperseded(i) THEN "waiting" ELSE "assigned", row |-> i,
                     shown |-> q.shown, version |-> 0, copy |-> 0, accepted |-> q.accepted]
    <3>1. i \in AssignmentIds /\ i \in 0 .. MaxAssignments
      BY <1>1
    <3>2. t \in PolicyOrderRow /\ OrderHolds(t) /\ t.row = i /\ (t.at = "assigned" => ~BeingSuperseded(i)) /\ t.at # "resolved"
      BY <1>1, <1>2, <3>1 DEF PolicyOrderRow, OrderHolds
    <3>3. ShownAs(t)
      BY <1>2 DEF ShownAs
    <3> HIDE DEF t
    <3> QED
      BY <1>4, <2>2, <3>2, <3>3 DEF t
  <2> QED
    BY <1>6, <2>1, <2>2 DEF AskAssignment
<1>7. CASE AssignmentReread(o)
  <2> DEFINE i == q.row
             t == [q EXCEPT !.at = IF assignments[i].state = "current" THEN "assigned" ELSE "legacy"]
  <2>1. q.at = "waiting" /\ ~BeingSuperseded(i) /\ Ordering(o, t)
    BY <1>7 DEF AssignmentReread
  <2>2. /\ t \in PolicyOrderRow /\ OrderHolds(t) /\ ShownAs(t) /\ t.row = i /\ t.at # "resolved"
        /\ t.at = "assigned" => assignments[i].state = "current"
    BY <1>2, <2>1 DEF PolicyOrderRow, OrderHolds, ShownAs
  <2>3. i \in AssignmentIds
    BY <1>2, <2>1 DEF OrderHolds
  <2> HIDE DEF t
  <2> QED
    BY <1>4, <2>1, <2>2, <2>3 DEF CurrentAssignments
<1>8. CASE ResolveTerms(o)
  <2>0. q.at = "assigned" /\ q.row \in CurrentAssignments /\ ~BeingSuperseded(q.row)
    BY <1>0, <1>8 DEF ResolveTerms, ChoicesHeld
  <2>1. ASSUME NEW v \in ActiveTerms(assignments[q.row].key), NEW c \in ActiveCopies \union {0},
               Ordering(o, [at |-> "resolved", row |-> q.row, shown |-> q.shown, version |-> v, copy |-> c, accepted |-> q.accepted])
        PROVE  PoliciesInv'
    <3> DEFINE t == [at |-> "resolved", row |-> q.row, shown |-> q.shown, version |-> v, copy |-> c, accepted |-> q.accepted]
    <3>1. v \in 0 .. MaxTerms /\ c \in 0 .. MaxTerms /\ LiveTerms(v) /\ (c # 0 => LiveTerms(c))
      BY <1>1
    <3>2. t \in PolicyOrderRow /\ OrderHolds(t) /\ ShownAs(t) /\ t.row = q.row
      BY <1>2, <3>1 DEF PolicyOrderRow, OrderHolds, ShownAs
    <3> HIDE DEF t
    <3> QED
      BY <1>4, <2>0, <2>1, <3>2 DEF t
  <2>2. ASSUME NEW at \in {"refused", "unbound"}, Ordering(o, [q EXCEPT !.at = at]) PROVE PoliciesInv'
    <3> DEFINE t == [q EXCEPT !.at = at]
    <3>1. t \in PolicyOrderRow /\ OrderHolds(t) /\ ShownAs(t) /\ t.at = at
      BY <1>2, <2>0 DEF PolicyOrderRow, OrderHolds, ShownAs
    <3> HIDE DEF t
    <3> QED
      BY <1>4, <2>2, <3>1 DEF t
  <2> QED
    BY <1>8, <2>1, <2>2 DEF ResolveTerms, RefusedOrder
<1>9. CASE CommitOrder(o)
  <2>1. PICK at \in {"ordered", "refused"} : /\ Ordering(o, [q EXCEPT !.at = at])
                                             /\ at = "ordered" => AcceptanceMatches(o)
    BY <1>9 DEF CommitOrder, RefusedOrder
  <2>2. q.at \in {"resolved", "unbound", "legacy"}
    BY <1>9 DEF CommitOrder
  <2>3. policyKind = "outcome" /\ at = "ordered" => q.version = q.accepted.version /\ q.copy = q.accepted.copy
    <3> SUFFICES ASSUME policyKind = "outcome", at = "ordered"
                 PROVE  q.version = q.accepted.version /\ q.copy = q.accepted.copy
      OBVIOUS
    <3>1. CASE q.at = "resolved"
      <4>1. q.accepted = [version |-> q.version, copy |-> q.copy]
        BY <2>1, <3>1 DEF AcceptanceMatches
      <4> QED
        BY <4>1
    <3>2. CASE q.at # "resolved"
      <4>1. q.accepted = Unquoted /\ q.version = 0 /\ q.copy = 0
        BY <1>2, <2>1, <2>2, <3>2 DEF AcceptanceMatches, OrderHolds
      <4> QED
        BY <4>1 DEF Unquoted
    <3> QED
      BY <3>1, <3>2
  <2> DEFINE t == [q EXCEPT !.at = at]
  <2>4. t \in PolicyOrderRow /\ OrderHolds(t) /\ t.at = at
    BY <1>2, <2>3 DEF PolicyOrderRow, OrderHolds
  <2>5. policyKind = "outcome" /\ at = "ordered" /\ q.version # 0 =>
          q.row = q.shown \/ assignments[q.shown].state = "superseded"
    <3> SUFFICES ASSUME policyKind = "outcome", at = "ordered", q.version # 0, q.row # q.shown
                 PROVE  assignments[q.shown].state = "superseded"
      OBVIOUS
    <3>1. q.at = "resolved" /\ q.shown # 0 /\ q.shown \in AssignmentIds
      BY <1>1, <1>2, <2>2, <2>3 DEF OrderHolds, ShownAs, PolicyOrderRow
    <3>2. q.row \in CurrentAssignments
      BY <1>0, <3>1 DEF ChoicesHeld
    <3>3. q.shown \notin CurrentAssignments
      BY <1>0, <3>2 DEF ChoiceSingle
    <3> QED
      BY <1>2, <3>1, <3>3 DEF ShownAs, CurrentAssignments
  <2>6. ShownAs(t)
    BY <1>2, <2>5 DEF ShownAs, PolicyOrderRow
  <2> HIDE DEF t
  <2> QED
    BY <1>4, <2>1, <2>4, <2>6 DEF t
<1> QED
  BY <1>5, <1>6, <1>7, <1>8, <1>9

\* The terms a seller or a customer is bound by are unambiguous, unchanged since they
\* were published and in force when an order takes them (TermsBind), whoever works on
\* the catalogue and on the policies at once.
THEOREM TermsHold == CommercialSpec => []TermsBind
<1>1. Init => CatalogueInv /\ PoliciesInv
  BY CatalogueBegins, PoliciesBegin DEF Init
<1>2. ASSUME PoliciesInv, UNCHANGED policyVars PROVE PoliciesInv'
  BY <1>2 DEF policyVars, PoliciesInv, PoliciesTypeOK, ChoiceSingle, ChoicesHeld, OrdersHold, OrderHolds, LiveTerms,
              OrdersShown, ShownAs, CurrentAssignments, BeingSuperseded, SeenExists
<1>3. PoliciesInv /\ [PoliciesNext]_policyVars => PoliciesInv'
  BY <1>2, VersionSteps, AssignerSteps, PolicyOrderSteps DEF PoliciesNext
<1>4. CatalogueInv /\ PoliciesInv /\ [Next]_vars => (CatalogueInv /\ PoliciesInv)'
  <2>1. [Next]_vars => [CatalogueNext]_catalogueVars /\ [PoliciesNext]_policyVars
    BY DEF Next, vars
  <2> QED
    BY <1>3, <2>1, CatalogueSteps
<1>5. PoliciesInv => PoliciesTypeOK /\ TermsStayInForce /\ OneChoiceAtATime /\ OrderedAsAccepted
  <2> SUFFICES ASSUME PoliciesInv PROVE PoliciesTypeOK /\ TermsStayInForce /\ OneChoiceAtATime /\ OrderedAsAccepted
    OBVIOUS
  <2>0. PoliciesTypeOK /\ ChoiceSingle /\ ChoicesHeld /\ OrdersHold /\ OrdersShown
    BY DEF PoliciesInv
  <2>1. TermsStayInForce
    BY <2>0 DEF TermsStayInForce, ChoicesHeld, OrdersHold, OrderHolds, LiveTerms, CurrentAssignments
  <2>2. OrderedAsAccepted
    BY <2>0 DEF OrderedAsAccepted, OrdersHold, OrderHolds, OrdersShown, ShownAs
  <2>3. OneChoiceAtATime
    <3>1. CurrentAssignments = {} \/ \E i : CurrentAssignments = {i}
      BY <2>0 DEF ChoiceSingle
    <3>2. Cardinality({}) = 0 /\ \A i : Cardinality({i}) = 1
      BY FS_EmptySet, FS_Singleton
    <3>3. Cardinality(CurrentAssignments) \in {0, 1}
      BY <3>1, <3>2
    <3> QED
      BY <3>3 DEF OneChoiceAtATime
  <2> QED
    BY <2>0, <2>1, <2>2, <2>3
<1>6. CatalogueInv /\ PoliciesInv => TermsBind
  BY <1>5, CatalogueSteps DEF TermsBind
<1> QED
  BY <1>1, <1>4, <1>6, PTL DEF CommercialSpec


(* Credits: the inductive invariant.                                       *)

ConfirmingRow == [step : {"no", "shared", "spent"}, verdict : Verdicts, grant : 0 .. MaxGrants]

\* There are finitely many consumptions, of grants that exist.
ConsumptionsExist ==
  /\ IsFiniteSet({b \in Bookings : consumption[b] # 0})
  /\ \A b \in Bookings : consumption[b] \in 0 .. Len(creditGrants[SellerOf[b]])

\* A confirmation is open on a pending booking, which has spent nothing, and holds
\* the control row with the kill switch off.
OpenIsPending ==
  \A b \in Bookings :
    /\ creditBooking[b] = "pending" => consumption[b] = 0
    /\ confirming[b].step # "no" => creditBooking[b] = "pending" /\ ~control.killed

\* The party's lock: one confirmation of a seller at a time has chosen its grant, and
\* the grant still has room for it.
HasRoom(b, row) ==
  LET p == SellerOf[b] IN
  row.step = "spent" =>
    /\ row.grant # 0 => row.grant \in DOMAIN creditGrants[p]
                        /\ SpentOf(p, row.grant) < creditGrants[p][row.grant]
    /\ row.verdict = "governed" => row.grant # 0
SpentApart ==
  \A a, b \in Bookings :
    confirming[a].step = "spent" /\ confirming[b].step = "spent" /\ SellerOf[a] = SellerOf[b] => a = b
SpentHasRoom == \A b \in Bookings : HasRoom(b, confirming[b])

\* A party being created has seen the rollout as it is.
CreatedAsSeen == \A p \in Sellers : creating[p] = "inactive" => control.rollout = "inactive"

CreditsInv ==
  /\ CreditsTypeOK /\ NeverOverspent /\ ActiveCoversEveryone /\ GovernedIsPaidFor
  /\ ConsumptionsExist /\ OpenIsPending /\ SpentApart /\ SpentHasRoom /\ CreatedAsSeen

\* Any consumptions of one grant are finitely many.
LEMMA SpentFinite ==
  ASSUME NEW T, IsFiniteSet(T), NEW S, S \subseteq T
  PROVE  IsFiniteSet(S) /\ Cardinality(S) \in Nat /\ Cardinality(S) <= Cardinality(T)
BY FS_Subset, FS_CardinalityType

\* What the tables are.
LEMMA CreditTypes ==
  ASSUME CreditsInv
  PROVE  /\ creditGrants \in [Sellers -> Seq({PlusPlan, BasePlan})] /\ {PlusPlan, BasePlan} \subseteq Nat
         /\ consumption \in [Bookings -> 0 .. MaxGrants] /\ MaxGrants \in Nat
         /\ confirming \in [Bookings -> ConfirmingRow]
         /\ \A b \in Bookings : SellerOf[b] \in Sellers
         /\ \A p \in Sellers : /\ Len(creditGrants[p]) \in 0 .. MaxGrants
                               /\ DOMAIN creditGrants[p] = 1 .. Len(creditGrants[p])
                               /\ \A g \in DOMAIN creditGrants[p] : creditGrants[p][g] \in Nat
         /\ \A p \in Sellers : \A g \in Nat \ {0} :
              /\ IsFiniteSet({b \in BookingsOf(p) : consumption[b] = g /\ b \notin returned})
              /\ SpentOf(p, g) \in Nat
<1>1. /\ creditGrants \in [Sellers -> Seq({PlusPlan, BasePlan})] /\ {PlusPlan, BasePlan} \subseteq Nat
      /\ consumption \in [Bookings -> 0 .. MaxGrants] /\ MaxGrants \in Nat
      /\ confirming \in [Bookings -> ConfirmingRow]
      /\ \A b \in Bookings : SellerOf[b] \in Sellers
  BY CreditsAssumption DEF CreditsInv, CreditsTypeOK, ConfirmingRow
<1>2. \A p \in Sellers : /\ Len(creditGrants[p]) \in 0 .. MaxGrants
                         /\ DOMAIN creditGrants[p] = 1 .. Len(creditGrants[p])
                         /\ \A g \in DOMAIN creditGrants[p] : creditGrants[p][g] \in Nat
  <2>1. \A p \in Sellers : Len(creditGrants[p]) <= MaxGrants
    BY DEF CreditsInv, CreditsTypeOK
  <2> QED
    BY <1>1, <2>1
<1>3. ASSUME NEW p \in Sellers, NEW g \in Nat \ {0}
      PROVE  /\ IsFiniteSet({b \in BookingsOf(p) : consumption[b] = g /\ b \notin returned})
             /\ SpentOf(p, g) \in Nat
  <2>1. IsFiniteSet({b \in Bookings : consumption[b] # 0})
    BY DEF CreditsInv, ConsumptionsExist
  <2>2. {b \in BookingsOf(p) : consumption[b] = g /\ b \notin returned} \subseteq {b \in Bookings : consumption[b] # 0}
    BY DEF BookingsOf
  <2> QED
    BY <2>1, <2>2, SpentFinite DEF SpentOf
<1> QED
  BY <1>1, <1>2, <1>3

\* A subscription issues grants nobody has spent from.
LEMMA GrantSteps ==
  ASSUME CreditsInv, NEW p \in Sellers, NEW credits \in Seq({PlusPlan, BasePlan}), NEW row \in SubscriptionRow,
         plan' = [plan EXCEPT ![p] = row], IssueForActivation(p, credits),
         UNCHANGED <<control, governance, eligible, consumption, returned, creditBooking,
                     confirming, cancelling, commands, creating>>
  PROVE  CreditsInv'
<1>1. /\ creditGrants' \in [Sellers -> Seq({PlusPlan, BasePlan})]
      /\ creditGrants' = [creditGrants EXCEPT ![p] = creditGrants[p] \o credits]
      /\ \A q \in Sellers : Len(creditGrants'[q]) <= MaxGrants
  BY CreditTypes DEF IssueForActivation, CreditsInv, CreditsTypeOK
<1>2. ASSUME NEW q \in Sellers
      PROVE  /\ Len(creditGrants[q]) \in Nat /\ Len(creditGrants'[q]) \in Nat
             /\ Len(creditGrants[q]) <= Len(creditGrants'[q])
             /\ DOMAIN creditGrants[q] = 1 .. Len(creditGrants[q])
             /\ DOMAIN creditGrants'[q] = 1 .. Len(creditGrants'[q])
             /\ \A g \in DOMAIN creditGrants[q] : creditGrants'[q][g] = creditGrants[q][g]
             /\ \A g \in DOMAIN creditGrants'[q] : creditGrants'[q][g] \in Nat
  <2>1. creditGrants'[q] = IF q = p THEN creditGrants[p] \o credits ELSE creditGrants[q]
    BY <1>1, CreditTypes
  <2>2. creditGrants[q] \in Seq({PlusPlan, BasePlan}) /\ creditGrants'[q] \in Seq({PlusPlan, BasePlan})
    BY <1>1, CreditTypes
  <2>3. \A g \in DOMAIN creditGrants'[q] : creditGrants'[q][g] \in Nat
    <3>1. PlusPlan \in Nat /\ BasePlan \in Nat
      BY CreditTypes
    <3>2. ASSUME NEW s \in Seq({PlusPlan, BasePlan}), NEW g \in DOMAIN s PROVE s[g] \in Nat
      BY <3>1
    <3> QED
      BY <2>2, <3>2
  <2> QED
    BY <2>1, <2>2, <2>3
<1>3. \A q \in Sellers, g \in Nat : SpentOf(q, g)' = SpentOf(q, g)
  BY DEF SpentOf, BookingsOf
<1>4. CreditsTypeOK'
  BY <1>1 DEF CreditsInv, CreditsTypeOK
<1>5. NeverOverspent'
  <2> SUFFICES ASSUME NEW q \in Sellers, NEW g \in DOMAIN creditGrants'[q]
               PROVE  SpentOf(q, g) <= creditGrants'[q][g]
    BY <1>2, <1>3 DEF NeverOverspent
  <2>1. CASE g \in DOMAIN creditGrants[q]
    BY <1>2, <2>1 DEF CreditsInv, NeverOverspent
  <2>2. CASE g \notin DOMAIN creditGrants[q]
    <3>1. \A b \in BookingsOf(q) : consumption[b] # g
      BY <1>2, <2>2 DEF CreditsInv, ConsumptionsExist, BookingsOf
    <3>2. {b \in BookingsOf(q) : consumption[b] = g /\ b \notin returned} = {}
      BY <3>1
    <3>3. SpentOf(q, g) = 0
      BY <3>2, FS_EmptySet, Zenon DEF SpentOf
    <3> QED
      BY <1>2, <3>3
  <2> QED
    BY <2>1, <2>2
<1>6. ActiveCoversEveryone' /\ GovernedIsPaidFor' /\ OpenIsPending' /\ SpentApart' /\ CreatedAsSeen'
  BY DEF CreditsInv, ActiveCoversEveryone, GovernedIsPaidFor, OpenIsPending, SpentApart, CreatedAsSeen
<1>7. ConsumptionsExist'
  BY <1>2, CreditTypes DEF CreditsInv, ConsumptionsExist
<1>8. SpentHasRoom'
  <2> SUFFICES ASSUME NEW b \in Bookings, confirming[b].step = "spent"
               PROVE  /\ confirming[b].grant # 0 =>
                           /\ confirming[b].grant \in DOMAIN creditGrants'[SellerOf[b]]
                           /\ SpentOf(SellerOf[b], confirming[b].grant)' < creditGrants'[SellerOf[b]][confirming[b].grant]
                      /\ confirming[b].verdict = "governed" => confirming[b].grant # 0
    BY DEF SpentHasRoom, HasRoom
  <2>1. SellerOf[b] \in Sellers /\ HasRoom(b, confirming[b])
    BY CreditTypes DEF CreditsInv, SpentHasRoom
  <2>2. confirming[b].grant # 0 => confirming[b].grant \in DOMAIN creditGrants[SellerOf[b]]
    BY <2>1 DEF HasRoom
  <2> QED
    BY <1>2, <1>3, <2>1, <2>2 DEF HasRoom
<1> QED
  BY <1>4, <1>5, <1>6, <1>7, <1>8 DEF CreditsInv

\* An open confirmation moves on, by what it may become.
LEMMA ConfirmingMoves ==
  ASSUME CreditsInv, NEW b \in Bookings, NEW row \in ConfirmingRow,
         confirming' = [confirming EXCEPT ![b] = row],
         creditBooking[b] = "pending", row.step # "no" => ~control.killed,
         row.step = "spent" => PartyLockFree(SellerOf[b]), HasRoom(b, row),
         UNCHANGED <<control, governance, eligible, plan, creditGrants, consumption, returned,
                     creditBooking, cancelling, commands, creating>>
  PROVE  CreditsInv'
<1>1. confirming \in [Bookings -> ConfirmingRow] /\ confirming' \in [Bookings -> ConfirmingRow]
  BY CreditTypes
<1>2. confirming'[b] = row /\ \A a \in Bookings \ {b} : confirming'[a] = confirming[a]
  BY <1>1
<1>3. \A p, g : SpentOf(p, g)' = SpentOf(p, g)
  BY DEF SpentOf, BookingsOf
<1>4. CreditsTypeOK'
  BY <1>1 DEF CreditsInv, CreditsTypeOK, ConfirmingRow
<1>5. NeverOverspent' /\ ActiveCoversEveryone' /\ ConsumptionsExist' /\ CreatedAsSeen'
  BY <1>3 DEF CreditsInv, NeverOverspent, ActiveCoversEveryone, ConsumptionsExist, CreatedAsSeen
<1>6. GovernedIsPaidFor' /\ OpenIsPending'
  BY <1>2 DEF CreditsInv, GovernedIsPaidFor, OpenIsPending
<1>7. SpentApart'
  BY <1>2 DEF CreditsInv, SpentApart, PartyLockFree, BookingsOf
<1>8. SpentHasRoom'
  BY <1>2, <1>3 DEF CreditsInv, SpentHasRoom, HasRoom
<1> QED
  BY <1>4, <1>5, <1>6, <1>7, <1>8 DEF CreditsInv

\* The gate: begin, spend, roll back.
LEMMA GateSteps ==
  ASSUME CreditsInv, NEW b \in Bookings, BeginConfirm(b) \/ Consume(b) \/ AbortConfirm(b)
  PROVE  CreditsInv'
<1>1. confirming \in [Bookings -> ConfirmingRow] /\ SellerOf[b] \in Sellers
  BY CreditTypes
<1>2. confirming[b].step # "no" => creditBooking[b] = "pending" /\ ~control.killed
  BY DEF CreditsInv, OpenIsPending
<1>3. CASE BeginConfirm(b)
  <2> DEFINE row == [confirming[b] EXCEPT !.step = "shared"]
  <2>1. row \in ConfirmingRow /\ row.step = "shared"
    BY <1>1 DEF ConfirmingRow
  <2>2. HasRoom(b, row)
    BY <2>1 DEF HasRoom
  <2>3. confirming' = [confirming EXCEPT ![b] = row]
    BY <1>3 DEF BeginConfirm
  <2> HIDE DEF row
  <2> QED
    BY <1>3, <2>1, <2>2, <2>3, ConfirmingMoves DEF BeginConfirm
<1>4. CASE Consume(b)
  <2>1. PICK g : /\ confirming' = [confirming EXCEPT ![b] =
                                    [step |-> "spent", verdict |-> Verdict(SellerOf[b]), grant |-> g]]
                 /\ \/ Spendable(SellerOf[b]) # {}
                       /\ g = CHOOSE x \in Spendable(SellerOf[b]) : \A h \in Spendable(SellerOf[b]) : x <= h
                    \/ g = 0 /\ PermitsWithoutGrant(Verdict(SellerOf[b]))
    BY <1>4 DEF Consume
  <2>2. Spendable(SellerOf[b]) \subseteq 1 .. MaxGrants
    BY <1>1, CreditTypes DEF Spendable, PositiveGrants
  <2>3. Spendable(SellerOf[b]) # {} =>
          \E x \in Spendable(SellerOf[b]) : \A h \in Spendable(SellerOf[b]) : x <= h
    <3>1. Spendable(SellerOf[b]) \in SUBSET Nat
      BY <2>2, CreditTypes
    <3> QED
      BY <3>1, LeastNumber
  <2>4. g \in Spendable(SellerOf[b]) \/ (g = 0 /\ PermitsWithoutGrant(Verdict(SellerOf[b])))
    <3>1. CASE Spendable(SellerOf[b]) # {} /\ g = CHOOSE x \in Spendable(SellerOf[b]) : \A h \in Spendable(SellerOf[b]) : x <= h
      <4> DEFINE S == Spendable(SellerOf[b])
      <4>1. \E x \in S : \A h \in S : x <= h
        BY <2>3, <3>1
      <4> HIDE DEF S
      <4>2. (CHOOSE x \in S : \A h \in S : x <= h) \in S
        BY <4>1, Zenon
      <4> QED
        BY <3>1, <4>2 DEF S
    <3>2. CASE g = 0 /\ PermitsWithoutGrant(Verdict(SellerOf[b]))
      BY <3>2
    <3> QED
      BY <2>1, <3>1, <3>2
  <2> DEFINE row == [step |-> "spent", verdict |-> Verdict(SellerOf[b]), grant |-> g]
  <2>5. Verdict(SellerOf[b]) \in Verdicts
    BY <1>1 DEF Verdict, Verdicts, CreditsInv, CreditsTypeOK, GovernanceRow
  <2>6. row \in ConfirmingRow
    BY <2>2, <2>4, <2>5, CreditTypes DEF ConfirmingRow
  <2>7. HasRoom(b, row)
    BY <2>2, <2>4 DEF HasRoom, Spendable, PositiveGrants, PermitsWithoutGrant
  <2>8. /\ confirming' = [confirming EXCEPT ![b] = row] /\ row.step = "spent" /\ PartyLockFree(SellerOf[b])
        /\ creditBooking[b] = "pending" /\ ~control.killed
    BY <1>2, <1>4, <2>1 DEF Consume
  <2> HIDE DEF row
  <2> QED
    BY <1>4, <2>6, <2>7, <2>8, ConfirmingMoves DEF Consume
<1>5. CASE AbortConfirm(b)
  <2> DEFINE row == [step |-> "no", verdict |-> "none", grant |-> 0]
  <2>1. row \in ConfirmingRow /\ row.step = "no" /\ HasRoom(b, row)
    BY CreditTypes DEF ConfirmingRow, Verdicts, HasRoom
  <2>2. confirming' = [confirming EXCEPT ![b] = row] /\ creditBooking[b] = "pending"
    BY <1>2, <1>5 DEF AbortConfirm
  <2> HIDE DEF row
  <2> QED
    BY <1>5, <2>1, <2>2, ConfirmingMoves DEF AbortConfirm
<1> QED
  BY <1>3, <1>4, <1>5

\* The commit of a confirmation: its party's lock keeps the room it found.
LEMMA CommitConfirmSteps ==
  ASSUME CreditsInv, NEW b \in Bookings, CommitConfirm(b)
  PROVE  CreditsInv'
<1> DEFINE p == SellerOf[b]
           g == confirming[b].grant
           row == [confirming[b] EXCEPT !.step = "no"]
<1>1. /\ confirming \in [Bookings -> ConfirmingRow] /\ p \in Sellers /\ g \in 0 .. MaxGrants
      /\ consumption \in [Bookings -> 0 .. MaxGrants] /\ MaxGrants \in Nat
      /\ creditBooking \in [Bookings -> {"pending", "confirmed", "cancelled"}]
  BY CreditTypes DEF CreditsInv, CreditsTypeOK, ConfirmingRow
<1>2. /\ confirming' = [confirming EXCEPT ![b] = row] /\ row \in ConfirmingRow /\ row.step = "no"
      /\ row.verdict = confirming[b].verdict
      /\ consumption' = [consumption EXCEPT ![b] = g]
      /\ creditBooking' = [creditBooking EXCEPT ![b] = "confirmed"]
  BY <1>1 DEF CommitConfirm, ConfirmingRow
<1>3. /\ confirming[b].step = "spent" /\ creditBooking[b] = "pending" /\ consumption[b] = 0
      /\ HasRoom(b, confirming[b])
  BY DEF CommitConfirm, CreditsInv, OpenIsPending, SpentHasRoom
<1>4. /\ g # 0 => g \in DOMAIN creditGrants[p] /\ SpentOf(p, g) < creditGrants[p][g]
      /\ confirming[b].verdict = "governed" => g # 0
  BY <1>3 DEF HasRoom
<1>5. /\ UNCHANGED <<control, governance, eligible, plan, creditGrants, returned, cancelling,
                     commands, creating>>
  BY DEF CommitConfirm
<1> HIDE DEF p, g, row
<1>6. /\ confirming' \in [Bookings -> ConfirmingRow]
      /\ confirming'[b] = row /\ \A a \in Bookings \ {b} : confirming'[a] = confirming[a]
      /\ consumption' \in [Bookings -> 0 .. MaxGrants]
      /\ consumption'[b] = g /\ \A a \in Bookings \ {b} : consumption'[a] = consumption[a]
      /\ creditBooking' \in [Bookings -> {"pending", "confirmed", "cancelled"}]
      /\ creditBooking'[b] = "confirmed" /\ \A a \in Bookings \ {b} : creditBooking'[a] = creditBooking[a]
  BY <1>1, <1>2
<1>7. ASSUME NEW q \in Sellers, NEW h \in Nat \ {0}
      PROVE  /\ SpentOf(q, h) \in Nat /\ SpentOf(q, h)' \in Nat
             /\ SpentOf(q, h)' <= (IF q = p /\ h = g THEN SpentOf(q, h) + 1 ELSE SpentOf(q, h))
  <2> DEFINE S == {a \in BookingsOf(q) : consumption[a] = h /\ a \notin returned}
             T == {a \in BookingsOf(q) : consumption'[a] = h /\ a \notin returned}
  <2>1. SpentOf(q, h) = Cardinality(S) /\ SpentOf(q, h)' = Cardinality(T) /\ IsFiniteSet(S)
        /\ Cardinality(S) \in Nat
    BY <1>5, CreditTypes DEF SpentOf, BookingsOf
  <2>2. q = p /\ h = g => T \subseteq S \union {b}
    BY <1>6 DEF BookingsOf
  <2>3. ~(q = p /\ h = g) => T \subseteq S
    BY <1>6 DEF BookingsOf, p
  <2> HIDE DEF S, T
  <2>4. IsFiniteSet(S \union {b}) /\ Cardinality(S \union {b}) <= Cardinality(S) + 1
        /\ Cardinality(S \union {b}) \in Nat
    <3>1. /\ IsFiniteSet(S \union {b})
          /\ Cardinality(S \union {b}) = IF b \in S THEN Cardinality(S) ELSE Cardinality(S) + 1
      BY <2>1, FS_AddElement
    <3> QED
      BY <2>1, <3>1
  <2>5. CASE q = p /\ h = g
    <3>1. Cardinality(T) \in Nat /\ Cardinality(T) <= Cardinality(S \union {b})
      BY <2>2, <2>4, <2>5, SpentFinite
    <3> QED
      BY <2>1, <2>4, <2>5, <3>1
  <2>6. CASE ~(q = p /\ h = g)
    <3>1. Cardinality(T) \in Nat /\ Cardinality(T) <= Cardinality(S)
      BY <2>1, <2>3, <2>6, SpentFinite
    <3> QED
      BY <2>1, <2>6, <3>1
  <2> QED
    BY <2>5, <2>6
<1>8. CreditsTypeOK'
  BY <1>5, <1>6 DEF CreditsInv, CreditsTypeOK, ConfirmingRow
<1>9. NeverOverspent'
  <2> SUFFICES ASSUME NEW q \in Sellers, NEW h \in DOMAIN creditGrants[q]
               PROVE  SpentOf(q, h)' <= creditGrants[q][h]
    BY <1>5 DEF NeverOverspent
  <2>1. h \in Nat \ {0} /\ creditGrants[q][h] \in Nat /\ SpentOf(q, h) <= creditGrants[q][h]
    BY CreditTypes DEF CreditsInv, NeverOverspent
  <2> QED
    BY <1>4, <1>7, <2>1
<1>10. ActiveCoversEveryone' /\ CreatedAsSeen'
  BY <1>5 DEF CreditsInv, ActiveCoversEveryone, CreatedAsSeen
<1>11. GovernedIsPaidFor' /\ OpenIsPending'
  BY <1>2, <1>4, <1>5, <1>6 DEF CreditsInv, GovernedIsPaidFor, OpenIsPending
<1>12. ConsumptionsExist'
  <2>1. {a \in Bookings : consumption'[a] # 0} \subseteq {a \in Bookings : consumption[a] # 0} \union {b}
    BY <1>6
  <2>2. IsFiniteSet({a \in Bookings : consumption[a] # 0} \union {b})
    BY FS_AddElement DEF CreditsInv, ConsumptionsExist
  <2>3. IsFiniteSet({a \in Bookings : consumption'[a] # 0})
    BY <2>1, <2>2, FS_Subset
  <2>4. g \in 0 .. Len(creditGrants[p])
    BY <1>1, <1>4, CreditTypes
  <2>5. \A a \in Bookings : consumption'[a] \in 0 .. Len(creditGrants[SellerOf[a]])
    BY <1>6, <2>4 DEF CreditsInv, ConsumptionsExist, p
  <2> QED
    BY <1>5, <2>3, <2>5 DEF ConsumptionsExist
<1>13. SpentApart'
  BY <1>2, <1>6 DEF CreditsInv, SpentApart
<1>14. SpentHasRoom'
  <2> SUFFICES ASSUME NEW a \in Bookings, confirming'[a].step = "spent"
               PROVE  /\ confirming'[a].grant # 0 =>
                           /\ confirming'[a].grant \in DOMAIN creditGrants'[SellerOf[a]]
                           /\ SpentOf(SellerOf[a], confirming[a].grant)' < creditGrants'[SellerOf[a]][confirming'[a].grant]
                      /\ confirming'[a].verdict = "governed" => confirming'[a].grant # 0
    BY DEF SpentHasRoom, HasRoom
  <2>1. a # b /\ confirming'[a] = confirming[a]
    BY <1>2, <1>6
  <2>2. SellerOf[a] # p
    BY <1>3, <2>1 DEF CreditsInv, SpentApart, p
  <2>3. HasRoom(a, confirming[a]) /\ SellerOf[a] \in Sellers /\ confirming[a].grant \in Nat
    BY CreditTypes DEF CreditsInv, SpentHasRoom, ConfirmingRow
  <2>4. confirming[a].grant # 0 =>
          /\ creditGrants[SellerOf[a]][confirming[a].grant] \in Nat
          /\ SpentOf(SellerOf[a], confirming[a].grant) \in Nat
          /\ SpentOf(SellerOf[a], confirming[a].grant)' \in Nat
          /\ SpentOf(SellerOf[a], confirming[a].grant)' <= SpentOf(SellerOf[a], confirming[a].grant)
    BY <1>7, <2>1, <2>2, <2>3, CreditTypes DEF HasRoom
  <2> QED
    BY <1>5, <2>1, <2>3, <2>4 DEF HasRoom
<1> QED
  BY <1>8, <1>9, <1>10, <1>11, <1>12, <1>13, <1>14 DEF CreditsInv

\* A cancellation gives room back, never takes it.
LEMMA CancelSteps ==
  ASSUME CreditsInv, NEW b \in Bookings,
         ReadForCancel(b) \/ \E actor \in {"customer", "professional", "system"} : Cancel(b, actor)
  PROVE  CreditsInv'
<1>1. /\ UNCHANGED <<control, governance, eligible, plan, creditGrants, consumption, confirming,
                     commands, creating>>
      /\ creditBooking' \in [Bookings -> {"pending", "confirmed", "cancelled"}]
      /\ \A a \in Bookings : creditBooking'[a] = creditBooking[a]
                             \/ (creditBooking'[a] = "cancelled" /\ confirming[a].step = "no")
      /\ returned \subseteq returned' /\ returned' \subseteq Bookings
      /\ cancelling' \in [Bookings -> {"no", "saw_pending", "saw_confirmed"}]
  <2>1. /\ creditBooking \in [Bookings -> {"pending", "confirmed", "cancelled"}]
        /\ returned \subseteq Bookings
        /\ cancelling \in [Bookings -> {"no", "saw_pending", "saw_confirmed"}]
    BY DEF CreditsInv, CreditsTypeOK
  <2>2. CASE ReadForCancel(b)
    BY <2>1, <2>2 DEF ReadForCancel
  <2>3. CASE \E actor \in {"customer", "professional", "system"} : Cancel(b, actor)
    BY <2>1, <2>3 DEF Cancel
  <2> QED
    BY <2>2, <2>3
<1>2. ASSUME NEW q \in Sellers, NEW h \in Nat \ {0}
      PROVE  SpentOf(q, h) \in Nat /\ SpentOf(q, h)' \in Nat /\ SpentOf(q, h)' <= SpentOf(q, h)
  <2> DEFINE S == {a \in BookingsOf(q) : consumption[a] = h /\ a \notin returned}
             T == {a \in BookingsOf(q) : consumption[a] = h /\ a \notin returned'}
  <2>1. SpentOf(q, h) = Cardinality(S) /\ SpentOf(q, h)' = Cardinality(T) /\ IsFiniteSet(S)
        /\ Cardinality(S) \in Nat
    BY <1>1, CreditTypes DEF SpentOf, BookingsOf
  <2>2. T \subseteq S
    BY <1>1
  <2> HIDE DEF S, T
  <2> QED
    BY <2>1, <2>2, SpentFinite
<1>3. CreditsTypeOK'
  BY <1>1 DEF CreditsInv, CreditsTypeOK
<1>4. NeverOverspent'
  <2> SUFFICES ASSUME NEW q \in Sellers, NEW h \in DOMAIN creditGrants[q]
               PROVE  SpentOf(q, h)' <= creditGrants[q][h]
    BY <1>1 DEF NeverOverspent
  <2>1. h \in Nat \ {0} /\ creditGrants[q][h] \in Nat /\ SpentOf(q, h) <= creditGrants[q][h]
    BY CreditTypes DEF CreditsInv, NeverOverspent
  <2> QED
    BY <1>2, <2>1
<1>5. /\ ActiveCoversEveryone' /\ CreatedAsSeen' /\ GovernedIsPaidFor' /\ OpenIsPending'
      /\ ConsumptionsExist' /\ SpentApart'
  BY <1>1 DEF CreditsInv, ActiveCoversEveryone, CreatedAsSeen, GovernedIsPaidFor, OpenIsPending,
              ConsumptionsExist, SpentApart
<1>6. SpentHasRoom'
  <2> SUFFICES ASSUME NEW a \in Bookings, confirming[a].step = "spent"
               PROVE  /\ confirming[a].grant # 0 =>
                           /\ confirming[a].grant \in DOMAIN creditGrants[SellerOf[a]]
                           /\ SpentOf(SellerOf[a], confirming[a].grant)' < creditGrants[SellerOf[a]][confirming[a].grant]
                      /\ confirming[a].verdict = "governed" => confirming[a].grant # 0
    BY <1>1 DEF SpentHasRoom, HasRoom
  <2>1. HasRoom(a, confirming[a]) /\ SellerOf[a] \in Sellers /\ confirming[a].grant \in Nat
    BY CreditTypes DEF CreditsInv, SpentHasRoom, ConfirmingRow
  <2>2. confirming[a].grant # 0 =>
          /\ creditGrants[SellerOf[a]][confirming[a].grant] \in Nat
          /\ SpentOf(SellerOf[a], confirming[a].grant) \in Nat
          /\ SpentOf(SellerOf[a], confirming[a].grant)' \in Nat
          /\ SpentOf(SellerOf[a], confirming[a].grant)' <= SpentOf(SellerOf[a], confirming[a].grant)
    <3>1. confirming[a].grant # 0 => /\ confirming[a].grant \in Nat \ {0}
                                     /\ confirming[a].grant \in DOMAIN creditGrants[SellerOf[a]]
      BY <2>1 DEF HasRoom
    <3>2. confirming[a].grant # 0 => creditGrants[SellerOf[a]][confirming[a].grant] \in Nat
      BY <2>1, <3>1, CreditTypes
    <3> QED
      BY <1>1, <1>2, <2>1, <3>1, <3>2
  <2> QED
    BY <2>1, <2>2 DEF HasRoom
<1> QED
  BY <1>3, <1>4, <1>5, <1>6 DEF CreditsInv

\* The rollout and the parties: what changes beside the confirmations.
LEMMA RolloutSteps ==
  ASSUME CreditsInv,
         UNCHANGED <<plan, creditGrants, consumption, returned, creditBooking, confirming, cancelling>>,
         \/ MoveKillSwitch \/ Activate
         \/ \E k \in DOMAIN commands : BeginCommand(k) \/ CommitCommand(k)
         \/ \E p \in Sellers : BeginCreate(p) \/ CommitCreate(p)
  PROVE  CreditsInv'
<1>1. /\ control \in ControlRow /\ governance \in [Sellers -> GovernanceRow] /\ eligible \subseteq Sellers
      /\ commands \in [{"govern", "exempt"} -> [open : BOOLEAN, parties : SUBSET Sellers]]
      /\ creating \in [Sellers -> {"no", "inactive", "active"}]
  BY DEF CreditsInv, CreditsTypeOK
<1>2. \A p, g : SpentOf(p, g)' = SpentOf(p, g)
  BY DEF SpentOf, BookingsOf
<1>3. ASSUME control' \in ControlRow, governance' \in [Sellers -> GovernanceRow], eligible' \subseteq Sellers,
             commands' \in [{"govern", "exempt"} -> [open : BOOLEAN, parties : SUBSET Sellers]],
             creating' \in [Sellers -> {"no", "inactive", "active"}],
             ActiveCoversEveryone', CreatedAsSeen',
             control'.killed => control.killed \/ \A b \in Bookings : confirming[b].step = "no"
      PROVE  CreditsInv'
  <2>1. CreditsTypeOK'
    BY <1>3 DEF CreditsInv, CreditsTypeOK
  <2>2. OpenIsPending'
    BY <1>3 DEF CreditsInv, OpenIsPending
  <2>3. NeverOverspent' /\ GovernedIsPaidFor' /\ ConsumptionsExist' /\ SpentApart' /\ SpentHasRoom'
    BY <1>2 DEF CreditsInv, NeverOverspent, GovernedIsPaidFor, ConsumptionsExist, SpentApart, SpentHasRoom, HasRoom
  <2> QED
    BY <1>3, <2>1, <2>2, <2>3 DEF CreditsInv
<1>4. /\ control.rollout = "active" => \A p \in eligible : governance[p] # "none"
      /\ \A p \in Sellers : creating[p] = "inactive" => control.rollout = "inactive"
  BY DEF CreditsInv, ActiveCoversEveryone, CreatedAsSeen
<1>5. CASE MoveKillSwitch
  <2>1. control' \in ControlRow /\ control'.rollout = control.rollout
    BY <1>1, <1>5 DEF MoveKillSwitch, ControlRow
  <2>2. UNCHANGED <<governance, eligible, commands, creating>> /\ \A b \in Bookings : confirming[b].step = "no"
    BY <1>5 DEF MoveKillSwitch, KillSwitchFree, ControlRowFree
  <2> QED
    BY <1>1, <1>3, <1>4, <2>1, <2>2 DEF ActiveCoversEveryone, CreatedAsSeen
<1>6. CASE Activate
  <2>1. control' \in ControlRow /\ control'.rollout = "active" /\ control'.killed = control.killed
    BY <1>1, <1>6 DEF Activate, ControlRow
  <2>2. /\ UNCHANGED <<governance, eligible, commands, creating>> /\ \A p \in Sellers : creating[p] = "no"
        /\ \A p \in eligible : governance[p] # "none"
    BY <1>6 DEF Activate, Coordinated, ControlRowFree
  <2> QED
    BY <1>1, <1>3, <2>1, <2>2 DEF ActiveCoversEveryone, CreatedAsSeen
<1>7. ASSUME NEW k \in DOMAIN commands, BeginCommand(k) \/ CommitCommand(k)
      PROVE  CreditsInv'
  <2>1. /\ UNCHANGED <<control, eligible, creating>> /\ k \in {"govern", "exempt"}
    BY <1>1, <1>7 DEF BeginCommand, CommitCommand
  <2>2. CASE BeginCommand(k)
    <3> DEFINE candidates == {p \in eligible : IF k = "govern" THEN Entitled(p) ELSE Unentitled(p)}
               row == [open |-> TRUE, parties |-> candidates]
    <3>1. row \in [open : BOOLEAN, parties : SUBSET Sellers]
      BY <1>1
    <3>2. commands' = [commands EXCEPT ![k] = row] /\ UNCHANGED governance
      BY <2>2 DEF BeginCommand
    <3> HIDE DEF row
    <3>3. commands' \in [{"govern", "exempt"} -> [open : BOOLEAN, parties : SUBSET Sellers]]
      BY <1>1, <2>1, <3>1, <3>2
    <3> QED
      BY <1>1, <1>3, <1>4, <2>1, <3>2, <3>3 DEF ActiveCoversEveryone, CreatedAsSeen
  <2>3. CASE CommitCommand(k)
    <3> DEFINE row == [open |-> FALSE, parties |-> {}]
    <3>1. row \in [open : BOOLEAN, parties : SUBSET Sellers]
      OBVIOUS
    <3>2. commands' = [commands EXCEPT ![k] = row]
      BY <2>3 DEF CommitCommand
    <3> HIDE DEF row
    <3>3. commands' \in [{"govern", "exempt"} -> [open : BOOLEAN, parties : SUBSET Sellers]]
      BY <1>1, <2>1, <3>1, <3>2
    <3>4. /\ governance' \in [Sellers -> GovernanceRow]
          /\ \A p \in Sellers : governance[p] # "none" => governance'[p] # "none"
      BY <1>1, <2>3 DEF CommitCommand, GovernanceRow
    <3> QED
      BY <1>1, <1>3, <1>4, <2>1, <3>3, <3>4 DEF ActiveCoversEveryone, CreatedAsSeen
  <2> QED
    BY <1>7, <2>2, <2>3
<1>8. ASSUME NEW p \in Sellers, BeginCreate(p) \/ CommitCreate(p)
      PROVE  CreditsInv'
  <2>1. CASE BeginCreate(p)
    <3>1. /\ UNCHANGED <<control, governance, eligible, commands>>
          /\ creating' = [creating EXCEPT ![p] = control.rollout] /\ control.rollout \in {"inactive", "active"}
      BY <1>1, <2>1 DEF BeginCreate, ControlRow
    <3> QED
      BY <1>1, <1>3, <1>4, <3>1 DEF ActiveCoversEveryone, CreatedAsSeen
  <2>2. CASE CommitCreate(p)
    <3>1. /\ UNCHANGED <<control, commands>> /\ creating' = [creating EXCEPT ![p] = "no"]
          /\ eligible' = eligible \union {p} /\ creating[p] \in {"inactive", "active"}
          /\ governance' = [governance EXCEPT ![p] = IF creating[p] = "active" THEN "governed" ELSE @]
      BY <1>1, <2>2 DEF CommitCreate
    <3>2. /\ governance' \in [Sellers -> GovernanceRow]
          /\ control.rollout = "active" => governance'[p] # "none"
          /\ \A q \in Sellers : governance[q] # "none" => governance'[q] # "none"
      BY <1>1, <1>4, <3>1 DEF GovernanceRow, ControlRow
    <3> QED
      BY <1>1, <1>3, <1>4, <3>1, <3>2 DEF ActiveCoversEveryone, CreatedAsSeen
  <2> QED
    BY <1>8, <2>1, <2>2
<1> QED
  BY <1>5, <1>6, <1>7, <1>8

LEMMA CreditsBegin == CreditsInit => CreditsInv
<1> SUFFICES ASSUME CreditsInit PROVE CreditsInv
  OBVIOUS
<1>1. CreditsTypeOK
  <2>1. Founders \subseteq Sellers /\ MaxGrants \in Nat
    BY CreditsAssumption
  <2>2. control \in ControlRow
    BY DEF CreditsInit, ControlRow
  <2>3. /\ governance \in [Sellers -> GovernanceRow] /\ eligible \subseteq Sellers
        /\ plan \in [Sellers -> SubscriptionRow] /\ returned \subseteq Bookings
        /\ consumption \in [Bookings -> 0 .. MaxGrants]
        /\ creditBooking \in [Bookings -> {"pending", "confirmed", "cancelled"}]
        /\ cancelling \in [Bookings -> {"no", "saw_pending", "saw_confirmed"}]
        /\ creating \in [Sellers -> {"no", "inactive", "active"}]
    BY <2>1 DEF CreditsInit, GovernanceRow, SubscriptionRow
  <2>4. creditGrants \in [Sellers -> Seq({PlusPlan, BasePlan})] /\ \A p \in Sellers : Len(creditGrants[p]) <= MaxGrants
    BY <2>1 DEF CreditsInit
  <2>5. confirming \in [Bookings -> [step : {"no", "shared", "spent"}, verdict : Verdicts, grant : 0 .. MaxGrants]]
    BY <2>1 DEF CreditsInit, Verdicts
  <2>6. commands \in [{"govern", "exempt"} -> [open : BOOLEAN, parties : SUBSET Sellers]]
    BY DEF CreditsInit
  <2> QED
    BY <2>2, <2>3, <2>4, <2>5, <2>6 DEF CreditsTypeOK
<1>2. NeverOverspent /\ ActiveCoversEveryone /\ GovernedIsPaidFor /\ OpenIsPending /\ SpentApart /\ CreatedAsSeen
  BY DEF CreditsInit, NeverOverspent, ActiveCoversEveryone, GovernedIsPaidFor, OpenIsPending, SpentApart, CreatedAsSeen
<1>3. ConsumptionsExist
  <2>1. {b \in Bookings : consumption[b] # 0} = {}
    BY DEF CreditsInit
  <2>2. \A b \in Bookings : consumption[b] = 0 /\ Len(creditGrants[SellerOf[b]]) = 0
    BY CreditsAssumption DEF CreditsInit
  <2> QED
    BY <2>1, <2>2, FS_EmptySet DEF ConsumptionsExist
<1>4. SpentHasRoom
  BY DEF CreditsInit, SpentHasRoom, HasRoom
<1> QED
  BY <1>1, <1>2, <1>3, <1>4 DEF CreditsInv

LEMMA CreditsSteps == CreditsInv /\ [CreditsNext]_creditVars => CreditsInv'
<1> SUFFICES ASSUME CreditsInv, [CreditsNext]_creditVars PROVE CreditsInv'
  OBVIOUS
<1>1. ASSUME NEW p \in Sellers,
             EnsureBaseSubscription(p) \/ ApplyPlanSelection(p) \/ ApplyCancellation(p)
      PROVE  CreditsInv'
  <2>1. "base" \in SubscriptionRow /\ "plus" \in SubscriptionRow
    BY DEF SubscriptionRow
  <2>2. /\ <<BasePlan>> \in Seq({PlusPlan, BasePlan}) /\ <<PlusPlan>> \in Seq({PlusPlan, BasePlan})
        /\ <<BasePlan, PlusPlan>> \in Seq({PlusPlan, BasePlan})
    OBVIOUS
  <2>3. CASE EnsureBaseSubscription(p)
    BY <2>1, <2>2, <2>3, GrantSteps DEF EnsureBaseSubscription
  <2>4. CASE ApplyPlanSelection(p)
    <3> DEFINE credits == IF plan[p] = "none" THEN <<BasePlan, PlusPlan>> ELSE <<PlusPlan>>
    <3>1. credits \in Seq({PlusPlan, BasePlan})
      BY <2>2
    <3>2. IssueForActivation(p, credits)
      BY <2>4 DEF ApplyPlanSelection
    <3> HIDE DEF credits
    <3> QED
      BY <2>1, <2>4, <3>1, <3>2, GrantSteps DEF ApplyPlanSelection
  <2>5. CASE ApplyCancellation(p)
    BY <2>1, <2>2, <2>5, GrantSteps DEF ApplyCancellation
  <2> QED
    BY <1>1, <2>3, <2>4, <2>5
<1>2. ASSUME NEW p \in Sellers, BeginCreate(p) \/ CommitCreate(p)
      PROVE  CreditsInv'
  <2>1. UNCHANGED <<plan, creditGrants, consumption, returned, creditBooking, confirming, cancelling>>
    BY <1>2 DEF BeginCreate, CommitCreate
  <2> QED
    BY <1>2, <2>1, RolloutSteps
<1>3. ASSUME NEW k \in DOMAIN commands, BeginCommand(k) \/ CommitCommand(k)
      PROVE  CreditsInv'
  <2>1. UNCHANGED <<plan, creditGrants, consumption, returned, creditBooking, confirming, cancelling>>
    BY <1>3 DEF BeginCommand, CommitCommand
  <2> QED
    BY <1>3, <2>1, RolloutSteps
<1>4. CASE MoveKillSwitch \/ Activate
  <2>1. UNCHANGED <<plan, creditGrants, consumption, returned, creditBooking, confirming, cancelling>>
    BY <1>4 DEF MoveKillSwitch, Activate
  <2> QED
    BY <1>4, <2>1, RolloutSteps
<1>5. CASE UNCHANGED creditVars
  <2>1. \A p, g : SpentOf(p, g)' = SpentOf(p, g)
    BY <1>5 DEF SpentOf, BookingsOf, creditVars
  <2> QED
    BY <1>5, <2>1 DEF CreditsInv, CreditsTypeOK, NeverOverspent, ActiveCoversEveryone, GovernedIsPaidFor,
                      ConsumptionsExist, OpenIsPending, SpentApart, SpentHasRoom, HasRoom, CreatedAsSeen, creditVars
<1> QED
  BY <1>1, <1>2, <1>3, <1>4, <1>5, GateSteps, CommitConfirmSteps, CancelSteps DEF CreditsNext

\* The confirmation gate holds (CreditsGateConfirmations), whichever confirmations,
\* cancellations, plan changes and governance commands of a rollout run at once: no
\* grant is overspent, no governed booking is confirmed unpaid, and nothing becomes
\* confirmed while the kill switch is engaged.
THEOREM CreditsGate == CommercialSpec => CreditsGateConfirmations
<1>1. Init => CreditsInv
  BY CreditsBegin DEF Init
<1>2. CreditsInv /\ [Next]_vars => CreditsInv'
  <2>1. [Next]_vars => [CreditsNext]_creditVars
    BY DEF Next, vars
  <2> QED
    BY <2>1, CreditsSteps
<1>3. CreditsInv => CreditsTypeOK /\ NeverOverspent /\ ActiveCoversEveryone /\ GovernedIsPaidFor
  BY DEF CreditsInv
<1>4. CreditsInv /\ [Next]_vars =>
        [control.killed => \A b \in Bookings :
           creditBooking'[b] = "confirmed" => creditBooking[b] = "confirmed"]_creditVars
  <2> SUFFICES ASSUME CreditsInv, CreditsNext, control.killed, NEW b \in Bookings,
                      creditBooking'[b] = "confirmed", creditBooking[b] # "confirmed"
               PROVE  FALSE
    BY DEF Next, vars
  <2>1. creditBooking \in [Bookings -> {"pending", "confirmed", "cancelled"}]
    BY DEF CreditsInv, CreditsTypeOK
  <2>2. ASSUME NEW a \in Bookings, CommitConfirm(a) PROVE FALSE
    BY <2>2 DEF CommitConfirm, CreditsInv, OpenIsPending
  <2>3. ASSUME NEW a \in Bookings, NEW actor, Cancel(a, actor) PROVE FALSE
    BY <2>1, <2>3 DEF Cancel
  <2>4. UNCHANGED creditBooking => FALSE
    OBVIOUS
  <2> QED
    BY <2>2, <2>3, <2>4 DEF CreditsNext, EnsureBaseSubscription, ApplyPlanSelection, ApplyCancellation, BeginCreate,
         CommitCreate, BeginConfirm, Consume, AbortConfirm, ReadForCancel, BeginCommand, CommitCommand,
         MoveKillSwitch, Activate
<1> QED
  BY <1>1, <1>2, <1>3, <1>4, PTL DEF CommercialSpec, CreditsGateConfirmations, KillSwitchStops

(* Sums.  Facts about SumFunctionOnSet, by induction on finite sets.       *)

\* Sets that follow from their proper subsets are all the subsets of a finite set.
LEMMA SubsetInduction ==
  ASSUME NEW S, IsFiniteSet(S), NEW Good,
         \A s \in SUBSET S : (\A t \in SUBSET s : t # s => t \in Good) => s \in Good
  PROVE  \A s \in SUBSET S : s \in Good
<1> DEFINE Sizes == {n \in Nat : \E s \in SUBSET S : s \notin Good /\ Cardinality(s) = n}
<1>1. SUFFICES ASSUME NEW s \in SUBSET S, s \notin Good PROVE FALSE
  OBVIOUS
<1>2. \A t \in SUBSET S : IsFiniteSet(t) /\ Cardinality(t) \in Nat
  BY FS_Subset, FS_CardinalityType
<1>3. Sizes # {} /\ Sizes \subseteq Nat
  BY <1>1, <1>2
<1> HIDE DEF Sizes
<1>4. PICK n \in Sizes : \A m \in Sizes : n <= m
  BY <1>3, LeastNumber
<1>5. \A m \in Sizes : ~(m < n)
  BY <1>3, <1>4
<1>6. PICK t \in SUBSET S : t \notin Good /\ Cardinality(t) = n
  BY <1>4 DEF Sizes
<1>7. PICK u \in SUBSET t : u # t /\ u \notin Good
  BY <1>6
<1>8. Cardinality(u) < n
  BY <1>2, <1>6, <1>7, FS_Subset
<1>9. Cardinality(u) \in Sizes
  BY <1>2, <1>6, <1>7 DEF Sizes
<1> QED
  BY <1>5, <1>8, <1>9

\* The element a sum takes next, and the function it is computed by.
Picked(s) == CHOOSE x \in s : TRUE
Less(s) == s \ {Picked(s)}
IsSum(g, f, S) == g = [s \in SUBSET S |-> IF s = {} THEN 0 ELSE f[Picked(s)] + g[Less(s)]]
SumFcn(f, S) == CHOOSE g : IsSum(g, f, S)

LEMMA PickedIsIn == \A s : s # {} => Picked(s) \in s /\ Less(s) \subseteq s /\ Less(s) # s
  BY DEF Picked, Less

LEMMA SumIsChosen == \A f, S : SumFunctionOnSet(f, S) = SumFcn(f, S)[S]
  BY DEF SumFunctionOnSet, FoldFunctionOnSet, MapThenFoldSet, SumFcn, IsSum, Picked, Less

\* A set and a larger one are summed alike.
LEMMA SumUnique ==
  ASSUME NEW f, NEW S, IsFiniteSet(S), NEW T, S \subseteq T, NEW g, IsSum(g, f, S), NEW h, IsSum(h, f, T)
  PROVE  \A s \in SUBSET S : g[s] = h[s]
<1> DEFINE Good == {s \in SUBSET S : g[s] = h[s]}
<1>1. /\ \A s \in SUBSET S : g[s] = IF s = {} THEN 0 ELSE f[Picked(s)] + g[Less(s)]
      /\ \A s \in SUBSET T : h[s] = IF s = {} THEN 0 ELSE f[Picked(s)] + h[Less(s)]
  BY DEF IsSum
<1>2. ASSUME NEW s \in SUBSET S, \A t \in SUBSET s : t # s => t \in Good PROVE s \in Good
  <2>1. CASE s = {}
    BY <1>1, <2>1
  <2>2. CASE s # {}
    <3>1. Less(s) \in Good
      BY <1>2, <2>2, PickedIsIn
    <3> QED
      BY <1>1, <2>2, <3>1
  <2> QED
    BY <2>1, <2>2
<1> HIDE DEF Good
<1>3. \A s \in SUBSET S : s \in Good
  BY <1>2, SubsetInduction
<1> QED
  BY <1>3 DEF Good

LEMMA SumExists ==
  ASSUME NEW f, NEW S, IsFiniteSet(S)
  PROVE  IsSum(SumFcn(f, S), f, S)
<1> DEFINE Good == {s \in SUBSET S : IsSum(SumFcn(f, s), f, s)}
<1>1. \A s \in SUBSET S : IsFiniteSet(s)
  BY FS_Subset
<1>2. ASSUME NEW U \in SUBSET S, \A t \in SUBSET U : t # U => t \in Good PROVE U \in Good
  <2> DEFINE Val(t) == IF t = {} THEN 0 ELSE f[Picked(t)] + SumFcn(f, Less(t))[Less(t)]
             g == [t \in SUBSET U |-> Val(t)]
  <2>1. ASSUME NEW u \in SUBSET U, u # U PROVE SumFcn(f, u)[u] = Val(u)
    <3>1. IsSum(SumFcn(f, u), f, u)
      BY <1>2, <2>1
    <3>2. SumFcn(f, u)[u] = IF u = {} THEN 0 ELSE f[Picked(u)] + SumFcn(f, u)[Less(u)]
      BY <3>1 DEF IsSum
    <3>3. CASE u = {}
      BY <3>2, <3>3
    <3>4. CASE u # {}
      <4>1. Less(u) \subseteq u /\ Less(u) # U /\ IsFiniteSet(Less(u))
        BY <1>1, <2>1, <3>4, PickedIsIn
      <4>2. IsSum(SumFcn(f, Less(u)), f, Less(u))
        BY <1>2, <2>1, <4>1
      <4>3. SumFcn(f, Less(u))[Less(u)] = SumFcn(f, u)[Less(u)]
        BY <3>1, <4>1, <4>2, SumUnique
      <4> QED
        BY <3>2, <3>4, <4>3
    <3> QED
      BY <3>3, <3>4
  <2>2. ASSUME NEW t \in SUBSET U PROVE Val(t) = IF t = {} THEN 0 ELSE f[Picked(t)] + g[Less(t)]
    <3>1. CASE t = {}
      BY <3>1
    <3>2. CASE t # {}
      <4>1. Less(t) \in SUBSET U /\ Less(t) # U
        BY <3>2, PickedIsIn
      <4>2. g[Less(t)] = SumFcn(f, Less(t))[Less(t)]
        BY <2>1, <4>1
      <4> QED
        BY <3>2, <4>2
    <3> QED
      BY <3>1, <3>2
  <2>3. IsSum(g, f, U)
    <3> HIDE DEF Val
    <3>1. g = [t \in SUBSET U |-> IF t = {} THEN 0 ELSE f[Picked(t)] + g[Less(t)]]
      BY <2>2
    <3> QED
      BY <3>1 DEF IsSum
  <2> HIDE DEF g
  <2>4. IsSum(SumFcn(f, U), f, U)
    BY <2>3 DEF SumFcn
  <2> QED
    BY <2>4
<1> HIDE DEF Good
<1>3. \A s \in SUBSET S : s \in Good
  BY <1>2, SubsetInduction
<1> QED
  BY <1>3 DEF Good

\* A sum, one element at a time.
LEMMA SumStep ==
  ASSUME NEW f, NEW S, IsFiniteSet(S)
  PROVE  SumFunctionOnSet(f, S) =
           IF S = {} THEN 0 ELSE f[Picked(S)] + SumFunctionOnSet(f, Less(S))
<1>1. IsSum(SumFcn(f, S), f, S)
  BY SumExists
<1>2. SumFcn(f, S)[S] = IF S = {} THEN 0 ELSE f[Picked(S)] + SumFcn(f, S)[Less(S)]
  BY <1>1 DEF IsSum
<1>3. CASE S = {}
  BY <1>2, <1>3, SumIsChosen
<1>4. CASE S # {}
  <2>1. Less(S) \subseteq S /\ IsFiniteSet(Less(S))
    BY <1>4, PickedIsIn, FS_Subset
  <2>2. IsSum(SumFcn(f, Less(S)), f, Less(S))
    BY <2>1, SumExists
  <2>3. SumFcn(f, Less(S))[Less(S)] = SumFcn(f, S)[Less(S)]
    BY <1>1, <2>1, <2>2, SumUnique
  <2> QED
    BY <1>2, <1>4, <2>3, SumIsChosen
<1> QED
  BY <1>3, <1>4

LEMMA SumOfNone == \A f : SumFunctionOnSet(f, {}) = 0
<1> SUFFICES ASSUME NEW f PROVE SumFunctionOnSet(f, {}) = 0
  OBVIOUS
<1>1. IsFiniteSet({})
  BY FS_EmptySet
<1> QED
  BY <1>1, SumStep

LEMMA SumInt ==
  ASSUME NEW f, NEW S, IsFiniteSet(S), \A x \in S : f[x] \in Int
  PROVE  SumFunctionOnSet(f, S) \in Int
<1> DEFINE Good == {s \in SUBSET S : SumFunctionOnSet(f, s) \in Int}
<1>1. ASSUME NEW s \in SUBSET S, \A t \in SUBSET s : t # s => t \in Good PROVE s \in Good
  <2>1. SumFunctionOnSet(f, s) = IF s = {} THEN 0 ELSE f[Picked(s)] + SumFunctionOnSet(f, Less(s))
    BY SumStep, FS_Subset
  <2>2. CASE s = {}
    BY <2>1, <2>2
  <2>3. CASE s # {}
    <3>1. Less(s) \in Good /\ f[Picked(s)] \in Int
      BY <1>1, <2>3, PickedIsIn
    <3> QED
      BY <2>1, <2>3, <3>1
  <2> QED
    BY <2>2, <2>3
<1> HIDE DEF Good
<1>2. \A s \in SUBSET S : s \in Good
  BY <1>1, SubsetInduction
<1> QED
  BY <1>2 DEF Good

\* Sums of numbers that are no less than 0 are no less than 0.
LEMMA SumNat ==
  ASSUME NEW f, NEW S, IsFiniteSet(S), \A x \in S : f[x] \in Nat
  PROVE  SumFunctionOnSet(f, S) \in Nat
<1> DEFINE Good == {s \in SUBSET S : SumFunctionOnSet(f, s) \in Nat}
<1>1. ASSUME NEW s \in SUBSET S, \A t \in SUBSET s : t # s => t \in Good PROVE s \in Good
  <2>1. SumFunctionOnSet(f, s) = IF s = {} THEN 0 ELSE f[Picked(s)] + SumFunctionOnSet(f, Less(s))
    BY SumStep, FS_Subset
  <2>2. CASE s = {}
    BY <2>1, <2>2
  <2>3. CASE s # {}
    <3>1. Less(s) \in Good /\ f[Picked(s)] \in Nat
      BY <1>1, <2>3, PickedIsIn
    <3> QED
      BY <2>1, <2>3, <3>1
  <2> QED
    BY <2>2, <2>3
<1> HIDE DEF Good
<1>2. \A s \in SUBSET S : s \in Good
  BY <1>1, SubsetInduction
<1> QED
  BY <1>2 DEF Good

\* Only the values of the elements matter.
LEMMA SumSame ==
  ASSUME NEW f, NEW g, NEW S, IsFiniteSet(S), \A x \in S : f[x] = g[x]
  PROVE  SumFunctionOnSet(f, S) = SumFunctionOnSet(g, S)
<1> DEFINE Good == {s \in SUBSET S : SumFunctionOnSet(f, s) = SumFunctionOnSet(g, s)}
<1>1. ASSUME NEW s \in SUBSET S, \A t \in SUBSET s : t # s => t \in Good PROVE s \in Good
  <2>1. /\ SumFunctionOnSet(f, s) = IF s = {} THEN 0 ELSE f[Picked(s)] + SumFunctionOnSet(f, Less(s))
        /\ SumFunctionOnSet(g, s) = IF s = {} THEN 0 ELSE g[Picked(s)] + SumFunctionOnSet(g, Less(s))
    BY SumStep, FS_Subset
  <2>2. CASE s = {}
    BY <2>1, <2>2
  <2>3. CASE s # {}
    <3>1. Less(s) \in Good /\ f[Picked(s)] = g[Picked(s)]
      BY <1>1, <2>3, PickedIsIn
    <3> QED
      BY <2>1, <2>3, <3>1
  <2> QED
    BY <2>2, <2>3
<1> HIDE DEF Good
<1>2. \A s \in SUBSET S : s \in Good
  BY <1>1, SubsetInduction
<1> QED
  BY <1>2 DEF Good

\* Whichever element is taken first.
LEMMA SumTakes ==
  ASSUME NEW f, NEW S, IsFiniteSet(S), \A x \in S : f[x] \in Int, NEW y \in S
  PROVE  SumFunctionOnSet(f, S) = f[y] + SumFunctionOnSet(f, S \ {y})
<1> DEFINE Good == {s \in SUBSET S :
                      \A x \in s : SumFunctionOnSet(f, s) = f[x] + SumFunctionOnSet(f, s \ {x})}
<1>1. ASSUME NEW s \in SUBSET S, \A t \in SUBSET s : t # s => t \in Good PROVE s \in Good
  <2>1. SUFFICES ASSUME NEW x \in s
                 PROVE  SumFunctionOnSet(f, s) = f[x] + SumFunctionOnSet(f, s \ {x})
    OBVIOUS
  <2>2. SumFunctionOnSet(f, s) = f[Picked(s)] + SumFunctionOnSet(f, Less(s))
    BY SumStep, FS_Subset
  <2>3. CASE x = Picked(s)
    BY <2>2, <2>3 DEF Less
  <2>4. CASE x # Picked(s)
    <3> DEFINE c == Picked(s)
               both == s \ {c, x}
    <3>1. c \in s /\ Less(s) = s \ {c}
      BY PickedIsIn DEF Less
    <3> HIDE DEF c
    <3>2. s \ {c} \in Good /\ s \ {x} \in Good
      BY <1>1, <2>1, <3>1
    <3>3. (s \ {c}) \ {x} = both /\ (s \ {x}) \ {c} = both /\ x \in s \ {c} /\ c \in s \ {x}
      BY <2>1, <2>4, <3>1 DEF c
    <3> HIDE DEF both
    <3>4. SumFunctionOnSet(f, s \ {c}) = f[x] + SumFunctionOnSet(f, both)
      BY <3>2, <3>3
    <3>5. SumFunctionOnSet(f, s \ {x}) = f[c] + SumFunctionOnSet(f, both)
      BY <3>2, <3>3
    <3>6. f[x] \in Int /\ f[c] \in Int /\ SumFunctionOnSet(f, both) \in Int
      <4>1. both \subseteq S /\ IsFiniteSet(both)
        BY FS_Subset DEF both
      <4> QED
        BY <3>1, <4>1, SumInt
    <3>7. SumFunctionOnSet(f, s) = f[c] + SumFunctionOnSet(f, s \ {c})
      BY <2>2, <3>1 DEF c
    <3> QED
      BY <3>4, <3>5, <3>6, <3>7
  <2> QED
    BY <2>3, <2>4
<1> HIDE DEF Good
<1>2. \A s \in SUBSET S : s \in Good
  BY <1>1, SubsetInduction
<1> QED
  BY <1>2 DEF Good

\* One more element.
LEMMA SumAdds ==
  ASSUME NEW f, NEW S, IsFiniteSet(S), \A x \in S : f[x] \in Int, NEW y, y \notin S, f[y] \in Int
  PROVE  SumFunctionOnSet(f, S \cup {y}) = f[y] + SumFunctionOnSet(f, S)
<1>1. IsFiniteSet(S \cup {y}) /\ (S \cup {y}) \ {y} = S
  BY FS_AddElement
<1> QED
  BY <1>1, SumTakes

\* Parts sum to the whole.
LEMMA SumParts ==
  ASSUME NEW f, NEW S, IsFiniteSet(S), \A x \in S : f[x] \in Int, NEW P, P \subseteq S
  PROVE  SumFunctionOnSet(f, S) = SumFunctionOnSet(f, P) + SumFunctionOnSet(f, S \ P)
<1> DEFINE Good == {s \in SUBSET S :
                      SumFunctionOnSet(f, s) = SumFunctionOnSet(f, P \cap s) + SumFunctionOnSet(f, s \ P)}
<1>0. \A s \in SUBSET S : IsFiniteSet(s) /\ SumFunctionOnSet(f, s) \in Int
  BY FS_Subset, SumInt
<1>1. ASSUME NEW s \in SUBSET S, \A t \in SUBSET s : t # s => t \in Good PROVE s \in Good
  <2>1. CASE s = {}
    BY <2>1, SumOfNone
  <2>2. CASE s # {}
    <3> DEFINE c == Picked(s)
               t == s \ {c}
    <3>1. c \in s /\ t \in Good /\ f[c] \in Int
      BY <1>1, <2>2, PickedIsIn
    <3> HIDE DEF c, t
    <3>2. SumFunctionOnSet(f, s) = f[c] + SumFunctionOnSet(f, t)
      BY <1>0, <3>1, SumTakes DEF t
    <3>3. /\ SumFunctionOnSet(f, t) = SumFunctionOnSet(f, P \cap t) + SumFunctionOnSet(f, t \ P)
          /\ SumFunctionOnSet(f, t) \in Int /\ SumFunctionOnSet(f, P \cap t) \in Int
          /\ SumFunctionOnSet(f, t \ P) \in Int
      BY <1>0, <3>1
    <3>4. CASE c \in P
      <4>1. t \ P = s \ P /\ P \cap t = (P \cap s) \ {c} /\ c \in P \cap s
        BY <3>1, <3>4 DEF t
      <4>2. SumFunctionOnSet(f, P \cap s) = f[c] + SumFunctionOnSet(f, (P \cap s) \ {c})
        BY <1>0, <4>1, SumTakes
      <4>3. SumFunctionOnSet(f, s) = f[c] + (SumFunctionOnSet(f, P \cap t) + SumFunctionOnSet(f, s \ P))
        BY <3>2, <3>3, <4>1
      <4>4. SumFunctionOnSet(f, P \cap s) = f[c] + SumFunctionOnSet(f, P \cap t)
        BY <4>1, <4>2
      <4>5. f[c] \in Int /\ SumFunctionOnSet(f, P \cap t) \in Int /\ SumFunctionOnSet(f, s \ P) \in Int
        BY <1>0, <3>1, <3>3
      <4>6. SumFunctionOnSet(f, s) = SumFunctionOnSet(f, P \cap s) + SumFunctionOnSet(f, s \ P)
        BY <4>3, <4>4, <4>5
      <4> QED
        BY <4>6
    <3>5. CASE c \notin P
      <4>1. P \cap t = P \cap s /\ t \ P = (s \ P) \ {c} /\ c \in s \ P
        BY <3>1, <3>5 DEF t
      <4>2. SumFunctionOnSet(f, s \ P) = f[c] + SumFunctionOnSet(f, (s \ P) \ {c})
        BY <1>0, <4>1, SumTakes
      <4>3. SumFunctionOnSet(f, s) = f[c] + (SumFunctionOnSet(f, P \cap s) + SumFunctionOnSet(f, t \ P))
        BY <3>2, <3>3, <4>1
      <4>4. SumFunctionOnSet(f, s \ P) = f[c] + SumFunctionOnSet(f, t \ P)
        BY <4>1, <4>2
      <4>5. f[c] \in Int /\ SumFunctionOnSet(f, P \cap s) \in Int /\ SumFunctionOnSet(f, t \ P) \in Int
        BY <1>0, <3>1, <3>3
      <4>6. SumFunctionOnSet(f, s) = SumFunctionOnSet(f, P \cap s) + SumFunctionOnSet(f, s \ P)
        BY <4>3, <4>4, <4>5
      <4> QED
        BY <4>6
    <3> QED
      BY <3>4, <3>5
  <2> QED
    BY <2>1, <2>2
<1> HIDE DEF Good
<1>2. S \in Good
  BY <1>1, SubsetInduction
<1>3. P \cap S = P
  OBVIOUS
<1> QED
  BY <1>2, <1>3 DEF Good
(* Loyalty: the inductive invariant.                                       *)

\* UNIQUE(reference_type, reference_id, reason): one credit of a deed and one reversal
\* of the credit.
LedgerKeyed ==
  /\ \A i, j \in DOMAIN entries :
       entries[i].deed = entries[j].deed /\ entries[i].reversal = entries[j].reversal => i = j
  /\ \A i \in DOMAIN entries :
       IF entries[i].reversal THEN entries[i].points <= 0 /\ Entered(entries[i].deed, FALSE)
       ELSE entries[i].points >= 0

\* What a handler call knows of its deed.
KnowsDeed(q) ==
  /\ q.pc # "idle" => q.deed \in Deeds
  /\ q.pc = "commit" => ~Entered(q.deed, FALSE) /\ q.lifetime <= LifetimeEarned + CallPoints(q)
  /\ q.pc \in {"sync", "activate"} => Entered(q.deed, FALSE) /\ q.lifetime <= SyncedLifetime
  /\ q.pc = "activate" => TierForPoints(q.lifetime) # 0
  /\ q.pc = "mark" /\ DeedPoints[q.deed] > 0 => Entered(q.deed, FALSE)
CallsKnow ==
  /\ \A r \in PointRelays : KnowsDeed(pointCalls[r])
  /\ \A r, s \in PointRelays :
       pointCalls[r].pc = "commit" /\ pointCalls[s].pc = "commit" /\ pointCalls[r].deed = pointCalls[s].deed
         => r = s
DonePaid == \A d \in Deeds : deedEvents[d] = "done" /\ DeedPoints[d] > 0 => Entered(d, FALSE)

\* While calls have not overlapped there is one at most, and it has seen the ledger as it is.
AtTier(q) ==
  /\ q.pc \in {"insert", "commit"} => q.before = CurrentTier
  /\ q.pc = "commit" => q.lifetime = LifetimeEarned + CallPoints(q)
  /\ q.pc \in {"sync", "activate"} => q.lifetime = SyncedLifetime
CallAlone ==
  ~overlapped =>
    /\ \A r, s \in PointRelays : pointCalls[r].pc # "idle" /\ pointCalls[s].pc # "idle" => r = s
    /\ \A r \in PointRelays : AtTier(pointCalls[r])

\* A membership held by qualification is of a tier that was reached with a deed that syncs,
\* and of the last such tier unless a call is about to bring it in line.
SyncedTier == TierForPoints(SyncedLifetime)
TierHeld == membership.source = "tier" => membership.plan \in 1 .. SyncedTier
Syncing(q) == q.pc \in {"sync", "activate"}
FollowsTier ==
  (/\ ~overlapped /\ pointCrashes = 0
   /\ \A r \in PointRelays : ~Syncing(pointCalls[r])
   /\ membership.status = "active" /\ membership.source = "tier")
    => membership.plan = SyncedTier

LoyaltyInv ==
  /\ LoyaltyTypeOK /\ LedgerKeyed /\ CallsKnow /\ DonePaid /\ ClawbackExact
  /\ CallAlone /\ CrossingRecorded /\ TierHeld /\ FollowsTier

LEMMA LoyaltyNumbers ==
  /\ ReferralDeeds \subseteq Deeds /\ DeedPoints \in [Deeds -> Nat] /\ MaxDay \in Nat /\ MaxPointCrashes \in Nat
  /\ GiftBonus \in Nat /\ GiftDays \in Nat /\ TierBonus \in [TierPlans -> Nat] /\ Len(TierThreshold) \in Nat
  /\ GiftPlan \notin TierPlans /\ FreePlans \subseteq Plans
  /\ \A i \in TierPlans : TierThreshold[i] \in Nat /\ TierThreshold[i] > 0
<1>1. TierThreshold \in Seq(Nat \ {0})
  BY LoyaltyAssumption
<1>2. Len(TierThreshold) \in Nat /\ \A i \in TierPlans : TierThreshold[i] \in Nat \ {0}
  BY <1>1 DEF TierPlans
<1> QED
  BY <1>2, LoyaltyAssumption DEF Plans

LEMMA LoyaltyTypes ==
  ASSUME LoyaltyInv
  PROVE  /\ entries \in Seq(EntryRow) /\ crossings \in Seq(TierLevels)
         /\ deedEvents \in [Deeds -> {"none", "queued", "done"}] /\ pointCalls \in [PointRelays -> PointCall]
         /\ membership \in [status : {"none", "active", "cancelled", "expired"}, plan : Plans,
                            source : {"tier", "manual"}, expires : 0 .. NoExpiry]
  BY DEF LoyaltyInv, LoyaltyTypeOK

\* More points never make a lower tier.
LEMMA TiersGrow ==
  /\ \A p \in Int : TierForPoints(p) \in TierLevels
  /\ \A p, q \in Int : p <= q => TierForPoints(p) <= TierForPoints(q)
  /\ TierForPoints(0) = 0
<1>1. IsFiniteSet(TierPlans) /\ Cardinality(TierPlans) = Len(TierThreshold)
  <2>1. \A n \in Nat : IsFiniteSet(1 .. n) /\ Cardinality(1 .. n) = n
    <3> SUFFICES ASSUME NEW n \in Nat PROVE IsFiniteSet(1 .. n) /\ Cardinality(1 .. n) = n
      OBVIOUS
    <3>1. IsFiniteSet(1 .. n) /\ Cardinality(1 .. n) = IF 1 > n THEN 0 ELSE n - 1 + 1
      BY FS_Interval
    <3> QED
      BY <3>1
  <2> QED
    BY <2>1, LoyaltyNumbers DEF TierPlans
<1> DEFINE Reached(p) == {i \in TierPlans : p >= TierThreshold[i]}
<1>2. \A p : Reached(p) \subseteq TierPlans
  OBVIOUS
<1>3. \A p : IsFiniteSet(Reached(p)) /\ Cardinality(Reached(p)) \in 0 .. Len(TierThreshold)
  <2> HIDE DEF Reached
  <2> SUFFICES ASSUME NEW p PROVE IsFiniteSet(Reached(p)) /\ Cardinality(Reached(p)) \in 0 .. Len(TierThreshold)
    OBVIOUS
  <2>1. IsFiniteSet(Reached(p)) /\ Cardinality(Reached(p)) <= Cardinality(TierPlans)
    BY <1>1, <1>2, FS_Subset
  <2>2. Cardinality(Reached(p)) \in Nat
    BY <2>1, FS_CardinalityType
  <2> QED
    BY <1>1, <2>1, <2>2, LoyaltyNumbers
<1>4. ASSUME NEW p \in Int, NEW q \in Int, p <= q PROVE Cardinality(Reached(p)) <= Cardinality(Reached(q))
  <2>1. Reached(p) \subseteq Reached(q)
    BY <1>4, LoyaltyNumbers
  <2> HIDE DEF Reached
  <2> QED
    BY <1>3, <2>1, FS_Subset
<1>5. Reached(0) = {}
  BY LoyaltyNumbers
<1>6. Cardinality(Reached(0)) = 0
  BY <1>5, FS_EmptySet
<1>7. \A p : TierForPoints(p) = Cardinality(Reached(p))
  BY DEF TierForPoints
<1> HIDE DEF Reached
<1> QED
  BY <1>3, <1>4, <1>6, <1>7 DEF TierLevels

\* A bounded set of numbers has a greatest one.
LEMMA MaxIsIn ==
  ASSUME NEW S \in SUBSET Nat, S # {}, NEW b \in Nat, \A x \in S : x <= b
  PROVE  Max(S) \in S
<1> DEFINE T == {b - x : x \in S}
<1>1. T \in SUBSET Nat /\ T # {}
  OBVIOUS
<1> HIDE DEF T
<1>2. PICK t \in T : \A u \in T : t <= u
  BY <1>1, LeastNumber
<1>3. PICK x \in S : t = b - x
  BY <1>2 DEF T
<1>4. ASSUME NEW y \in S PROVE x >= y
  <2>1. b - y \in T
    BY DEF T
  <2>2. b - x <= b - y
    BY <1>2, <1>3, <2>1
  <2> QED
    BY <2>2
<1> QED
  BY <1>3, <1>4 DEF Max

\* What a multiplier makes of points.
LEMMA PricesArePoints == \A base, percent \in Nat : Multiplied(base, percent) \in Nat
<1> SUFFICES ASSUME NEW base \in Nat, NEW percent \in Nat PROVE Multiplied(base, percent) \in Nat
  OBVIOUS
<1>1. base * percent \in Nat
  OBVIOUS
<1> DEFINE n == base * percent
<1>2. n \in Nat
  BY <1>1
<1> HIDE DEF n
<1>3. (n + 50) \div 100 \in Nat
  BY <1>2
<1> QED
  BY <1>3 DEF n, Multiplied

\* The entries up to the last deed that syncs.
SyncedEntries == {i \in DOMAIN entries :
                    /\ entries[i].points > 0
                    /\ \E j \in DOMAIN entries : i <= j /\ entries[j].deed \notin ReferralDeeds}

\* Summing the ledger.
LEMMA LedgerSums ==
  ASSUME entries \in Seq(EntryRow)
  PROVE  /\ IsFiniteSet(DOMAIN entries)
         /\ \A i \in DOMAIN entries : entries[i] \in EntryRow /\ Points[i] = entries[i].points /\ Points[i] \in Int
         /\ \A S \in SUBSET DOMAIN entries : IsFiniteSet(S) /\ SumEntries(S) \in Int
         /\ LifetimeEarned \in Nat /\ CurrentTier \in TierLevels
         /\ SyncedLifetime \in Nat /\ SyncedLifetime <= LifetimeEarned /\ SyncedTier \in TierLevels
<1>1. DOMAIN entries = 1 .. Len(entries) /\ Len(entries) \in Nat
  OBVIOUS
<1>2. IsFiniteSet(DOMAIN entries)
  <2>1. \A n \in Nat : IsFiniteSet(1 .. n)
    BY FS_Interval
  <2> QED
    BY <1>1, <2>1
<1>3. \A i \in DOMAIN entries : entries[i] \in EntryRow /\ Points[i] = entries[i].points /\ Points[i] \in Int
  <2>1. \A i \in DOMAIN entries : entries[i] \in EntryRow
    BY <1>1
  <2>2. \A e \in EntryRow : e.points \in Int
    BY DEF EntryRow
  <2>3. \A i \in DOMAIN entries : Points[i] = entries[i].points
    BY DEF Points
  <2> QED
    BY <2>1, <2>2, <2>3
<1>4. ASSUME NEW S \in SUBSET DOMAIN entries PROVE IsFiniteSet(S) /\ SumEntries(S) \in Int
  <2>1. IsFiniteSet(S)
    BY <1>2, FS_Subset
  <2>2. SumFunctionOnSet(Points, S) \in Int
    BY <1>3, <2>1, SumInt
  <2> QED
    BY <2>1, <2>2 DEF SumEntries
<1>5. LifetimeEarned \in Nat
  <2> DEFINE E == {i \in DOMAIN entries : entries[i].points > 0}
  <2>1. IsFiniteSet(E) /\ \A i \in E : Points[i] \in Nat
    BY <1>3, <1>4
  <2> HIDE DEF E
  <2>2. SumFunctionOnSet(Points, E) \in Nat
    BY <2>1, SumNat
  <2> QED
    BY <2>2 DEF LifetimeEarned, SumEntries, E
<1>6. CurrentTier \in TierLevels
  BY <1>5, TiersGrow DEF CurrentTier
<1>7. SyncedLifetime \in Nat /\ SyncedLifetime <= LifetimeEarned
  <2> DEFINE E == {i \in DOMAIN entries : entries[i].points > 0}
             Q == SyncedEntries
  <2>1. IsFiniteSet(E) /\ (\A i \in E : Points[i] \in Nat) /\ Q \subseteq E /\ IsFiniteSet(Q) /\ IsFiniteSet(E \ Q)
    BY <1>3, <1>4, FS_Subset DEF SyncedEntries
  <2>2. LifetimeEarned = SumFunctionOnSet(Points, E) /\ SyncedLifetime = SumFunctionOnSet(Points, Q)
    BY DEF LifetimeEarned, SyncedLifetime, SyncedEntries, SumEntries
  <2> HIDE DEF E, Q
  <2>3. SumFunctionOnSet(Points, Q) \in Nat /\ SumFunctionOnSet(Points, E \ Q) \in Nat
    BY <2>1, SumNat
  <2>4. SumFunctionOnSet(Points, E) = SumFunctionOnSet(Points, Q) + SumFunctionOnSet(Points, E \ Q)
    BY <2>1, SumParts
  <2> QED
    BY <2>2, <2>3, <2>4
<1>8. SyncedTier \in TierLevels
  BY <1>7, TiersGrow DEF SyncedTier
<1> QED
  BY <1>2, <1>3, <1>4, <1>5, <1>6, <1>7, <1>8

\* What one more entry makes of the ledger.
Grown(e, n) ==
  /\ n \notin DOMAIN entries /\ DOMAIN entries' = DOMAIN entries \cup {n} /\ entries'[n] = e
  /\ \A i \in DOMAIN entries : entries'[i] = entries[i]
  /\ \A S \in SUBSET DOMAIN entries :
       /\ SumFunctionOnSet(Points', S) = SumFunctionOnSet(Points, S)
       /\ SumFunctionOnSet(Points', S \cup {n}) = SumFunctionOnSet(Points, S) + e.points
  /\ Balance' = Balance + e.points
  /\ LifetimeEarned' = LifetimeEarned + (IF e.points > 0 THEN e.points ELSE 0)
  /\ \A d : Entered(d, FALSE)' <=> Entered(d, FALSE) \/ (e.deed = d /\ ~e.reversal)
  /\ \A d : Entered(d, TRUE)' <=> Entered(d, TRUE) \/ (e.deed = d /\ e.reversal)
  /\ entries' \in Seq(EntryRow)

LEMMA LedgerGrows ==
  ASSUME entries \in Seq(EntryRow), NEW e \in EntryRow, entries' = Append(entries, e),
         NEW n, n = Len(entries) + 1
  PROVE  Grown(e, n)
<1>1. /\ DOMAIN entries = 1 .. Len(entries) /\ Len(entries) \in Nat /\ entries' \in Seq(EntryRow)
      /\ DOMAIN entries' = 1 .. Len(entries) + 1 /\ entries'[n] = e
      /\ \A i \in DOMAIN entries : entries'[i] = entries[i]
  OBVIOUS
<1>2. n \notin DOMAIN entries /\ DOMAIN entries' = DOMAIN entries \cup {n}
  BY <1>1
<1>3. e.points \in Int
  BY DEF EntryRow
<1>4. /\ \A i \in DOMAIN entries : Points'[i] = Points[i] /\ Points'[i] \in Int
      /\ Points'[n] = e.points
  <2>1. \A i \in DOMAIN entries' : Points'[i] = entries'[i].points
    BY DEF Points
  <2> QED
    BY <1>1, <1>2, <2>1, LedgerSums
<1>5. \A S \in SUBSET DOMAIN entries :
        /\ SumFunctionOnSet(Points', S) = SumFunctionOnSet(Points, S)
        /\ SumFunctionOnSet(Points', S \cup {n}) = SumFunctionOnSet(Points, S) + e.points
  <2> SUFFICES ASSUME NEW S \in SUBSET DOMAIN entries
               PROVE  /\ SumFunctionOnSet(Points', S) = SumFunctionOnSet(Points, S)
                      /\ SumFunctionOnSet(Points', S \cup {n}) = SumFunctionOnSet(Points, S) + e.points
    OBVIOUS
  <2>1. IsFiniteSet(S) /\ SumFunctionOnSet(Points, S) \in Int
    BY LedgerSums DEF SumEntries
  <2> DEFINE f == Points'
  <2>2. (\A x \in S : f[x] = Points[x] /\ f[x] \in Int) /\ n \notin S /\ f[n] = e.points
    BY <1>2, <1>4
  <2> HIDE DEF f
  <2>3. SumFunctionOnSet(f, S) = SumFunctionOnSet(Points, S)
    BY <2>1, <2>2, SumSame
  <2>4. SumFunctionOnSet(f, S \cup {n}) = e.points + SumFunctionOnSet(f, S)
    BY <1>3, <2>1, <2>2, SumAdds
  <2>5. SumFunctionOnSet(f, S \cup {n}) = SumFunctionOnSet(Points, S) + e.points
    BY <1>3, <2>1, <2>3, <2>4
  <2> QED
    BY <2>3, <2>5 DEF f
<1>8. Balance' = Balance + e.points
  <2>1. Balance = SumFunctionOnSet(Points, DOMAIN entries)
    BY DEF Balance, SumEntries
  <2>2. Balance' = SumFunctionOnSet(Points', DOMAIN entries \cup {n})
    BY <1>2 DEF Balance, SumEntries
  <2> QED
    BY <1>5, <2>1, <2>2
<1>9. LifetimeEarned' = LifetimeEarned + (IF e.points > 0 THEN e.points ELSE 0)
  <2> DEFINE E == {i \in DOMAIN entries : entries[i].points > 0}
             F == {i \in DOMAIN entries' : entries'[i].points > 0}
  <2>1. F = IF e.points > 0 THEN E \cup {n} ELSE E
    BY <1>1, <1>2
  <2>2. E \in SUBSET DOMAIN entries
    OBVIOUS
  <2>3. LifetimeEarned = SumFunctionOnSet(Points, E)
    BY DEF LifetimeEarned, SumEntries
  <2>4. LifetimeEarned' = SumFunctionOnSet(Points', F)
    BY DEF LifetimeEarned, SumEntries
  <2>5. LifetimeEarned \in Int
    BY LedgerSums
  <2> HIDE DEF E, F
  <2>6. CASE e.points > 0
    BY <1>5, <2>1, <2>2, <2>3, <2>4, <2>6
  <2>7. CASE ~(e.points > 0)
    <3>1. F = E
      BY <2>1, <2>7
    <3>2. LifetimeEarned' = LifetimeEarned
      BY <1>5, <2>2, <2>3, <2>4, <3>1
    <3>3. LifetimeEarned = LifetimeEarned + 0
      BY <2>5
    <3> QED
      BY <2>7, <3>2, <3>3
  <2> QED
    BY <2>6, <2>7
<1>10. \A d, b : Entered(d, b)' <=> Entered(d, b) \/ (e.deed = d /\ e.reversal = b)
  BY <1>1, <1>2 DEF Entered
<1>11. /\ \A d : Entered(d, FALSE)' <=> Entered(d, FALSE) \/ (e.deed = d /\ ~e.reversal)
       /\ \A d : Entered(d, TRUE)' <=> Entered(d, TRUE) \/ (e.deed = d /\ e.reversal)
  <2>1. e.reversal \in BOOLEAN
    BY DEF EntryRow
  <2>2. CASE e.reversal = TRUE
    BY <1>10, <2>2
  <2>3. CASE e.reversal = FALSE
    BY <1>10, <2>3
  <2> QED
    BY <2>1, <2>2, <2>3
<1> QED
  BY <1>1, <1>2, <1>5, <1>8, <1>9, <1>11 DEF Grown

\* A deed that syncs takes in everything earned so far, a referral's entry nothing.
LEMMA SyncedGrows ==
  ASSUME entries \in Seq(EntryRow), NEW e \in EntryRow, entries' = Append(entries, e),
         NEW n, n = Len(entries) + 1
  PROVE  SyncedLifetime' = IF e.deed \in ReferralDeeds THEN SyncedLifetime ELSE LifetimeEarned'
<1> DEFINE F == {i \in DOMAIN entries' : entries'[i].points > 0}
           R == SyncedEntries'
<1>1. /\ DOMAIN entries = 1 .. Len(entries) /\ Len(entries) \in Nat
      /\ DOMAIN entries' = 1 .. Len(entries) + 1 /\ entries'[n] = e
      /\ \A i \in DOMAIN entries : entries'[i] = entries[i]
  OBVIOUS
<1>2. LifetimeEarned' = SumFunctionOnSet(Points', F) /\ SyncedLifetime' = SumFunctionOnSet(Points', R)
  BY DEF LifetimeEarned, SyncedLifetime, SyncedEntries, SumEntries
<1>3. CASE e.deed \notin ReferralDeeds
  <2>1. n \in DOMAIN entries' /\ entries'[n].deed \notin ReferralDeeds /\ \A i \in DOMAIN entries' : i <= n
    BY <1>1, <1>3
  <2>2. R = F
    BY <2>1 DEF SyncedEntries
  <2> QED
    BY <1>2, <1>3, <2>2
<1>4. CASE e.deed \in ReferralDeeds
  <2> DEFINE Q == SyncedEntries
  <2>1. \A j \in DOMAIN entries' : entries'[j].deed \notin ReferralDeeds =>
          j \in DOMAIN entries /\ entries[j].deed \notin ReferralDeeds
    BY <1>1, <1>4
  <2>2. \A i \in DOMAIN entries', j \in DOMAIN entries : i <= j => i \in DOMAIN entries
    BY <1>1
  <2>3. R = Q
    BY <1>1, <2>1, <2>2 DEF SyncedEntries
  <2>4. Q \in SUBSET DOMAIN entries /\ SyncedLifetime = SumFunctionOnSet(Points, Q)
    BY DEF SyncedLifetime, SyncedEntries, SumEntries
  <2>5. Grown(e, n)
    BY LedgerGrows
  <2> HIDE DEF Q
  <2>6. SumFunctionOnSet(Points', Q) = SumFunctionOnSet(Points, Q)
    BY <2>4, <2>5 DEF Grown
  <2> QED
    BY <1>2, <1>4, <2>3, <2>4, <2>6
<1> QED
  BY <1>3, <1>4

LEMMA MultiplierIsNumber ==
  ASSUME LoyaltyInv
  PROVE  Multiplier \in Nat
<1> DEFINE A == {TierBonus[i] : i \in {CurrentTier} \ {0}}
           v == IF membership.plan = GiftPlan THEN GiftBonus ELSE TierBonus[membership.plan]
           B == {IF membership.plan = GiftPlan THEN GiftBonus ELSE TierBonus[membership.plan] :
                   i \in {j \in {1} : membership.status = "active"}}
           u == IF CurrentTier = 0 THEN 0 ELSE TierBonus[CurrentTier]
           S == {100} \cup A \cup B
<1>1. u \in Nat
  BY LedgerSums, LoyaltyTypes, LoyaltyNumbers DEF TierLevels, TierPlans
<1>2. v \in Nat
  BY LoyaltyTypes, LoyaltyNumbers DEF Plans
<1>3. A \subseteq {u} /\ B \subseteq {v}
  OBVIOUS
<1>4. Multiplier = Max(S)
  BY DEF Multiplier
<1> HIDE DEF A, B, u, v
<1>5. S \in SUBSET Nat /\ S # {} /\ 100 + u + v \in Nat /\ \A x \in S : x <= 100 + u + v
  BY <1>1, <1>2, <1>3
<1> HIDE DEF S
<1>6. Max(S) \in S
  BY <1>5, MaxIsIn
<1> QED
  BY <1>4, <1>5, <1>6

LEMMA CallsPrice == \A q \in PointCall : q.deed \in Deeds => CallPoints(q) \in Nat
<1> SUFFICES ASSUME NEW q \in PointCall, q.deed \in Deeds PROVE CallPoints(q) \in Nat
  OBVIOUS
<1>1. DeedPoints[q.deed] \in Nat /\ q.bonus \in Nat
  BY LoyaltyNumbers DEF PointCall
<1> QED
  BY <1>1, PricesArePoints DEF CallPoints

\* A step that leaves the entries alone leaves alone what is read from them.
LEMMA LedgerStands ==
  ASSUME UNCHANGED entries
  PROVE  /\ \A d, b : Entered(d, b)' <=> Entered(d, b)
         /\ LifetimeEarned' = LifetimeEarned /\ CurrentTier' = CurrentTier
         /\ SyncedLifetime' = SyncedLifetime /\ SyncedTier' = SyncedTier
         /\ \A q : KnowsDeed(q)' <=> KnowsDeed(q)
         /\ \A q : AtTier(q)' <=> AtTier(q)
         /\ LedgerKeyed' <=> LedgerKeyed
         /\ ClawbackExact' <=> ClawbackExact
<1>1. \A d, b : Entered(d, b)' <=> Entered(d, b)
  BY DEF Entered
<1>2. Points' = Points
  BY DEF Points
<1>3. LifetimeEarned' = LifetimeEarned /\ Balance' = Balance
  BY <1>2 DEF LifetimeEarned, Balance, SumEntries
<1>4. CurrentTier' = CurrentTier
  BY <1>3 DEF CurrentTier
<1>9. SyncedLifetime' = SyncedLifetime
  BY <1>2 DEF SyncedLifetime, SumEntries
<1>10. SyncedTier' = SyncedTier
  BY <1>9 DEF SyncedTier
<1>5. \A q : KnowsDeed(q)' <=> KnowsDeed(q)
  BY <1>1, <1>3, <1>9 DEF KnowsDeed
<1>6. \A q : AtTier(q)' <=> AtTier(q)
  BY <1>3, <1>4, <1>9 DEF AtTier
<1>7. LedgerKeyed' <=> LedgerKeyed
  BY DEF LedgerKeyed, Entered
<1>8. ClawbackExact' <=> ClawbackExact
  BY DEF ClawbackExact, Balance, SumEntries, Points, Entered
<1> QED
  BY <1>1, <1>3, <1>4, <1>5, <1>6, <1>7, <1>8, <1>9, <1>10

\* Steps of the membership, the deeds and the days.
LEMMA CallsStand ==
  ASSUME LoyaltyInv, UNCHANGED <<entries, crossings, pointCalls, overlapped, pointCrashes>>,
         deedEvents' \in [Deeds -> {"none", "queued", "done"}], DonePaid',
         membership' \in [status : {"none", "active", "cancelled", "expired"}, plan : Plans,
                          source : {"tier", "manual"}, expires : 0 .. NoExpiry],
         membership'.source = "tier" =>
           membership.source = "tier" /\ membership'.plan = membership.plan
           /\ (membership'.status = "active" => membership.status = "active"),
         dueRead' \in BOOLEAN, loyaltyDay' \in 0 .. MaxDay
  PROVE  LoyaltyInv'
<1>1. /\ LifetimeEarned' = LifetimeEarned /\ CurrentTier' = CurrentTier /\ SyncedTier' = SyncedTier
      /\ \A q : KnowsDeed(q)' <=> KnowsDeed(q)
      /\ \A q : AtTier(q)' <=> AtTier(q)
      /\ LedgerKeyed' /\ ClawbackExact'
  BY LedgerStands DEF LoyaltyInv
<1>2. LoyaltyTypeOK'
  BY DEF LoyaltyInv, LoyaltyTypeOK
<1>3. CallsKnow'
  BY <1>1 DEF LoyaltyInv, CallsKnow
<1>4. CallAlone'
  BY <1>1 DEF LoyaltyInv, CallAlone
<1>5. CrossingRecorded'
  BY <1>1 DEF LoyaltyInv, CrossingRecorded
<1>6. TierHeld'
  BY <1>1 DEF LoyaltyInv, TierHeld
<1>7. FollowsTier'
  BY <1>1 DEF LoyaltyInv, FollowsTier
<1> QED
  BY <1>1, <1>2, <1>3, <1>4, <1>5, <1>6, <1>7 DEF LoyaltyInv

\* One handler call goes on, and the ledger stays.
LEMMA CallMoves ==
  ASSUME LoyaltyInv, UNCHANGED <<entries, crossings, dueRead, loyaltyDay>>,
         NEW r \in PointRelays, NEW q \in PointCall, pointCalls' = [pointCalls EXCEPT ![r] = q], KnowsDeed(q),
         q.pc = "commit" =>
           \A s \in PointRelays \ {r} : ~(pointCalls[s].pc = "commit" /\ pointCalls[s].deed = q.deed),
         overlapped' \in BOOLEAN, overlapped => overlapped', pointCrashes' \in 0 .. MaxPointCrashes,
         ~overlapped' => AtTier(q) /\ (q.pc # "idle" =>
                           \A s \in PointRelays \ {r} : pointCalls[s].pc = "idle"),
         deedEvents' \in [Deeds -> {"none", "queued", "done"}], DonePaid',
         membership' \in [status : {"none", "active", "cancelled", "expired"}, plan : Plans,
                          source : {"tier", "manual"}, expires : 0 .. NoExpiry],
         TierHeld', FollowsTier'
  PROVE  LoyaltyInv'
<1>1. /\ LifetimeEarned' = LifetimeEarned /\ CurrentTier' = CurrentTier /\ SyncedTier' = SyncedTier
      /\ \A p : KnowsDeed(p)' <=> KnowsDeed(p)
      /\ \A p : AtTier(p)' <=> AtTier(p)
      /\ LedgerKeyed' /\ ClawbackExact'
  BY LedgerStands DEF LoyaltyInv
<1>2. /\ pointCalls' \in [PointRelays -> PointCall]
      /\ pointCalls'[r] = q /\ \A s \in PointRelays : s # r => pointCalls'[s] = pointCalls[s]
  BY LoyaltyTypes
<1>3. LoyaltyTypeOK'
  BY <1>2 DEF LoyaltyInv, LoyaltyTypeOK
<1>4. CallsKnow'
  <2>1. \A s \in PointRelays : KnowsDeed(pointCalls'[s])
    BY <1>2 DEF LoyaltyInv, CallsKnow
  <2>2. \A s, t \in PointRelays :
          pointCalls'[s].pc = "commit" /\ pointCalls'[t].pc = "commit" /\ pointCalls'[s].deed = pointCalls'[t].deed
            => s = t
    BY <1>2 DEF LoyaltyInv, CallsKnow
  <2> QED
    BY <1>1, <2>1, <2>2 DEF CallsKnow
<1>5. CallAlone'
  BY <1>1, <1>2 DEF LoyaltyInv, CallAlone
<1>6. CrossingRecorded'
  BY <1>1 DEF LoyaltyInv, CrossingRecorded
<1> QED
  BY <1>1, <1>3, <1>4, <1>5, <1>6 DEF LoyaltyInv

\* The handler takes a deed up, or finds it paid, or is done with it, or dies.
LEMMA CallSteps ==
  ASSUME LoyaltyInv, NEW r \in PointRelays,
         (\E d \in Deeds : BeginAward(r, d)) \/ InsertEntry(r) \/ MarkDeed(r) \/ AwardCrash(r)
  PROVE  LoyaltyInv'
<1>1. /\ pointCalls \in [PointRelays -> PointCall] /\ KnowsDeed(pointCalls[r])
      /\ overlapped \in BOOLEAN /\ pointCrashes \in 0 .. MaxPointCrashes /\ TierHeld /\ DonePaid
      /\ deedEvents \in [Deeds -> {"none", "queued", "done"}] /\ FollowsTier
      /\ membership \in [status : {"none", "active", "cancelled", "expired"}, plan : Plans,
                         source : {"tier", "manual"}, expires : 0 .. NoExpiry]
  BY DEF LoyaltyInv, LoyaltyTypeOK, CallsKnow
<1>2. LifetimeEarned \in Nat /\ CurrentTier \in TierLevels /\ 0 \in TierLevels /\ Multiplier \in Nat
  BY LedgerSums, LoyaltyTypes, MultiplierIsNumber, LoyaltyNumbers DEF TierLevels
<1>4. NoPointCall \in PointCall /\ NoPointCall.pc = "idle"
  BY <1>2 DEF NoPointCall, PointCall
<1>5. CASE \E d \in Deeds : BeginAward(r, d)
  <2>1. PICK d \in Deeds : BeginAward(r, d)
    BY <1>5
  <2> DEFINE q == IF DeedPoints[d] = 0
                  THEN [pc |-> "mark", deed |-> d, bonus |-> 0, before |-> 0, lifetime |-> 0]
                  ELSE [pc |-> "insert", deed |-> d, bonus |-> Multiplier, before |-> CurrentTier, lifetime |-> 0]
  <2>2. /\ pointCalls' = [pointCalls EXCEPT ![r] = q] /\ pointCalls[r].pc = "idle"
        /\ overlapped' = (overlapped \/ \E s \in PointRelays \ {r} : pointCalls[s].pc # "idle")
        /\ UNCHANGED <<entries, crossings, membership, deedEvents, dueRead, loyaltyDay, pointCrashes>>
    BY <2>1 DEF BeginAward, DoneWith
  <2>3. /\ q \in PointCall /\ q.deed = d /\ q.pc \in {"mark", "insert"}
        /\ (q.pc = "mark" <=> DeedPoints[d] = 0) /\ (q.pc = "insert" => q.before = CurrentTier)
    BY <1>2 DEF PointCall
  <2> HIDE DEF q
  <2>4. KnowsDeed(q) /\ AtTier(q)
    <3>1. CASE q.pc = "mark"
      <4>1. ~(DeedPoints[q.deed] > 0)
        BY <2>3, <3>1, LoyaltyNumbers
      <4> QED
        BY <2>3, <3>1, <4>1 DEF KnowsDeed, AtTier
    <3>2. CASE q.pc = "insert"
      BY <2>3, <3>2 DEF KnowsDeed, AtTier
    <3> QED
      BY <2>3, <3>1, <3>2
  <2>5. SyncedTier' = SyncedTier /\ CurrentTier' = CurrentTier /\ \A e, b : Entered(e, b)' <=> Entered(e, b)
    BY <2>2, LedgerStands
  <2>6. DonePaid' /\ TierHeld'
    BY <1>1, <2>2, <2>5 DEF DonePaid, TierHeld
  <2>7. FollowsTier'
    BY <1>1, <2>2, <2>3, <2>5 DEF FollowsTier, Syncing
  <2>8. overlapped' \in BOOLEAN /\ (overlapped => overlapped')
    BY <2>2
  <2> QED
    BY <1>1, <2>2, <2>3, <2>4, <2>6, <2>7, <2>8, CallMoves
<1>6. CASE InsertEntry(r)
  <2> DEFINE p == pointCalls[r]
             q == IF Won(p.deed)
                  THEN [pc |-> "commit", deed |-> p.deed, bonus |-> p.bonus, before |-> p.before,
                        lifetime |-> LifetimeEarned + CallPoints(p)]
                  ELSE [pc |-> "mark", deed |-> p.deed, bonus |-> 0, before |-> 0, lifetime |-> 0]
  <2>0. p \in PointCall /\ p.pc = "insert" /\ p.deed \in Deeds
    BY <1>1, <1>6 DEF InsertEntry, KnowsDeed
  <2>1. CallPoints(p) \in Nat /\ \A c : CallPoints([pc |-> "commit", deed |-> p.deed, bonus |-> p.bonus,
                                                    before |-> p.before, lifetime |-> c]) = CallPoints(p)
    BY <2>0, CallsPrice DEF CallPoints
  <2>2. /\ pointCalls' = [pointCalls EXCEPT ![r] = q]
        /\ \A s \in PointRelays \ {r} : ~(pointCalls[s].pc = "commit" /\ pointCalls[s].deed = p.deed)
        /\ UNCHANGED <<entries, crossings, membership, deedEvents, dueRead, loyaltyDay, pointCrashes, overlapped>>
    BY <1>6, <2>0 DEF InsertEntry, DoneWith
  <2>3. /\ q \in PointCall /\ q.deed = p.deed /\ q.pc \in {"mark", "commit"}
        /\ (q.pc = "commit" => Won(p.deed) /\ q.before = p.before /\ q.lifetime = LifetimeEarned + CallPoints(q))
        /\ (q.pc = "mark" => ~Won(p.deed))
    BY <1>2, <2>0, <2>1 DEF PointCall
  <2>4. q.pc = "commit" => CallPoints(q) \in Nat
    BY <2>0, <2>3, CallsPrice
  <2>5. ~overlapped => AtTier(p) /\ \A s \in PointRelays \ {r} : pointCalls[s].pc = "idle"
    BY <2>0 DEF LoyaltyInv, CallAlone
  <2> HIDE DEF p, q
  <2>6. KnowsDeed(q)
    <3>1. CASE q.pc = "mark"
      BY <2>0, <2>3, <3>1 DEF KnowsDeed, Won
    <3>2. CASE q.pc = "commit"
      <4>1. q.lifetime <= LifetimeEarned + CallPoints(q)
        BY <1>2, <2>3, <2>4, <3>2
      <4> QED
        BY <2>0, <2>3, <3>2, <4>1 DEF KnowsDeed, Won
    <3> QED
      BY <2>3, <3>1, <3>2
  <2>7. ~overlapped => AtTier(q)
    BY <2>0, <2>3, <2>5 DEF AtTier
  <2>8. SyncedTier' = SyncedTier /\ CurrentTier' = CurrentTier /\ \A e, b : Entered(e, b)' <=> Entered(e, b)
    BY <2>2, LedgerStands
  <2>9. DonePaid' /\ TierHeld'
    BY <1>1, <2>2, <2>8 DEF DonePaid, TierHeld
  <2>10. FollowsTier'
    BY <1>1, <2>0, <2>2, <2>3, <2>8 DEF FollowsTier, Syncing, p
  <2> QED
    BY <1>1, <2>2, <2>3, <2>5, <2>6, <2>7, <2>9, <2>10, CallMoves
<1>7. CASE MarkDeed(r)
  <2>1. /\ pointCalls[r].pc = "mark" /\ pointCalls[r].deed \in Deeds
        /\ pointCalls' = [pointCalls EXCEPT ![r] = NoPointCall]
        /\ deedEvents' = [deedEvents EXCEPT ![pointCalls[r].deed] = "done"]
        /\ UNCHANGED <<entries, crossings, membership, dueRead, loyaltyDay, pointCrashes, overlapped>>
    BY <1>1, <1>7 DEF MarkDeed, KnowsDeed
  <2>2. KnowsDeed(NoPointCall) /\ AtTier(NoPointCall)
    BY DEF KnowsDeed, AtTier, NoPointCall
  <2>3. SyncedTier' = SyncedTier /\ CurrentTier' = CurrentTier /\ \A e, b : Entered(e, b)' <=> Entered(e, b)
    BY <2>1, LedgerStands
  <2>4. DonePaid'
    <3>1. DeedPoints[pointCalls[r].deed] > 0 => Entered(pointCalls[r].deed, FALSE)
      BY <1>1, <2>1 DEF KnowsDeed
    <3> QED
      BY <1>1, <2>1, <2>3, <3>1 DEF DonePaid
  <2>5. TierHeld' /\ FollowsTier'
    BY <1>1, <1>4, <2>1, <2>3 DEF TierHeld, FollowsTier, Syncing
  <2>6. deedEvents' \in [Deeds -> {"none", "queued", "done"}]
    BY <1>1, <2>1
  <2> QED
    BY <1>1, <1>4, <2>1, <2>2, <2>4, <2>5, <2>6, CallMoves
<1>8. CASE AwardCrash(r)
  <2>1. /\ pointCalls' = [pointCalls EXCEPT ![r] = NoPointCall]
        /\ pointCrashes < MaxPointCrashes /\ pointCrashes' = pointCrashes + 1
        /\ UNCHANGED <<entries, crossings, membership, deedEvents, dueRead, loyaltyDay, overlapped>>
    BY <1>8 DEF AwardCrash
  <2>2. KnowsDeed(NoPointCall) /\ AtTier(NoPointCall)
    BY DEF KnowsDeed, AtTier, NoPointCall
  <2>3. pointCrashes' \in 0 .. MaxPointCrashes /\ pointCrashes' # 0
    BY <1>1, <2>1, LoyaltyNumbers
  <2>4. SyncedTier' = SyncedTier /\ CurrentTier' = CurrentTier /\ \A e, b : Entered(e, b)' <=> Entered(e, b)
    BY <2>1, LedgerStands
  <2>5. DonePaid' /\ TierHeld' /\ FollowsTier'
    BY <1>1, <2>1, <2>3, <2>4 DEF DonePaid, TierHeld, FollowsTier
  <2> QED
    BY <1>1, <1>4, <2>1, <2>2, <2>3, <2>5, CallMoves
<1> QED
  BY <1>5, <1>6, <1>7, <1>8

\* syncFromTier: the membership is brought in line, or left alone.
LEMMA SyncSteps ==
  ASSUME LoyaltyInv, NEW r \in PointRelays, SyncFromTier(r) \/ ActivateFromTier(r)
  PROVE  LoyaltyInv'
<1> DEFINE p == pointCalls[r]
           done == [pc |-> "mark", deed |-> p.deed, bonus |-> 0, before |-> 0, lifetime |-> 0]
           tier == TierForPoints(p.lifetime)
<1>1. /\ pointCalls \in [PointRelays -> PointCall] /\ overlapped \in BOOLEAN
      /\ pointCrashes \in 0 .. MaxPointCrashes /\ TierHeld /\ DonePaid /\ FollowsTier
      /\ deedEvents \in [Deeds -> {"none", "queued", "done"}]
      /\ membership \in [status : {"none", "active", "cancelled", "expired"}, plan : Plans,
                         source : {"tier", "manual"}, expires : 0 .. NoExpiry]
  BY DEF LoyaltyInv, LoyaltyTypeOK
<1>2. p \in PointCall /\ p.pc \in {"sync", "activate"} /\ p.deed \in Deeds /\ Entered(p.deed, FALSE)
  <2>1. KnowsDeed(p)
    BY DEF LoyaltyInv, CallsKnow
  <2> QED
    BY <1>1, <2>1 DEF SyncFromTier, ActivateFromTier, KnowsDeed
<1>3. SyncedLifetime \in Nat /\ SyncedTier \in TierLevels /\ p.lifetime <= SyncedLifetime
      /\ p.lifetime \in Nat /\ tier \in TierLevels /\ tier <= SyncedTier
  <2>1. KnowsDeed(p)
    BY DEF LoyaltyInv, CallsKnow
  <2>2. p.lifetime \in Nat /\ p.lifetime <= SyncedLifetime
    BY <1>2, <2>1 DEF PointCall, KnowsDeed
  <2>3. SyncedLifetime \in Nat /\ SyncedTier \in TierLevels
    BY LedgerSums, LoyaltyTypes
  <2> QED
    BY <2>2, <2>3, TiersGrow DEF SyncedTier
<1>4. ~overlapped => tier = SyncedTier /\ \A s \in PointRelays \ {r} : pointCalls[s].pc = "idle"
  <2> HIDE DEF tier
  <2>1. ~overlapped => AtTier(p) /\ \A s \in PointRelays \ {r} : pointCalls[s].pc = "idle"
    BY <1>2 DEF LoyaltyInv, CallAlone
  <2> QED
    BY <1>2, <2>1 DEF AtTier, tier, SyncedTier
<1>5. /\ done \in PointCall /\ done.pc = "mark" /\ KnowsDeed(done) /\ AtTier(done)
  <2>1. done \in PointCall /\ done.pc = "mark" /\ done.deed = p.deed
    BY <1>2, LoyaltyNumbers DEF PointCall, TierLevels
  <2> HIDE DEF done
  <2> QED
    BY <1>2, <2>1 DEF KnowsDeed, AtTier
<1>6. Syncing(p)
  BY <1>2 DEF Syncing
<1>7. membership.source = "tier" => membership.plan \in 1 .. SyncedTier
  BY <1>1 DEF TierHeld
<1>8. CASE SyncFromTier(r)
  <2> DEFINE q == IF tier = 0 \/ SyncSkips(tier) THEN done ELSE [p EXCEPT !.pc = "activate"]
  <2>1. /\ pointCalls' = [pointCalls EXCEPT ![r] = q] /\ p.pc = "sync"
        /\ UNCHANGED <<entries, crossings, membership, deedEvents, dueRead, loyaltyDay, pointCrashes, overlapped>>
    BY <1>8 DEF SyncFromTier, DoneWith
  <2>2. q \in PointCall /\ q.pc \in {"mark", "activate"} /\ q.deed \in Deeds
    BY <1>2, <1>5 DEF PointCall
  <2>3. KnowsDeed(q) /\ (~overlapped => AtTier(q))
    <3> DEFINE a == [p EXCEPT !.pc = "activate"]
    <3>1. a.pc = "activate" /\ a.deed = p.deed /\ a.lifetime = p.lifetime /\ a.before = p.before
      BY <1>2 DEF PointCall
    <3>2. ~overlapped => AtTier(p)
      BY <1>2 DEF LoyaltyInv, CallAlone
    <3> HIDE DEF a
    <3>3. tier # 0 => KnowsDeed(a) /\ (~overlapped => AtTier(a))
      BY <1>2, <1>3, <3>1, <3>2 DEF KnowsDeed, AtTier
    <3> QED
      BY <1>5, <3>3 DEF a
  <2>4. SyncedTier' = SyncedTier /\ CurrentTier' = CurrentTier /\ \A e, b : Entered(e, b)' <=> Entered(e, b)
    BY <2>1, LedgerStands
  <2>5. DonePaid' /\ TierHeld'
    BY <1>1, <2>1, <2>4 DEF DonePaid, TierHeld
  <2>6. FollowsTier'
    <3>1. SUFFICES ASSUME ~overlapped, q.pc = "mark", membership.status = "active", membership.source = "tier"
                   PROVE  membership.plan = SyncedTier
      <4>1. pointCalls'[r] = q
        BY <1>1, <2>1
      <4> QED
        BY <2>1, <2>2, <2>4, <4>1 DEF FollowsTier, Syncing
    <3>2. tier = 0 \/ SyncSkips(tier)
      BY <1>2, <3>1 DEF PointCall
    <3>3. tier # 0
      BY <1>3, <1>4, <1>7, <3>1 DEF TierLevels
    <3> QED
      BY <1>4, <3>1, <3>2, <3>3 DEF SyncSkips
  <2> HIDE DEF q
  <2> QED
    BY <1>1, <1>4, <2>1, <2>2, <2>3, <2>5, <2>6, CallMoves
<1>9. CASE ActivateFromTier(r)
  <2>1. /\ pointCalls' = [pointCalls EXCEPT ![r] = done] /\ p.pc = "activate"
        /\ membership' = [status |-> "active", plan |-> tier, source |-> "tier", expires |-> NoExpiry]
        /\ UNCHANGED <<entries, crossings, deedEvents, dueRead, loyaltyDay, pointCrashes, overlapped>>
    BY <1>1, <1>9 DEF ActivateFromTier, DoneWith
  <2>2. tier # 0
    <3>1. KnowsDeed(p)
      BY DEF LoyaltyInv, CallsKnow
    <3> QED
      BY <2>1, <3>1 DEF KnowsDeed
  <2>3. tier \in Plans /\ NoExpiry \in 0 .. NoExpiry /\ tier \in 1 .. SyncedTier
    BY <1>3, <2>2, LoyaltyNumbers DEF Plans, TierPlans, TierLevels, NoExpiry
  <2> HIDE DEF p, done, tier
  <2>4. membership' \in [status : {"none", "active", "cancelled", "expired"}, plan : Plans,
                         source : {"tier", "manual"}, expires : 0 .. NoExpiry]
    BY <2>1, <2>3
  <2>5. SyncedTier' = SyncedTier /\ CurrentTier' = CurrentTier /\ \A e, b : Entered(e, b)' <=> Entered(e, b)
    BY <2>1, LedgerStands
  <2>6. DonePaid'
    BY <1>1, <2>1, <2>5 DEF DonePaid
  <2>7. membership'.plan = tier
    BY <2>1
  <2>8. TierHeld'
    BY <2>3, <2>5, <2>7 DEF TierHeld
  <2>9. FollowsTier'
    BY <1>4, <2>1, <2>5, <2>7 DEF FollowsTier
  <2> QED
    BY <1>1, <1>4, <1>5, <2>1, <2>4, <2>6, <2>8, <2>9, CallMoves
<1> QED
  BY <1>8, <1>9

\* The member activates a plan or cancels it, a due one expires, a deed is done, a day passes.
LEMMA MemberSteps ==
  ASSUME LoyaltyInv,
         \/ \E d \in Deeds : Perform(d)
         \/ \E p \in FreePlans : ActivateManually(p)
         \/ CancelMembership \/ ReadDue \/ ExpireDue \/ LoyaltyTick
  PROVE  LoyaltyInv'
<1> DEFINE MemberRow == [status : {"none", "active", "cancelled", "expired"}, plan : Plans,
                         source : {"tier", "manual"}, expires : 0 .. NoExpiry]
           Kept == membership'.source = "tier" =>
                     membership.source = "tier" /\ membership'.plan = membership.plan
                     /\ (membership'.status = "active" => membership.status = "active")
<1>1. /\ deedEvents \in [Deeds -> {"none", "queued", "done"}] /\ DonePaid /\ membership \in MemberRow
      /\ dueRead \in BOOLEAN /\ loyaltyDay \in 0 .. MaxDay
  BY DEF LoyaltyInv, LoyaltyTypeOK
<1>2. UNCHANGED <<entries, crossings, pointCalls, overlapped, pointCrashes>>
  BY DEF Perform, ActivateManually, CancelMembership, ReadDue, ExpireDue, LoyaltyTick
<1>3. \A e, b : Entered(e, b)' <=> Entered(e, b)
  BY <1>2, LedgerStands
<1>4. deedEvents' \in [Deeds -> {"none", "queued", "done"}] /\ DonePaid'
  <2>1. CASE UNCHANGED deedEvents
    BY <1>1, <1>3, <2>1 DEF DonePaid
  <2>2. CASE \E d \in Deeds : Perform(d)
    BY <1>1, <1>3, <2>2 DEF DonePaid, Perform
  <2> QED
    BY <2>1, <2>2 DEF ActivateManually, CancelMembership, ReadDue, ExpireDue, LoyaltyTick
<1>5. membership' \in MemberRow /\ Kept
  <2>1. CASE UNCHANGED membership
    BY <1>1, <2>1
  <2>2. CASE \E p \in FreePlans : ActivateManually(p)
    <3>1. PICK p \in FreePlans : ActivateManually(p)
      BY <2>2
    <3>2. (IF p = GiftPlan THEN loyaltyDay + GiftDays ELSE NoExpiry) \in 0 .. NoExpiry
      BY <1>1, LoyaltyNumbers DEF NoExpiry
    <3>3. p \in Plans
      BY LoyaltyNumbers
    <3> QED
      BY <3>1, <3>2, <3>3 DEF ActivateManually
  <2>3. ASSUME NEW s \in {"cancelled", "expired"}, membership' = [membership EXCEPT !.status = s]
        PROVE  membership' \in MemberRow /\ Kept
    BY <1>1, <2>3
  <2>4. CASE CancelMembership
    BY <2>3, <2>4 DEF CancelMembership
  <2>5. CASE ExpireDue
    BY <2>1, <2>3, <2>5 DEF ExpireDue
  <2> QED
    BY <2>1, <2>2, <2>4, <2>5 DEF Perform, ReadDue, LoyaltyTick
<1>6. dueRead' \in BOOLEAN
  BY <1>1 DEF Perform, ActivateManually, CancelMembership, ReadDue, ExpireDue, LoyaltyTick
<1>7. loyaltyDay' \in 0 .. MaxDay
  BY <1>1, LoyaltyNumbers DEF Perform, ActivateManually, CancelMembership, ReadDue, ExpireDue, LoyaltyTick
<1> QED
  BY <1>2, <1>4, <1>5, <1>6, <1>7, CallsStand

\* The credits that stand, which are those of no reversed deed.
Reversed == {entries[i].deed : i \in {k \in DOMAIN entries : entries[k].reversal}}
Standing == {i \in DOMAIN entries : ~entries[i].reversal /\ entries[i].deed \notin Reversed}

LEMMA StandingEarns ==
  ASSUME \A i \in DOMAIN entries : entries[i].reversal \in BOOLEAN
  PROVE  ClawbackExact <=> Balance = SumFunctionOnSet(Points, Standing)
<1>1. {i \in DOMAIN entries : ~entries[i].reversal /\ ~Entered(entries[i].deed, TRUE)} = Standing
  BY DEF Standing, Reversed, Entered
<1> QED
  BY <1>1 DEF ClawbackExact, SumEntries

LEMMA StandingEarnsNext ==
  ASSUME \A i \in DOMAIN entries' : entries'[i].reversal \in BOOLEAN,
         Balance' = SumFunctionOnSet(Points', Standing')
  PROVE  ClawbackExact'
<1>1. {i \in DOMAIN entries' : ~entries'[i].reversal /\
         ~\E k \in DOMAIN entries' : entries'[k].deed = entries'[i].deed /\ entries'[k].reversal = TRUE} = Standing'
  BY DEF Standing, Reversed
<1> QED
  BY <1>1 DEF ClawbackExact, SumEntries, Entered

\* One more entry, of a deed and kind that was not entered.
LEMMA KeysStayApart ==
  ASSUME LoyaltyInv, NEW e \in EntryRow, entries' = Append(entries, e),
         IF e.reversal THEN e.points <= 0 /\ Entered(e.deed, FALSE) /\ ~Entered(e.deed, TRUE)
         ELSE e.points >= 0 /\ ~Entered(e.deed, FALSE)
  PROVE  LedgerKeyed'
<1> DEFINE n == Len(entries) + 1
<1>1. /\ n \notin DOMAIN entries /\ DOMAIN entries' = DOMAIN entries \cup {n} /\ entries'[n] = e
      /\ \A i \in DOMAIN entries : entries'[i] = entries[i]
      /\ \A d : Entered(d, FALSE)' <=> Entered(d, FALSE) \/ (e.deed = d /\ ~e.reversal)
  <2>1. Grown(e, n)
    BY LoyaltyTypes, LedgerGrows
  <2> QED
    BY <2>1 DEF Grown
<1> HIDE DEF n
<1>2. LedgerKeyed
  BY DEF LoyaltyInv
<1>3. \A i \in DOMAIN entries : ~(entries[i].deed = e.deed /\ entries[i].reversal = e.reversal)
  <2>1. e.reversal \in BOOLEAN
    BY DEF EntryRow
  <2>2. CASE e.reversal = TRUE
    BY <2>2 DEF Entered
  <2>3. CASE e.reversal = FALSE
    BY <2>3 DEF Entered
  <2> QED
    BY <2>1, <2>2, <2>3
<1>4. \A i, j \in DOMAIN entries' :
        entries'[i].deed = entries'[j].deed /\ entries'[i].reversal = entries'[j].reversal => i = j
  BY <1>1, <1>2, <1>3 DEF LedgerKeyed
<1>5. ASSUME NEW i \in DOMAIN entries'
      PROVE  IF entries'[i].reversal
             THEN /\ entries'[i].points <= 0
                  /\ \E k \in DOMAIN entries' : entries'[k].deed = entries'[i].deed /\ entries'[k].reversal = FALSE
             ELSE entries'[i].points >= 0
  <2>1. CASE i = n
    BY <1>1, <2>1 DEF Entered
  <2>2. CASE i \in DOMAIN entries
    BY <1>1, <1>2, <2>2 DEF LedgerKeyed, Entered
  <2> QED
    BY <1>1, <2>1, <2>2
<1> QED
  BY <1>4, <1>5 DEF LedgerKeyed, Entered

\* The award commits: the entry is there, and the crossing with it.
LEMMA CommitAwardSteps ==
  ASSUME LoyaltyInv, NEW r \in PointRelays, CommitAward(r)
  PROVE  LoyaltyInv' /\ CurrentTier' >= CurrentTier
<1> DEFINE p == pointCalls[r]
           q == IF p.deed \in ReferralDeeds
                THEN [pc |-> "mark", deed |-> p.deed, bonus |-> 0, before |-> 0, lifetime |-> 0]
                ELSE [pc |-> "sync", deed |-> p.deed, bonus |-> 0, before |-> 0, lifetime |-> p.lifetime]
           tier == TierForPoints(p.lifetime)
<1> SUFFICES ASSUME NEW e, e = [deed |-> p.deed, points |-> CallPoints(p), reversal |-> FALSE],
                    NEW n, n = Len(entries) + 1
             PROVE  LoyaltyInv' /\ CurrentTier' >= CurrentTier
  OBVIOUS
<1>1. /\ p.pc = "commit" /\ entries' = Append(entries, e) /\ pointCalls' = [pointCalls EXCEPT ![r] = q]
      /\ crossings' = IF tier # p.before THEN Append(crossings, tier) ELSE crossings
      /\ UNCHANGED <<membership, deedEvents, dueRead, loyaltyDay, pointCrashes, overlapped>>
  BY DEF CommitAward, Crossed, DoneWith
<1>2. p \in PointCall /\ p.deed \in Deeds /\ ~Entered(p.deed, FALSE) /\ p.lifetime <= LifetimeEarned + CallPoints(p)
  <2>1. KnowsDeed(p) /\ p \in PointCall
    BY LoyaltyTypes DEF LoyaltyInv, CallsKnow
  <2> QED
    BY <1>1, <2>1 DEF KnowsDeed
<1>3. CallPoints(p) \in Nat /\ p.lifetime \in Nat /\ LifetimeEarned \in Nat /\ CurrentTier \in TierLevels
      /\ tier \in TierLevels
  BY <1>2, CallsPrice, LedgerSums, LoyaltyTypes, TiersGrow DEF PointCall
<1>4. e \in EntryRow /\ e.deed = p.deed /\ e.points = CallPoints(p) /\ e.reversal = FALSE
  BY <1>2, <1>3 DEF EntryRow
<1>5. /\ q \in PointCall /\ q.deed = p.deed
      /\ IF p.deed \in ReferralDeeds THEN q.pc = "mark" ELSE q.pc = "sync" /\ q.lifetime = p.lifetime
  BY <1>2, LoyaltyNumbers DEF PointCall, TierLevels
<1> HIDE DEF q, tier
<1>f. entries \in Seq(EntryRow) /\ e \in EntryRow /\ entries' = Append(entries, e)
  BY <1>1, <1>4, LoyaltyTypes
<1>g. Grown(e, n)
  BY <1>f, LedgerGrows
<1>6. /\ n \notin DOMAIN entries /\ DOMAIN entries' = DOMAIN entries \cup {n} /\ entries'[n] = e
      /\ \A i \in DOMAIN entries : entries'[i] = entries[i]
      /\ \A S \in SUBSET DOMAIN entries :
           /\ SumFunctionOnSet(Points', S) = SumFunctionOnSet(Points, S)
           /\ SumFunctionOnSet(Points', S \cup {n}) = SumFunctionOnSet(Points, S) + e.points
      /\ Balance' = Balance + e.points
      /\ LifetimeEarned' = LifetimeEarned + (IF e.points > 0 THEN e.points ELSE 0)
      /\ \A d : Entered(d, FALSE)' <=> Entered(d, FALSE) \/ (e.deed = d /\ ~e.reversal)
      /\ \A d : Entered(d, TRUE)' <=> Entered(d, TRUE) \/ (e.deed = d /\ e.reversal)
      /\ entries' \in Seq(EntryRow)
  BY <1>g DEF Grown
<1>7. LifetimeEarned' = LifetimeEarned + CallPoints(p) /\ LifetimeEarned' >= LifetimeEarned
      /\ p.lifetime <= LifetimeEarned'
  BY <1>2, <1>3, <1>4, <1>6
<1>8. CurrentTier' >= CurrentTier /\ CurrentTier' \in TierLevels
  BY <1>3, <1>7, TiersGrow DEF CurrentTier
<1>s. /\ SyncedLifetime' = IF p.deed \in ReferralDeeds THEN SyncedLifetime ELSE LifetimeEarned'
      /\ SyncedLifetime \in Nat /\ SyncedLifetime' \in Nat /\ SyncedLifetime <= SyncedLifetime'
  <2>1. SyncedLifetime' = IF p.deed \in ReferralDeeds THEN SyncedLifetime ELSE LifetimeEarned'
    BY <1>4, <1>f, SyncedGrows
  <2>2. SyncedLifetime \in Nat /\ SyncedLifetime <= LifetimeEarned
    BY LedgerSums, LoyaltyTypes
  <2> QED
    BY <1>3, <1>7, <2>1, <2>2
<1>t. /\ SyncedTier \in TierLevels /\ SyncedTier' \in TierLevels /\ SyncedTier <= SyncedTier'
      /\ (p.deed \in ReferralDeeds => SyncedTier' = SyncedTier)
  BY <1>s, TiersGrow DEF SyncedTier
<1>9. ~Entered(p.deed, TRUE)
  BY <1>2 DEF LoyaltyInv, LedgerKeyed, Entered
<1>10. \A d : (Entered(d, TRUE)' <=> Entered(d, TRUE)) /\ (Entered(d, FALSE)' <=> Entered(d, FALSE) \/ d = p.deed)
  BY <1>4, <1>6
<1>11. ClawbackExact'
  <2>1. \A i \in DOMAIN entries : entries[i].reversal \in BOOLEAN
    BY LedgerSums, LoyaltyTypes DEF EntryRow
  <2>2. \A i \in DOMAIN entries' : entries'[i].reversal \in BOOLEAN
    BY <1>4, <1>6, <2>1
  <2>3. Reversed' = Reversed /\ p.deed \notin Reversed
    BY <1>4, <1>6, <1>9, <2>1, <2>2 DEF Reversed, Entered
  <2>4. Standing' = Standing \cup {n} /\ Standing \in SUBSET DOMAIN entries
    BY <1>4, <1>6, <2>3 DEF Standing
  <2>5. Balance = SumFunctionOnSet(Points, Standing)
    BY <2>1, StandingEarns DEF LoyaltyInv
  <2>7. SumFunctionOnSet(Points', Standing \cup {n}) = SumFunctionOnSet(Points, Standing) + e.points
    BY <1>6, <2>4
  <2>8. Balance' = SumFunctionOnSet(Points', Standing')
    BY <1>6, <2>4, <2>5, <2>7
  <2> QED
    BY <2>2, <2>8, StandingEarnsNext
<1>12. LedgerKeyed'
  <2>a. ~e.reversal
    BY <1>4
  <2>b. e.points >= 0
    BY <1>3, <1>4
  <2>c. ~Entered(e.deed, FALSE)
    BY <1>2, <1>4
  <2>1. ~e.reversal /\ e.points >= 0 /\ ~Entered(e.deed, FALSE)
    BY <2>a, <2>b, <2>c
  <2> QED
    BY <1>f, <2>1, KeysStayApart
<1>13. /\ pointCalls' \in [PointRelays -> PointCall]
       /\ pointCalls'[r] = q /\ \A s \in PointRelays : s # r => pointCalls'[s] = pointCalls[s]
  BY <1>1, <1>5, LoyaltyTypes
<1>14. LoyaltyTypeOK'
  <2>1. crossings' \in Seq(TierLevels)
    BY <1>1, <1>3, LoyaltyTypes
  <2> QED
    BY <1>1, <1>6, <1>13, <2>1 DEF LoyaltyInv, LoyaltyTypeOK
<1>15. CallsKnow'
  <2>1. ASSUME NEW s \in PointRelays, NEW c, c = pointCalls'[s] PROVE KnowsDeed(c)'
    <3>1. CASE s = r
      <4>1. c = q
        BY <1>13, <2>1, <3>1
      <4>2. CASE p.deed \in ReferralDeeds
        BY <1>2, <1>5, <1>10, <4>1, <4>2 DEF KnowsDeed
      <4>3. CASE p.deed \notin ReferralDeeds
        BY <1>2, <1>5, <1>7, <1>10, <1>s, <4>1, <4>3 DEF KnowsDeed
      <4> QED
        BY <4>2, <4>3
    <3>2. CASE s # r
      <4>1. KnowsDeed(c) /\ c \in PointCall /\ pointCalls[s] = c
        BY <1>13, <2>1, <3>2, LoyaltyTypes DEF LoyaltyInv, CallsKnow
      <4>2. c.pc = "commit" => c.deed # p.deed
        BY <1>1, <3>2, <4>1 DEF LoyaltyInv, CallsKnow
      <4>3. c.lifetime \in Nat /\ (c.pc = "commit" => CallPoints(c) \in Nat)
        BY <4>1, CallsPrice DEF PointCall, KnowsDeed
      <4>4. c.pc = "commit" => c.lifetime <= LifetimeEarned' + CallPoints(c)
        BY <1>3, <1>7, <4>1, <4>3 DEF KnowsDeed
      <4>5. c.pc \in {"sync", "activate"} => c.lifetime <= SyncedLifetime'
        <5>1. c.pc \in {"sync", "activate"} => c.lifetime <= SyncedLifetime
          BY <4>1 DEF KnowsDeed
        <5> QED
          BY <1>s, <4>3, <5>1
      <4> QED
        BY <1>10, <4>1, <4>2, <4>4, <4>5 DEF KnowsDeed
    <3> QED
      BY <3>1, <3>2
  <2>2. \A s, t \in PointRelays :
          pointCalls'[s].pc = "commit" /\ pointCalls'[t].pc = "commit" /\ pointCalls'[s].deed = pointCalls'[t].deed
            => s = t
    BY <1>5, <1>13 DEF LoyaltyInv, CallsKnow
  <2> QED
    BY <2>1, <2>2 DEF CallsKnow
<1>16. DonePaid'
  BY <1>1, <1>10 DEF LoyaltyInv, DonePaid
<1>17. ~overlapped => /\ \A s \in PointRelays : s # r => pointCalls[s].pc = "idle"
                      /\ p.before = CurrentTier /\ p.lifetime = LifetimeEarned'
  <2>1. ~overlapped => AtTier(p) /\ \A s \in PointRelays : s # r => pointCalls[s].pc = "idle"
    BY <1>1 DEF LoyaltyInv, CallAlone
  <2> QED
    BY <1>1, <1>7, <2>1 DEF AtTier
<1>18. CallAlone'
  <2>1. ASSUME ~overlapped, NEW s \in PointRelays, NEW c, c = pointCalls'[s] PROVE AtTier(c)'
    <3>1. c.pc \in {"idle", "mark"} \/ (c.pc = "sync" /\ c.lifetime = p.lifetime /\ p.deed \notin ReferralDeeds)
      BY <1>5, <1>13, <1>17, <2>1
    <3> QED
      BY <1>17, <1>s, <2>1, <3>1 DEF AtTier
  <2> QED
    BY <1>1, <1>5, <1>13, <1>17, <2>1 DEF CallAlone
<1>19. CrossingRecorded'
  <2>1. SUFFICES ASSUME ~overlapped
                 PROVE  CurrentTier' = IF crossings' = <<>> THEN 0 ELSE crossings'[Len(crossings')]
    BY <1>1 DEF CrossingRecorded
  <2>2. CurrentTier' = tier
    BY <1>17, <2>1 DEF CurrentTier, tier
  <2>3. CASE tier # p.before
    <3>1. crossings' = Append(crossings, tier) /\ crossings \in Seq(TierLevels)
      BY <1>1, <2>3, LoyaltyTypes
    <3>2. crossings' # <<>> /\ crossings'[Len(crossings')] = tier
      BY <1>3, <3>1
    <3> QED
      BY <2>2, <3>2
  <2>4. CASE tier = p.before
    <3>1. crossings' = crossings /\ tier = CurrentTier
      BY <1>1, <1>17, <2>1, <2>4
    <3> QED
      BY <2>1, <2>2, <3>1 DEF LoyaltyInv, CrossingRecorded
  <2> QED
    BY <2>3, <2>4
<1>20. TierHeld'
  BY <1>1, <1>t DEF LoyaltyInv, TierHeld, TierLevels
<1>21. FollowsTier'
  <2>1. CASE p.deed \in ReferralDeeds
    <3>1. \A s \in PointRelays : ~Syncing(pointCalls'[s]) => ~Syncing(pointCalls[s])
      BY <1>1, <1>13 DEF Syncing
    <3> QED
      BY <1>1, <1>t, <2>1, <3>1 DEF LoyaltyInv, FollowsTier
  <2>2. CASE p.deed \notin ReferralDeeds
    BY <1>5, <1>13, <2>2 DEF FollowsTier, Syncing
  <2> QED
    BY <2>1, <2>2
<1> QED
  BY <1>8, <1>11, <1>12, <1>14, <1>15, <1>16, <1>18, <1>19, <1>20, <1>21 DEF LoyaltyInv

\* The reversal: the credit's exact negation, which lowers no tier.
LEMMA ReverseSteps ==
  ASSUME LoyaltyInv, NEW d \in Deeds, ReversePoints(d)
  PROVE  LoyaltyInv' /\ CurrentTier' = CurrentTier
<1> DEFINE j == CHOOSE i \in DOMAIN entries : entries[i].deed = d /\ ~entries[i].reversal
<1> SUFFICES ASSUME NEW e, e = [deed |-> d, points |-> -(entries[j].points), reversal |-> TRUE],
                    NEW n, n = Len(entries) + 1
             PROVE  LoyaltyInv' /\ CurrentTier' = CurrentTier
  OBVIOUS
<1>1. /\ Entered(d, FALSE) /\ ~Entered(d, TRUE) /\ entries' = Append(entries, e)
      /\ UNCHANGED <<crossings, membership, deedEvents, pointCalls, dueRead, loyaltyDay, pointCrashes, overlapped>>
  BY DEF ReversePoints, Clawback
<1>2. j \in DOMAIN entries /\ entries[j].deed = d /\ ~entries[j].reversal
  <2>1. \E i \in DOMAIN entries : entries[i].deed = d /\ ~entries[i].reversal
    BY <1>1 DEF Entered
  <2> QED
    BY <2>1, Zenon
<1>3. /\ entries[j] \in EntryRow /\ Points[j] = entries[j].points /\ entries[j].points \in Int
      /\ entries[j].points >= 0 /\ \A i \in DOMAIN entries : entries[i].deed = d /\ ~entries[i].reversal => i = j
  <2>1. entries[j] \in EntryRow /\ Points[j] = entries[j].points /\ Points[j] \in Int
    BY <1>2, LedgerSums, LoyaltyTypes
  <2>2. LedgerKeyed /\ \A i \in DOMAIN entries : entries[i].reversal \in BOOLEAN
    BY LedgerSums, LoyaltyTypes DEF LoyaltyInv, EntryRow
  <2> HIDE DEF j
  <2> QED
    BY <1>2, <2>1, <2>2 DEF LedgerKeyed
<1> HIDE DEF j
<1>4. e \in EntryRow /\ e.deed = d /\ e.points = -(entries[j].points) /\ e.points \in Int /\ e.points <= 0
      /\ e.reversal = TRUE
  BY <1>3 DEF EntryRow
<1>f. entries \in Seq(EntryRow) /\ e \in EntryRow /\ entries' = Append(entries, e)
  BY <1>1, <1>4, LoyaltyTypes
<1>g. Grown(e, n)
  BY <1>f, LedgerGrows
<1>5. /\ n \notin DOMAIN entries /\ DOMAIN entries' = DOMAIN entries \cup {n} /\ entries'[n] = e
      /\ \A i \in DOMAIN entries : entries'[i] = entries[i]
      /\ \A S \in SUBSET DOMAIN entries :
           /\ SumFunctionOnSet(Points', S) = SumFunctionOnSet(Points, S)
           /\ SumFunctionOnSet(Points', S \cup {n}) = SumFunctionOnSet(Points, S) + e.points
      /\ Balance' = Balance + e.points
      /\ LifetimeEarned' = LifetimeEarned + (IF e.points > 0 THEN e.points ELSE 0)
      /\ \A c : Entered(c, FALSE)' <=> Entered(c, FALSE) \/ (e.deed = c /\ ~e.reversal)
      /\ \A c : Entered(c, TRUE)' <=> Entered(c, TRUE) \/ (e.deed = c /\ e.reversal)
      /\ entries' \in Seq(EntryRow)
  BY <1>g DEF Grown
<1>6. LifetimeEarned' = LifetimeEarned /\ CurrentTier' = CurrentTier
  <2>1. LifetimeEarned \in Nat
    BY LedgerSums, LoyaltyTypes
  <2>2. LifetimeEarned' = LifetimeEarned
    BY <1>4, <1>5, <2>1
  <2> QED
    BY <2>2 DEF CurrentTier
<1>s. SyncedLifetime' = SyncedLifetime /\ SyncedTier' = SyncedTier
  <2>1. e.deed \in ReferralDeeds
    BY <1>4 DEF ReversePoints
  <2>2. SyncedLifetime' = SyncedLifetime
    BY <1>f, <2>1, SyncedGrows
  <2> QED
    BY <2>2 DEF SyncedTier
<1>7. \A c : (Entered(c, FALSE)' <=> Entered(c, FALSE)) /\ (Entered(c, TRUE)' <=> Entered(c, TRUE) \/ c = d)
  BY <1>4, <1>5
<1>8. LedgerKeyed'
  BY <1>1, <1>4, KeysStayApart
<1>9. ClawbackExact'
  <2>1. \A i \in DOMAIN entries : entries[i].reversal \in BOOLEAN
    BY LedgerSums, LoyaltyTypes DEF EntryRow
  <2>2. \A i \in DOMAIN entries' : entries'[i].reversal \in BOOLEAN
    BY <1>4, <1>5, <2>1
  <2>3. Reversed' = Reversed \cup {d} /\ d \notin Reversed
    BY <1>1, <1>4, <1>5, <2>1, <2>2 DEF Reversed, Entered
  <2>4. Standing' = Standing \ {j} /\ Standing \in SUBSET DOMAIN entries /\ j \in Standing
    BY <1>2, <1>3, <1>4, <1>5, <2>3 DEF Standing
  <2>5. Balance = SumFunctionOnSet(Points, Standing)
    BY <2>1, StandingEarns DEF LoyaltyInv
  <2>6. IsFiniteSet(Standing) /\ (\A i \in Standing : Points[i] \in Int)
        /\ SumFunctionOnSet(Points, Standing \ {j}) \in Int
    BY <2>4, LedgerSums, LoyaltyTypes DEF SumEntries
  <2>7. SumFunctionOnSet(Points, Standing) = Points[j] + SumFunctionOnSet(Points, Standing \ {j})
    BY <2>4, <2>6, SumTakes
  <2>8. SumFunctionOnSet(Points', Standing \ {j}) = SumFunctionOnSet(Points, Standing \ {j})
    <3>1. Standing \ {j} \in SUBSET DOMAIN entries
      BY <2>4
    <3> QED
      BY <1>5, <3>1
  <2>9. Balance' = Balance + -(entries[j].points)
    BY <1>4, <1>5
  <2>10. Balance' = SumFunctionOnSet(Points, Standing \ {j})
    BY <1>3, <2>5, <2>6, <2>7, <2>9
  <2> QED
    BY <2>2, <2>4, <2>8, <2>10, StandingEarnsNext
<1>10. LoyaltyTypeOK'
  BY <1>1, <1>5 DEF LoyaltyInv, LoyaltyTypeOK
<1>11. \A q : (KnowsDeed(q)' <=> KnowsDeed(q)) /\ (AtTier(q)' <=> AtTier(q))
  BY <1>6, <1>7, <1>s DEF KnowsDeed, AtTier
<1>12. CallsKnow'
  BY <1>1, <1>11 DEF LoyaltyInv, CallsKnow
<1>13. DonePaid'
  BY <1>1, <1>7 DEF LoyaltyInv, DonePaid
<1>14. CallAlone' /\ CrossingRecorded' /\ TierHeld' /\ FollowsTier'
  BY <1>1, <1>6, <1>11, <1>s DEF LoyaltyInv, CallAlone, CrossingRecorded, TierHeld, FollowsTier
<1> QED
  BY <1>6, <1>8, <1>9, <1>10, <1>12, <1>13, <1>14 DEF LoyaltyInv

LEMMA LoyaltyBegins == LoyaltyInit => LoyaltyInv
<1> SUFFICES ASSUME LoyaltyInit PROVE LoyaltyInv
  OBVIOUS
<1>1. entries = <<>> /\ crossings = <<>> /\ DOMAIN entries = {} /\ entries \in Seq(EntryRow)
  BY DEF LoyaltyInit
<1>2. \A d, b : ~Entered(d, b)
  BY <1>1 DEF Entered
<1>3. LifetimeEarned = 0 /\ Balance = 0 /\ CurrentTier = 0
  <2>1. {i \in DOMAIN entries : entries[i].points > 0} = {}
    BY <1>1
  <2>2. LifetimeEarned = 0 /\ Balance = 0
    BY <1>1, <2>1, SumOfNone DEF LifetimeEarned, Balance, SumEntries
  <2> QED
    BY <2>2, TiersGrow DEF CurrentTier
<1>4. NoPointCall \in PointCall /\ NoPointCall.pc = "idle"
  BY LoyaltyNumbers DEF NoPointCall, PointCall, TierLevels
<1>5. LoyaltyTypeOK
  <2>1. membership \in [status : {"none", "active", "cancelled", "expired"}, plan : Plans,
                        source : {"tier", "manual"}, expires : 0 .. NoExpiry]
    BY LoyaltyNumbers DEF LoyaltyInit, Plans, NoExpiry
  <2>2. pointCalls \in [PointRelays -> PointCall] /\ deedEvents \in [Deeds -> {"none", "queued", "done"}]
    BY <1>4 DEF LoyaltyInit
  <2>3. loyaltyDay \in 0 .. MaxDay /\ pointCrashes \in 0 .. MaxPointCrashes
    BY LoyaltyNumbers DEF LoyaltyInit
  <2>4. dueRead = FALSE /\ overlapped = FALSE /\ crossings \in Seq(TierLevels)
    BY <1>1 DEF LoyaltyInit
  <2> QED
    BY <1>1, <2>1, <2>2, <2>3, <2>4 DEF LoyaltyTypeOK
<1>6. LedgerKeyed /\ DonePaid
  BY <1>1 DEF LoyaltyInit, LedgerKeyed, DonePaid
<1>7. \A r \in PointRelays : pointCalls[r] = NoPointCall
  BY DEF LoyaltyInit
<1>8. KnowsDeed(NoPointCall) /\ AtTier(NoPointCall)
  BY <1>4 DEF KnowsDeed, AtTier
<1>9. CallsKnow /\ CallAlone
  BY <1>4, <1>7, <1>8 DEF CallsKnow, CallAlone
<1>10. ClawbackExact
  <2>1. {i \in DOMAIN entries : ~entries[i].reversal /\ ~Entered(entries[i].deed, TRUE)} = {}
    BY <1>1
  <2> QED
    BY <1>3, <2>1, SumOfNone DEF ClawbackExact, SumEntries
<1>11. CrossingRecorded /\ TierHeld /\ FollowsTier
  BY <1>1, <1>3 DEF LoyaltyInit, CrossingRecorded, TierHeld, FollowsTier
<1> QED
  BY <1>5, <1>6, <1>9, <1>10, <1>11 DEF LoyaltyInv

LEMMA LoyaltySteps == LoyaltyInv /\ LoyaltyNext => LoyaltyInv' /\ CurrentTier' >= CurrentTier
<1> SUFFICES ASSUME LoyaltyInv, LoyaltyNext PROVE LoyaltyInv' /\ CurrentTier' >= CurrentTier
  OBVIOUS
<1>1. ASSUME UNCHANGED entries PROVE CurrentTier' >= CurrentTier
  <2>1. CurrentTier' = CurrentTier
    BY <1>1, LedgerStands
  <2>2. CurrentTier \in Nat
    BY LedgerSums, LoyaltyTypes, LoyaltyNumbers DEF TierLevels
  <2> QED
    BY <2>1, <2>2
<1>2. CASE \/ \E d \in Deeds : Perform(d)
           \/ \E p \in FreePlans : ActivateManually(p)
           \/ CancelMembership \/ ReadDue \/ ExpireDue \/ LoyaltyTick
  <2>1. UNCHANGED entries
    BY <1>2 DEF Perform, ActivateManually, CancelMembership, ReadDue, ExpireDue, LoyaltyTick
  <2> QED
    BY <1>1, <1>2, <2>1, MemberSteps
<1>3. ASSUME NEW r \in PointRelays,
             (\E d \in Deeds : BeginAward(r, d)) \/ InsertEntry(r) \/ MarkDeed(r) \/ AwardCrash(r)
      PROVE  LoyaltyInv' /\ CurrentTier' >= CurrentTier
  <2>1. UNCHANGED entries
    BY <1>3 DEF BeginAward, InsertEntry, MarkDeed, AwardCrash
  <2> QED
    BY <1>1, <1>3, <2>1, CallSteps
<1>4. ASSUME NEW r \in PointRelays, SyncFromTier(r) \/ ActivateFromTier(r)
      PROVE  LoyaltyInv' /\ CurrentTier' >= CurrentTier
  <2>1. UNCHANGED entries
    BY <1>4 DEF SyncFromTier, ActivateFromTier
  <2> QED
    BY <1>1, <1>4, <2>1, SyncSteps
<1>5. ASSUME NEW d \in Deeds, ReversePoints(d) PROVE LoyaltyInv' /\ CurrentTier' >= CurrentTier
  <2>1. CurrentTier \in Nat
    BY LedgerSums, LoyaltyTypes, LoyaltyNumbers DEF TierLevels
  <2> QED
    BY <1>5, <2>1, ReverseSteps
<1> QED
  BY <1>2, <1>3, <1>4, <1>5, CommitAwardSteps DEF LoyaltyNext, AwardStep

\* Points follow the deeds (PointsFollowDeeds), for any deeds, tiers and number of relays:
\* however handlers overlap, repeat and die, a deed is paid once, a clawback takes back what
\* was paid, and the tier once reached is kept.
THEOREM PointsFollow == CommercialSpec => PointsFollowDeeds
<1>1. Init => LoyaltyInv
  BY LoyaltyBegins DEF Init
<1>2. [Next]_vars => [LoyaltyNext]_loyaltyVars
  BY DEF Next, vars
<1>3. ASSUME LoyaltyInv, UNCHANGED loyaltyVars PROVE LoyaltyInv'
  <2>1. /\ UNCHANGED <<entries, crossings, pointCalls, overlapped, pointCrashes>>
        /\ UNCHANGED <<deedEvents, membership, dueRead, loyaltyDay>>
    BY <1>3 DEF loyaltyVars
  <2>2. \A d, b : Entered(d, b)' <=> Entered(d, b)
    BY <2>1, LedgerStands
  <2>3. DonePaid'
    BY <1>3, <2>1, <2>2 DEF LoyaltyInv, DonePaid
  <2> QED
    BY <1>3, <2>1, <2>3, CallsStand DEF LoyaltyInv, LoyaltyTypeOK
<1>4. LoyaltyInv /\ [Next]_vars => LoyaltyInv'
  BY <1>2, <1>3, LoyaltySteps
<1>5. LoyaltyInv /\ [Next]_vars => [CurrentTier' >= CurrentTier]_loyaltyVars
  BY <1>2, LoyaltySteps
<1>6. LoyaltyInv => LoyaltyTypeOK /\ DeedPaidOnce /\ ClawbackExact /\ CrossingRecorded /\ MembershipFollowsTier
  <2> SUFFICES ASSUME LoyaltyInv
               PROVE  LoyaltyTypeOK /\ DeedPaidOnce /\ ClawbackExact /\ CrossingRecorded /\ MembershipFollowsTier
    OBVIOUS
  <2>1. LoyaltyTypeOK /\ ClawbackExact /\ CrossingRecorded
    BY DEF LoyaltyInv
  <2>2. DeedPaidOnce
    <3>1. SUFFICES ASSUME NEW d \in Deeds, NEW rows,
                          rows = {i \in DOMAIN entries : entries[i].deed = d /\ ~entries[i].reversal}
                   PROVE  Cardinality(rows) <= 1 /\ (deedEvents[d] = "done" /\ DeedPoints[d] > 0 => rows # {})
      BY DEF DeedPaidOnce
    <3>2. \A i \in DOMAIN entries : entries[i].reversal \in BOOLEAN
      BY LedgerSums, LoyaltyTypes DEF EntryRow
    <3>3. \A i, j \in rows : i = j
      BY <3>1, <3>2 DEF LoyaltyInv, LedgerKeyed
    <3>4. Cardinality(rows) <= 1
      <4>1. rows = {} \/ \E i : rows = {i}
        BY <3>3
      <4>2. Cardinality(rows) = 0 \/ Cardinality(rows) = 1
        BY <4>1, FS_EmptySet, FS_Singleton
      <4> QED
        BY <4>2
    <3>5. deedEvents[d] = "done" /\ DeedPoints[d] > 0 => rows # {}
      BY <3>1, <3>2 DEF LoyaltyInv, DonePaid, Entered
    <3> QED
      BY <3>4, <3>5
  <2>3. MembershipFollowsTier
    BY DEF LoyaltyInv, FollowsTier, Syncing, MembershipFollowsTier, SyncedTier
  <2> QED
    BY <2>1, <2>2, <2>3
<1> QED
  BY <1>1, <1>4, <1>5, <1>6, PTL DEF CommercialSpec, PointsFollowDeeds, TierKept
(* Funds: the inductive invariant.                                         *)

IsNew(x) == RefundedOrder[x] \notin LegacyOrders

\* Events are emitted in order: an order is paid before it is refunded, refund by refund.
EmittedInOrder ==
  \A x \in FundRefunds : fundEvents[x] # "none" =>
    /\ IsNew(x) => fundEvents[RefundedOrder[x]] # "none"
    /\ \A y \in RefundsOf(RefundedOrder[x]) : y < x => fundEvents[y] # "none"

\* What has been handled is recorded.
Recorded(e) ==
  IF e \in FundRefunds
  THEN IF IsNew(e) THEN RefundedOrder[e] \notin fundFailed => e \in journal ELSE reversals[e].posted
  ELSE e \in journal
DoneRecorded == \A e \in FundEvents : fundEvents[e] = "done" => Recorded(e)

\* A dispatch follows those of the same order, those that threw excepted.
FollowsEarlier(e) ==
  e \in FundRefunds =>
    /\ IsNew(e) => RefundedOrder[e] \in fundFailed \/ fundEvents[RefundedOrder[e]] = "done"
    /\ \A y \in RefundsOf(RefundedOrder[e]) : y < e => y \in fundFailed \/ fundEvents[y] = "done"

\* A reversal takes away what was refunded, however it is divided.
Exact(x, commission, receivable) == commission + receivable = -RefundSize[x]
RowsExact == \A x \in FundRefunds : reversals[x].posted => Exact(x, reversals[x].commission, reversals[x].receivable)

\* The division a relay is about to insert is the one due, or comes too late.
Due(x, commission, receivable) ==
  LET delta == CumulativeDelta(RefundedOrder[x], RefundSize[x])
  IN commission = delta.commission /\ receivable = delta.receivable
RelayStands(q) ==
  /\ q.passed \subseteq fundFailed
  /\ q.pc # "idle" => q.event \in FundEvents /\ FollowsEarlier(q.event) /\ fundEvents[q.event] # "none"
  /\ q.pc = "insert" => /\ q.event \in FundRefunds /\ ~IsNew(q.event) /\ Exact(q.event, q.commission, q.receivable)
                        /\ \/ RefundsOf(RefundedOrder[q.event]) \cap fundFailed # {}
                           \/ reversals[q.event].posted
                           \/ Due(q.event, q.commission, q.receivable)
  /\ q.pc = "mark" => Recorded(q.event)
RelaysStand == \A w \in FundRelays : RelayStands(fundRelays[w])

UnsettledOnce == \A o \in LegacyOrders : unsettled[o] <= 1

FundsInv ==
  /\ FundsTypeOK /\ FundsConserved /\ SplitFollowsRate
  /\ EmittedInOrder /\ DoneRecorded /\ RowsExact /\ RelaysStand /\ UnsettledOnce

\* What the constants make of events and orders.
LEMMA FundNames ==
  /\ IsFiniteSet(FundRefunds) /\ FundRefunds \subseteq Nat
  /\ \A x \in FundRefunds : RefundedOrder[x] \in FundOrders /\ RefundSize[x] \in Nat /\ RefundSize[x] > 0
                             /\ x \in FundEvents /\ OrderOfEvent(x) = RefundedOrder[x] /\ x # 0
  /\ \A o \in FundOrders : FundAmount[o] \in Nat /\ FundAmount[o] > 0 /\ o \notin FundRefunds /\ o # 0
                           /\ OrderOfEvent(o) = o
  /\ \A o \in FundOrders : o \notin LegacyOrders => o \in FundEvents
  /\ LegacyOrders \subseteq FundOrders /\ 0 \notin FundEvents
  /\ \A e \in FundEvents : e \notin FundRefunds => e \in FundOrders /\ e \notin LegacyOrders
  /\ MaxFundFaults \in Nat
<1>1. IsFiniteSet(FundRefunds)
  <2>1. \A n \in Nat : IsFiniteSet(1 .. n)
    BY FS_Interval
  <2> QED
    BY <2>1, FundsAssumption DEF FundRefunds
<1>2. FundRefunds \subseteq Nat /\ 0 \notin FundRefunds
  BY FundsAssumption DEF FundRefunds
<1>3. /\ LegacyOrders \subseteq FundOrders /\ FundOrders \cap (FundRefunds \cup {0}) = {}
      /\ RefundedOrder \in [FundRefunds -> FundOrders] /\ RefundSize \in [FundRefunds -> Nat \ {0}]
      /\ FundAmount \in [FundOrders -> Nat \ {0}] /\ MaxFundFaults \in Nat
  BY FundsAssumption
<1>4. \A x \in FundRefunds : RefundedOrder[x] \in FundOrders /\ RefundSize[x] \in Nat /\ RefundSize[x] > 0
  BY <1>3
<1>5. \A o \in FundOrders : FundAmount[o] \in Nat /\ FundAmount[o] > 0 /\ o \notin FundRefunds /\ o # 0
  BY <1>3
<1> QED
  BY <1>1, <1>2, <1>3, <1>4, <1>5 DEF FundEvents, OrderOfEvent

\* A share and what remains of a total are whole numbers, and of a total that is none less
\* than 0 neither is what remains.
LEMMA Shares ==
  /\ \A t \in Int : SplitExact(t).part \in Int /\ SplitExact(t).remainder \in Int
                    /\ SplitExact(t).part + SplitExact(t).remainder = t
  /\ \A t \in Nat : SplitExact(t).remainder >= 0
<1>1. RatePercent \in Int /\ 0 <= RatePercent /\ RatePercent <= 100
  BY FundsAssumption
<1>2. \A t \in Int : PercentOf(t) \in Int
  <2>1. \A t \in Int : t * RatePercent \in Int /\ (-t) * RatePercent \in Int
    BY <1>1
  <2> QED
    BY <2>1 DEF PercentOf
<1>3. ASSUME NEW t \in Nat PROVE PercentOf(t) <= t
  <2>1. t * RatePercent \in Int /\ t * RatePercent <= t * 100
    BY <1>1
  <2>2. \A p \in Int : p <= t * 100 => (p + 50) \div 100 <= t
    OBVIOUS
  <2> QED
    BY <2>1, <2>2 DEF PercentOf
<1>4. \A t : SplitExact(t).part = PercentOf(t) /\ SplitExact(t).remainder = t - PercentOf(t)
  BY DEF SplitExact
<1>5. \A t \in Int : SplitExact(t).part \in Int /\ SplitExact(t).remainder \in Int
                    /\ SplitExact(t).part + SplitExact(t).remainder = t
  BY <1>2, <1>4
<1>6. \A t \in Nat : SplitExact(t).remainder >= 0
  BY <1>2, <1>3, <1>4
<1> QED
  BY <1>5, <1>6

\* What cancels out element by element cancels out.
LEMMA SumCancels ==
  ASSUME NEW f, NEW g, NEW k, NEW S, IsFiniteSet(S),
         \A x \in S : f[x] \in Int /\ g[x] \in Int /\ k[x] \in Int /\ f[x] + g[x] = -k[x]
  PROVE  SumFunctionOnSet(f, S) + SumFunctionOnSet(g, S) = -SumFunctionOnSet(k, S)
<1> DEFINE Good == {s \in SUBSET S :
                      SumFunctionOnSet(f, s) + SumFunctionOnSet(g, s) = -SumFunctionOnSet(k, s)}
<1>1. ASSUME NEW s \in SUBSET S, \A t \in SUBSET s : t # s => t \in Good PROVE s \in Good
  <2>1. CASE s = {}
    BY <2>1, SumOfNone
  <2>2. CASE s # {}
    <3> DEFINE c == Picked(s)
               t == Less(s)
    <3>1. c \in S /\ t \in Good /\ t \in SUBSET S /\ IsFiniteSet(t) /\ IsFiniteSet(s)
      BY <1>1, <2>2, PickedIsIn, FS_Subset
    <3>2. /\ SumFunctionOnSet(f, s) = f[c] + SumFunctionOnSet(f, t)
          /\ SumFunctionOnSet(g, s) = g[c] + SumFunctionOnSet(g, t)
          /\ SumFunctionOnSet(k, s) = k[c] + SumFunctionOnSet(k, t)
      BY <2>2, <3>1, SumStep
    <3> HIDE DEF c, t
    <3>3. SumFunctionOnSet(f, t) + SumFunctionOnSet(g, t) = -SumFunctionOnSet(k, t)
      BY <3>1
    <3>4. /\ SumFunctionOnSet(f, t) \in Int
          /\ SumFunctionOnSet(g, t) \in Int
          /\ SumFunctionOnSet(k, t) \in Int
      <4>1. \A x \in t : f[x] \in Int /\ g[x] \in Int /\ k[x] \in Int
        BY <3>1
      <4> QED
        BY <3>1, <4>1, SumInt
    <3>5. f[c] \in Int /\ g[c] \in Int /\ k[c] \in Int /\ f[c] + g[c] = -k[c]
      BY <3>1
    <3>6. SumFunctionOnSet(f, s) + SumFunctionOnSet(g, s) = -SumFunctionOnSet(k, s)
      <4>1. \A a, b, d, A, B, D \in Int : a + b = -d /\ A + B = -D => (a + A) + (b + B) = -(d + D)
        OBVIOUS
      <4>2. (f[c] + SumFunctionOnSet(f, t)) + (g[c] + SumFunctionOnSet(g, t)) = -(k[c] + SumFunctionOnSet(k, t))
        BY <3>3, <3>4, <3>5, <4>1
      <4> QED
        BY <3>2, <4>2
    <3> QED
      BY <3>6
  <2> QED
    BY <2>1, <2>2
<1> HIDE DEF Good
<1>2. S \in Good
  BY <1>1, SubsetInduction
<1> QED
  BY <1>2 DEF Good

\* The ledger of an order adds up to what it collected less what was refunded.
LEMMA LedgerAddsUp ==
  ASSUME FundsTypeOK, RowsExact
  PROVE  \A o \in LegacyOrders :
           /\ LedgerNet(o).commission \in Int /\ LedgerNet(o).receivable \in Int
           /\ LedgerNet(o).commission + LedgerNet(o).receivable =
                FundAmount[o] - SumFunctionOnSet(RefundSize, Posted(o))
<1> SUFFICES ASSUME NEW o \in LegacyOrders
             PROVE  /\ LedgerNet(o).commission \in Int /\ LedgerNet(o).receivable \in Int
                    /\ LedgerNet(o).commission + LedgerNet(o).receivable =
                         FundAmount[o] - SumFunctionOnSet(RefundSize, Posted(o))
  OBVIOUS
<1> DEFINE part == SplitExact(FundAmount[o]).part
           rest == SplitExact(FundAmount[o]).remainder
           sumC == SumFunctionOnSet(Commissions, Posted(o))
           sumR == SumFunctionOnSet(Receivables, Posted(o))
           sumZ == SumFunctionOnSet(RefundSize, Posted(o))
<1>1. LedgerNet(o).commission = part + sumC /\ LedgerNet(o).receivable = rest + sumR
  BY DEF LedgerNet
<1>2. part \in Int /\ rest \in Int /\ part + rest = FundAmount[o] /\ FundAmount[o] \in Int
  BY FundNames, Shares
<1>3. IsFiniteSet(Posted(o)) /\ Posted(o) \subseteq FundRefunds
  BY FundNames, FS_Subset DEF Posted, RefundsOf
<1>4. \A x \in FundRefunds : reversals[x] \in LedgerRow
  BY DEF FundsTypeOK
<1>5. \A x \in FundRefunds : reversals[x].commission \in Int /\ reversals[x].receivable \in Int
  BY <1>4 DEF LedgerRow
<1>6. \A x \in FundRefunds : Commissions[x] = reversals[x].commission /\ Receivables[x] = reversals[x].receivable
  BY DEF Commissions, Receivables
<1>7. \A x \in FundRefunds : Commissions[x] \in Int /\ Receivables[x] \in Int /\ RefundSize[x] \in Int
  BY <1>5, <1>6, FundNames
<1>8. \A x \in Posted(o) : Commissions[x] + Receivables[x] = -RefundSize[x]
  BY <1>3, <1>6 DEF RowsExact, Exact, Posted
<1>9. \A x \in Posted(o) : /\ Commissions[x] \in Int
                           /\ Receivables[x] \in Int
                           /\ RefundSize[x] \in Int
  BY <1>3, <1>7
<1>10. sumC + sumR = -sumZ
  BY <1>3, <1>8, <1>9, SumCancels
<1>11. sumC \in Int /\ sumR \in Int /\ sumZ \in Int
  BY <1>3, <1>9, SumInt
<1> HIDE DEF part, rest, sumC, sumR, sumZ
<1>12. (part + sumC) + (rest + sumR) = FundAmount[o] - sumZ
  BY <1>2, <1>10, <1>11
<1> QED
  BY <1>1, <1>2, <1>11, <1>12 DEF sumZ

\* A step that posts nothing leaves the ledger as it is.
LEMMA BooksStand ==
  ASSUME UNCHANGED reversals
  PROVE  /\ \A o : LedgerNet(o)' = LedgerNet(o)
         /\ \A x, c, r : Due(x, c, r)' <=> Due(x, c, r)
<1>1. Commissions' = Commissions /\ Receivables' = Receivables /\ \A o : Posted(o)' = Posted(o)
  BY DEF Commissions, Receivables, Posted
<1>2. \A o : LedgerNet(o)' = LedgerNet(o)
  BY <1>1 DEF LedgerNet
<1> QED
  BY <1>2 DEF Due, CumulativeDelta

\* A posting adds its rows to its order, and to no other.
Posts(n, c, r) ==
  /\ LedgerNet(RefundedOrder[n])'.commission = LedgerNet(RefundedOrder[n]).commission + c
  /\ LedgerNet(RefundedOrder[n])'.receivable = LedgerNet(RefundedOrder[n]).receivable + r
  /\ \A o : o # RefundedOrder[n] => LedgerNet(o)' = LedgerNet(o)

LEMMA BooksGrow ==
  ASSUME FundsTypeOK, NEW n \in FundRefunds, ~reversals[n].posted, NEW c \in Int, NEW r \in Int,
         reversals' = [reversals EXCEPT ![n] = [posted |-> TRUE, commission |-> c, receivable |-> r]]
  PROVE  Posts(n, c, r)
<1> DEFINE m == RefundedOrder[n]
<1>1. /\ \A x \in FundRefunds : x # n => reversals'[x] = reversals[x]
      /\ reversals'[n] = [posted |-> TRUE, commission |-> c, receivable |-> r]
  BY DEF FundsTypeOK
<1>2. /\ \A x \in FundRefunds : Commissions[x] = reversals[x].commission /\ Receivables[x] = reversals[x].receivable
      /\ \A x \in FundRefunds : x # n => Commissions'[x] = Commissions[x] /\ Receivables'[x] = Receivables[x]
      /\ Commissions'[n] = c
      /\ Receivables'[n] = r
  BY <1>1 DEF Commissions, Receivables
<1>3. \A x \in FundRefunds : reversals[x] \in LedgerRow
  BY DEF FundsTypeOK
<1>4. \A x \in FundRefunds : Commissions'[x] \in Int /\ Receivables'[x] \in Int
  BY <1>2, <1>3 DEF LedgerRow
<1>5. \A o : o # m => Posted(o)' = Posted(o)
  BY <1>1 DEF Posted, RefundsOf
<1>6. Posted(m)' = Posted(m) \cup {n}
  BY <1>1 DEF Posted, RefundsOf
<1>7. \A o : n \notin Posted(o) /\ Posted(o) \subseteq FundRefunds /\ IsFiniteSet(Posted(o))
  BY FundNames, FS_Subset DEF Posted, RefundsOf
<1>8. ASSUME NEW o
      PROVE  /\ SumFunctionOnSet(Commissions', Posted(o)) = SumFunctionOnSet(Commissions, Posted(o))
             /\ SumFunctionOnSet(Receivables', Posted(o)) = SumFunctionOnSet(Receivables, Posted(o))
  <2>1. \A x \in Posted(o) : Commissions'[x] = Commissions[x]
    BY <1>2, <1>7
  <2>2. \A x \in Posted(o) : Receivables'[x] = Receivables[x]
    BY <1>2, <1>7
  <2> QED
    BY <1>7, <2>1, <2>2, SumSame
<1>9. ASSUME NEW o, o # m PROVE LedgerNet(o)' = LedgerNet(o)
  BY <1>5, <1>8, <1>9 DEF LedgerNet
<1>10. /\ SumFunctionOnSet(Commissions', Posted(m) \cup {n}) = c + SumFunctionOnSet(Commissions', Posted(m))
       /\ SumFunctionOnSet(Receivables', Posted(m) \cup {n}) = r + SumFunctionOnSet(Receivables', Posted(m))
  <2>1. \A x \in Posted(m) : Commissions'[x] \in Int
    BY <1>4, <1>7
  <2>2. \A x \in Posted(m) : Receivables'[x] \in Int
    BY <1>4, <1>7
  <2>3. Commissions'[n] \in Int /\ Receivables'[n] \in Int
    BY <1>4
  <2>4. SumFunctionOnSet(Commissions', Posted(m) \cup {n}) = Commissions'[n] + SumFunctionOnSet(Commissions', Posted(m))
    BY <1>7, <2>1, <2>3, SumAdds
  <2>5. SumFunctionOnSet(Receivables', Posted(m) \cup {n}) = Receivables'[n] + SumFunctionOnSet(Receivables', Posted(m))
    BY <1>7, <2>2, <2>3, SumAdds
  <2> QED
    BY <1>2, <2>4, <2>5
<1> DEFINE part == SplitExact(FundAmount[m]).part
           rest == SplitExact(FundAmount[m]).remainder
           sumC == SumFunctionOnSet(Commissions, Posted(m))
           sumR == SumFunctionOnSet(Receivables, Posted(m))
<1>11. /\ LedgerNet(m)'.commission = part + (c + sumC) /\ LedgerNet(m)'.receivable = rest + (r + sumR)
       /\ LedgerNet(m).commission = part + sumC /\ LedgerNet(m).receivable = rest + sumR
  BY <1>6, <1>8, <1>10 DEF LedgerNet
<1>12. part \in Int /\ rest \in Int /\ sumC \in Int /\ sumR \in Int
  <2>1. \A x \in Posted(m) : Commissions[x] \in Int
    BY <1>2, <1>3, <1>7 DEF LedgerRow
  <2>2. \A x \in Posted(m) : Receivables[x] \in Int
    BY <1>2, <1>3, <1>7 DEF LedgerRow
  <2> QED
    BY <1>7, <2>1, <2>2, SumInt, FundNames, Shares
<1> HIDE DEF part, rest, sumC, sumR
<1>13. part + (c + sumC) = (part + sumC) + c /\ rest + (r + sumR) = (rest + sumR) + r
  BY <1>12
<1> QED
  BY <1>9, <1>11, <1>13 DEF Posts

\* What the types say of the rows.
LEMMA FundTypes ==
  ASSUME FundsTypeOK
  PROVE  /\ fundRelays \in [FundRelays -> FundRelay]
         /\ \A w \in FundRelays : fundRelays[w] \in FundRelay
         /\ \A x \in FundRefunds : reversals[x] \in LedgerRow
         /\ \A o \in FundOrders : postings[o] \in PostingRow
         /\ fundEvents \in [FundEvents -> {"none", "queued", "done"}]
         /\ journal \subseteq FundEvents /\ fundFailed \subseteq FundEvents
         /\ fundFaults \in 0 .. MaxFundFaults
         /\ unsettled \in [LegacyOrders -> Nat]
<1>1. /\ fundRelays \in [FundRelays -> FundRelay]
      /\ reversals \in [FundRefunds -> LedgerRow]
      /\ postings \in [FundOrders -> PostingRow]
      /\ fundEvents \in [FundEvents -> {"none", "queued", "done"}]
      /\ journal \subseteq FundEvents /\ fundFailed \subseteq FundEvents
      /\ fundFaults \in 0 .. MaxFundFaults
      /\ unsettled \in [LegacyOrders -> Nat]
  BY DEF FundsTypeOK
<1> QED
  BY <1>1

\* A relay's record, in the words of its type.
RelayRow(pc, e, c, r, passed) ==
  [pc |-> pc, event |-> e, commission |-> c, receivable |-> r, passed |-> passed]

LEMMA RelayRows ==
  \A pc \in {"idle", "dispatch", "insert", "mark"}, e \in FundEvents \cup {0}, c \in Int, r \in Int,
     passed \in SUBSET FundEvents : RelayRow(pc, e, c, r, passed) \in FundRelay
  BY DEF RelayRow, FundRelay

\* Nothing that was recorded, handled or failed is forgotten.
FundsGoOn ==
  /\ \A e \in FundEvents : fundEvents[e] # "none" => fundEvents'[e] # "none"
  /\ \A e \in FundEvents : fundEvents[e] = "done" => fundEvents'[e] = "done"
  /\ fundFailed \subseteq fundFailed' /\ journal \subseteq journal'
  /\ \A x \in FundRefunds : reversals[x].posted => reversals'[x].posted

LEMMA RecordsStay ==
  ASSUME FundsGoOn
  PROVE  /\ \A e \in FundEvents : Recorded(e) => Recorded(e)'
         /\ \A e \in FundEvents : FollowsEarlier(e) => FollowsEarlier(e)'
<1>1. \A e \in FundEvents : Recorded(e) => Recorded(e)'
  BY DEF FundsGoOn, Recorded
<1>2. ASSUME NEW e \in FundEvents, FollowsEarlier(e) PROVE FollowsEarlier(e)'
  <2>1. SUFFICES ASSUME e \in FundRefunds
                 PROVE  /\ IsNew(e) => RefundedOrder[e] \in fundFailed' \/ fundEvents'[RefundedOrder[e]] = "done"
                        /\ \A y \in RefundsOf(RefundedOrder[e]) : y < e => y \in fundFailed' \/ fundEvents'[y] = "done"
    BY DEF FollowsEarlier
  <2>2. /\ IsNew(e) => RefundedOrder[e] \in FundEvents
        /\ RefundsOf(RefundedOrder[e]) \subseteq FundEvents
    BY <2>1, FundNames DEF IsNew, RefundsOf
  <2>3. /\ IsNew(e) => RefundedOrder[e] \in fundFailed \/ fundEvents[RefundedOrder[e]] = "done"
        /\ \A y \in RefundsOf(RefundedOrder[e]) : y < e => y \in fundFailed \/ fundEvents[y] = "done"
    BY <1>2, <2>1 DEF FollowsEarlier
  <2> QED
    BY <2>2, <2>3 DEF FundsGoOn
<1> QED
  BY <1>1, <1>2

\* What holds of a relay goes on to hold, if what it is about to insert stays due.
LEMMA RelayStays ==
  ASSUME FundsGoOn, NEW q \in FundRelay, RelayStands(q),
         q.pc = "insert" /\ Due(q.event, q.commission, q.receivable) =>
           \/ RefundsOf(RefundedOrder[q.event]) \cap fundFailed # {}
           \/ reversals'[q.event].posted
           \/ Due(q.event, q.commission, q.receivable)'
  PROVE  RelayStands(q)'
<1>1. q.passed \subseteq fundFailed' /\ fundFailed \subseteq fundFailed'
  BY DEF RelayStands, FundsGoOn
<1>2. q.pc # "idle" => q.event \in FundEvents /\ FollowsEarlier(q.event)' /\ fundEvents'[q.event] # "none"
  BY RecordsStay DEF RelayStands, FundsGoOn
<1>3. q.pc = "mark" => Recorded(q.event)'
  BY RecordsStay DEF RelayStands
<1>4. q.pc = "insert" => q.event \in FundRefunds /\ ~IsNew(q.event) /\ Exact(q.event, q.commission, q.receivable)
  BY DEF RelayStands
<1>5. q.pc = "insert" =>
        \/ RefundsOf(RefundedOrder[q.event]) \cap fundFailed' # {}
        \/ reversals'[q.event].posted
        \/ Due(q.event, q.commission, q.receivable)'
  <2>1. q.pc = "insert" =>
          \/ RefundsOf(RefundedOrder[q.event]) \cap fundFailed # {}
          \/ reversals[q.event].posted
          \/ Due(q.event, q.commission, q.receivable)
    BY DEF RelayStands
  <2>2. q.pc = "insert" /\ reversals[q.event].posted => reversals'[q.event].posted
    BY <1>4 DEF FundsGoOn
  <2> QED
    BY <1>1, <2>1, <2>2
<1> HIDE DEF FundsGoOn
<1> QED
  BY <1>1, <1>2, <1>3, <1>4, <1>5 DEF RelayStands, IsNew, Exact, RefundsOf

\* One relay takes a step that posts nothing.
LEMMA OneRelay ==
  ASSUME FundsInv, FundsGoOn, UNCHANGED reversals,
         NEW w \in FundRelays, NEW q \in FundRelay, fundRelays' = [fundRelays EXCEPT ![w] = q], RelayStands(q)'
  PROVE  RelaysStand' /\ fundRelays' \in [FundRelays -> FundRelay]
<1>1. /\ fundRelays \in [FundRelays -> FundRelay]
      /\ \A v \in FundRelays : fundRelays[v] \in FundRelay
  BY FundTypes DEF FundsInv
<1>2. ASSUME NEW v \in FundRelays, NEW c, c = fundRelays'[v] PROVE RelayStands(c)'
  <2>1. CASE v = w
    <3>1. c = q
      BY <1>1, <1>2, <2>1
    <3> QED
      BY <3>1
  <2>2. CASE v # w
    <3>1. c = fundRelays[v] /\ c \in FundRelay /\ RelayStands(c)
      BY <1>1, <1>2, <2>2 DEF FundsInv, RelaysStand
    <3> QED
      BY <3>1, BooksStand, RelayStays
  <2> QED
    BY <2>1, <2>2
<1>3. RelaysStand'
  BY <1>2 DEF RelaysStand
<1> QED
  BY <1>1, <1>3

\* The ledger and what is due of it are as they were.
LEMMA SplitsStand ==
  ASSUME FundsInv, UNCHANGED reversals, fundFailed \subseteq fundFailed'
  PROVE  SplitFollowsRate' /\ RowsExact'
<1>1. RowsExact'
  BY DEF FundsInv, RowsExact, Exact
<1>2. \A o : LedgerNet(o)' = LedgerNet(o)
  BY BooksStand
<1>3. SplitFollowsRate'
  <2>1. SUFFICES ASSUME NEW o \in LegacyOrders, RefundsOf(o) \cap fundFailed' = {}
                 PROVE  LedgerNet(o)'.commission = SplitExact(LedgerNet(o)'.commission + LedgerNet(o)'.receivable).part
                        /\ LedgerNet(o)'.receivable = SplitExact(LedgerNet(o)'.commission + LedgerNet(o)'.receivable).remainder
    BY DEF SplitFollowsRate, RefundsOf, SplitExact, PercentOf
  <2>2. RefundsOf(o) \cap fundFailed = {}
    BY <2>1
  <2>3. /\ LedgerNet(o).commission = SplitExact(LedgerNet(o).commission + LedgerNet(o).receivable).part
        /\ LedgerNet(o).receivable = SplitExact(LedgerNet(o).commission + LedgerNet(o).receivable).remainder
    BY <2>2 DEF FundsInv, SplitFollowsRate
  <2> QED
    BY <1>2, <2>3
<1> QED
  BY <1>1, <1>3

\* One relay goes on; the books and the events are as they were.
LEMMA RelayMoves ==
  ASSUME FundsInv, UNCHANGED <<reversals, journal, postings, unsettled, fundEvents>>,
         fundFailed \subseteq fundFailed', fundFailed' \subseteq FundEvents, fundFaults' \in 0 .. MaxFundFaults,
         NEW w \in FundRelays, NEW q \in FundRelay, fundRelays' = [fundRelays EXCEPT ![w] = q], RelayStands(q)'
  PROVE  FundsInv'
<1>1. FundsGoOn
  BY DEF FundsGoOn
<1>2. RelaysStand' /\ fundRelays' \in [FundRelays -> FundRelay]
  BY <1>1, OneRelay
<1>3. SplitFollowsRate' /\ RowsExact'
  BY SplitsStand
<1>4. FundsTypeOK'
  BY <1>2 DEF FundsInv, FundsTypeOK
<1>5. FundsConserved' /\ UnsettledOnce'
  BY DEF FundsInv, FundsConserved, UnsettledOnce
<1>6. EmittedInOrder'
  BY DEF FundsInv, EmittedInOrder
<1>7. DoneRecorded'
  <2>1. \A e \in FundEvents : Recorded(e) => Recorded(e)'
    BY <1>1, RecordsStay
  <2> QED
    BY <2>1 DEF FundsInv, DoneRecorded
<1> QED
  BY <1>2, <1>3, <1>4, <1>5, <1>6, <1>7 DEF FundsInv

\* Commerce appends an event.
LEMMA EmitSteps ==
  ASSUME FundsInv, NEW e \in FundEvents, fundEvents[e] = "none", fundEvents' = [fundEvents EXCEPT ![e] = "queued"],
         e \in FundRefunds => /\ IsNew(e) => fundEvents[RefundedOrder[e]] # "none"
                              /\ \A y \in RefundsOf(RefundedOrder[e]) : y < e => fundEvents[y] # "none",
         UNCHANGED <<reversals, journal, postings, unsettled, fundRelays, fundFailed, fundFaults>>
  PROVE  FundsInv'
<1>1. fundEvents \in [FundEvents -> {"none", "queued", "done"}]
  BY DEF FundsInv, FundsTypeOK
<1>2. fundEvents'[e] = "queued" /\ \A d \in FundEvents : d # e => fundEvents'[d] = fundEvents[d]
  BY <1>1
<1>3. FundsGoOn
  BY <1>2 DEF FundsGoOn
<1>4. RelaysStand'
  <2>1. ASSUME NEW v \in FundRelays, NEW c, c = fundRelays'[v] PROVE RelayStands(c)'
    <3>1. c \in FundRelay /\ RelayStands(c)
      BY <2>1, FundTypes DEF FundsInv, RelaysStand
    <3> QED
      BY <1>3, <3>1, BooksStand, RelayStays
  <2> QED
    BY <2>1 DEF RelaysStand
<1>5. SplitFollowsRate' /\ RowsExact'
  BY SplitsStand
<1>6. FundsTypeOK'
  <2>1. fundEvents' \in [FundEvents -> {"none", "queued", "done"}]
    BY <1>1
  <2> QED
    BY <2>1 DEF FundsInv, FundsTypeOK
<1>7. FundsConserved' /\ UnsettledOnce'
  BY DEF FundsInv, FundsConserved, UnsettledOnce
<1>8. EmittedInOrder'
  <2>1. SUFFICES ASSUME NEW x \in FundRefunds, fundEvents'[x] # "none"
                 PROVE  /\ IsNew(x) => fundEvents'[RefundedOrder[x]] # "none"
                        /\ \A y \in RefundsOf(RefundedOrder[x]) : y < x => fundEvents'[y] # "none"
    BY DEF EmittedInOrder, IsNew, RefundsOf
  <2>2. /\ IsNew(x) => RefundedOrder[x] \in FundEvents
        /\ RefundsOf(RefundedOrder[x]) \subseteq FundEvents /\ x \in FundEvents
    BY FundNames DEF IsNew, RefundsOf
  <2>3. /\ IsNew(x) => fundEvents[RefundedOrder[x]] # "none"
        /\ \A y \in RefundsOf(RefundedOrder[x]) : y < x => fundEvents[y] # "none"
    <3>1. CASE x = e
      BY <3>1
    <3>2. CASE x # e
      <4>1. fundEvents[x] # "none"
        BY <1>2, <2>1, <2>2, <3>2
      <4> QED
        BY <4>1 DEF FundsInv, EmittedInOrder
    <3> QED
      BY <3>1, <3>2
  <2> QED
    BY <2>2, <2>3, <1>3 DEF FundsGoOn
<1>9. DoneRecorded'
  <2>1. \A d \in FundEvents : Recorded(d) => Recorded(d)'
    BY <1>3, RecordsStay
  <2>2. \A d \in FundEvents : fundEvents'[d] = "done" => fundEvents[d] = "done"
    BY <1>2
  <2> QED
    BY <2>1, <2>2 DEF FundsInv, DoneRecorded
<1> QED
  BY <1>4, <1>5, <1>6, <1>7, <1>8, <1>9 DEF FundsInv

\* A relay takes an event: those of the same order that came first were handled or threw.
LEMMA TakeFundSteps ==
  ASSUME FundsInv, NEW w \in FundRelays, NEW e \in FundEvents, TakeFundEvent(w, e)
  PROVE  FundsInv'
<1> SUFFICES ASSUME NEW old, old = fundRelays[w], NEW q, q = RelayRow("dispatch", e, 0, 0, old.passed)
             PROVE  FundsInv'
  OBVIOUS
<1>1. /\ fundRelays' = [fundRelays EXCEPT ![w] = q]
      /\ UNCHANGED <<reversals, journal, postings, unsettled, fundEvents, fundFailed, fundFaults>>
      /\ fundEvents[e] = "queued" /\ InTurn(w, e)
  BY DEF TakeFundEvent, RelayRow
<1>2. old \in FundRelay /\ RelayStands(old) /\ old.passed \in SUBSET FundEvents
  <2>1. old \in FundRelay /\ RelayStands(old)
    BY FundTypes DEF FundsInv, RelaysStand
  <2> QED
    BY <2>1 DEF FundRelay
<1>3. old.passed \subseteq fundFailed
  BY <1>2 DEF RelayStands
<1>4. q \in FundRelay
  BY <1>2, RelayRows
<1>5. q.pc = "dispatch" /\ q.event = e /\ q.passed = old.passed
  BY DEF RelayRow
<1>6. FollowsEarlier(e)
  <2>1. SUFFICES ASSUME e \in FundRefunds
                 PROVE  /\ IsNew(e) => RefundedOrder[e] \in fundFailed \/ fundEvents[RefundedOrder[e]] = "done"
                        /\ \A y \in RefundsOf(RefundedOrder[e]) : y < e => y \in fundFailed \/ fundEvents[y] = "done"
    BY DEF FollowsEarlier
  <2>2. /\ IsNew(e) => fundEvents[RefundedOrder[e]] # "none"
        /\ \A y \in RefundsOf(RefundedOrder[e]) : y < e => fundEvents[y] # "none"
    BY <1>1, <2>1 DEF FundsInv, EmittedInOrder
  <2>3. \A d \in FundEvents : fundEvents[d] \in {"none", "queued", "done"}
    BY FundTypes DEF FundsInv
  <2>4. \A d \in FundEvents :
          fundEvents[d] = "queued" /\ OrderOfEvent(d) = OrderOfEvent(e) /\ (d \in FundRefunds => d < e)
            => d \in fundFailed
    BY <1>1, <1>3, <2>1 DEF InTurn
  <2>5. IsNew(e) => RefundedOrder[e] \in fundFailed \/ fundEvents[RefundedOrder[e]] = "done"
    BY <2>1, <2>2, <2>3, <2>4, FundNames DEF IsNew
  <2>6. \A y \in RefundsOf(RefundedOrder[e]) : y < e => y \in fundFailed \/ fundEvents[y] = "done"
    BY <2>1, <2>2, <2>3, <2>4, FundNames DEF RefundsOf
  <2> QED
    BY <2>5, <2>6
<1>7. FundsGoOn
  BY <1>1 DEF FundsGoOn
<1>8. FollowsEarlier(e)'
  BY <1>6, <1>7, RecordsStay
<1>9. RelayStands(q)'
  BY <1>1, <1>3, <1>5, <1>8 DEF RelayStands
<1>10. fundFaults \in 0 .. MaxFundFaults /\ fundFailed \subseteq FundEvents
  BY FundTypes DEF FundsInv
<1> QED
  BY <1>1, <1>4, <1>9, <1>10, RelayMoves

\* A relay between two events.
LEMMA BetweenStands ==
  \A p \in SUBSET FundEvents : Between(p) \in FundRelay /\ Between(p).pc = "idle" /\ Between(p).passed = p
<1> SUFFICES ASSUME NEW p \in SUBSET FundEvents
             PROVE  Between(p) \in FundRelay /\ Between(p).pc = "idle" /\ Between(p).passed = p
  OBVIOUS
<1>1. Between(p) = RelayRow("idle", 0, 0, 0, p)
  BY DEF Between, RelayRow
<1>2. RelayRow("idle", 0, 0, 0, p) \in FundRelay
  BY RelayRows
<1> QED
  BY <1>1, <1>2 DEF Between

\* The drain ends, or a handler throws and its event is passed over.
LEMMA PassSteps ==
  ASSUME FundsInv, NEW w \in FundRelays, EndFundDrain(w) \/ FundHandlerThrows(w)
  PROVE  FundsInv'
<1> SUFFICES ASSUME NEW old, old = fundRelays[w],
                    NEW p, p = IF EndFundDrain(w) THEN {} ELSE old.passed \cup {old.event},
                    NEW q, q = Between(p)
             PROVE  FundsInv'
  OBVIOUS
<1>1. old \in FundRelay /\ RelayStands(old) /\ old.passed \in SUBSET FundEvents
  <2>1. old \in FundRelay /\ RelayStands(old)
    BY FundTypes DEF FundsInv, RelaysStand
  <2> QED
    BY <2>1 DEF FundRelay
<1>2. fundFaults \in 0 .. MaxFundFaults /\ fundFailed \subseteq FundEvents /\ MaxFundFaults \in Nat
  BY FundTypes, FundNames DEF FundsInv
<1>3. /\ fundRelays' = [fundRelays EXCEPT ![w] = q]
      /\ UNCHANGED <<reversals, journal, postings, unsettled, fundEvents>>
      /\ p \in SUBSET FundEvents /\ p \subseteq fundFailed'
      /\ fundFailed \subseteq fundFailed' /\ fundFailed' \subseteq FundEvents
      /\ fundFaults' \in 0 .. MaxFundFaults
  <2>1. CASE EndFundDrain(w)
    BY <1>2, <2>1 DEF EndFundDrain, IdleRelay
  <2>2. CASE ~EndFundDrain(w)
    <3>1. FundHandlerThrows(w) /\ p = old.passed \cup {old.event}
      BY <2>2
    <3>2. old.pc \in {"dispatch", "insert"}
      BY <3>1 DEF FundHandlerThrows
    <3>3. old.event \in FundEvents /\ old.passed \subseteq fundFailed
      BY <1>1, <3>2 DEF RelayStands
    <3>4. fundFailed' = fundFailed \cup {old.event} /\ fundFaults' = fundFaults + 1 /\ fundFaults < MaxFundFaults
          /\ UNCHANGED <<reversals, journal, postings, unsettled, fundEvents>>
      BY <3>1 DEF FundHandlerThrows
    <3>5. fundRelays' = [fundRelays EXCEPT ![w] = q]
      BY <3>1 DEF FundHandlerThrows, Passed
    <3> QED
      BY <1>1, <1>2, <3>1, <3>3, <3>4, <3>5
  <2> QED
    BY <2>1, <2>2
<1>4. q \in FundRelay /\ q.pc = "idle" /\ q.passed = p
  BY <1>3, BetweenStands
<1>5. RelayStands(q)'
  BY <1>3, <1>4 DEF RelayStands
<1> QED
  BY <1>3, <1>4, <1>5, RelayMoves

\* The ledger is read: what is due of it takes away exactly what is refunded.
LEMMA ReadLedgerSteps ==
  ASSUME FundsInv, NEW w \in FundRelays, ReadLedger(w)
  PROVE  FundsInv'
<1> SUFFICES ASSUME NEW old, old = fundRelays[w], NEW x, x = old.event,
                    NEW delta, delta = CumulativeDelta(RefundedOrder[x], RefundSize[x]),
                    NEW q, q = RelayRow("insert", x, delta.commission, delta.receivable, old.passed)
             PROVE  FundsInv'
  OBVIOUS
<1>1. old \in FundRelay /\ RelayStands(old) /\ old.passed \in SUBSET FundEvents
  <2>1. old \in FundRelay /\ RelayStands(old)
    BY FundTypes DEF FundsInv, RelaysStand
  <2> QED
    BY <2>1 DEF FundRelay
<1>2. /\ fundRelays' = [fundRelays EXCEPT ![w] = q] /\ old.pc = "dispatch"
      /\ x \in FundRefunds /\ RefundedOrder[x] \in LegacyOrders
      /\ UNCHANGED <<reversals, journal, postings, unsettled, fundEvents, fundFailed, fundFaults>>
  BY DEF ReadLedger, RelayRow
<1>3. delta.commission \in Int /\ delta.receivable \in Int /\ Exact(x, delta.commission, delta.receivable)
  <2> SUFFICES ASSUME NEW c, c = LedgerNet(RefundedOrder[x]).commission,
                      NEW r, r = LedgerNet(RefundedOrder[x]).receivable,
                      NEW t, t = c + r - RefundSize[x]
               PROVE  delta.commission \in Int /\ delta.receivable \in Int
                      /\ Exact(x, delta.commission, delta.receivable)
    OBVIOUS
  <2>1. c \in Int /\ r \in Int
    BY <1>2, LedgerAddsUp DEF FundsInv
  <2>2. RefundSize[x] \in Nat
    BY <1>2, FundNames
  <2>3. t \in Int
    BY <2>1, <2>2
  <2>4. SplitExact(t).part \in Int /\ SplitExact(t).remainder \in Int
        /\ SplitExact(t).part + SplitExact(t).remainder = t
    BY <2>3, Shares
  <2>5. delta.commission = SplitExact(t).part - c /\ delta.receivable = SplitExact(t).remainder - r
    BY DEF CumulativeDelta
  <2>6. \A P, R, a, b, z \in Int : P + R = a + b - z => (P - a) + (R - b) = -z
    OBVIOUS
  <2>7. (SplitExact(t).part - c) + (SplitExact(t).remainder - r) = -RefundSize[x]
    BY <2>1, <2>2, <2>4, <2>6
  <2>8. delta.commission \in Int /\ delta.receivable \in Int
    <3>1. SplitExact(t).part - c \in Int /\ SplitExact(t).remainder - r \in Int
      BY <2>1, <2>4
    <3> QED
      BY <2>5, <3>1, Zenon
  <2> QED
    BY <2>5, <2>7, <2>8 DEF Exact
<1>4. x \in FundEvents /\ q \in FundRelay
  BY <1>1, <1>2, <1>3, FundNames, RelayRows
<1>5. q.pc = "insert" /\ q.event = x /\ q.commission = delta.commission /\ q.receivable = delta.receivable
      /\ q.passed = old.passed
  BY DEF RelayRow
<1>6. Due(x, delta.commission, delta.receivable)
  BY DEF Due
<1>7. FollowsEarlier(x) /\ fundEvents[x] # "none" /\ old.passed \subseteq fundFailed
  BY <1>1, <1>2 DEF RelayStands
<1>8. FundsGoOn
  BY <1>2 DEF FundsGoOn
<1>9. FollowsEarlier(x)' /\ Due(x, delta.commission, delta.receivable)'
  BY <1>2, <1>4, <1>6, <1>7, <1>8, RecordsStay, BooksStand
<1>10. RelayStands(q)'
  BY <1>2, <1>3, <1>4, <1>5, <1>7, <1>9 DEF RelayStands, IsNew, Exact
<1>11. fundFaults \in 0 .. MaxFundFaults /\ fundFailed \subseteq FundEvents
  BY FundTypes DEF FundsInv
<1> QED
  BY <1>2, <1>4, <1>10, <1>11, RelayMoves

\* An event is marked when what it asks for is recorded.
LEMMA MarkFundSteps ==
  ASSUME FundsInv, NEW w \in FundRelays, MarkFundEvent(w)
  PROVE  FundsInv'
<1> SUFFICES ASSUME NEW old, old = fundRelays[w], NEW e, e = old.event, NEW q, q = Between(old.passed)
             PROVE  FundsInv'
  OBVIOUS
<1>1. old \in FundRelay /\ RelayStands(old) /\ old.passed \in SUBSET FundEvents
  <2>1. old \in FundRelay /\ RelayStands(old)
    BY FundTypes DEF FundsInv, RelaysStand
  <2> QED
    BY <2>1 DEF FundRelay
<1>2. /\ fundRelays' = [fundRelays EXCEPT ![w] = q] /\ old.pc = "mark"
      /\ fundEvents' = [fundEvents EXCEPT ![e] = "done"]
      /\ UNCHANGED <<reversals, journal, postings, unsettled, fundFailed, fundFaults>>
  BY DEF MarkFundEvent
<1>3. e \in FundEvents /\ Recorded(e) /\ old.passed \subseteq fundFailed
  BY <1>1, <1>2 DEF RelayStands
<1>4. fundEvents \in [FundEvents -> {"none", "queued", "done"}]
  BY DEF FundsInv, FundsTypeOK
<1>5. fundEvents'[e] = "done" /\ \A d \in FundEvents : d # e => fundEvents'[d] = fundEvents[d]
  BY <1>2, <1>3, <1>4
<1>6. FundsGoOn
  BY <1>2, <1>5 DEF FundsGoOn
<1>7. q \in FundRelay /\ q.pc = "idle" /\ q.passed = old.passed
  BY <1>1, BetweenStands
<1>8. RelayStands(q)'
  BY <1>2, <1>3, <1>7 DEF RelayStands
<1>9. RelaysStand' /\ fundRelays' \in [FundRelays -> FundRelay]
  BY <1>2, <1>6, <1>7, <1>8, OneRelay
<1>10. SplitFollowsRate' /\ RowsExact'
  BY <1>2, SplitsStand
<1>11. FundsTypeOK'
  <2>1. fundEvents' \in [FundEvents -> {"none", "queued", "done"}]
    BY <1>2, <1>4
  <2> QED
    BY <1>2, <1>9, <2>1 DEF FundsInv, FundsTypeOK
<1>12. FundsConserved' /\ UnsettledOnce'
  BY <1>2 DEF FundsInv, FundsConserved, UnsettledOnce
<1>13. EmittedInOrder'
  <2>1. SUFFICES ASSUME NEW x \in FundRefunds, fundEvents'[x] # "none"
                 PROVE  /\ IsNew(x) => fundEvents'[RefundedOrder[x]] # "none"
                        /\ \A y \in RefundsOf(RefundedOrder[x]) : y < x => fundEvents'[y] # "none"
    BY DEF EmittedInOrder, IsNew, RefundsOf
  <2>2. /\ IsNew(x) => RefundedOrder[x] \in FundEvents
        /\ RefundsOf(RefundedOrder[x]) \subseteq FundEvents /\ x \in FundEvents
    BY FundNames DEF IsNew, RefundsOf
  <2>3. fundEvents[x] # "none"
    <3>1. CASE x = e
      BY <1>1, <1>2, <3>1 DEF RelayStands
    <3>2. CASE x # e
      BY <1>5, <2>1, <2>2, <3>2
    <3> QED
      BY <3>1, <3>2
  <2>4. /\ IsNew(x) => fundEvents[RefundedOrder[x]] # "none"
        /\ \A y \in RefundsOf(RefundedOrder[x]) : y < x => fundEvents[y] # "none"
    BY <2>3 DEF FundsInv, EmittedInOrder
  <2> QED
    BY <1>6, <2>2, <2>4 DEF FundsGoOn
<1>14. DoneRecorded'
  <2>1. \A d \in FundEvents : Recorded(d) => Recorded(d)'
    BY <1>6, RecordsStay
  <2>2. \A d \in FundEvents : fundEvents'[d] = "done" => Recorded(d)
    BY <1>3, <1>5 DEF FundsInv, DoneRecorded
  <2> QED
    BY <2>1, <2>2 DEF DoneRecorded
<1> QED
  BY <1>9, <1>10, <1>11, <1>12, <1>13, <1>14 DEF FundsInv

\* A settlement is taken back.
LEMMA ReverseSettlementSteps ==
  ASSUME FundsInv, NEW o \in LegacyOrders, ReverseSettlement(o)
  PROVE  FundsInv'
<1>1. /\ unsettled' = [unsettled EXCEPT ![o] = @ + 1] /\ unsettled[o] = 0
      /\ UNCHANGED <<reversals, journal, postings, fundEvents, fundRelays, fundFailed, fundFaults>>
  BY DEF ReverseSettlement, Reversible
<1>2. unsettled \in [LegacyOrders -> Nat]
  BY FundTypes DEF FundsInv
<1>3. FundsGoOn
  BY <1>1 DEF FundsGoOn
<1>4. RelaysStand'
  <2>1. ASSUME NEW v \in FundRelays, NEW c, c = fundRelays'[v] PROVE RelayStands(c)'
    <3>1. c \in FundRelay /\ RelayStands(c)
      BY <1>1, <2>1, FundTypes DEF FundsInv, RelaysStand
    <3> QED
      BY <1>1, <1>3, <3>1, BooksStand, RelayStays
  <2> QED
    BY <2>1 DEF RelaysStand
<1>5. SplitFollowsRate' /\ RowsExact'
  BY <1>1, SplitsStand
<1>6. unsettled' \in [LegacyOrders -> Nat] /\ \A p \in LegacyOrders : unsettled'[p] <= 1
  BY <1>1, <1>2 DEF FundsInv, UnsettledOnce
<1>7. FundsTypeOK' /\ UnsettledOnce'
  BY <1>1, <1>6 DEF FundsInv, FundsTypeOK, UnsettledOnce
<1>8. FundsConserved' /\ EmittedInOrder'
  BY <1>1 DEF FundsInv, FundsConserved, EmittedInOrder
<1>9. DoneRecorded'
  BY <1>1, <1>3, RecordsStay DEF FundsInv, DoneRecorded
<1> QED
  BY <1>4, <1>5, <1>7, <1>8, <1>9 DEF FundsInv

\* A handler has answered; what it leaves to do is to mark the event.
LEMMA HandledRow ==
  ASSUME FundsInv, NEW w \in FundRelays, Handled(w), fundRelays[w].pc # "idle", FundsGoOn,
         NEW q, q = [fundRelays[w] EXCEPT !.pc = "mark"],
         NEW e, e = fundRelays[w].event, Recorded(e)'
  PROVE  q \in FundRelay /\ fundRelays' = [fundRelays EXCEPT ![w] = q] /\ RelayStands(q)'
<1> SUFFICES ASSUME NEW old, old = fundRelays[w]
             PROVE  q \in FundRelay /\ fundRelays' = [fundRelays EXCEPT ![w] = q] /\ RelayStands(q)'
  OBVIOUS
<1>1. old \in FundRelay /\ RelayStands(old) /\ old.pc # "idle"
  BY FundTypes DEF FundsInv, RelaysStand
<1>2. fundRelays' = [fundRelays EXCEPT ![w] = q]
  BY DEF Handled
<1>3. q \in FundRelay /\ q.pc = "mark" /\ q.event = e /\ q.passed = old.passed
  BY <1>1 DEF FundRelay
<1>4. e \in FundEvents /\ FollowsEarlier(e) /\ fundEvents[e] # "none" /\ old.passed \subseteq fundFailed
  BY <1>1 DEF RelayStands
<1>5. FollowsEarlier(e)' /\ fundEvents'[e] # "none" /\ old.passed \subseteq fundFailed'
  <2>1. FollowsEarlier(e)'
    BY <1>4, RecordsStay
  <2> QED
    BY <1>4, <2>1 DEF FundsGoOn
<1>6. RelayStands(q)'
  BY <1>3, <1>4, <1>5 DEF RelayStands
<1> QED
  BY <1>2, <1>3, <1>6

\* An entry of the journal.
LEMMA JournalSteps ==
  ASSUME FundsInv, UNCHANGED <<reversals, unsettled, fundEvents, fundFailed, fundFaults>>,
         NEW w \in FundRelays, Handled(w), fundRelays[w].pc = "dispatch",
         journal \subseteq journal', journal' \subseteq FundEvents,
         postings' \in [FundOrders -> PostingRow], FundsConserved',
         NEW e, e = fundRelays[w].event, Recorded(e)'
  PROVE  FundsInv'
<1> SUFFICES ASSUME NEW q, q = [fundRelays[w] EXCEPT !.pc = "mark"] PROVE FundsInv'
  OBVIOUS
<1>1. FundsGoOn
  BY DEF FundsGoOn
<1>2. q \in FundRelay /\ fundRelays' = [fundRelays EXCEPT ![w] = q] /\ RelayStands(q)'
  BY <1>1, HandledRow
<1>3. RelaysStand' /\ fundRelays' \in [FundRelays -> FundRelay]
  BY <1>1, <1>2, OneRelay
<1>4. SplitFollowsRate' /\ RowsExact'
  BY SplitsStand
<1>5. FundsTypeOK'
  BY <1>3 DEF FundsInv, FundsTypeOK
<1>6. UnsettledOnce' /\ EmittedInOrder'
  BY DEF FundsInv, UnsettledOnce, EmittedInOrder
<1>7. DoneRecorded'
  <2>1. \A d \in FundEvents : Recorded(d) => Recorded(d)'
    BY <1>1, RecordsStay
  <2> QED
    BY <2>1 DEF FundsInv, DoneRecorded
<1> QED
  BY <1>3, <1>4, <1>5, <1>6, <1>7 DEF FundsInv

\* A collection is recorded once.
LEMMA CollectionSteps ==
  ASSUME FundsInv, NEW w \in FundRelays, RecordCollection(w)
  PROVE  FundsInv'
<1> SUFFICES ASSUME NEW o, o = fundRelays[w].event PROVE FundsInv'
  OBVIOUS
<1>1. /\ fundRelays[w].pc = "dispatch" /\ o \in FundOrders /\ Handled(w)
      /\ UNCHANGED <<reversals, unsettled, fundEvents, fundFailed, fundFaults>>
  BY DEF RecordCollection
<1>2. o \in FundEvents /\ o \notin FundRefunds /\ o \notin LegacyOrders /\ FundAmount[o] \in Nat
  <2>1. RelayStands(fundRelays[w])
    BY DEF FundsInv, RelaysStand
  <2>2. o \in FundEvents
    BY <1>1, <2>1 DEF RelayStands
  <2> QED
    BY <1>1, <2>2, FundNames
<1>3. /\ postings \in [FundOrders -> PostingRow] /\ journal \subseteq FundEvents
      /\ postings[o] \in PostingRow
  BY <1>1 DEF FundsInv, FundsTypeOK
<1>4. CASE o \in journal
  <2>1. UNCHANGED <<journal, postings>>
    BY <1>4 DEF RecordCollection
  <2>2. FundsConserved'
    BY <2>1 DEF FundsInv, FundsConserved
  <2>3. Recorded(o)'
    BY <1>2, <1>4, <2>1 DEF Recorded
  <2> QED
    BY <1>1, <1>3, <2>1, <2>2, <2>3, JournalSteps
<1>5. CASE o \notin journal
  <2> SUFFICES ASSUME NEW old, old = postings[o],
                      NEW row, row = [pending |-> old.pending + FundAmount[o],
                                      collected |-> old.collected + FundAmount[o], refunded |-> old.refunded]
               PROVE  FundsInv'
    OBVIOUS
  <2>1. journal' = journal \cup {o} /\ postings' = [postings EXCEPT ![o] = row]
    BY <1>5 DEF RecordCollection
  <2>2. old.pending \in Nat /\ old.collected \in Nat /\ old.refunded \in Nat
    BY <1>3 DEF PostingRow
  <2>3. row \in PostingRow
    BY <1>2, <2>2 DEF PostingRow
  <2>4. postings' \in [FundOrders -> PostingRow] /\ postings'[o] = row
        /\ \A p \in FundOrders : p # o => postings'[p] = postings[p]
    BY <1>1, <1>3, <2>1, <2>3
  <2>5. \A p : RefundsOf(p) \cap journal' = RefundsOf(p) \cap journal
    BY <1>2, <2>1 DEF RefundsOf
  <2>6. old.collected = 0 /\ old.refunded = SumFunctionOnSet(RefundSize, RefundsOf(o) \cap journal)
        /\ old.pending = old.collected - old.refunded
    BY <1>1, <1>2, <1>5 DEF FundsInv, FundsConserved
  <2>7. row.collected = FundAmount[o] /\ row.refunded = old.refunded
        /\ row.pending = row.collected - row.refunded
    BY <1>2, <2>2, <2>6
  <2>8. FundsConserved'
    <3>1. ASSUME NEW p \in FundOrders \ LegacyOrders
          PROVE  /\ postings'[p].collected = IF p \in journal' THEN FundAmount[p] ELSE 0
                 /\ postings'[p].refunded = SumFunctionOnSet(RefundSize, RefundsOf(p) \cap journal')
                 /\ postings'[p].pending = postings'[p].collected - postings'[p].refunded
      <4>1. CASE p = o
        BY <2>1, <2>4, <2>5, <2>6, <2>7, <4>1
      <4>2. CASE p # o
        BY <2>1, <2>4, <2>5, <3>1, <4>2 DEF FundsInv, FundsConserved
      <4> QED
        BY <4>1, <4>2
    <3> QED
      BY <3>1 DEF FundsConserved, RefundsOf
  <2>9. Recorded(o)'
    BY <1>2, <2>1 DEF Recorded
  <2> QED
    BY <1>1, <1>2, <1>3, <2>1, <2>4, <2>8, <2>9, JournalSteps
<1> QED
  BY <1>4, <1>5

\* A refund is recorded once, and not before its collection unless that one threw.
LEMMA FundRefundSteps ==
  ASSUME FundsInv, NEW w \in FundRelays, RecordFundRefund(w)
  PROVE  FundsInv'
<1> SUFFICES ASSUME NEW x, x = fundRelays[w].event, NEW o, o = RefundedOrder[x] PROVE FundsInv'
  OBVIOUS
<1>1. /\ fundRelays[w].pc = "dispatch" /\ x \in FundRefunds /\ o \notin LegacyOrders /\ Handled(w)
      /\ UNCHANGED <<reversals, unsettled, fundEvents, fundFailed, fundFaults>>
  BY DEF RecordFundRefund
<1>2. x \in FundEvents /\ o \in FundOrders /\ o \in FundEvents /\ o \notin FundRefunds /\ RefundSize[x] \in Nat
      /\ FundAmount[o] > 0 /\ FundAmount[o] \in Nat /\ IsNew(x)
  BY <1>1, FundNames DEF IsNew
<1>3. /\ postings \in [FundOrders -> PostingRow] /\ journal \subseteq FundEvents
      /\ postings[o] \in PostingRow
  BY <1>2 DEF FundsInv, FundsTypeOK
<1>4. CASE ~JournalAdmits(x)
  <2>1. UNCHANGED <<journal, postings>>
    BY <1>4 DEF RecordFundRefund
  <2>2. FundsConserved'
    BY <2>1 DEF FundsInv, FundsConserved
  <2>3. o \notin fundFailed => o \in journal
    <3>1. RelayStands(fundRelays[w])
      BY DEF FundsInv, RelaysStand
    <3>2. FollowsEarlier(x)
      BY <1>1, <3>1 DEF RelayStands
    <3>3. o \in fundFailed \/ fundEvents[o] = "done"
      BY <1>1, <1>2, <3>2 DEF FollowsEarlier
    <3> QED
      BY <1>2, <3>3 DEF FundsInv, DoneRecorded, Recorded
  <2>4. o \in journal => postings[o].collected > 0
    BY <1>1, <1>2 DEF FundsInv, FundsConserved
  <2>5. o \notin fundFailed => x \in journal
    BY <1>4, <2>3, <2>4 DEF JournalAdmits
  <2>6. Recorded(x)'
    BY <1>1, <1>2, <2>1, <2>5 DEF Recorded, IsNew
  <2> QED
    BY <1>1, <1>3, <2>1, <2>2, <2>6, JournalSteps
<1>5. CASE JournalAdmits(x)
  <2> SUFFICES ASSUME NEW old, old = postings[o],
                      NEW row, row = [pending |-> old.pending - RefundSize[x],
                                      collected |-> old.collected, refunded |-> old.refunded + RefundSize[x]]
               PROVE  FundsInv'
    OBVIOUS
  <2>1. journal' = journal \cup {x} /\ postings' = [postings EXCEPT ![o] = row] /\ x \notin journal
        /\ old.pending >= RefundSize[x]
    BY <1>5 DEF RecordFundRefund, JournalAdmits
  <2>2. old.pending \in Nat /\ old.collected \in Nat /\ old.refunded \in Nat
    BY <1>3 DEF PostingRow
  <2>3. row \in PostingRow
    BY <1>2, <2>1, <2>2 DEF PostingRow
  <2>4. postings' \in [FundOrders -> PostingRow] /\ postings'[o] = row
        /\ \A p \in FundOrders : p # o => postings'[p] = postings[p]
    BY <1>2, <1>3, <2>1, <2>3
  <2>5. /\ \A p : p # o => RefundsOf(p) \cap journal' = RefundsOf(p) \cap journal
        /\ RefundsOf(o) \cap journal' = (RefundsOf(o) \cap journal) \cup {x}
        /\ x \notin RefundsOf(o) \cap journal
        /\ \A p \in FundOrders : p \in journal' <=> p \in journal
    BY <1>1, <1>2, <2>1, FundNames DEF RefundsOf
  <2>6. SumFunctionOnSet(RefundSize, RefundsOf(o) \cap journal') =
          RefundSize[x] + SumFunctionOnSet(RefundSize, RefundsOf(o) \cap journal)
    <3>1. IsFiniteSet(RefundsOf(o) \cap journal) /\ RefundsOf(o) \cap journal \subseteq FundRefunds
      BY FundNames, FS_Subset DEF RefundsOf
    <3>2. \A y \in RefundsOf(o) \cap journal : RefundSize[y] \in Int
      <4>1. \A y \in FundRefunds : RefundSize[y] \in Int
        BY FundsAssumption
      <4> QED
        BY <3>1, <4>1
    <3>3. RefundSize[x] \in Int
      BY <1>2
    <3> QED
      BY <2>5, <3>1, <3>2, <3>3, SumAdds
  <2>7. /\ old.collected = IF o \in journal THEN FundAmount[o] ELSE 0
        /\ old.refunded = SumFunctionOnSet(RefundSize, RefundsOf(o) \cap journal)
        /\ old.pending = old.collected - old.refunded
    BY <1>1, <1>2 DEF FundsInv, FundsConserved
  <2>8. /\ row.collected = old.collected
        /\ row.refunded = RefundSize[x] + old.refunded
        /\ row.pending = row.collected - row.refunded
    BY <1>2, <2>2, <2>7
  <2>9. FundsConserved'
    <3>1. ASSUME NEW p \in FundOrders \ LegacyOrders
          PROVE  /\ postings'[p].collected = IF p \in journal' THEN FundAmount[p] ELSE 0
                 /\ postings'[p].refunded = SumFunctionOnSet(RefundSize, RefundsOf(p) \cap journal')
                 /\ postings'[p].pending = postings'[p].collected - postings'[p].refunded
      <4>1. CASE p = o
        BY <1>2, <2>4, <2>5, <2>6, <2>7, <2>8, <4>1
      <4>2. CASE p # o
        BY <2>4, <2>5, <3>1, <4>2 DEF FundsInv, FundsConserved
      <4> QED
        BY <4>1, <4>2
    <3> QED
      BY <3>1 DEF FundsConserved, RefundsOf
  <2>10. Recorded(x)'
    BY <1>1, <2>1 DEF Recorded, IsNew
  <2>11. journal \subseteq journal' /\ journal' \subseteq FundEvents
    BY <1>2, <1>3, <2>1
  <2> QED
    BY <1>1, <2>4, <2>9, <2>10, <2>11, JournalSteps
<1> QED
  BY <1>4, <1>5

\* Two relays never divide the same remainder unless a dispatch threw: of two refunds of
\* an order, the earlier was posted before the later was read.
LEMMA OneReversalAtATime ==
  ASSUME FundsInv, NEW p \in FundRelay, RelayStands(p), p.pc = "insert",
         NEW q \in FundRelay, RelayStands(q), q.pc = "insert",
         RefundedOrder[p.event] = RefundedOrder[q.event],
         RefundsOf(RefundedOrder[p.event]) \cap fundFailed = {}, p.event # q.event
  PROVE  reversals[p.event].posted \/ reversals[q.event].posted
<1>1. /\ p.event \in FundRefunds /\ ~IsNew(p.event) /\ FollowsEarlier(p.event)
      /\ q.event \in FundRefunds /\ ~IsNew(q.event) /\ FollowsEarlier(q.event)
  BY DEF RelayStands
<1>2. \A x, y \in FundRefunds : x < y \/ y < x \/ x = y
  BY FundNames
<1>3. \A x \in FundRefunds : ~IsNew(x) /\ fundEvents[x] = "done" => reversals[x].posted
  <2>1. FundRefunds \subseteq FundEvents
    BY DEF FundEvents
  <2> QED
    BY <2>1 DEF FundsInv, DoneRecorded, Recorded
<1>4. \A x \in FundRefunds : RefundedOrder[x] = RefundedOrder[p.event] => x \in RefundsOf(RefundedOrder[p.event])
  BY DEF RefundsOf
<1>5. CASE p.event < q.event
  <2>1. p.event \in fundFailed \/ fundEvents[p.event] = "done"
    BY <1>1, <1>4, <1>5 DEF FollowsEarlier
  <2> QED
    BY <1>1, <1>3, <1>4, <2>1
<1>6. CASE q.event < p.event
  <2>1. q.event \in fundFailed \/ fundEvents[q.event] = "done"
    BY <1>1, <1>4, <1>6 DEF FollowsEarlier
  <2> QED
    BY <1>1, <1>3, <1>4, <2>1
<1> QED
  BY <1>1, <1>2, <1>5, <1>6

\* A reversal is posted, once.
LEMMA InsertSteps ==
  ASSUME FundsInv, NEW w \in FundRelays, InsertReversal(w)
  PROVE  FundsInv'
<1> SUFFICES ASSUME NEW old, old = fundRelays[w], NEW n, n = old.event, NEW m, m = RefundedOrder[n],
                    NEW c, c = old.commission, NEW r, r = old.receivable,
                    NEW q, q = [fundRelays[w] EXCEPT !.pc = "mark"]
             PROVE  FundsInv'
  OBVIOUS
<1>1. old \in FundRelay /\ RelayStands(old) /\ c \in Int /\ r \in Int
  <2>1. old \in FundRelay /\ RelayStands(old)
    BY FundTypes DEF FundsInv, RelaysStand
  <2> QED
    BY <2>1 DEF FundRelay
<1>2. /\ old.pc = "insert" /\ Handled(w)
      /\ reversals' = [reversals EXCEPT ![n] = ReversalInserted(n, c, r)]
      /\ UNCHANGED <<journal, postings, unsettled, fundEvents, fundFailed, fundFaults>>
  BY DEF InsertReversal
<1>3. n \in FundRefunds /\ n \in FundEvents /\ ~IsNew(n) /\ m \in LegacyOrders /\ Exact(n, c, r)
      /\ RefundSize[n] \in Nat
  <2>1. n \in FundRefunds /\ ~IsNew(n) /\ Exact(n, c, r)
    BY <1>1, <1>2 DEF RelayStands
  <2> QED
    BY <2>1, FundNames DEF IsNew
<1>4. reversals \in [FundRefunds -> LedgerRow] /\ fundFaults \in 0 .. MaxFundFaults /\ fundFailed \subseteq FundEvents
  BY DEF FundsInv, FundsTypeOK
<1>5. CASE reversals[n].posted
  <2>1. UNCHANGED reversals
    BY <1>2, <1>4, <1>5 DEF ReversalInserted
  <2>2. FundsGoOn
    BY <1>2, <2>1 DEF FundsGoOn
  <2>3. Recorded(n)'
    BY <1>3, <1>5, <2>1 DEF Recorded, IsNew
  <2>4. q \in FundRelay /\ fundRelays' = [fundRelays EXCEPT ![w] = q] /\ RelayStands(q)'
    BY <1>2, <2>2, <2>3, HandledRow
  <2> QED
    BY <1>2, <1>4, <2>1, <2>4, RelayMoves
<1>6. CASE ~reversals[n].posted
  <2>1. /\ reversals' = [reversals EXCEPT ![n] = [posted |-> TRUE, commission |-> c, receivable |-> r]]
    BY <1>2, <1>6 DEF ReversalInserted
  <2>2. /\ \A x \in FundRefunds : x # n => reversals'[x] = reversals[x]
        /\ reversals'[n] = [posted |-> TRUE, commission |-> c, receivable |-> r]
        /\ reversals' \in [FundRefunds -> LedgerRow]
    <3>1. [posted |-> TRUE, commission |-> c, receivable |-> r] \in LedgerRow
      BY <1>1 DEF LedgerRow
    <3> QED
      BY <1>3, <1>4, <2>1, <3>1
  <2>3. Posts(n, c, r)
    BY <1>1, <1>3, <1>6, <2>1, BooksGrow DEF FundsInv
  <2>4. /\ LedgerNet(m)'.commission = LedgerNet(m).commission + c
        /\ LedgerNet(m)'.receivable = LedgerNet(m).receivable + r
        /\ \A o : o # m => LedgerNet(o)' = LedgerNet(o)
    BY <2>3 DEF Posts
  <2>5. FundsGoOn
    BY <1>2, <2>2 DEF FundsGoOn
  <2>6. Recorded(n)'
    BY <1>3, <2>2 DEF Recorded, IsNew
  <2>7. q \in FundRelay /\ fundRelays' = [fundRelays EXCEPT ![w] = q] /\ RelayStands(q)'
    BY <1>2, <2>5, <2>6, HandledRow
  <2>8. /\ fundRelays \in [FundRelays -> FundRelay]
        /\ \A v \in FundRelays : fundRelays[v] \in FundRelay
    BY FundTypes DEF FundsInv
  <2>9. RelaysStand'
    <3>1. ASSUME NEW v \in FundRelays, NEW d, d = fundRelays'[v] PROVE RelayStands(d)'
      <4>1. CASE v = w
        <5>1. d = q
          BY <2>7, <2>8, <3>1, <4>1
        <5> QED
          BY <2>7, <5>1
      <4>2. CASE v # w
        <5>1. d = fundRelays[v] /\ d \in FundRelay /\ RelayStands(d)
          BY <2>7, <2>8, <3>1, <4>2 DEF FundsInv, RelaysStand
        <5>2. d.pc = "insert" /\ Due(d.event, d.commission, d.receivable) =>
                \/ RefundsOf(RefundedOrder[d.event]) \cap fundFailed # {}
                \/ reversals'[d.event].posted
                \/ Due(d.event, d.commission, d.receivable)'
          <6>1. SUFFICES ASSUME d.pc = "insert", Due(d.event, d.commission, d.receivable),
                                RefundsOf(RefundedOrder[d.event]) \cap fundFailed = {}
                         PROVE  reversals'[d.event].posted \/ Due(d.event, d.commission, d.receivable)'
            OBVIOUS
          <6>2. d.event \in FundRefunds
            BY <5>1, <6>1 DEF RelayStands
          <6>3. CASE RefundedOrder[d.event] # m
            <7>1. LedgerNet(RefundedOrder[d.event])' = LedgerNet(RefundedOrder[d.event])
              BY <2>4, <6>3
            <7> QED
              BY <6>1, <7>1 DEF Due, CumulativeDelta
          <6>4. CASE RefundedOrder[d.event] = m
            <7>1. d.event = n \/ reversals[d.event].posted
              BY <1>1, <1>2, <1>6, <5>1, <6>1, <6>4, OneReversalAtATime
            <7>2. reversals'[d.event].posted
              BY <2>2, <6>2, <7>1
            <7> QED
              BY <7>2
          <6> QED
            BY <6>3, <6>4
        <5> QED
          BY <2>5, <5>1, <5>2, RelayStays
      <4> QED
        BY <4>1, <4>2
    <3> QED
      BY <3>1 DEF RelaysStand
  <2>10. RowsExact'
    BY <1>3, <2>2 DEF FundsInv, RowsExact, Exact
  <2>11. RefundsOf(m) \cap fundFailed = {} => Due(n, c, r)
    BY <1>1, <1>2, <1>6 DEF RelayStands
  <2>12. SplitFollowsRate'
    <3>1. SUFFICES ASSUME NEW o \in LegacyOrders, RefundsOf(o) \cap fundFailed = {}
                   PROVE  LedgerNet(o)'.commission = SplitExact(LedgerNet(o)'.commission + LedgerNet(o)'.receivable).part
                          /\ LedgerNet(o)'.receivable = SplitExact(LedgerNet(o)'.commission + LedgerNet(o)'.receivable).remainder
      BY <1>2 DEF SplitFollowsRate, RefundsOf, SplitExact, PercentOf
    <3>2. CASE o # m
      <4>1. /\ LedgerNet(o).commission = SplitExact(LedgerNet(o).commission + LedgerNet(o).receivable).part
            /\ LedgerNet(o).receivable = SplitExact(LedgerNet(o).commission + LedgerNet(o).receivable).remainder
        BY <3>1 DEF FundsInv, SplitFollowsRate
      <4>2. LedgerNet(o)' = LedgerNet(o)
        BY <2>4, <3>2
      <4> QED
        BY <4>1, <4>2
    <3>3. CASE o = m
      <4> SUFFICES ASSUME NEW a, a = LedgerNet(m).commission, NEW b, b = LedgerNet(m).receivable,
                          NEW t, t = a + b - RefundSize[n],
                          NEW a1, a1 = LedgerNet(m)'.commission, NEW b1, b1 = LedgerNet(m)'.receivable
                   PROVE  a1 = SplitExact(a1 + b1).part /\ b1 = SplitExact(a1 + b1).remainder
        BY <3>3
      <4>1. a \in Int /\ b \in Int
        BY <1>3, LedgerAddsUp DEF FundsInv
      <4>2. t \in Int
        BY <1>3, <4>1
      <4>3. SplitExact(t).part \in Int /\ SplitExact(t).remainder \in Int
            /\ SplitExact(t).part + SplitExact(t).remainder = t
        BY <4>2, Shares
      <4>4. c = SplitExact(t).part - a /\ r = SplitExact(t).remainder - b
        BY <2>11, <3>1, <3>3 DEF Due, CumulativeDelta
      <4>5. a1 = a + c /\ b1 = b + r
        BY <2>4
      <4>6. a1 = SplitExact(t).part /\ b1 = SplitExact(t).remainder
        <5>1. \A u, P \in Int : u + (P - u) = P
          OBVIOUS
        <5>2. a + (SplitExact(t).part - a) = SplitExact(t).part
              /\ b + (SplitExact(t).remainder - b) = SplitExact(t).remainder
          BY <4>1, <4>3, <5>1
        <5> QED
          BY <4>4, <4>5, <5>2
      <4> QED
        BY <4>3, <4>6
    <3> QED
      BY <3>2, <3>3
  <2>13. FundsTypeOK'
    <3>1. fundRelays' \in [FundRelays -> FundRelay]
      BY <2>7, <2>8
    <3> QED
      BY <1>2, <2>2, <3>1 DEF FundsInv, FundsTypeOK
  <2>14. UnsettledOnce' /\ EmittedInOrder' /\ FundsConserved'
    BY <1>2 DEF FundsInv, UnsettledOnce, EmittedInOrder, FundsConserved
  <2>15. DoneRecorded'
    <3>1. \A d \in FundEvents : Recorded(d) => Recorded(d)'
      BY <2>5, RecordsStay
    <3> QED
      BY <1>2, <3>1 DEF FundsInv, DoneRecorded
  <2> QED
    BY <2>9, <2>10, <2>12, <2>13, <2>14, <2>15 DEF FundsInv
<1> QED
  BY <1>5, <1>6

LEMMA FundsBegin == FundsInit => FundsInv
<1> SUFFICES ASSUME FundsInit PROVE FundsInv
  OBVIOUS
<1>1. /\ reversals = [x \in FundRefunds |-> [posted |-> FALSE, commission |-> 0, receivable |-> 0]]
      /\ journal = {}
      /\ postings = [o \in FundOrders |-> [pending |-> 0, collected |-> 0, refunded |-> 0]]
      /\ unsettled = [o \in LegacyOrders |-> 0]
      /\ fundEvents = [e \in FundEvents |-> "none"]
      /\ fundRelays = [w \in FundRelays |-> IdleRelay]
      /\ fundFailed = {} /\ fundFaults = 0
  BY DEF FundsInit
<1>2. IdleRelay \in FundRelay /\ IdleRelay.pc = "idle" /\ IdleRelay.passed = {}
  BY BetweenStands DEF IdleRelay
<1>3. \A x \in FundRefunds : reversals[x] = [posted |-> FALSE, commission |-> 0, receivable |-> 0]
  BY <1>1
<1>4. FundsTypeOK
  <2>1. reversals \in [FundRefunds -> LedgerRow]
    BY <1>1 DEF LedgerRow
  <2>2. postings \in [FundOrders -> PostingRow]
    BY <1>1 DEF PostingRow
  <2>3. fundRelays \in [FundRelays -> FundRelay]
    BY <1>1, <1>2
  <2>4. 0 \in 0 .. MaxFundFaults
    BY FundNames
  <2> QED
    BY <1>1, <2>1, <2>2, <2>3, <2>4 DEF FundsTypeOK
<1>5. FundsConserved
  <2>1. SUFFICES ASSUME NEW o \in FundOrders \ LegacyOrders
                 PROVE  /\ postings[o].collected = IF o \in journal THEN FundAmount[o] ELSE 0
                        /\ postings[o].refunded = SumFunctionOnSet(RefundSize, RefundsOf(o) \cap journal)
                        /\ postings[o].pending = postings[o].collected - postings[o].refunded
    BY DEF FundsConserved
  <2>2. postings[o] = [pending |-> 0, collected |-> 0, refunded |-> 0]
    BY <1>1
  <2>3. RefundsOf(o) \cap journal = {} /\ SumFunctionOnSet(RefundSize, {}) = 0
    BY <1>1, SumOfNone
  <2>4. SumFunctionOnSet(RefundSize, RefundsOf(o) \cap journal) = 0
    BY <2>3
  <2> QED
    BY <1>1, <2>2, <2>4
<1>6. SplitFollowsRate
  <2>1. SUFFICES ASSUME NEW o \in LegacyOrders
                 PROVE  LedgerNet(o).commission = SplitExact(LedgerNet(o).commission + LedgerNet(o).receivable).part
                        /\ LedgerNet(o).receivable = SplitExact(LedgerNet(o).commission + LedgerNet(o).receivable).remainder
    BY DEF SplitFollowsRate
  <2> SUFFICES ASSUME NEW a, a = FundAmount[o]
               PROVE  LedgerNet(o).commission = SplitExact(LedgerNet(o).commission + LedgerNet(o).receivable).part
                      /\ LedgerNet(o).receivable = SplitExact(LedgerNet(o).commission + LedgerNet(o).receivable).remainder
    OBVIOUS
  <2>2. Posted(o) = {}
    BY <1>3 DEF Posted, RefundsOf
  <2>3. SumFunctionOnSet(Commissions, Posted(o)) = 0 /\ SumFunctionOnSet(Receivables, Posted(o)) = 0
    BY <2>2, SumOfNone
  <2>4. SplitExact(a).part \in Int /\ SplitExact(a).remainder \in Int /\ SplitExact(a).part + SplitExact(a).remainder = a
    BY FundNames, Shares
  <2>5. LedgerNet(o).commission = SplitExact(a).part + 0 /\ LedgerNet(o).receivable = SplitExact(a).remainder + 0
    BY <2>3 DEF LedgerNet
  <2>6. LedgerNet(o).commission = SplitExact(a).part /\ LedgerNet(o).receivable = SplitExact(a).remainder
    BY <2>4, <2>5
  <2> QED
    BY <2>4, <2>6
<1>7. EmittedInOrder /\ DoneRecorded
  <2>1. \A e \in FundEvents : fundEvents[e] = "none"
    BY <1>1
  <2>2. FundRefunds \subseteq FundEvents
    BY DEF FundEvents
  <2> QED
    BY <2>1, <2>2 DEF EmittedInOrder, DoneRecorded
<1>8. RowsExact
  BY <1>3 DEF RowsExact
<1>9. RelaysStand
  <2>1. ASSUME NEW v \in FundRelays, NEW c, c = fundRelays[v] PROVE RelayStands(c)
    <3>1. c.pc = "idle" /\ c.passed = {}
      BY <1>1, <1>2, <2>1
    <3> QED
      BY <3>1 DEF RelayStands
  <2> QED
    BY <2>1 DEF RelaysStand
<1>10. UnsettledOnce
  BY <1>1 DEF UnsettledOnce
<1> QED
  BY <1>4, <1>5, <1>6, <1>7, <1>8, <1>9, <1>10 DEF FundsInv

LEMMA FundsSteps ==
  ASSUME FundsInv, FundsNext
  PROVE  FundsInv'
<1>1. ASSUME NEW o \in FundOrders, EmitOrderPaid(o) PROVE FundsInv'
  <2>1. o \in FundEvents /\ o \notin FundRefunds /\ fundEvents[o] = "none"
    BY <1>1, FundNames DEF EmitOrderPaid
  <2>2. /\ fundEvents' = [fundEvents EXCEPT ![o] = "queued"]
        /\ UNCHANGED <<reversals, journal, postings, unsettled, fundRelays, fundFailed, fundFaults>>
    BY <1>1 DEF EmitOrderPaid
  <2> QED
    BY <2>1, <2>2, EmitSteps
<1>2. ASSUME NEW x \in FundRefunds, EmitOrderRefunded(x) PROVE FundsInv'
  <2>1. /\ fundEvents[x] = "none" /\ fundEvents' = [fundEvents EXCEPT ![x] = "queued"]
        /\ IsNew(x) => fundEvents[RefundedOrder[x]] # "none"
        /\ \A y \in RefundsOf(RefundedOrder[x]) : y < x => fundEvents[y] # "none"
        /\ UNCHANGED <<reversals, journal, postings, unsettled, fundRelays, fundFailed, fundFaults>>
    BY <1>2 DEF EmitOrderRefunded, IsNew
  <2>2. x \in FundEvents
    BY FundNames
  <2> QED
    BY <2>1, <2>2, EmitSteps
<1>3. ASSUME NEW w \in FundRelays, FundRelayStep(w) PROVE FundsInv'
  BY <1>3, TakeFundSteps, CollectionSteps, FundRefundSteps, ReadLedgerSteps, InsertSteps, MarkFundSteps
     DEF FundRelayStep
<1> QED
  BY <1>1, <1>2, <1>3, PassSteps, ReverseSettlementSteps DEF FundsNext

\* The books balance (BooksBalance), for any orders, refunds, amounts, commission rate and
\* number of relays: however often an event is delivered and whatever throws, the journal holds
\* each collection and refund once, a reversal takes back exactly what was refunded, and a full
\* refund leaves nothing owed unless a dispatch threw.
THEOREM BooksStayBalanced == CommercialSpec => []BooksBalance
<1>1. Init => FundsInv
  BY FundsBegin DEF Init
<1>2. [Next]_vars => [FundsNext]_fundsVars
  BY DEF Next, vars
<1>3. ASSUME FundsInv, UNCHANGED fundsVars PROVE FundsInv'
  <2>1. /\ UNCHANGED <<reversals, journal, postings, unsettled>>
        /\ UNCHANGED <<fundEvents, fundRelays, fundFailed, fundFaults>>
    BY <1>3 DEF fundsVars
  <2>2. FundsGoOn
    BY <2>1 DEF FundsGoOn
  <2>3. RelaysStand'
    <3>1. ASSUME NEW v \in FundRelays, NEW c, c = fundRelays'[v] PROVE RelayStands(c)'
      <4>1. c \in FundRelay /\ RelayStands(c)
        BY <1>3, <2>1, <3>1, FundTypes DEF FundsInv, RelaysStand
      <4> QED
        BY <2>1, <2>2, <4>1, BooksStand, RelayStays
    <3> QED
      BY <3>1 DEF RelaysStand
  <2>4. SplitFollowsRate' /\ RowsExact'
    BY <1>3, <2>1, SplitsStand
  <2>5. FundsTypeOK' /\ UnsettledOnce'
    BY <1>3, <2>1 DEF FundsInv, FundsTypeOK, UnsettledOnce
  <2>6. FundsConserved' /\ EmittedInOrder'
    BY <1>3, <2>1 DEF FundsInv, FundsConserved, EmittedInOrder
  <2>7. DoneRecorded'
    BY <1>3, <2>1, <2>2, RecordsStay DEF FundsInv, DoneRecorded
  <2> QED
    BY <2>3, <2>4, <2>5, <2>6, <2>7 DEF FundsInv
<1>4. FundsInv /\ [Next]_vars => FundsInv'
  BY <1>2, <1>3, FundsSteps
<1>5. FundsInv => BooksBalance
  <2> SUFFICES ASSUME FundsInv PROVE BooksBalance
    OBVIOUS
  <2>1. FundsTypeOK /\ FundsConserved /\ SplitFollowsRate
    BY DEF FundsInv
  <2>2. LedgerConserved
    BY LedgerAddsUp DEF FundsInv, LedgerConserved
  <2>3. RefundReachesJournal
    BY FundNames DEF FundsInv, DoneRecorded, Recorded, IsNew, RefundReachesJournal
  <2>4. NeverUnsettledTwice
    <3>1. SUFFICES ASSUME NEW o \in LegacyOrders PROVE Outstanding(o) <= LedgerNet(o).receivable
      BY DEF NeverUnsettledTwice
    <3>2. unsettled[o] = 0 \/ unsettled[o] = 1
      <4>1. unsettled[o] \in Nat /\ unsettled[o] <= 1
        BY FundTypes DEF FundsInv, UnsettledOnce
      <4> QED
        BY <4>1
    <3>3. SplitExact(FundAmount[o]).remainder \in Int /\ SplitExact(FundAmount[o]).remainder >= 0
      BY FundNames, Shares
    <3>4. Settled(o) \in Int /\ Settled(o) >= 0
      BY <3>2, <3>3 DEF Settled
    <3>5. LedgerNet(o).receivable \in Int
      BY LedgerAddsUp DEF FundsInv
    <3> QED
      BY <3>4, <3>5 DEF Outstanding
  <2> QED
    BY <2>1, <2>2, <2>3, <2>4 DEF BooksBalance
<1> QED
  BY <1>1, <1>4, <1>5, PTL DEF CommercialSpec
==============================================================================
