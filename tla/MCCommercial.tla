---------------------------- MODULE MCCommercial ----------------------------
(***************************************************************************)
(* The commercial services, one at a time.  They share no state in the      *)
(* model, so the behaviours of the platform are the interleavings of        *)
(* theirs: the initial state chooses the service that runs (focus), the     *)
(* others stay where they begin, and every property of a service is checked *)
(* on all of that service's behaviours.                                     *)
(***************************************************************************)
EXTENDS Funds, Loyalty, Referral, Credits, Catalogue, SellerPolicies, Business, Staff, Analytics, TLC

CONSTANTS oldOrder, newOrder, salon, street

VARIABLE focus

MCRefundedOrder == [x \in FundRefunds |-> IF x <= 2 THEN oldOrder ELSE newOrder]
MCRefundSize == [x \in FundRefunds |-> 1]
MCFundAmount == [o \in FundOrders |-> 2]
MCDeedPoints == [d \in Deeds |-> IF d = "visit" THEN 3 ELSE 2]
MCTierThreshold == <<2, 4>>
MCTierBonus == <<100, 150>>
MCSellerOf == [b \in Bookings |-> "seller"]
MCBusinessOf == [l \in Branches |-> salon]
MCBranchOf == [u \in Units |-> street]
MCKindOf == [u \in Units |-> "chair"]

Focuses == {"funds", "loyalty", "referral", "credits", "catalogue", "timeline", "policies",
            "business", "staff", "analytics"}

\* The catalogue runs twice: administrators who work at once on windows of
\* the first instant, and one at a time on windows of every instant.
WithinCatalogue ==
  /\ focus = "catalogue" => \A i \in RowIds : 2 \notin versions[i].window
  /\ focus = "timeline" => Cardinality({a \in Administrators : desks[a] # AtRest}) <= 1

\* A crash and the end of a gift membership are not combined.
WithinLoyalty == loyaltyDay + pointCrashes <= 1

\* Only the first seller goes beyond the base plan.
WithinCredits == \A p \in Founders : plan[p] # "plus"

Init ==
  /\ focus \in Focuses
  /\ FundsInit /\ LoyaltyInit /\ ReferralInit /\ CreditsInit /\ CatalogueInit /\ PoliciesInit
  /\ BusinessInit /\ StaffInit /\ AnalyticsInit
  /\ focus # "policies" => policyKind = "outcome"

Next ==
  /\ UNCHANGED focus
  /\ IF focus = "funds" THEN FundsNext ELSE UNCHANGED fundsVars
  /\ IF focus = "loyalty" THEN LoyaltyNext /\ WithinLoyalty' ELSE UNCHANGED loyaltyVars
  /\ IF focus = "referral" THEN ReferralNext ELSE UNCHANGED referralVars
  /\ IF focus = "credits" THEN CreditsNext /\ WithinCredits' ELSE UNCHANGED creditVars
  /\ IF focus \in {"catalogue", "timeline"} THEN CatalogueNext /\ WithinCatalogue' ELSE UNCHANGED catalogueVars
  /\ IF focus = "policies" THEN PoliciesNext ELSE UNCHANGED policyVars
  /\ IF focus = "business" THEN BusinessNext ELSE UNCHANGED businessVars
  /\ IF focus = "staff" THEN StaffNext ELSE UNCHANGED staffVars
  /\ IF focus = "analytics" THEN AnalyticsNext ELSE UNCHANGED analyticsVars

vars == <<focus, fundsVars, loyaltyVars, referralVars, creditVars, catalogueVars, policyVars,
          businessVars, staffVars, analyticsVars>>

CommercialSpec == Init /\ [][Next]_vars

\* Workers, callers and rows of the same sort are interchangeable.
CommercialSymmetry == Permutations(Administrators) \union Permutations(PlanKeys)

\* The terms a seller or a customer is bound by are unambiguous, unchanged since
\* they were published and in force when an order takes them, whoever drafts,
\* edits, publishes, retires and chooses at once (CommercialCatalogueService,
\* resolveForParty, requireAcceptance).
TermsBind ==
  /\ CatalogueTypeOK /\ ResolutionUnambiguous /\ AutoAssignedIsFree /\ PublishedTermsFixed
  /\ PoliciesTypeOK /\ TermsStayInForce /\ OneChoiceAtATime /\ OrderedAsAccepted

\* A business can count on its people and resources: nothing retired is booked,
\* nobody works in two places, and the locks that ensure it never wait in a
\* circle (LocationResourceService, BusinessLocationService, StaffService).
WorkplaceConsistent ==
  /\ BusinessTypeOK /\ RetiredIsIdle /\ NoCircularWait
  /\ StaffTypeOK /\ OneAffiliation
=============================================================================
