CONSTANTS
  oldOrder = oldOrder
  newOrder = newOrder
  salon = salon
  street = street
  FundOrders = {oldOrder, newOrder}
  LegacyOrders = {oldOrder}
  NRefunds = 3
  RefundedOrder <- MCRefundedOrder
  RefundSize <- MCRefundSize
  FundAmount <- MCFundAmount
  RatePercent = 50
  FundRelays = {x1, x2}
  MaxFundFaults = 1
  Deeds = {"visit", "referral"}
  ReferralDeeds = {"referral"}
  DeedPoints <- MCDeedPoints
  TierThreshold <- MCTierThreshold
  TierBonus <- MCTierBonus
  GiftPlan = gift
  GiftBonus = 200
  GiftDays = 1
  FreePlans = {gift}
  PointRelays = {x1, x2}
  MaxPointCrashes = 1
  MaxDay = 1
  Invitees = {x1, x2}
  ReferralCap = 1
  ClaimsPerHour = 1
  MaxAccountAge = 0
  PendingDays = 1
  MonthDays = 1
  MaxReferralDay = 1
  OrderTotal = 2
  MaxClaims = 2
  Sellers = {"seller", "founder"}
  Bookings = {x1, x2}
  SellerOf <- MCSellerOf
  Founders = {"founder"}
  PlusPlan = 1
  BasePlan = 0
  MaxGrants = 3
  PlanKeys = {x1, x2}
  ScheduleKeys = {k}
  Instants = {1, 2}
  Administrators = {y1, y2}
  MaxRows = 3
  PolicyKeys = {k}
  CopyKeys = {c}
  Options = {x1, x2}
  Assigners = {y1, y2}
  PolicyOrders = {o}
  MaxTerms = 2
  MaxAssignments = 2
  Businesses = {salon}
  Branches = {street}
  BusinessOf <- MCBusinessOf
  Units = {1, 2}
  BranchOf <- MCBranchOf
  KindOf <- MCKindOf
  Openings = {o}
  Allotments = {x1, x2}
  MaxRebooked = 0
  Employers = {x1, x2}
  DutyRoles = {r}
  FactEvents = {x1, x2}
  RollupRuns = {y1, y2}
  LookbackDays = 1
  LastDay = 2
SPECIFICATION CommercialSpec
CHECK_DEADLOCK FALSE
SYMMETRY CommercialSymmetry
INVARIANTS BooksBalance RewardsFollowReferrals TermsBind WorkplaceConsistent MetricsCountOnce
PROPERTIES PointsFollowDeeds CreditsGateConfirmations
