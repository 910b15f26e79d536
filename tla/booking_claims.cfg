CONSTANTS
  None = None
  slotA = slotA
  slotB = slotB
  slotC = slotC
  proA = proA
  proB = proB
  facial = facial
  chair = chair
  Customers = {ana}
  Professionals = {proA, proB}
  Slots = {slotA, slotB, slotC}
  Services = {facial}
  Keys = {k}
  Resources = {chair}
  Sessions = {p, q}
  MaxBookings = 2
  StartAt <- MCStartAt
  EndAt <- MCEndAt
  ProfessionalOf <- MCProfessionalOf
  ServiceOf <- MCServiceOf
  Requirement <- MCRequirement
  Eligible <- MCEligible
  Requesters = {}
  Governed = {1, 2}
  HoldTime = 0
  MaxHolds = 1
  MaxReschedules = 1
  MinNotice = 0
  FreeMoves = 1
  Cutoff = 1
  Grace = 0
  MaxClock = 1
SPECIFICATION Spec
CHECK_DEADLOCK FALSE
INVARIANTS NoResourceClash LiveBookingHasResource IdempotentCreate
SYMMETRY SessionSymmetry
