CONSTANTS
  None = None
  slotA = slotA
  slotB = slotB
  slotC = slotC
  proA = proA
  proB = proB
  facial = facial
  chair = chair
  Customers = {ana}
  Professionals = {proA, proB}
  Slots = {slotA, slotB}
  Services = {facial}
  Keys = {}
  Resources = {chair}
  Sessions = {p}
  MaxBookings = 1
  StartAt <- MCStartAt
  EndAt <- MCEndAt
  ProfessionalOf <- MCProfessionalOf
  ServiceOf <- MCServiceOf
  Requirement <- MCRequirement
  Eligible <- MCEligible
  Requesters = {}
  Governed = {}
  HoldTime = 0
  MaxHolds = 2
  MaxReschedules = 1
  MinNotice = 0
  FreeMoves = 1
  Cutoff = 1
  Grace = 0
  MaxClock = 2
SPECIFICATION Spec
CHECK_DEADLOCK FALSE
INVARIANTS ActiveAssignmentIsOccupied
