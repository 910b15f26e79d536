CONSTANTS
  fromSeller = fromSeller
  Tabs = {x1, x2}
  Grace = 3
  RoundTrip = 1
  TokenTtl = 3
  MaxTokens = 3
  MaxTick = 2
  SameOrigin = FALSE
  MaxInterruptions = 1
  Callers = {x1, x2}
  OtpAttempts = 2
  OtpPerHour = 2
  MaxVerifies = 3
  Staff = {"operator", "new"}
  Roles = {"moderator", "platform_operator", "business"}
  Privileged = {"moderator", "platform_operator"}
  OwnerRoles = {"business"}
  CapsOf <- MCCapsOf
  StaffRoles <- MCStaffRoles
  Entries = {x1, x2}
  WSlots = {s}
  Suits <- MCSuits
  Matchers = {y1, y2}
  MaxEntriesPerProfessional = 3
  MaxReopened = 2
  ChatSides = {"customer", "seller"}
  Requests = {x1, x2, fromSeller}
  SideOf <- MCSideOf
  Clients = {"customer"}
  PerMinute = 1
  KeyLimit <- MCKeyLimit
  MaxMinutes = 1
  PageSize = 2
  MaxPosted = 4
  MediaIds = {x1, x2}
  GrantCalls = {g}
  FinalizeCalls = {y1, y2}
  ImageCalls = {g}
  PerUserQuota = 1
  MaxPendingGrants = 1
  ExportIds = {e}
  ErasureIds = {d}
  PrivacySweeps = {x1, x2}
  Images = {g}
  Conversations = {x1, x2}
  Creates = {y1, y2}
  Sends = {x1, x2}
  RetainedCap = 1
  DailyQuota = 1
  MaxDays = 2
  SaveCalls = {x1, x2, z}
  Targets = {1, 2, 3}
  MaxSaved = 2
  WishPageSize = 1
  MaxInstant = 2
  Pushers = {x1, x2}
  MaxRevision = 3
  MaxGeneration = 1
  MaxEngineFaults = 0
  ReviewedBookings = {x1, x2}
  ReviewModerators = {y1, y2}
  MaxModerations = 2
SPECIFICATION PlatformSpec
CHECK_DEADLOCK FALSE
SYMMETRY PlatformSymmetry
INVARIANTS SessionsSurviveRaces AccessIsEarned OffersFollowTheLine ConversationConsistent ImagesAccountedFor ErasureIsComplete AssistantWithinLimits WishlistConsistent
PROPERTIES SearchAgrees
