\* Every smaller component, one at a time.
SPECIFICATION MCSpec
CONSTANTS
  Parts = {"cache", "notices", "replay", "limiter", "login", "profile", "fractions",
           "reminders", "preferences", "matching", "calls", "preview", "versions", "escrow",
           "resolve", "health", "mock", "session", "register", "documents", "client"}
  invoices = invoices
  offers = offers
  positions = positions
  Key = {invoices, offers, positions}
  Actor = {a1, a2}
  Thing = {t1, t2}
  Usernames = {"name"}
  MaxFaults = 1
  Call = {a1, a2}
  PrefixKeys <- Invalidated
  Size <- ByVersion
  MaxSize = 3
  MaxVersion = 2
SYMMETRY Symmetry
\* A disconnected cache, a finished job and a used-up bound stop.
CHECK_DEADLOCK FALSE
INVARIANTS
  TypesOK
  RateIsBounded
  OneSessionPerChallenge
  RemindersAreKept
  SavedIsKept
  ScoringIsSound
  CallsAreTheirOwn
  UpdatesGoForward
  
  
  
  
  InvoicePapersHold
PROPERTIES
  CacheIsKept
  EventsAreComplete
  WindowsLast
  ProfilesAreKept
  
