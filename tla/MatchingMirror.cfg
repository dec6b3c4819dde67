\* One invoice of either source.
SPECIFICATION MCSpec
CONSTANTS
  Parts = {"matching"}
  invoices = invoices
  offers = offers
  positions = positions
  Key = {invoices, offers, positions}
  Actor = {a1, a2}
  Thing = {t1, t2}
  Usernames = {"name"}
  MaxFaults = 1
  Call = {a1, a2}
  PrefixKeys <- Invalidated
  Size <- ByVersion
  MaxSize = 3
  MaxVersion = 2
SYMMETRY Symmetry
\* The component may come to rest.
CHECK_DEADLOCK FALSE
INVARIANTS MirrorRowsAreMatched
