SPECIFICATION Spec
CONSTANTS
  tab1 = tab1
  tab2 = tab2
  lender = lender
  off1 = off1
  off2 = off2
  slot1 = slot1
  slot2 = slot2
  Page <- MCPage
  Originator <- MCOriginator
  Offer <- MCOffer
  Open <- MCOpen
  Task <- MCTask
  Total = 2
  EscrowEnabled = FALSE
  LossyMirror = FALSE
  MaxTasks = 3
  MaxReloads = 2
PROPERTY RepaymentIsMirrored
CHECK_DEADLOCK FALSE
