SPECIFICATION FairSpec
CONSTANTS
  sum = sum
  ask = ask
  Slots <- MCOneSlot
  SummarySlot = sum
  MaxRetry = 0
  MaxReparse = 0
  MaxCancel = 1
  MaxDelete = 2
  MaxFault = 1
  MaxPost = 1
  MaxFan = 1
  NeedsEmbedding = TRUE
  HasText = TRUE
  Housekeeping = TRUE
CHECK_DEADLOCK FALSE
INVARIANT SeenDeletionLeavesNothing
PROPERTY EndsSettled
