SPECIFICATION FairSpec
CONSTANTS
  sum = sum
  ask = ask
  Slots <- MCOneSlot
  SummarySlot = sum
  MaxRetry = 0
  MaxReparse = 1
  MaxCancel = 0
  MaxDelete = 0
  MaxFault = 1
  MaxPost = 2
  MaxFan = 2
  NeedsEmbedding = FALSE
  HasText = TRUE
  Housekeeping = TRUE
CHECK_DEADLOCK FALSE
PROPERTY EndsSettled
