SPECIFICATION FairSpec
CONSTANTS
  sum = sum
  ask = ask
  Slots <- MCOneSlot
  SummarySlot = sum
  MaxRetry = 1
  MaxReparse = 0
  MaxCancel = 0
  MaxDelete = 0
  MaxFault = 1
  MaxPost = 4
  MaxFan = 4
  NeedsEmbedding = TRUE
  HasText = TRUE
  Housekeeping = TRUE
CHECK_DEADLOCK FALSE
INVARIANT OneGeneration
PROPERTY EndsSettled
