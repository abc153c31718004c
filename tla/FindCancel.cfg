SPECIFICATION Spec
CONSTANTS
  sum = sum
  ask = ask
  Slots <- MCSlots
  SummarySlot = sum
  MaxRetry = 0
  MaxReparse = 0
  MaxCancel = 1
  MaxDelete = 0
  MaxFault = 0
  MaxPost = 1
  MaxFan = 1
  NeedsEmbedding = TRUE
  HasText = TRUE
  Housekeeping = TRUE
CHECK_DEADLOCK FALSE
INVARIANT CancelledNeverCompletes
