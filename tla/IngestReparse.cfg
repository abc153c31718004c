SPECIFICATION Spec
CONSTANTS
  sum = sum
  ask = ask
  Slots <- MCOneSlot
  SummarySlot = sum
  MaxRetry = 0
  MaxReparse = 1
  MaxCancel = 1
  MaxDelete = 0
  MaxFault = 0
  MaxPost = 2
  MaxFan = 2
  NeedsEmbedding = FALSE
  HasText = TRUE
  Housekeeping = TRUE
CHECK_DEADLOCK FALSE
INVARIANTS TypeOK CounterIsOwed OneGeneration
