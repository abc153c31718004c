SPECIFICATION FairSpec
CONSTANTS
  sum = sum
  ask = ask
  Slots <- MCSlots
  SummarySlot = sum
  MaxRetry = 1
  MaxReparse = 0
  MaxCancel = 0
  MaxDelete = 0
  MaxFault = 0
  MaxPost = 2
  MaxFan = 2
  NeedsEmbedding = TRUE
  HasText = TRUE
  Housekeeping = FALSE
CHECK_DEADLOCK FALSE
INVARIANTS CounterIsOwed CalmCompletedIsTerminal NeverStranded
PROPERTIES EndsSettled ImplementsEnrichment
