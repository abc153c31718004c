SPECIFICATION Spec
CONSTANTS
  doc1 = doc1
  doc2 = doc2
  page1 = page1
  t1 = t1
  t2 = t2
  Docs <- TwoDocs
  Pages <- OnePage
  Contrib <- Shared
  Deletable <- OnlyA
  Triggers <- TwoTriggers
  Capped = capped
  Recheck = recheck
  NoPage = NoPage
  Free = Free
  Orphan = Orphan
  Parses <- Once
  MaxFails = 0
  BatchSize = 1
  MaxInflight = 2
  Pool = 2
  MaxCrashes = 0
  MaxFaults = 1
SYMMETRY Alike
INVARIANTS
  SingleWorker
  DrainsOnce
  
  RetractWins
CHECK_DEADLOCK FALSE
