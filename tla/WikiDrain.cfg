SPECIFICATION Spec
CONSTANTS
  doc1 = doc1
  doc2 = doc2
  page1 = page1
  t1 = t1
  t2 = t2
  Docs <- OneDoc
  Pages <- OnePage
  Contrib <- Sole
  Deletable <- Nobody
  Triggers <- TwoTriggers
  Capped = capped
  Recheck = recheck
  NoPage = NoPage
  Free = Free
  Orphan = Orphan
  Parses <- Twice
  MaxFails = 1
  BatchSize = 1
  MaxInflight = 2
  Pool = 2
  MaxCrashes = 1
  MaxFaults = 0
 
PROPERTY QueueDrains
CHECK_DEADLOCK FALSE
