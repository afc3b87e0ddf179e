SPECIFICATION Spec
CONSTANTS
  r1 = r1  r2 = r2  v0 = v0  v1 = v1  b1 = b1  b2 = b2  q1 = q1  q2 = q2  s1 = s1
  Records <- OneRow
  Existing <- OneRow
  Values <- TwoValues
  NoVal = v0
  Batches <- TwoBatches
  Requests <- TwoRequests
  Sources <- OneSource
  Kinds <- AllKinds
  MaxVersion = 3
  MaxMade = 2
  NoBatch = NoBatch  NoRec = NoRec  Idle = Idle
SYMMETRY Symmetry
CHECK_DEADLOCK FALSE
INVARIANTS TypeOK ItemsWrittenOnce DoneMeansDone OpenItemsApplicable
PROPERTIES NothingNewerOverwritten
