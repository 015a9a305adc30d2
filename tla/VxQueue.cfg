SPECIFICATION FairSpec
CONSTANTS
  Queues = {q1, q2}
  LegacyQ = q1
  UserEvents = {u}
  Bufs = {b}
  NoObj = NoObj
  MaxCmds = 2
  MaxVal = 1
  MaxWaits = 2
  MaxFails = 1
INVARIANTS StartsInOrder ErrorsPropagate RefsCover MapPopulated LegacyTracked
PROPERTY QueuesDrain
CHECK_DEADLOCK FALSE
