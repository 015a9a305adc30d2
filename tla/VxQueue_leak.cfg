\* Wait lists of one event: no list is refused after a retain, so that the
\* reference lost is the one of a command that is skipped.
SPECIFICATION Spec
CONSTANTS
  Queues = {q1, q2}
  LegacyQ = q1
  UserEvents = {u}
  Bufs = {b}
  NoObj = NoObj
  MaxCmds = 2
  MaxVal = 1
  MaxWaits = 1
  MaxFails = 1
INVARIANT RefsExact
CHECK_DEADLOCK FALSE
