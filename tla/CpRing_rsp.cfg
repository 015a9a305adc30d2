\* Two queues' workers, each with a mutex of its own, read DCRs; nothing fails.
SPECIFICATION Spec
CONSTANTS
  Threads = {t1, t2}
  Launchers = {}
  Readers = {t1, t2}
  RingSlots = 3
  SeqMod = 100
  MaxPosts = 3
  MaxFaults = 0
  NoCL = NoCL
INVARIANT RspOwn
CHECK_DEADLOCK FALSE
