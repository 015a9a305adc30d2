\* One thread launches a kernel, which may end at any time; nothing fails.
SPECIFICATION FairSpec
CONSTANTS
  Threads = {t1}
  Launchers = {t1}
  Readers = {}
  RingSlots = 3
  SeqMod = 100
  MaxPosts = 5
  MaxFaults = 0
  NoCL = NoCL
PROPERTY SubmitReturns
CHECK_DEADLOCK FALSE
