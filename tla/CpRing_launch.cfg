\* Two queues' workers, each with a mutex of its own, launch kernels; nothing fails.
SPECIFICATION Spec
CONSTANTS
  Threads = {t1, t2}
  Launchers = {t1, t2}
  Readers = {}
  RingSlots = 3
  SeqMod = 100
  MaxPosts = 6
  MaxFaults = 0
  NoCL = NoCL
INVARIANT KernelOwn
CHECK_DEADLOCK FALSE
