\* Two threads, each of which launches kernels, reads DCRs and transfers memory;
\* a ring with a slot for each of them and for the command a failed access leaves
\* behind; posts enough for a launch that fails half-way and another one.
SPECIFICATION FairSpec
CONSTANTS
  Threads = {t1, t2}
  Launchers = {t1, t2}
  Readers = {t1, t2}
  RingSlots = 3
  SeqMod = 100
  MaxPosts = 5
  MaxFaults = 1
  NoCL = NoCL
INVARIANTS RingIntact HeldWhileExecuted KernelSetUp RspFresh PoolSettles
PROPERTY OnlyMissedHangs
CHECK_DEADLOCK FALSE
