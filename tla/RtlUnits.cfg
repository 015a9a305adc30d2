\* Three priority levels: every order of two requesters, every change of it.
\* 16-byte address space: the INCR burst at 12 wraps around its end.
\* Which of two masters the bridge serves is the business of the port unit: its
\* data path has one.
\* Three interrupt lines: two nested handlers, or three pins pending at once.
SPECIFICATION MCSpec
CONSTANTS
  Prios = {0, 1, 15}
  Masters = {0}
  Addrs = {12}
  AddrSpace = 16
  Steps = {4}
  MaxBeats = 3
  DATA_WIDTH = 3
  FIFO_DEPTH = 2
  Data <- MCWords
  Zero <- MCZero
  Transitions <- MCTransitions
  Words = {1, 2}
  ResetWord = 0
  N = 4
  MAX_WEIGHT = 3
  Weights <- MCWeights
  Lines = {1, 2, 3}
  MinDelay = 6
  MaxDelay = 8
  LeaveMax = 5
  MaxCalls = 4
INVARIANTS OvertakenOnce TransfersAreBeats AnswerSumsUpBurst ReadBeatIsTransfer
INVARIANTS BitsPreserved FrameShare BoundedWait HandshakesApart OwnAnswer
PROPERTIES GrantStable ArbiterServes ReadsServed BurstsFinish QueueSpec CallsServed
