SPECIFICATION FairSpec
CONSTANTS
  Data = {z}
  Zero = z
  FIFO_DEPTH = 2
  WordsPerAxi = 2
  AxiWords = 2
PROPERTY WriteCompletes
