SPECIFICATION FairSpec
CONSTANTS
  Masters = {0, 1}
  Ids = {0}
  Servers = {0, 4}
  MaxBeats = 2
  MaxPlanned = 2
INVARIANT WriteRouted
PROPERTY WritesAnswered
