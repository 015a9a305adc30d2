\* Two kinds of traffic: one master with two ids at three servers, and two masters
\* that share a slave and the DECERR port.
SPECIFICATION FairSpec
CONSTANTS
  Masters = {"m0", "m1"}
  Ids = {"i0", "i1"}
  Servers = {0, 1, 4}
  Single = {4}
  MaxOutstanding = 3
  MaxBeats = 2
  Traffic <- MCTraffic
  NoReq = NoReq
  NoBurst = NoBurst
INVARIANTS SameIdOrder TrackerExact BurstsContiguous
PROPERTY Drains
