SPECIFICATION FairSpec
CONSTANTS
  Workers = {w1, w2}
  Calls = {c1, c2}
  ChromeCalls = {}
  NoWorker = NoWorker
  ChanCap = 2
  Events = {"prompt"}
PROPERTY Distributed
CHECK_DEADLOCK FALSE
