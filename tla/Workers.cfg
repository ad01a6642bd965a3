SPECIFICATION FairSpec
CONSTANTS
  Workers = {w1, w2}
  Calls = {c1, c2, c3}
  ChromeCalls = {c1}
  NoWorker = NoWorker
  ChanCap = 2
  Events = {"lost", "chromeFails", "otherType", "prompt"}
INVARIANT TypeOK
INVARIANT Balanced
INVARIANT NoneForgotten
INVARIANT OneWorkerEach
PROPERTY CallsReturn
CHECK_DEADLOCK FALSE
