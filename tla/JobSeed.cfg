SPECIFICATION FairSpec
CONSTANTS
  Hosts = {h1, h2}
  Cancels = {c1}
  Events = {"loginRejected", "links", "head", "ifaceGone", "disconnect"}
  Seeded = TRUE
  Login = "chrome"
  CancelOnDisconnect = TRUE
  ThreadsPerSite = 1
  MaxConcurrentRequests = 2
  SendCap = 1
  MaxCmds = 3
INVARIANT NoPanic
INVARIANT StreamEndsLast
PROPERTY CancelTerminates
CHECK_DEADLOCK FALSE
