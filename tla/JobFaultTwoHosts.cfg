SPECIFICATION FairSpec
CONSTANTS
  Hosts = {h1, h2}
  Cancels = {}
  Events = {"links", "ifaceGone", "loggedOut"}
  Seeded = TRUE
  Login = "none"
  CancelOnDisconnect = TRUE
  ThreadsPerSite = 1
  MaxConcurrentRequests = 2
  SendCap = 1
  MaxCmds = 2
PROPERTY FaultStops
CHECK_DEADLOCK FALSE
