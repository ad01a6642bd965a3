SPECIFICATION Spec
CONSTANTS
  Hosts = {h1}
  Cancels = {c1}
  Events = {"idle"}
  Seeded = TRUE
  Login = "none"
  CancelOnDisconnect = TRUE
  ThreadsPerSite = 1
  MaxConcurrentRequests = 1
  SendCap = 1
  MaxCmds = 2
INVARIANT QueueIsSafe
CHECK_DEADLOCK FALSE
