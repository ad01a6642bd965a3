SPECIFICATION Spec
CONSTANTS
  Hosts = {h1, h2}
  Cancels = {c1}
  Events = {"addPage", "links", "idle", "loggedOut", "ttlRace", "disconnect", "loggerFails", "loginError", "loginRejected"}
  Seeded = FALSE
  Login = "direct"
  CancelOnDisconnect = TRUE
  ThreadsPerSite = 1
  MaxConcurrentRequests = 1
  SendCap = 1
  MaxCmds = 2
SYMMETRY Symmetry
INVARIANT TypeOK
INVARIANT BlockDrains
INVARIANT NoSendAfterClose
INVARIANT StreamEndsLast
PROPERTY JobLives
CHECK_DEADLOCK FALSE
