SPECIFICATION FairSpec
CONSTANTS
  Hosts = {h1, h2}
  Cancels = {c1}
  Events = {"links", "head", "idle", "badSeed", "loginError"}
  Seeded = TRUE
  Login = "chrome"
  CancelOnDisconnect = TRUE
  ThreadsPerSite = 1
  MaxConcurrentRequests = 1
  SendCap = 1
  MaxCmds = 2
PROPERTY CancelTerminates
PROPERTY StreamEnds
PROPERTY CrawlFinishes
CHECK_DEADLOCK FALSE
