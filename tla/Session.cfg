SPECIFICATION Spec
CONSTANTS
  r1 = r1
  r2 = r2
  r3 = r3
  Requests = {r1, r3}
  Caller <- MCCaller
  JsRequests = {r3}
  BadRequests = {}
  NoStream = NoStream
  Analyzed = TRUE
  PhCap = 1
  PageCap = 1
  Window = 1
  ReqCap = 1
  SendCap = 1
  ListCap = 1
  Events = {"refused", "broken", "idle", "ttlRace", "otherType"}
INVARIANT TypeOK
INVARIANT OneAnswerEach
INVARIANT NothingLost
PROPERTY Delivers
PROPERTY JobLives
CHECK_DEADLOCK FALSE
