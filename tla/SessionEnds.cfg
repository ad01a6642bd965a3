SPECIFICATION FairSpec
CONSTANTS
  r1 = r1
  r2 = r2
  r3 = r3
  Requests = {r1, r2}
  Caller <- MCCaller
  JsRequests = {r2}
  BadRequests = {r2}
  NoStream = NoStream
  Analyzed = FALSE
  PhCap = 1
  PageCap = 1
  Window = 1
  ReqCap = 1
  SendCap = 1
  ListCap = 1
  Events = {"noStream", "stop", "idle", "ttlRace", "otherType"}
INVARIANT NoNilSend
INVARIANT StoppedIsComplete
PROPERTY DeliversAll
PROPERTY PagesArrive
PROPERTY EndIsSeen
CHECK_DEADLOCK FALSE
