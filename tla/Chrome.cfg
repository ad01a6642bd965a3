SPECIFICATION FairSpec
CONSTANTS
  job = job
  nav = nav
  js = js
  Setup = job
  Calls = {nav, js}
  OtherCalls = {js}
  JsCalls = {js}
  None = None
  Events = {"crash", "noBinary", "slow", "enableFails", "tabFails", "error", "not200",
            "closeFails", "endless"}
INVARIANT TypeOK
INVARIANT OneBrowser
INVARIANT DialsItsBrowser
INVARIANT TabsClosed
PROPERTY CrashIsNoticed
PROPERTY CallsEnd
CHECK_DEADLOCK FALSE
