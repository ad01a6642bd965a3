SPECIFICATION Spec
CONSTANTS
  Urls <- MCUrls
  Anchors <- MCAnchors
  NoAnchor = ""
  Normal <- MCNormal
  Links <- MCLinks
  SiteUrls <- MCSiteUrls
  FollowUrls = {"A", "a", "b", "x"}
  CallbackUrls = {"c"}
  CallbackAnchors = {"next"}
  XpathPages = {"b"}
  XpathRePages = {"d"}
  Options <- AllOptions
  Seeds = {"A"}
  Added = {"c"}
INVARIANT TypeOK
INVARIANT FetchedOnce
INVARIANT NothingElse
INVARIANT NothingMissed
INVARIANT DepthRespected
INVARIANT ShippedAsAsked
CHECK_DEADLOCK FALSE
