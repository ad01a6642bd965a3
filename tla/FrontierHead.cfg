SPECIFICATION Spec
CONSTANTS
  Urls <- MCUrls
  Anchors <- MCAnchors
  NoAnchor = ""
  Normal <- MCNormal
  Links <- MCLinks
  SiteUrls <- MCSiteUrls
  FollowUrls = {"A", "a", "b", "x"}
  CallbackUrls = {"c"}
  CallbackAnchors = {"next"}
  XpathPages = {"b"}
  XpathRePages = {"d"}
  Options <- HeadFirst
  Seeds = {"a"}
  Added = {"c"}
INVARIANT ShippedAsDocumented
CHECK_DEADLOCK FALSE
