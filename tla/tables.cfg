SPECIFICATION MCSpec
CONSTANTS
  MaxEntries = 4
  SIMCLIST_MAX_SPARE_ELEMS = 2
  Ports <- MCPorts
  Protocols <- MCProtocols
  FullUrls <- MCFullUrls
  Ips <- MCIps
  Requests <- MCRequests
  Names = {"python", "auth"}
  Dirs = {2}
  Dot = 1
  MaxSites = 4
  MaxAppSites = 2
  MaxDirs = 2
  AppUrls <- MCAppUrls
  DirSites = {1}
  Decoded <- MCDecoded
  NotAscii = {"e9"}
  Canonical <- MCCanonical
  PARAMS_NAME_MAX_LEN = 6
  HalfDay = 2
  PageRequests <- MCPageRequests
  CookieNames <- MCCookieNames
  Values <- MCValues
  ParamNames <- MCParamNames
  HeaderNames <- MCHeaderNames
  Paths <- MCPaths
  MaxCalls = 3
  Times = {5, 6, 7, 8}
  Now0 = 5
  MaxNow = 6
INVARIANTS ListsHold FindsMostSpecific ModulesLive ParamsAgree ResponseAgrees
CHECK_DEADLOCK FALSE
