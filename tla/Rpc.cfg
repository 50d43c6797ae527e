SPECIFICATION Spec
CONSTANTS
  Null = Null
  Empty = Empty
  KeyName <- MCKeyName
  UrlName <- MCUrlName
  PeriodicName <- MCPeriodicName
  MaxInstance = 2
  Supported <- MCSupported
  Requests <- MCRequests
  LocalRequests <- MCLocalRequests
  Notifications <- MCNotifications
  InitialDm <- MCDm
  InitialDev <- MCDev
  MaxRpcs = 3
  MaxNotifications = 1
  MaxSessions = 2
INVARIANTS
  RpcInvariant
  AcsInformed
PROPERTIES
  AllOrNothing
  AnswersFresh
  DiagnosticsUnderWay
CHECK_DEADLOCK FALSE
