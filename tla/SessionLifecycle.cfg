SPECIFICATION Spec
CONSTANTS
  r1 = r1
  r2 = r2
  r3 = r3
  i1 = i1
  c1 = c1
  s1 = s1
  s2 = s2
  None = None
  Responses = {r1, r2}
  Items = {}
  Contents = {}
  Senders = {s1, s2}
  MaxEvents = 3
  OutputFrames = 2
  OutputBytes = 9
  InputFrames = 1
  EventBytes <- MCEventBytes
  Traffic <- LifecycleTraffic
  CloseReasons <- ValidReasons
  DeadSocket = FALSE
INVARIANT TypeOK
INVARIANT TerminalMatchesOwner
INVARIANT CloseFinishesLatest
INVARIANT InputAccounting
PROPERTY CloseReturns
PROPERTY ImplementsRealtimeStream
CHECK_DEADLOCK FALSE
