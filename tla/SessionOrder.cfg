SPECIFICATION Spec
CONSTANTS
  r1 = r1
  r2 = r2
  r3 = r3
  i1 = i1
  c1 = c1
  s1 = s1
  s2 = s2
  None = None
  Responses = {r1, r2, r3}
  Items = {i1}
  Contents = {c1}
  Senders = {s1}
  MaxEvents = 6
  OutputFrames = 3
  OutputBytes = 4
  InputFrames = 1
  EventBytes <- MCEventBytes
  Traffic <- OrderTraffic
  CloseReasons <- RefusedReasons
  DeadSocket = TRUE
INVARIANT LiveResponses
INVARIANT ResponseOrder
INVARIANT ByteAccounting
INVARIANT OneTerminal
PROPERTY TombstonesSilence
SYMMETRY SessionSymmetry
CHECK_DEADLOCK FALSE
