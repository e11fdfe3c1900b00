SPECIFICATION Spec
CONSTANTS
  c1 = c1
  c2 = c2
  o1 = o1
  o2 = o2
  a1 = a1
  a2 = a2
  None = None
  Calls = {c1}
  Outputs = {o1, o2}
  Apps = {a1, a2}
  Dispatcher = TRUE
  MaxResponses = 3
  MaxGenerations = 2
  MaxSends = 3
CHECK_DEADLOCK FALSE
INVARIANT TypeOK
INVARIANT OneResultPerCall
INVARIANT ResultBeforeFollowup
INVARIANT DispatchOnce
PROPERTY SubmitsReturn
