SPECIFICATION Spec
CONSTANTS
  k1 = k1
  k2 = k2
  d1 = d1
  d2 = d2
  t1 = t1
  t2 = t2
  None = None
  Keys = {k1}
  Digests = {d1, d2}
  RoleOf <- UserAndSystem
  TriggerOf <- Triggers
  Tasks = {t1, t2}
  Provider = "qwen"
  SessionLimit = 1
  EntryLimit = 1
  MaxOthers = 1
  MaxGenerations = 2
  MaxCrashes = 1
INVARIANT OnceUnlessForgotten
 
PROPERTY AppendReturns
CHECK_DEADLOCK FALSE
