SPECIFICATION Spec
CONSTANTS
  Opens = {1, 2}
  Clients = {c1, c2}
  Externals = {x1, x2}
  Correlations = {k1, k2}
  MaxRestored = 1
INVARIANT NoConnectionLeft
INVARIANT OneCurrent
INVARIANT OnlyOvertaken
INVARIANT CorrelationsUnique
PROPERTY OpenReturns
CHECK_DEADLOCK FALSE
