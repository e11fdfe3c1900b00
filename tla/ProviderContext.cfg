SPECIFICATION Spec
CONSTANTS
  Providers = {"qwen", "openai"}
  MaxRequests = 2
  MaxItems = 1
  MaxEvents = 4
  MaxInbox = 2
  MaxGenerations = 2
INVARIANT TypeOK
INVARIANT AckedWasApplied
INVARIANT WaiterIsKnown
INVARIANT TranscriptionOnce
PROPERTY IdentityStable
CHECK_DEADLOCK FALSE
