SPECIFICATION Spec
CONSTANTS
  Providers = {"qwen", "openai"}
  MaxRequests = 1
  MaxItems = 1
  MaxEvents = 4
  MaxInbox = 1
  MaxGenerations = 1
INVARIANT CompletedOnce
CHECK_DEADLOCK FALSE
