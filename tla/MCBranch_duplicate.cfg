SPECIFICATION Spec
CONSTANTS
  Topics <- TwoTopics
  Filters <- TwoFilters
  Matching <- TwoMatching
  Payloads = {"", "m"}
  EmptyPayload = ""
  ClientIds = {"", "x"}
  NoId = ""
  PidMax = 3
  None = None
  MaxClients = 2
  MaxSubs = 3
  MaxRetained = 0
  MaxPending = 3
  MaxCodes = 3
  BufSize = 2
  KernelRoom = {0}
  Rounds = 1
  Inputs <- FlowInputs
  ApiMessages = {}
PROPERTIES
  ForwardsOnce
