SPECIFICATION Spec
CONSTANTS
  Topics <- TwoTopics
  Filters <- TwoFilters
  Matching <- TwoMatching
  Payloads = {"", "m", "n"}
  EmptyPayload = ""
  ClientIds = {"", "x", "y"}
  NoId = ""
  PidMax = 3
  None = None
  MaxClients = 2
  MaxSubs = 1
  MaxRetained = 0
  MaxPending = 1
  MaxCodes = 3
  BufSize = 2
  KernelRoom = {9}
  Rounds = 1
  Inputs <- SessionInputs
  ApiMessages = {}
INVARIANTS
  DisconnectKeepsServing
