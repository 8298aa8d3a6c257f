SPECIFICATION Spec
CONSTANTS
  Topics <- TwoTopics
  Filters <- TwoFilters
  Matching <- TwoMatching
  Payloads = {"", "m"}
  EmptyPayload = ""
  ClientIds = {""}
  NoId = ""
  PidMax = 3
  None = None
  MaxClients = 2
  MaxSubs = 2
  MaxRetained = 1
  MaxPending = 1
  MaxCodes = 3
  BufSize = 2
  KernelRoom = {9}
  Rounds = 1
  Inputs <- FlowInputs
  ApiMessages = {}
INVARIANTS
  NoOrphans
