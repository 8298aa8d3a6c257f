SPECIFICATION TablesSpec
CONSTANTS
  Topics <- ThreeTopics
  Filters <- TwoFilters
  Matching <- TwoMatching
  Payloads = {"", "m", "n"}
  EmptyPayload = ""
  ClientIds = {"", "x", "y"}
  NoId = ""
  PidMax = 1
  None = None
  MaxClients = 2
  MaxSubs = 3
  MaxRetained = 2
  MaxPending = 2
  MaxCodes = 3
  BufSize = 1
  KernelRoom = {9}
  Rounds = 1
  Inputs <- AllInputs
  ApiMessages <- RetainMessages
INVARIANTS
  HeldOwned
  ClosedSlotClean
  InboundUnique
  OutPidsValid
  RetainedUnique
PROPERTIES
  ClosesOnlySameId
