SPECIFICATION FairSpec
CONSTANTS
  Topics <- TwoTopics
  Filters <- TwoFilters
  Matching <- TwoMatching
  Payloads = {"", "m"}
  EmptyPayload = ""
  ClientIds = {"", "x"}
  NoId = ""
  PidMax = 1
  None = None
  MaxClients = 2
  MaxSubs = 2
  MaxRetained = 0
  MaxPending = 2
  MaxCodes = 3
  BufSize = 2
  KernelRoom = {0, 1}
  Rounds = 2
  Inputs <- BufferInputs
  ApiMessages = {}
INVARIANTS
  SendBufferSound
  QueueAllIsQueueAndFlush
PROPERTIES
  SendOrder
  BufferDrains
