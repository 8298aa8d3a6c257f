SPECIFICATION ComposedSpec
CONSTANTS
  Topics <- TwoTopics
  Filters <- TwoFilters
  Matching <- TwoMatching
  Payloads = {"", "m"}
  EmptyPayload = ""
  ClientIds = {"", "x"}
  NoId = ""
  PidMax = 1
  None = None
  MaxClients = 2
  MaxSubs = 2
  MaxRetained = 1
  MaxPending = 1
  MaxCodes = 3
  BufSize = 2
  KernelRoom = {9}
  Rounds = 1
  Inputs <- OtherInputs
  ApiMessages = {}
  Way = 1
  LeafPending = 0
  LeafSubs = 1
  LeafRetries = 0
  OwnConnect <- LeafConfig
  Wanted <- Wishes
  Messages = {}
VIEW Unread
INVARIANTS
  TypeOK
  HeldOwned
  ListedStayHeld
  ReadyMeansAccepted
  ConnectOnceAndFirst
  NoUnaskedSubs
PROPERTIES
  ImplementsPubSub
