SPECIFICATION Spec
CONSTANTS
  Topics = {"a"}
  Filters = {"a", "long"}
  Matching = {}
  Payloads = {"", "m"}
  EmptyPayload = ""
  ClientIds = {"", "x"}
  NoId = ""
  PidMax = 2
  None = None
  MaxPending = 2
  MaxSubs = 1
  MaxRetries = 1
  Parts = 2
  Takes = {1, 2}
  OwnConnect <- LeafConfig
  TooLong = {"long"}
  Wanted <- Wishes
  Messages <- Notes
  PeerPackets <- AnyPacket
VIEW Unread
INVARIANTS
  TypeOK
  FreshUntilReady
  Remembered
PROPERTIES
  EntriesKept
  SentToTheEnd
  ImplementsStatus
