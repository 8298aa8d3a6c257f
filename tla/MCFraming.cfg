SPECIFICATION FairSpec
CONSTANTS
  BufSize = 6
  Base = 2
  MaxDigits = 3
  Readers <- BranchAndLeaf
  Packets <- SomePackets
  MaxUnread = 2
INVARIANTS
  TypeOK
  StreamIntact
PROPERTIES
  Handled
  GivesUpOnlyInHeader
