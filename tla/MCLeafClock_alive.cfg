SPECIFICATION FairSpec
CONSTANTS
  Timeout = 1
  KeepAlive = 2
  RetryAfter = 2
  MaxRetries = 2
  BackoffStart = 1
  BackoffEnough = 3
INVARIANTS
  DropsOnlySilent
