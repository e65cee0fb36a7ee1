SPECIFICATION FairSpec
CONSTANTS
  Sessions = {"a1", "a2", "b1"}
  NoSession = "nobody"
  UserOf <- Pair
  QueueCap = 2
  RateLimit = 2
  Window = 1
  Cap = 1
  Plays <- SomePlays
CHECK_DEADLOCK FALSE
INVARIANTS NewestHolds Delivery RateBound
PROPERTIES SessionsEnd
