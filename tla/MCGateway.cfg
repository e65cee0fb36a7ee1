SPECIFICATION FairSpec
CONSTANTS
  Agents = {"root", "child"}
  Root = "root"
  Chats <- OneChat
  Streams = {"s1", "s2", "s3"}
  Pattern <- Bridges
  Ring = 1
  MaxSends = 2
  MaxScripts = 1
  MaxWaits = 1
  MaxFaults = 1
  Casts <- SomeCasts
CHECK_DEADLOCK FALSE
INVARIANTS ServiceInRowOrder
PROPERTIES WaitsRightly RootHeard
