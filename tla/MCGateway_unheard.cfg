SPECIFICATION FairSpec
CONSTANTS
  Agents = {"root", "child"}
  Root = "root"
  Chats <- OneChat
  Streams = {"s1"}
  Pattern <- Named
  Ring = 4
  MaxSends = 1
  MaxScripts = 1
  MaxWaits = 0
  MaxFaults = 0
  Casts <- Family
CHECK_DEADLOCK FALSE
PROPERTIES AllHeard
