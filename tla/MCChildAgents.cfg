SPECIFICATION FairSpec
CONSTANTS
  Root = Root
  Names = {a, b, c}
  MaxChildren = 2
  MaxDepth = 2
  MaxBatch = 3
  MaxAgents = 4
  MaxSends = 1
INVARIANTS TypeOK RunningReachable ChildrenCounted
PROPERTIES CompletionArrives MessageArrives
CHECK_DEADLOCK FALSE
