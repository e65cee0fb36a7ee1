SPECIFICATION FairSpec
CONSTANTS
  Works = {w1, w2}
  KillSignal = KillSignal
  HooksMessage = HooksMessage
  Inputs = {w1, w2, KillSignal}
  Scripts <- ChildScripts
  HookRuns <- NoHooks
  Forks <- SomeForks
  IsRoot = FALSE
  CanCompact = FALSE
  MaxTurns = 2
  NoLimit = NoLimit
  None = None
  Period = 1
  Window = 1
  MaxId = 5
  MaxTime = 1
  MaxRestarts = 0
PROPERTIES ShutdownCompletes EventReachesModel TimerReachesModel KilledWithWorkStops
CHECK_DEADLOCK FALSE
