SPECIFICATION Spec
CONSTANTS
  Works = {w1}
  KillSignal = KillSignal
  HooksMessage = HooksMessage
  Inputs = {w1}
  Scripts <- TimerScripts
  HookRuns <- NoHooks
  Forks = {}
  IsRoot = TRUE
  CanCompact = TRUE
  MaxTurns = NoLimit
  NoLimit = NoLimit
  None = None
  Period = 1
  Window = 1
  MaxId = 5
  MaxTime = 2
  MaxRestarts = 1
SYMMETRY Symmetry
INVARIANTS IdsUnique FiringPending CompactionItems
CHECK_DEADLOCK FALSE
