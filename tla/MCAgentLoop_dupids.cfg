SPECIFICATION Spec
CONSTANTS
  Works = {w1, w2}
  KillSignal = KillSignal
  HooksMessage = HooksMessage
  Inputs = {w1, w2}
  Scripts <- HookScripts
  HookRuns <- AllHooks
  Forks = {}
  IsRoot = TRUE
  CanCompact = FALSE
  MaxTurns = NoLimit
  NoLimit = NoLimit
  None = None
  Period = 1
  Window = 1
  MaxId = 6
  MaxTime = 0
  MaxRestarts = 0
SYMMETRY Symmetry
INVARIANTS IdsUnique
CHECK_DEADLOCK FALSE
