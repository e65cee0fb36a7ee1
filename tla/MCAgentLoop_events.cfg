SPECIFICATION Spec
CONSTANTS
  Works = {w1, w2}
  KillSignal = KillSignal
  HooksMessage = HooksMessage
  Inputs = {w1, w2, HooksMessage}
  Scripts <- EventScripts
  HookRuns <- AllHooks
  Forks = {}
  IsRoot = TRUE
  CanCompact = FALSE
  MaxTurns = NoLimit
  NoLimit = NoLimit
  None = None
  Period = 1
  Window = 1
  MaxId = 4
  MaxTime = 0
  MaxRestarts = 1
SYMMETRY Symmetry
INVARIANTS TypeOK ExactlyOnePlace AnsweredOncePerLife UnrecordedOnlyByShutdown
PROPERTIES SavedUntilHandled
CHECK_DEADLOCK FALSE
