SPECIFICATION FairSpec
CONSTANTS
  Procs = {"p", "q"}
  NoProc = "none"
  PipeCap = 1
  Plays <- SomePlays
CHECK_DEADLOCK FALSE
INVARIANTS PreviewExact StatusMatchesReport InputBeforeEnd
PROPERTIES ProcessesReported
