SPECIFICATION FairSpec
CONSTANTS
  Agents = {"root", "child"}
  Root = "root"
  Parent <- Family
  ModelOf <- FamilyModels
  Body <- NewBody
  Limit <- Limits
  Bearer = TRUE
  Responses <- Replies
  TraceCap = 1
  UsageCap = 1
  MaxCalls = 1
  MaxAnswers = 3
CHECK_DEADLOCK FALSE
INVARIANTS RetryBudget RequestSupported BooksTrue
PROPERTIES CallEnds
