SPECIFICATION Spec
CONSTANTS
  Caller = {c1}
  Given <- MCGivens
  Execution <- MCExecutions
  Decider <- MCDeciders
  Outcome <- MCOutcomes
  Backoff = 1
  MaxElapsed = 3
  MaxMessages = 2
INVARIANTS TypeOK DeadlineHolds ClientLoggedOnce NilMeansHandled LoggedAsAnswered StartedOnce
PROPERTIES RetriedWhenUnavailable CallReturns
CHECK_DEADLOCK FALSE
