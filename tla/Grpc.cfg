SPECIFICATION FairSpec
CONSTANTS
  q1 = q1
  q2 = q2
  CallIds <- TwoCalls
  Requests <- RequestsOfCalls
  Results <- AllResults
  MaxWorkers = 1
  MaxStops = 2
INVARIANTS
  RequestsArriveAsMade
  OutcomesAreTrue
  CleanupIsComplete
PROPERTY CallsAndStopsEnd
CHECK_DEADLOCK FALSE
