SPECIFICATION FairSpec
CONSTANTS
  Run = "run"
  MaxRequests = 6
  Scenarios <- AllScenarios
INVARIANTS TypeOK RetriesStepOnce SamplersAreNotOlder LedgerIsExact
PROPERTIES EveryRequestIsAnswered
CHECK_DEADLOCK FALSE
