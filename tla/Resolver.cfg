SPECIFICATION ResolverSpec
CONSTANTS
  Cases <- MCCases
  Edits <- MCEdits
  ZoneLists <- MCZoneLists
  UpstreamAnswers <- MCUpstreamAnswers
  MaxLoop = 3
  MaxChanges = 1
  Failed = Failed
INVARIANTS AnswerIsChain FailureIsNotDenial LookupIsRight SelectionKeepsPromise
PROPERTIES EveryRequestAnswered
CHECK_DEADLOCK FALSE
