SPECIFICATION LiveSpec
CONSTANTS
  Cases <- MCCases
  Flaky <- MCFlaky
INVARIANTS   JoinSeesBranches NoRerun
PROPERTIES FinishedIsFinal CancelKept Ends
