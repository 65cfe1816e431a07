SPECIFICATION LiveSpec
CONSTANTS
    Cases <- MCCases
    Flaky <- MCFlaky
    FirstTask <- MCFirstTask
    FirstOrNone <- MCFirstOrNone
    AllIds <- MCAllIds
    NodeById <- MCNodeById
    TasksAfter <- MCTasksAfter
    SaysAgain <- MCSaysAgain
    LoopDecision <- MCLoopDecision
    Evaluated <- MCEvaluated
INVARIANTS CompletedIsRight TrueRuns NoRerun NotEarly
PROPERTIES FinishedIsFinal Ends
CHECK_DEADLOCK FALSE
