SPECIFICATION Spec
CONSTANTS
    Cases <- LoopFirstCases
    Flaky <- MCFlaky
    FirstTask <- MCFirstTask
    FirstOrNone <- MCFirstOrNone
    AllIds <- MCAllIds
    NodeById <- MCNodeById
    TasksAfter <- MCTasksAfter
    SaysAgain <- MCSaysAgain
    LoopDecision <- MCLoopDecision
    Evaluated <- MCEvaluated
INVARIANT NoRerun
CHECK_DEADLOCK FALSE
