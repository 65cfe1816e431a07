SPECIFICATION Spec
CONSTANTS
    Cases <- ArmDelayCases
    Flaky <- MCFlaky
    FirstTask <- MCFirstTask
    FirstOrNone <- MCFirstOrNone
    AllIds <- MCAllIds
    NodeById <- MCNodeById
    TasksAfter <- MCTasksAfter
    SaysAgain <- MCSaysAgain
    LoopDecision <- MCLoopDecision
    Evaluated <- MCEvaluated
INVARIANT NotEarly
CHECK_DEADLOCK FALSE
