SPECIFICATION FairSpec
CONSTANTS
    w1 = w1
    w2 = w2
    s1 = s1
    s2 = s2
    Slots = {s1, s2}
    Workers = {w1, w2}
    WorkerOf <- TwoWorkers
    Chain <- TaskDelayTask
    HasRetryPolicy = TRUE
    MaxRetries = 1
    SignalKinds = {"Cancel"}
    MaxEvents = 0
    MaxAbandons = 2
    SlowWorkers = FALSE
    UseHints = TRUE
CHECK_DEADLOCK FALSE
PROPERTIES TerminatesUndisturbed AllTasksDone CancelSeenUndisturbed
