SPECIFICATION Spec
CONSTANTS
    w1 = w1
    w2 = w2
    s1 = s1
    s2 = s2
    Slots = {s1, s2}
    Workers = {w1, w2}
    WorkerOf <- TwoWorkers
    Chain <- TaskTask
    HasRetryPolicy = TRUE
    MaxRetries = 1
    SignalKinds = {}
    MaxEvents = 0
    MaxAbandons = 0
    SlowWorkers = FALSE
    UseHints = FALSE
CHECK_DEADLOCK FALSE
PROPERTIES NoReexecution
