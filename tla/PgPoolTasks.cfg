SPECIFICATION Spec
CONSTANTS
    w1 = w1
    w2 = w2
    s1 = s1
    s2 = s2
    Slots = {s1, s2}
    Workers = {w1, w2}
    WorkerOf <- TwoWorkers
    Chain <- TaskTaskTask
    HasRetryPolicy = TRUE
    MaxRetries = 2
    SignalKinds = {"Cancel", "Pause"}
    MaxEvents = 0
    MaxAbandons = 1
    SlowWorkers = TRUE
    UseHints = FALSE
CHECK_DEADLOCK FALSE
INVARIANTS TypeOK LeaseIsOwn NoConcurrentRun AttemptsBounded
PROPERTIES TerminalIsFinal ProgressKept ImplementsLifecycle
