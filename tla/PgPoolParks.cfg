SPECIFICATION Spec
CONSTANTS
    w1 = w1
    w2 = w2
    s1 = s1
    s2 = s2
    Slots = {s1, s2}
    Workers = {w1, w2}
    WorkerOf <- TwoWorkers
    Chain <- TaskDelayTaskSignalTask
    HasRetryPolicy = FALSE
    MaxRetries = 1
    SignalKinds = {"Cancel"}
    MaxEvents = 2
    MaxAbandons = 1
    SlowWorkers = TRUE
    UseHints = FALSE
CHECK_DEADLOCK FALSE
INVARIANTS SnapshotsCoherent CompletedMeansDone InputIsDurable NoPhantomTask NoStrandedEvent
PROPERTIES TerminalIsFinal DelayHonoured
