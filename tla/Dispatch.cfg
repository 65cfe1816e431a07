SPECIFICATION LiveSpec
CONSTANTS
    Ids = {"a", "b", "c"}
    Workers = {"w1", "w2"}
    Cases <- Fleets
    Cap = 1
    Aging = 3
INVARIANTS WithinCapacity NoLostWakeup
PROPERTIES AllServed ShutdownDrains
CHECK_DEADLOCK FALSE
