SPECIFICATION LiveSpec
CONSTANTS
    Ids = {"a", "b", "c"}
    Workers = {"w1", "w2"}
    Cases <- Starving
    Cap = 1
    Aging = 3
PROPERTY NeverStarved
CHECK_DEADLOCK FALSE
