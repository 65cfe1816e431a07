SPECIFICATION Spec
CONSTANTS
  Langs = {"rust", "js", "py"}
  Names = {"a", "a;T:b"}
  MaxCalls = 3
INVARIANTS RunsAsWritten StepperAgrees RoundTripIsExact HashSeparates ListedInRunOrder
CHECK_DEADLOCK FALSE
