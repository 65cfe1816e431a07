SPECIFICATION Spec
CONSTANTS
  Cases <- ForkCases
  Flaky <- MCFlaky
INVARIANT RunsAsDefined
