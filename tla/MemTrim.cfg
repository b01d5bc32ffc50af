SPECIFICATION Spec
CONSTANTS
  MEM_SIZE = 16
  HDR = 1
  MIN_SIZE = 2
  Sizes = {1, 2, 3, 4, 5}
INVARIANTS TrimAssertion
CHECK_DEADLOCK FALSE
