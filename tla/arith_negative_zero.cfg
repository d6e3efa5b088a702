\* what an operator that carries leaves behind when it throws
CONSTANTS
  LimbBits = 2
  InplaceCapacity = 2
  MaxLimbs = 4
  StackLimbs = 3
  StackDividend = 3
  KernelDividend = 4
  OperandMagnitudes <- MCOperandMagnitudes
  IntegerLimbs <- MCIntegerLimbs
  MaxShift = 7
SPECIFICATION Spec
VIEW View
\* a throw ends the behaviour
CHECK_DEADLOCK FALSE
INVARIANTS
  NoNegativeZero
