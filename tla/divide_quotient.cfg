\* The approximate quotient is accepted although it may be one too large.
CONSTANTS
  AqOperands <- MCAqOperands
SPECIFICATION Spec
INVARIANTS
  QuotientIsExact
CHECK_DEADLOCK FALSE
