\* Every division kernel returns quotient and remainder, within its workspace.
CONSTANTS
  LimbBits = 3
  KnuthOperands <- MCKnuthOperands
  KnuthApprox <- MCKnuthApprox
  BzOperands <- MCBzOperands
  BzQuotients <- MCBzQuotients
  BarOperands <- MCBarOperands
  BarWrapCutoff = 3
  DwDivisions <- MCDwDivisions
  DwBuilds <- MCDwBuilds
SPECIFICATION Spec
INVARIANTS
  SchoolbookDivision
  ApproximateDigits
  WindowsDivide
  QuotientAlone
  BarrettDivides
  DivisionScratchFits
PROPERTIES
  DivideReturns
