\* Every multiplication kernel returns the product, within its workspace.
CONSTANTS
  LimbBits = 2
  Leftovers <- MCLeftovers
  KaraOperands <- MCKaraOperands
  KaraFallback = 5
  KaraSquareCutoff = 5
  KaraOverrides = {0, 6}
  KaraPerLimb = 20
  DispOperands <- MCDispOperands
  DispKaratsuba = 3
  DispSquareLong = 4
  DispSquareKaratsuba = 6
  DispToom3 = 5
  DispZones <- MCZones
  WrapOperands <- MCWrapOperands
  WrapCutoff = 2
  WrapCyclicSizes = {6}
  WrapOverrides = {0, 1}
  ToomLimbBits = 32
  ToomOperands <- MCToomOperands
  ToomEntries = {"toom85"}
  ToomCutoffs <- MCToomCutoffs
  ToomOverrides = {0}
  WsProducts <- MCWsProducts
  WsCutoffs <- MCWsCutoffs
  WsSquareCutoffs <- MCWsSquareCutoffs
  WsStack = 300
  WsTrimmed <- MCWsTrimmed
SPECIFICATION Spec
INVARIANTS
  KaratsubaProduct
  SlicedProduct
  LastPieceShort
  WrappedProduct
  ToomStepsExact
  ToomProduct
  WorkspaceFits
PROPERTIES
  MultiplyReturns
