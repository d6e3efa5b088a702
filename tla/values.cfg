\* Numeric functions, base conversion and text give exactly what they promise.
CONSTANTS
  LimbBits = 4
  NumGcds <- MCNumGcds
  NumLcms <- MCNumLcms
  NumMidpoints <- MCNumMidpoints
  NumInplace = 2
  ConvInputs <- MCConvInputs
  ConvOutputs <- MCConvOutputs
  TextPrints <- MCTextPrints
  TextStrings <- MCTextStrings
  TextParses <- MCTextParses
  PrintChunks = 4
  ParseChunks = 3
  InplaceLimbs = 2
SPECIFICATION Spec
INVARIANTS
  NumericExact
  ConversionExact
  TextExact
PROPERTIES
  GcdShrinks
