CONSTANTS
  CharIsSigned = TRUE
  Names    <- MCNames
  Values   <- MCValues
  MaxItems = 3
  MaxIndex = 3
SPECIFICATION Spec
INVARIANT BomTolerated
