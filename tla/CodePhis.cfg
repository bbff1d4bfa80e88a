\* A structured client of every method of two words or more whose reservation
\* fits, with phis of up to two values, patched at any time.
SPECIFICATION Spec
CONSTANTS
  Half = 256
  Cap = 14
  MaxId = 3
  MaxBlocks = 2
  MaxNesting = 1
  Structured = TRUE
  Lengths <- MCLengths
  Widths <- OneWord
  Api <- FittingMethods
INVARIANTS
  TypeOK
  PhisAddressed
  AssertHolds
  InBounds
  CodeReads
PROPERTIES
  OnlyValuesChange
  PatchFillsAll
  PatchReturns
CHECK_DEADLOCK FALSE
