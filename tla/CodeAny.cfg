\* A client that defers a phi anywhere in a block.
SPECIFICATION Spec
CONSTANTS
  Half = 256
  Cap = 15
  MaxId = 3
  MaxBlocks = 2
  MaxNesting = 0
  Structured = FALSE
  Lengths <- MCLengths
  Widths <- OneWord
  Api <- SlackApi
INVARIANT AssertHolds
CHECK_DEADLOCK FALSE
