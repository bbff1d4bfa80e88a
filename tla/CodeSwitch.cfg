\* OpSwitch counts two words for each case, whose literal may take two alone.
SPECIFICATION Spec
CONSTANTS
  Half = 256
  Cap = 15
  MaxId = 3
  MaxBlocks = 1
  MaxNesting = 0
  Structured = TRUE
  Lengths <- MCLengths
  Widths <- AnyWidth
  Api = {"OpSwitch", "OpReturn"}
PROPERTY OnlyValuesChange
CHECK_DEADLOCK FALSE
