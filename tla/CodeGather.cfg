\* OpImageSparseGather and OpImageSparseDrefGather do not count the mask.
SPECIFICATION Spec
CONSTANTS
  Half = 256
  Cap = 15
  MaxId = 3
  MaxBlocks = 1
  MaxNesting = 0
  Structured = TRUE
  Lengths <- MCLengths
  Widths <- OneWord
  Api = {"OpImageSparseGather", "OpImageSparseDrefGather", "OpReturn"}
PROPERTY OnlyValuesChange
CHECK_DEADLOCK FALSE
