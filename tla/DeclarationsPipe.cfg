\* OpTypePipe reserves one word less than it writes.
SPECIFICATION Spec
CONSTANTS
  Half = 64
  Cap = 12
  MaxId = 3
  MaxSpan = 1
  Scalars = {2}
  Literals <- MCLiterals
  Names <- MCNames
  Api = {"TypeVoid", "TypePipe"}
INVARIANT EntriesEmitted
CHECK_DEADLOCK FALSE
