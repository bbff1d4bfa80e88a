\* Every method, OpTypePipe with its short reservation included.
SPECIFICATION Spec
CONSTANTS
  Half = 64
  Cap = 20
  MaxId = 3
  MaxSpan = 1
  Scalars = {2}
  Literals <- MCLiterals
  Names <- MCNames
  Api <- AllMethods
PROPERTY Interns
CHECK_DEADLOCK FALSE
