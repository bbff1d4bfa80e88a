\* Types and constants that refer to each other, in every order, with repeats.
SPECIFICATION Spec
CONSTANTS
  Half = 64
  Cap = 16
  MaxId = 4
  MaxSpan = 2
  Scalars = {2}
  Literals <- MCLiterals
  Names <- MCNames
  Api = {"TypeVoid", "TypeInt", "TypeStruct", "Constant"}
INVARIANTS
  TypeOK
  InBounds
  EntriesEmitted
  EmittedOnce
PROPERTIES
  EmittedStable
  Interns
CHECK_DEADLOCK FALSE
