\* A module built from calls of every file, in any order.
SPECIFICATION ModuleSpec
CONSTANTS
  Half = 256
  Cap = 14
  MaxId = 3
  MaxSpan = 1
  Lengths = {0, 1}
  Widths = {1}
  Scalars = {2}
  Literals <- MCLiterals
  Names <- MCNames
  Api = {"TypeVoid", "TypeStruct", "ConstantNull"}
  CodeMethods = {"OpLoad", "OpReturn"}
  Capabilities = {4, 5}
  Extensions <- MCExtensions
  Models <- MCModels
  MaxInstructions = 3
INVARIANTS
  ModuleTypeOK
  AssembledInOrder
  IdsDefinedOnce
  GlslImportedOnce
PROPERTIES
  SectionsStable
  Assembles
  Declares
CHECK_DEADLOCK FALSE
