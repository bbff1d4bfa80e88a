\* Two calls of a section whose literals may take two words.
SPECIFICATION ModuleSpec
CONSTANTS
  Half = 256
  Cap = 10
  MaxId = 2
  MaxSpan = 1
  Lengths = {0, 1}
  Widths = {1, 2}
  Scalars = {2}
  Literals <- MCLiterals
  Names <- MCNames
  Api = {"TypeVoid"}
  CodeMethods = {"OpReturn"}
  Capabilities = {4}
  Extensions <- MCExtensions
  Models <- MCModels
  MaxInstructions = 3
PROPERTY SectionsStable
CHECK_DEADLOCK FALSE
