\* Strings with bytes that are negative as signed chars.
SPECIFICATION Spec
CONSTANTS
  Bytes = 8
  SignedChar = TRUE
  Strings <- MCUtf8
  Literals <- NoLiterals
INVARIANT StringReadsBack
CHECK_DEADLOCK FALSE
