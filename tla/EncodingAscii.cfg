\* Strings of up to nine bytes that are not negative, and literals.
SPECIFICATION Spec
CONSTANTS
  Bytes = 8
  SignedChar = TRUE
  Strings <- MCAscii
  Literals <- MCLiterals
INVARIANTS
  TypeOK
  StringFits
  StringReadsBack
  LiteralReadsBack
PROPERTY Returns
CHECK_DEADLOCK FALSE
