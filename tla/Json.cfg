SPECIFICATION Spec
CONSTANTS
  IntMax <- MCIntMax
  Values <- MCValues
  Lexemes <- MCLexemes
  Pages <- MCPages
  PageSize = 9
  NullPtr = NullPtr
INVARIANTS
  PointersValid
  ReadBack
  PageAsWritten
  AcceptsJson
CHECK_DEADLOCK FALSE
