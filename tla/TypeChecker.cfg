SPECIFICATION Spec
CONSTANTS
  Symbols <- MCSymbols
  IntLiterals <- MCIntLiterals
  Vocabularies <- MCVocabularies
  MaxNodes <- MCMaxNodes
  UINT8_VALUES = 4
INVARIANTS
  TypeOK
  NoPointerToReference
  LvaluesAreObjects
  MutableAsDeclared
  LiteralsFit
  ShapeMatches
  PrivateStaysInside
  FailsOnlyOn
