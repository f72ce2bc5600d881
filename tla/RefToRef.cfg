SPECIFICATION Spec
CONSTANTS
  Symbols <- MCSymbols
  IntLiterals <- MCIntLiterals
  Vocabularies <- MCVocabularies
  MaxNodes <- MCMaxNodes
  UINT8_VALUES = 4
INVARIANT
  NoReferenceToReference
