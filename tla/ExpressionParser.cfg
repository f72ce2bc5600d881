SPECIFICATION Spec
CONSTANTS
  Vocabularies <- MCVocabularies
  MaxTokens <- MCMaxTokens
INVARIANTS
  TypeOK
  EndIsNeverConsumed
  TreeIsMeaning
PROPERTY
  ParsingEnds
