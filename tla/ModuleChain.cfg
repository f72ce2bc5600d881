SPECIFICATION Spec
CONSTANT
  Vocabularies <- MCVocabularies
INVARIANT
  OnlyTheLastOfAChainIsFilled
