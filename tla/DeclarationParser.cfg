SPECIFICATION Spec
CONSTANT
  Vocabularies <- MCVocabularies
INVARIANTS
  TypeOK
  EndIsNeverConsumed
  NestingIsTrue
  PublicAsMarked
  BuilderMayWalk
PROPERTY
  ParsingEnds
