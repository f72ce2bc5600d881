SPECIFICATION Spec
CONSTANT
  Sources <- MCSources
INVARIANTS
  TypeOK
  PositionsAreTrue
  TokensCoverTheSource
  TokensAreWhole
  NeverPeeksPastEnd
PROPERTY
  LexingEnds
