SPECIFICATION Spec
CONSTANT Sources <- MCSources
INVARIANTS
  TypeOK
  TokensSpellTheSource
  TokensAreWhole
PROPERTY
  LexingEnds
