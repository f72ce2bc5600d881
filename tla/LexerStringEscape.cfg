SPECIFICATION Spec
CONSTANT
  Sources <- MCSources
INVARIANT
  StringsEndAtTheirQuote
