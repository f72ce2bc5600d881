SPECIFICATION Spec
CONSTANTS
  Names <- MCNames
  ReadableToBuiltin <- MCReadableToBuiltin
  MaxSymbols = 6
  MaxScopes = 4
  MaxDepth = 4
INVARIANTS
  TypeOK
  ScopeTree
  BindingsAgree
  OwnersAgree
  VariablesHideNothingEarlier
  FramesNest
PROPERTY
  TableOnlyGrows
