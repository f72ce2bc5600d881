SPECIFICATION Spec
CONSTANTS
  Names <- MCNames
  ReadableToBuiltin <- MCReadableToBuiltin
  MaxSymbols = 5
  MaxScopes = 4
  MaxDepth = 4
INVARIANT
  ReopenedModuleKeepsItsScope
