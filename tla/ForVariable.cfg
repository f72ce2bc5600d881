SPECIFICATION ResolverSpec
CONSTANTS
  Names <- MCNames
  ReadableToBuiltin <- MCReadableToBuiltin
  Paths <- MCPaths
  NoUse = NoUse
  MaxSymbols = 5
  MaxScopes = 4
  MaxDepth = 4
INVARIANT
  ForSeesItsVariable
