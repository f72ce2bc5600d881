--------------------------- MODULE MCSymbolTable ---------------------------
(* Values for the constants of SymbolTable: a builtin table with an alias,  *)
(* and identifiers among which a builtin name is one.                       *)
EXTENDS SymbolTable

MCReadableToBuiltin == <<"i32", "int">>
MCNames == {"a", "b", "i32", "int"}
=============================================================================
