-------------------------- MODULE MCSymbolResolver --------------------------
(* The resolver on the tables of small programs: three names, one builtin.  *)
EXTENDS SymbolResolver

MCNames == {"a", "b", "i32"}
MCReadableToBuiltin == <<"i32">>

(* Single names, and paths through one module and through two.              *)
MCPaths == {<<"a">>, <<"i32">>, <<"a", "b">>, <<"b", "a">>, <<"a", "a", "b">>}
=============================================================================
