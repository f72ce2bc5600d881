--------------------------- MODULE MCTypeChecker ----------------------------
(* Programs in which references, pointers, literals, arrays, structs and    *)
(* private members meet in small function bodies.                           *)
EXTENDS TypeChecker, TLC

Module(decls) == [sym_type |-> "MODULE", decls |-> decls, scope |-> "none"]
Container(sym_type, decls, is_pub, scope) ==
  [sym_type |-> sym_type, decls |-> decls, is_pub |-> is_pub, scope |-> scope]
Field(name, type, mutable, is_pub, scope) ==
  [sym_type |-> "FIELD", name |-> name, type |-> type, mutable |-> mutable,
   is_pub |-> is_pub, scope |-> scope, has_init |-> FALSE]
Function(receiver, params, ret_type, scope) ==
  [sym_type |-> "FN", receiver |-> receiver, params |-> params, ret_type |-> ret_type,
   scope |-> scope]
Main(scope) == Function(NullType, <<>>, <<Named("void")>>, scope)
Variable(type, mutable) == [sym_type |-> "VAR", type |-> type, mutable |-> mutable, scope |-> "main"]
Param(type, mutable, passed_by_copy) ==
  [sym_type |-> "PARAM", type |-> type, mutable |-> mutable, scope |-> "main",
   passed_by_copy |-> passed_by_copy]

I32 == Named("i32")
OpaquePtr == BuiltinPtr("opaque_ptr")

(* Local variables, the last with types that are refused.                   *)
Locals ==
  [x   |-> Variable(<<I32>>, TRUE),
   y   |-> Variable(<<I32>>, FALSE),
   b   |-> Variable(<<Named("u8")>>, TRUE),
   w   |-> Variable(<<Named("i16")>>, TRUE),
   ok  |-> Variable(<<Named("bool")>>, TRUE),
   p   |-> Variable(<<Ptr(TRUE), I32>>, FALSE),
   q   |-> Variable(<<Ptr(FALSE), I32>>, TRUE),
   r   |-> Variable(<<Ref(TRUE), I32>>, FALSE),
   rp  |-> Variable(<<Ref(FALSE), Ptr(TRUE), I32>>, FALSE),
   o   |-> Variable(<<OpaquePtr>>, TRUE),
   op  |-> Variable(<<Ptr(TRUE), OpaquePtr>>, TRUE),
   a   |-> Variable(<<Arr(<<2, 1>>), I32>>, TRUE),
   ar  |-> Variable(<<Arr(<<1>>), Ref(TRUE), I32>>, TRUE),
   ao  |-> Variable(<<Arr(<<1, 1>>), OpaquePtr>>, TRUE),
   a3  |-> Variable(<<Arr(<<1, 2, 1>>), I32>>, TRUE),
   a0  |-> Variable(<<Arr(<<>>), I32>>, FALSE),
   mr  |-> Variable(<<Ref(TRUE), I32>>, TRUE),
   pr  |-> Variable(<<Ptr(TRUE), Ref(TRUE), I32>>, TRUE),
   no  |-> Variable(<<Named("main")>>, TRUE),
   s   |-> Variable(<<Named("S")>>, TRUE),
   t   |-> Variable(<<Named("T")>>, TRUE),
   sp  |-> Variable(<<Ptr(FALSE), Named("S")>>, FALSE),
   c   |-> Variable(<<Named("C")>>, FALSE),
   cp  |-> Variable(<<Ptr(TRUE), Named("C")>>, FALSE),
   self  |-> Param(<<Ref(TRUE), Named("C")>>, FALSE, FALSE),
   byval |-> Param(<<Named("C")>>, TRUE, TRUE)]

(* A function alone; a struct and one with a struct inside; a component     *)
(* with private members, used from inside, from deeper inside, from outside *)
(* and from a module below.                                                 *)
Programs ==
  [M |-> Module(<<"main">>), main |-> Main("M"),
   N |-> Module(<<"S", "T", "user">>), user |-> Main("N"),
   S |-> Container("STRUCT", <<"S_a", "S_next">>, TRUE, "N"),
   S_a |-> Field("a", <<Named("u8")>>, TRUE, TRUE, "S"),
   S_next |-> Field("next", <<Ptr(TRUE), Named("S")>>, FALSE, TRUE, "S"),
   T |-> Container("STRUCT", <<"T_a", "U">>, TRUE, "N"),
   T_a |-> Field("a", <<Named("u8")>>, TRUE, TRUE, "T"),
   U |-> Container("STRUCT", <<>>, TRUE, "T"),
   A |-> Module(<<"G", "C", "outside", "B">>),
   G |-> Field("G", <<I32>>, TRUE, FALSE, "A"),
   C |-> Container("COMPONENT", <<"C_v", "C_w", "P", "inside", "D">>, TRUE, "A"),
   C_v |-> Field("v", <<I32>>, TRUE, FALSE, "C"),
   C_w |-> Field("w", <<I32>>, FALSE, TRUE, "C"),
   P |-> Container("STRUCT", <<>>, FALSE, "C"),
   inside |-> Function(<<Ref(TRUE), Named("C")>>, <<"self", "byval">>, <<I32>>, "C"),
   D |-> Container("COMPONENT", <<"deeper">>, TRUE, "C"), deeper |-> Main("D"),
   outside |-> Main("A"),
   B |-> [Module(<<"H", "below">>) EXCEPT !.scope = "A"], below |-> Main("B"),
   H |-> Field("H", <<I32>>, TRUE, FALSE, "B")]

(* Declarations that are refused, each in a module of its own.              *)
Refused ==
  [F1 |-> Module(<<"f1">>), f1 |-> [Field("f1", <<I32>>, TRUE, TRUE, "F1") EXCEPT !.has_init = TRUE],
   F2 |-> Module(<<"f2">>), f2 |-> Field("f2", <<Ptr(TRUE), Ref(FALSE), I32>>, TRUE, TRUE, "F2"),
   P1 |-> Module(<<"g1">>), g1 |-> Function(NullType, <<"p1">>, <<I32>>, "P1"),
   p1 |-> Param(<<Arr(<<2>>), I32>>, FALSE, TRUE),
   P2 |-> Module(<<"g2">>), g2 |-> Function(NullType, <<"p2">>, <<I32>>, "P2"),
   p2 |-> Param(<<I32>>, FALSE, FALSE),
   P3 |-> Module(<<"g3">>), g3 |-> Function(NullType, <<"p3">>, <<I32>>, "P3"),
   p3 |-> Param(<<Ref(TRUE), I32>>, TRUE, FALSE),
   P4 |-> Module(<<"g4">>), g4 |-> Function(NullType, <<"p4">>, <<I32>>, "P4"),
   p4 |-> Param(<<Ref(TRUE), Named("main")>>, FALSE, FALSE),
   R1 |-> Module(<<"h1">>), h1 |-> Function(<<Ref(TRUE), Named("C")>>, <<>>, <<I32>>, "R1"),
   R2 |-> Module(<<"K2">>), K2 |-> Container("COMPONENT", <<"h2">>, TRUE, "R2"),
   h2 |-> Function(<<Named("K2")>>, <<>>, <<I32>>, "K2"),
   R3 |-> Module(<<"K3">>), K3 |-> Container("COMPONENT", <<"h3">>, TRUE, "R3"),
   h3 |-> Function(<<Ref(TRUE), Named("C")>>, <<>>, <<I32>>, "K3")]

MCSymbols == Locals @@ Programs @@ Refused

Value(negative, bits) == [negative |-> negative, bits |-> bits]
MCIntLiterals ==
  "0" :> Value(FALSE, 0) @@ "-1" :> Value(TRUE, 0) @@ "127" :> Value(FALSE, 7)
  @@ "255" :> Value(FALSE, 8) @@ "300" :> Value(FALSE, 9) @@ "-129" :> Value(TRUE, 8)
  @@ "2^64-1" :> Value(FALSE, 64) @@ "2^64" :> Value(FALSE, 65)

Nodes(kind, data) == {<<kind, d>> : d \in data}
Plain(kinds) == {<<k>> : k \in kinds}

ReferencesNodes ==
  {<<"MODULE", "M">>, <<"EXPR">>}
  \cup Nodes("IDENTIFIER", {"x", "y", "q", "r", "rp", "ok"})
  \cup Nodes("UNARY", {"++", "&", "$", "*", "-"})
  \cup Plain({"ASSIGN", "TERNARY"}) \cup Nodes("BINARY", {"+"})

BindingsNodes ==
  {<<"MODULE", "M">>, <<"RETURN_NOTHING">>}
  \cup Nodes("VAR_INIT", {"y", "p", "q", "r", "rp", "mr", "pr", "no", "ok"})
  \cup Nodes("VAR_DECL", {"x", "r"})
  \cup Nodes("IDENTIFIER", {"x", "y", "p", "r", "ok"})
  \cup Nodes("UNARY", {"&", "$", "*", "!"}) \cup Nodes("BINARY", {"+", "==", "<", "&&"})

LiteralsNodes ==
  {<<"MODULE", "M">>}
  \cup Nodes("VAR_INIT", {"b", "w", "y"})
  \cup Nodes("INT_LITERAL", DOMAIN MCIntLiterals)
  \cup Nodes("BINARY", {"+", "*", "<<", "=="})

OperatorsNodes ==
  {<<"MODULE", "M">>, <<"EXPR">>}
  \cup Plain({"FLOAT_LITERAL", "CHAR_LITERAL", "BOOL_LITERAL", "TERNARY", "CALL"})
  \cup Nodes("IDENTIFIER", {"x", "b", "ok", "p", "main"})
  \cup Nodes("INT_LITERAL", {"255"})
  \cup Nodes("UNARY", {"~", "!"})
  \cup Nodes("BINARY", {"+", "*", "<<", "<", "==", "&&"})
  \cup Nodes("CAST", {<<Named("u8")>>, <<Named("void")>>, <<Ptr(TRUE), I32>>, <<OpaquePtr>>,
                      <<Ref(FALSE), I32>>, <<Ptr(FALSE), Ref(FALSE), I32>>})

NullNodes ==
  {<<"MODULE", "M">>, <<"EXPR">>}
  \cup Nodes("VAR_INIT", {"p", "o", "op"})
  \cup Plain({"STR_LITERAL", "NULLPTR_LITERAL", "BOOL_LITERAL", "TERNARY", "ASSIGN"})
  \cup Nodes("IDENTIFIER", {"o", "op", "ao", "x"})
  \cup Nodes("UNARY", {"&", "*", "$"}) \cup Nodes("BINARY", {"+", "&&", "<"})
  \cup Nodes("CAST", {<<OpaquePtr>>, <<Arr(<<1>>), I32>>}) \cup Nodes("SUBSCRIPT", {1})
  \cup Nodes(".", {"a"}) \cup Nodes("->", {"a"})

ArraysNodes ==
  {<<"MODULE", "M">>}
  \cup Nodes("VAR_INIT", {"a", "a3", "a0", "ar"})
  \cup Nodes("ARR_INIT", {1, 2}) \cup Nodes("NESTED_ARR_INIT", {1, 2})
  \cup Nodes("INT_LITERAL", {"255"}) \cup Plain({"BOOL_LITERAL"})
  \cup Nodes("IDENTIFIER", {"x"}) \cup Nodes("UNARY", {"$"})

SubscriptsNodes ==
  {<<"MODULE", "M">>, <<"EXPR">>}
  \cup Nodes("IDENTIFIER", {"a", "ar", "ao", "x"}) \cup Nodes("INT_LITERAL", {"0"})
  \cup Nodes("SUBSCRIPT", {1, 2}) \cup Nodes("UNARY", {"&", "++"}) \cup Plain({"ASSIGN"})

StructsNodes ==
  {<<"MODULE", "N">>, <<"EXPR">>}
  \cup Nodes("VAR_INIT", {"s", "t"})
  \cup Nodes("STRUCT_INIT", {<<>>, <<"a", "next">>, <<"next", "a">>})
  \cup Nodes("IDENTIFIER", {"S", "s", "sp"}) \cup Nodes("INT_LITERAL", {"0"})
  \cup Plain({"STRUCT_CREATE", "NULLPTR_LITERAL", "ASSIGN"})
  \cup Nodes(".", {"a", "x"}) \cup Nodes("->", {"a", "next"}) \cup Nodes("UNARY", {"&"})

AccessNodes ==
  {<<"MODULE", "A">>, <<"EXPR">>, <<"RETURN">>, <<"IF">>, <<"STRUCT_CREATE">>}
  \cup Nodes("IDENTIFIER", {"G", "H", "P", "C", "c", "cp", "self"})
  \cup Nodes("STRUCT_INIT", {<<>>})
  \cup Nodes(".", {"v", "w"}) \cup Nodes("->", {"v"}) \cup Nodes("UNARY", {"++"})

DeclarationsNodes ==
  Nodes("MODULE", {"F1", "F2", "P1", "P2", "P3", "P4", "R1", "R2", "R3"})
  \cup {<<"RETURN_NOTHING">>}

MCVocabularies ==
  [references |-> ReferencesNodes,
   bindings |-> BindingsNodes,
   literals |-> LiteralsNodes,
   operators |-> OperatorsNodes,
   null |-> NullNodes,
   arrays |-> ArraysNodes,
   subscripts |-> SubscriptsNodes,
   structs |-> StructsNodes,
   access |-> AccessNodes,
   declarations |-> DeclarationsNodes]

MCMaxNodes ==
  [references |-> 6,
   bindings |-> 5,
   literals |-> 6,
   operators |-> 5,
   null |-> 5,
   arrays |-> 6,
   subscripts |-> 5,
   structs |-> 5,
   access |-> 5,
   declarations |-> 5]
=============================================================================
