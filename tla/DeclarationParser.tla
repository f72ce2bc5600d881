------------------------- MODULE DeclarationParser --------------------------
(***************************************************************************)
(* The declaration, statement and type parser of the Serac compiler        *)
(* (Parser): recursive descent, one function for each construct.  What the *)
(* active calls have still to do is the sequence todo, the innermost call  *)
(* first; a function is the items that replace its own name there, chosen  *)
(* by the next token.                                                      *)
(*                                                                         *)
(* The source is not a constant: a token comes into being when the parser  *)
(* first looks at it, so the behaviours are the parses of all sources.  An *)
(* expression is always one token: "1" and "0" are integer literals, "e"   *)
(* is any other; "s{}" and "a{}" are the initializers in braces of a       *)
(* struct and of an array (parse_expression and the two initializers are   *)
(* modelled token by token in ExpressionParser).  Token indices start at 1.*)
(***************************************************************************)
EXTENDS Naturals, Sequences, SequencesExt

CONSTANTS
  Vocabularies  \* bags of tokens: a source takes its tokens from one of them

ASSUME VocabulariesAssumption == \A V \in Vocabularies : IsABag(V) /\ "eof" \notin DOMAIN V

VARIABLES
  unwritten,          \* the tokens that may still come
  tokens,             \* the tokens looked at so far
  current_token_idx,
  todo,               \* the items of the active calls, the next one first
  ast,                \* the nodes, in the order they were made
  open,               \* the nodes being filled, the innermost last
  defined_types,      \* the names handle_register_type knows
  is_pub,             \* a declaration that comes next is public
  type,               \* what parse_type_decl last returned
  status

locals == <<todo, ast, open, defined_types, is_pub, type>>
source == <<unwritten, tokens>>
vars == <<source, current_token_idx, locals, status>>

Builtins == {"i32", "opaque_ptr"}
Identifiers == {"a", "b"} \cup Builtins
Expressions == {"1", "0", "e"}

(* An AST node: its kind, the token it starts at, and the node it is in.    *)
(* The code hangs a node into its parent when the call returns; the parent  *)
(* is settled before.                                                       *)
Node(kind, into, public) ==
  [node |-> kind, pos |-> current_token_idx, into |-> into, is_pub |-> public]

(* Mutant: everything goes into the outermost node.                         *)
Outermost == IF open = <<>> THEN 0 ELSE open[1]

Innermost == IF open = <<>> THEN 0 ELSE open[Len(open)]
----------------------------------------------------------------------------
Peek == tokens[current_token_idx]
Next1 == todo[1]
At(item) == status = "parsing" /\ current_token_idx <= Len(tokens) /\ Next1 = item

Advance ==
  /\ current_token_idx' = current_token_idx + 1
  /\ UNCHANGED <<source, status>>

Stay == UNCHANGED <<source, current_token_idx, status>>

Exit ==
  /\ status' = "exited"
  /\ UNCHANGED <<source, current_token_idx, locals>>

(* The item done is replaced by these; nothing else changes, or all but     *)
(* the variables of Kept.                                                   *)
Then(items) == todo' = items \o Tail(todo)

Do(items) == Then(items) /\ UNCHANGED <<ast, open, defined_types, is_pub, type>>

DoNode(kind, public, items) ==
  /\ ast' = Append(ast, Node(kind, Innermost, public))
  /\ open' = Append(open, Len(ast) + 1)
  /\ Then(Append(items, "end"))
  /\ UNCHANGED <<defined_types, is_pub, type>>

DoPublic(public, items) ==
  /\ is_pub' = public
  /\ Then(items)
  /\ UNCHANGED <<ast, open, defined_types, type>>

DoType(kind, items) ==
  /\ type' = kind
  /\ Then(items)
  /\ UNCHANGED <<ast, open, defined_types, is_pub>>

(* The calls the rest of the compiler makes: parse, with the builtin types  *)
(* registered.                                                              *)
Init ==
  /\ unwritten \in Vocabularies
  /\ tokens = <<>>
  /\ current_token_idx = 1
  /\ todo = <<"file">>
  /\ ast = <<>> /\ open = <<>>
  /\ defined_types = Builtins
  /\ is_pub = FALSE
  /\ type = "none"
  /\ status = "parsing"

(* The source has one more token, the one at current_token_idx.             *)
NextToken ==
  /\ status = "parsing" /\ current_token_idx > Len(tokens)
  /\ \/ \E tok \in DOMAIN unwritten :
          /\ unwritten[tok] > 0
          /\ tokens' = Append(tokens, tok)
          /\ unwritten' = [unwritten EXCEPT ![tok] = @ - 1]
     \/ tokens' = Append(tokens, "eof") /\ UNCHANGED unwritten
  /\ UNCHANGED <<current_token_idx, locals, status>>

----------------------------------------------------------------------------
(* expect *)
Expected(item) ==
  CASE item = "name" -> Identifiers
    [] item = "expression" -> Expressions
    [] OTHER -> {item}

Punctuation == {"{", "}", "(", ")", "]", ":", ";", "->", "s{}", "a{}"}

(* Mutant: a token that is not the one expected is skipped.                 *)
ExpectAnything ==
  /\ \E item \in Punctuation \cup {"name", "expression"} : At(item)
  /\ Advance /\ Do(<<>>)

Expect ==
  /\ \E item \in Punctuation \cup {"name", "expression"} : At(item)
  /\ IF Peek \in Expected(Next1) THEN Advance /\ Do(<<>>) ELSE Exit

(* consume_if, where nothing depends on the answer                          *)
OptionalToken ==
  [item \in {"mut?", "::?", ";?"} |->
     CASE item = "mut?" -> "mut" [] item = "::?" -> "::" [] OTHER -> ";"]

ConsumeIf ==
  /\ \E item \in DOMAIN OptionalToken : At(item)
  /\ IF Peek = OptionalToken[Next1] THEN Advance ELSE Stay
  /\ Do(<<>>)

(* The node on top is complete.                                             *)
EndNode ==
  /\ status = "parsing" /\ Next1 = "end"
  /\ open' = SubSeq(open, 1, Len(open) - 1)
  /\ Then(<<>>)
  /\ UNCHANGED <<source, current_token_idx, ast, defined_types, is_pub, type, status>>

----------------------------------------------------------------------------
(* parse and parse_top_level.  At the end of the source a null pointer is   *)
(* returned, also after "pub", which ends the file and is an error in a     *)
(* module.                                                                  *)
File ==
  /\ At("file")
  /\ Stay /\ Do(<<"top_level", "file">>)

ParseTopLevel ==
  /\ At("top_level")
  /\ IF Peek = "pub" THEN Advance ELSE Stay
  /\ DoPublic(Peek = "pub", <<"declaration">>)

EndOfFile ==
  /\ At("declaration") /\ Peek = "eof"
  /\ status' = (IF todo[2] = "file" THEN "done" ELSE "exited")
  /\ UNCHANGED <<source, current_token_idx, locals>>

ParseDeclaration ==
  \/ /\ At("declaration") /\ Peek = "module" /\ ~is_pub
     /\ Advance /\ Do(<<"module">>)
  \/ /\ At("declaration") /\ Peek = "fn"
     /\ Stay /\ Do(<<"function">>)
  \/ /\ At("declaration") /\ Peek = "type"
     /\ Advance /\ Do(<<"container">>)
  \/ /\ At("declaration") /\ Peek \in Identifiers \cup {"mut"}
     /\ Stay /\ Do(<<"field">>)
  \/ /\ At("declaration") /\ Peek = "module" /\ is_pub
     /\ Exit
  \/ /\ At("declaration")
     /\ Peek \notin {"eof", "module", "fn", "type", "mut"} \cup Identifiers
     /\ Exit

(* parse_module.  A chain A::B makes a module in a module, but the first    *)
(* stays the one that is filled.                                            *)
ParseModule ==
  /\ At("module")
  /\ Stay
  /\ DoNode("MODULE", FALSE, <<"name", "chain", "{", "module_body", "}">>)

ParseChain ==
  \/ /\ At("chain") /\ Peek = "::"
     /\ Advance /\ Do(<<"chain_module", "name", "chain">>)
  \/ /\ At("chain") /\ Peek # "::"
     /\ Stay /\ Do(<<>>)

(* Mutant: module_to_fill moves on before the new module is pushed into it. *)
ChainModuleIntoItself ==
  /\ At("chain_module")
  /\ ast' = Append(ast, Node("MODULE", Len(ast) + 1, FALSE))
  /\ Then(<<>>)
  /\ Stay /\ UNCHANGED <<open, defined_types, is_pub, type>>

ChainModule ==
  /\ At("chain_module")
  /\ ast' = Append(ast, Node("MODULE", Len(ast), FALSE))
  /\ Then(<<>>)
  /\ Stay /\ UNCHANGED <<open, defined_types, is_pub, type>>

(* Mutant: the loop does not notice the end of the source.                  *)
ParseModuleBodyForever ==
  /\ At("module_body")
  /\ Stay
  /\ Do(CASE Peek = "}" -> <<>>
          [] Peek = "eof" -> <<"module_body">>
          [] OTHER -> <<"top_level", "module_body">>)

ParseModuleBody ==
  /\ At("module_body")
  /\ Stay
  /\ Do(IF Peek = "}" THEN <<>> ELSE <<"top_level", "module_body">>)

----------------------------------------------------------------------------
(* parse_function *)
ParseFunction ==
  /\ At("function")
  /\ Advance
  /\ DoNode("FUNCTION", is_pub,
            <<"receiver", "name", "(", "params", "->", "type_decl", "scope">>)

ParseReceiver ==
  /\ At("receiver")
  /\ IF Peek = "(" THEN Advance /\ Do(<<"name", ":", "type_decl", ")">>)
                   ELSE Stay /\ Do(<<>>)

ParseParams ==
  \/ /\ At("params")
     /\ IF Peek = ")" THEN Advance /\ Do(<<>>) ELSE Stay /\ Do(<<"param", "more_params">>)
  \/ /\ At("more_params") /\ Peek = ","
     /\ Advance /\ Do(<<"not_last", "params">>)
  \/ /\ At("more_params") /\ Peek # ","
     /\ Stay /\ Do(<<")">>)
  \/ /\ At("not_last")
     /\ IF Peek = ")" THEN Exit ELSE Stay /\ Do(<<>>)

(* parse_param: a copy of a reference is refused.                           *)
ParseParam ==
  \/ /\ At("param")
     /\ Stay /\ Do(<<"mut?", "name", ":", "val?", "type_decl">>)
  \/ /\ At("val?")
     /\ IF Peek = "val" THEN Advance /\ Do(<<"not_ref">>) ELSE Stay /\ Do(<<>>)
  \/ /\ At("not_ref")
     /\ IF Peek = "ref" THEN Exit ELSE Stay /\ Do(<<>>)

----------------------------------------------------------------------------
(* parse_struct, where only a struct is called for, and parse_component     *)
ParseContainer ==
  \/ /\ At("struct") \/ At("container")
     /\ Peek = "struct"
     /\ Advance /\ DoNode("STRUCT", is_pub, <<"type_name", "{", "struct_body", "}">>)
  \/ /\ At("container") /\ Peek = "component"
     /\ Advance /\ DoNode("COMPONENT", is_pub, <<"type_name", "{", "component_body", "}">>)
  \/ /\ At("container") /\ Peek \notin {"struct", "component"}
     /\ Exit
  \/ /\ At("struct") /\ Peek # "struct"
     /\ Exit

(* handle_register_type.  Mutant: a name may be registered again.           *)
RegisterTypeAgain ==
  /\ At("type_name")
  /\ IF Peek \in Identifiers
     THEN /\ defined_types' = defined_types \cup {Peek}
          /\ Advance /\ Then(<<>>) /\ UNCHANGED <<ast, open, is_pub, type>>
     ELSE Exit

RegisterType ==
  /\ At("type_name")
  /\ IF Peek \in Identifiers \ defined_types
     THEN /\ defined_types' = defined_types \cup {Peek}
          /\ Advance /\ Then(<<>>) /\ UNCHANGED <<ast, open, is_pub, type>>
     ELSE Exit

(* Everything in a struct is public.                                        *)
ParseStructBody ==
  \/ /\ At("struct_body") /\ Peek = "}"
     /\ Stay /\ Do(<<>>)
  \/ /\ At("struct_body") /\ Peek = "eof"
     /\ Exit
  \/ /\ At("struct_body") /\ Peek = "type"
     /\ Advance /\ DoPublic(TRUE, <<"struct", "struct_body">>)
  \/ /\ At("struct_body") /\ Peek \notin {"}", "eof", "type"}
     /\ Stay /\ DoPublic(TRUE, <<"field", "struct_body">>)

(* Mutant: "pub" holds for all members after it.                            *)
ParseComponentBodyPublicOnce ==
  \/ /\ At("component_body") /\ Peek = "}"
     /\ Stay /\ Do(<<>>)
  \/ /\ At("component_body") /\ Peek = "pub"
     /\ Advance /\ DoPublic(TRUE, <<"member", "component_body">>)
  \/ /\ At("component_body") /\ Peek \notin {"}", "pub"}
     /\ Stay /\ Do(<<"member", "component_body">>)

ParseComponentBody ==
  \/ /\ At("component_body") /\ Peek = "}"
     /\ Stay /\ Do(<<>>)
  \/ /\ At("component_body") /\ Peek # "}"
     /\ IF Peek = "pub" THEN Advance ELSE Stay
     /\ DoPublic(Peek = "pub", <<"member", "component_body">>)

ParseMember ==
  \/ /\ At("member") /\ Peek = "type"
     /\ Advance /\ Do(<<"container">>)
  \/ /\ At("member") /\ Peek # "type"
     /\ Stay /\ Do(<<IF Peek = "fn" THEN "function" ELSE "field">>)

(* parse_field *)
ParseField ==
  \/ /\ At("field")
     /\ Stay /\ DoNode("FIELD", is_pub, <<"mut?", "name", ":", "type_decl", "field_init", ";">>)
  \/ /\ At("field_init")
     /\ IF Peek = "=" THEN Advance /\ Do(<<"expression">>) ELSE Stay /\ Do(<<>>)

----------------------------------------------------------------------------
(* parse_scope *)
ParseScope ==
  \/ /\ At("scope")
     /\ Stay /\ Do(<<"{", "statements", "}">>)
  \/ /\ At("statements") /\ Peek = "}"
     /\ Stay /\ Do(<<>>)
  \/ /\ At("statements") /\ Peek = "eof"
     /\ Exit
  \/ /\ At("statements") /\ Peek \notin {"}", "eof"}
     /\ Stay /\ Do(<<"statement", "statements">>)

(* parse_statement *)
ParseStatement ==
  \/ /\ At("statement") /\ Peek = "type"
     /\ Advance /\ DoPublic(TRUE, <<"container">>)
  \/ /\ At("statement") /\ Peek = "ret"
     /\ Advance /\ DoNode("RET", FALSE, <<"ret_expr", ";">>)
  \/ /\ At("statement") /\ Peek = "if"
     /\ Advance /\ DoNode("IF", FALSE, <<"(", "expression", ")", "scope", "else_branch">>)
  \/ /\ At("statement") /\ Peek = "while"
     /\ Advance /\ DoNode("WHILE", FALSE, <<"(", "expression", ")", "scope">>)
  \/ /\ At("statement") /\ Peek = "for"
     /\ Advance
     /\ DoNode("FOR", FALSE,
               <<"(", "for_init", "for_condition", "for_increment", ")", "scope">>)
  \/ /\ At("statement") /\ Peek = "{"
     /\ Stay /\ DoNode("BLOCK", FALSE, <<"scope">>)
  \/ /\ At("statement") /\ Peek \in Expressions
     /\ Stay /\ DoNode("EXPR", FALSE, <<"expression", ";">>)
  \/ /\ At("statement")
     /\ Peek \notin {"let", "type", "ret", "if", "while", "for", "{"} \cup Expressions
     /\ Exit

ReturnExpression ==
  /\ At("ret_expr")
  /\ Stay /\ Do(IF Peek = ";" THEN <<>> ELSE <<"expression">>)

ElseBranch ==
  \/ /\ At("else_branch")
     /\ IF Peek = "else" THEN Advance /\ Do(<<"else_body">>) ELSE Stay /\ Do(<<>>)
  \/ /\ At("else_body") /\ Peek = "if"
     /\ Stay /\ Do(<<"statement">>)
  \/ /\ At("else_body") /\ Peek # "if"
     /\ Stay /\ DoNode("BLOCK", FALSE, <<"scope">>)

(* The init of a for statement consumes its own semicolon, or does not.     *)
ForParts ==
  \/ /\ At("for_init")
     /\ Stay /\ Do(IF Peek = ";" THEN <<";?">> ELSE <<"statement", ";?">>)
  \/ /\ At("for_condition")
     /\ Stay /\ Do(IF Peek = ";" THEN <<";">> ELSE <<"expression", ";">>)
  \/ /\ At("for_increment")
     /\ Stay /\ Do(IF Peek = ")" THEN <<>> ELSE <<"expression">>)

(* parse_var_decl_stmt.  The type decides which initializer in braces is    *)
(* called for; a null type is followed.                                     *)
ParseVarDecl ==
  \/ /\ At("statement") /\ Peek = "let"
     /\ Advance /\ Do(<<"var_decl">>)
  \/ /\ At("var_decl")
     /\ Stay /\ DoNode("LET", FALSE, <<"mut?", "name", ":", "type_decl", "var_init", ";">>)
  \/ /\ At("var_init")
     /\ IF Peek = "=" THEN Advance /\ Do(<<"init_expr">>) ELSE Stay /\ Do(<<>>)
  \/ /\ At("init_expr") /\ Peek \notin {"s{}", "a{}"}
     /\ Stay /\ Do(<<"expression">>)
  \/ /\ At("init_expr") /\ Peek \in {"s{}", "a{}"} /\ type # "null"
     /\ Stay /\ Do(<<IF type = "NAMED" THEN "s{}" ELSE "a{}">>)
  \/ /\ At("init_expr") /\ Peek \in {"s{}", "a{}"} /\ type = "null"
     /\ status' = "null_type_read"
     /\ UNCHANGED <<source, current_token_idx, locals>>

----------------------------------------------------------------------------
(* parse_type_decl *)
ParseTypeDecl ==
  /\ At("type_decl")
  /\ Stay /\ Do(<<"::?", "type_kind">>)

ParseTypeKind ==
  \/ /\ At("type_kind") /\ Peek = "opaque_ptr"
     /\ Advance /\ DoType("PTR", <<>>)
  \/ /\ At("type_kind") /\ Peek \in Identifiers \ {"opaque_ptr"}
     /\ Advance /\ DoType("NAMED", <<"type_path">>)
  \/ /\ At("type_kind") /\ Peek = "*"
     /\ Advance /\ Do(<<"mut?", "type_decl", "end_ptr">>)
  \/ /\ At("type_kind") /\ Peek = "ref"
     /\ Advance /\ Do(<<"mut?", "type_decl", "end_ref">>)
  \/ /\ At("type_kind") /\ Peek = "fn"
     /\ Advance /\ Do(<<"fn_ptr">>)
  \/ /\ At("type_kind") /\ Peek = "["
     /\ Advance /\ Do(<<"type_decl", "]", "array_sizes">>)
  \/ /\ At("type_kind") /\ Peek \notin Identifiers \cup {"*", "ref", "fn", "["}
     /\ Exit

ParseTypePath ==
  /\ At("type_path")
  /\ IF Peek = "::" THEN Advance /\ Do(<<"name", "type_path">>) ELSE Stay /\ Do(<<>>)

(* A null type makes the type around it null, but for an array's.           *)
EndPointer ==
  /\ At("end_ptr")
  /\ Stay /\ DoType(IF type = "null" THEN "null" ELSE "PTR", <<>>)

EndReference ==
  /\ At("end_ref")
  /\ IF type = "REF" THEN Exit
     ELSE Stay /\ DoType(IF type = "null" THEN "null" ELSE "REF", <<>>)

(* The two parentheses, the parameters, and an arrow that must and must not *)
(* follow: what is returned is null.                                        *)
ParseFunctionPointer ==
  \/ /\ At("fn_ptr") \/ At("fn_ptr_params")
     /\ Peek = "("
     /\ Advance
     /\ Do(IF At("fn_ptr") THEN <<"fn_ptr_params">> ELSE <<"param", "fn_ptr_more">>)
  \/ /\ At("fn_ptr_more") /\ Peek = ","
     /\ Advance /\ Do(<<"param", "fn_ptr_more">>)
  \/ /\ At("fn_ptr_more") /\ Peek = ")"
     /\ Advance /\ Do(<<"fn_ptr_arrow">>)
  \/ /\ \/ (At("fn_ptr") \/ At("fn_ptr_params")) /\ Peek # "("
        \/ At("fn_ptr_more") /\ Peek \notin {",", ")"}
        \/ At("fn_ptr_arrow") /\ Peek = "->"
     /\ Stay /\ DoType("null", <<>>)
  \/ /\ At("fn_ptr_arrow") /\ Peek # "->"
     /\ Exit

(* The size of an array: an integer literal that is not 0.  The value of    *)
(* any other expression is an empty optional, and is taken.                 *)
ParseArraySizes ==
  \/ /\ At("array_sizes") /\ Peek = "["
     /\ Advance /\ Do(<<"array_size", "]", "array_sizes">>)
  \/ /\ At("array_sizes") /\ Peek # "["
     /\ Stay /\ DoType("ARRAY", <<>>)
  \/ /\ At("array_size") /\ Peek = "1"
     /\ Advance /\ Do(<<>>)
  \/ /\ At("array_size") /\ Peek \notin {"1", "e"}
     /\ Exit
  \/ /\ At("array_size") /\ Peek = "e"
     /\ status' = "bad_optional_access"
     /\ UNCHANGED <<source, current_token_idx, locals>>

Step ==
  \/ NextToken \/ Expect \/ ConsumeIf \/ EndNode
  \/ File \/ ParseTopLevel \/ EndOfFile \/ ParseDeclaration
  \/ ParseModule \/ ParseChain \/ ChainModule \/ ParseModuleBody
  \/ ParseFunction \/ ParseReceiver \/ ParseParams \/ ParseParam
  \/ ParseContainer \/ RegisterType \/ ParseStructBody \/ ParseComponentBody
  \/ ParseMember \/ ParseField
  \/ ParseScope \/ ParseStatement \/ ReturnExpression \/ ElseBranch \/ ForParts
  \/ ParseVarDecl
  \/ ParseTypeDecl \/ ParseTypeKind \/ ParseTypePath \/ EndPointer \/ EndReference
  \/ ParseFunctionPointer \/ ParseArraySizes

Ended == status # "parsing" /\ UNCHANGED vars

Next == Step \/ Ended

(* The parser is one sequential call.                                       *)
Spec == Init /\ [][Next]_vars /\ WF_vars(Step)
----------------------------------------------------------------------------
NodeKinds == {"MODULE", "FUNCTION", "STRUCT", "COMPONENT", "FIELD", "RET", "IF", "WHILE",
              "FOR", "BLOCK", "EXPR", "LET"}

TypeOK ==
  /\ current_token_idx \in 1 .. (Len(tokens) + 1)
  /\ status \in {"parsing", "done", "exited", "null_type_read", "bad_optional_access"}
  /\ type \in {"none", "null", "NAMED", "PTR", "REF", "ARRAY"}
  /\ is_pub \in BOOLEAN
  /\ defined_types \subseteq Identifiers
  /\ todo # <<>>
  /\ \A k \in DOMAIN ast : /\ ast[k].node \in NodeKinds
                           /\ ast[k].pos \in 1 .. current_token_idx
                           /\ ast[k].into \in 0 .. (k - 1)
  /\ \A i \in DOMAIN open : open[i] \in DOMAIN ast

(* The end of the source is never consumed: tokens.at would throw at the    *)
(* next look.  Each loop over declarations, members, statements, parameters *)
(* and sizes notices it, or something it calls does.                        *)
EndIsNeverConsumed ==
  \A i \in DOMAIN tokens : tokens[i] = "eof" => i >= current_token_idx

(* Where a node belongs, read off the tokens alone: to the node whose       *)
(* brace or parenthesis is the innermost around it; a module in a chain to  *)
(* the one before it; and what follows "else" to the last "if" beside it.   *)
Before(p) == IF p > 1 THEN tokens[p - 1] ELSE "{"
Greatest(S) == CHOOSE k \in S : \A l \in S : l <= k

(* A function's type opens parentheses it need not close: they do not count. *)
OpensType(o) ==
  \E i \in 2 .. (o - 1) : /\ tokens[i] = "fn"
                         /\ Before(i) \in {":", "::", "->", "*", "ref", "mut", "val", "["}
                         /\ \A j \in (i + 1) .. o : tokens[j] = "("
Opens(o) == tokens[o] = "{" \/ (tokens[o] = "(" /\ ~OpensType(o))
Closes(c) == tokens[c] \in {"}", ")"}


(* The innermost bracket that is open before p, 0 if there is none.         *)
Bracket(p) ==
  LET opened[i \in 1 .. p] ==
        IF i = 1 THEN <<0>>
        ELSE LET upto == opened[i - 1] IN
             CASE Opens(i - 1) -> Append(upto, i - 1)
               [] Closes(i - 1) -> SubSeq(upto, 1, Len(upto) - 1)
               [] OTHER -> upto
  IN  Last(opened[p])

BesideUpTo(o) == {j \in DOMAIN ast : /\ ast[j].pos <= o
                                     /\ Bracket(ast[j].pos) = Bracket(o)}

(* The nodes that were begun before node k, and the last of a set of them.  *)
ParentIn(k, S) == Greatest({0} \cup {j \in S : j < k})

Parent(k) ==
  LET p == ast[k].pos
  IN  CASE Before(p) = "::" -> ParentIn(k, {j \in DOMAIN ast : ast[j].pos = p - 2})
        [] Before(p) = "else" ->
             ParentIn(k, {j \in BesideUpTo(p - 1) : ast[j].node = "IF"})
        [] OTHER -> IF Bracket(p) = 0 THEN 0 ELSE ParentIn(k, BesideUpTo(Bracket(p)))

(* The module that is filled is the first of its chain.                     *)
IsChained(j) == ast[j].node = "MODULE" /\ Before(ast[j].pos) = "::"

Filled(j) ==
  IF j = 0 \/ ~IsChained(j) THEN j
  ELSE Greatest({i \in 1 .. j : ast[i].node = "MODULE" /\ ~IsChained(i)})

(* Every declaration and statement is in the node whose body it is written  *)
(* in, however the bodies, else branches and for statements nest; but what  *)
(* is written in the body of a chain of modules is in the first of them.    *)
NestingIsTrue ==
  \A k \in DOMAIN ast :
    ast[k].into = IF IsChained(k) THEN Parent(k) ELSE Filled(Parent(k))

(* What is marked "pub" is public, and nothing else is but what is declared *)
(* in a struct or in a function: no mark is lost, or kept for what comes    *)
(* after the declaration it belongs to.                                     *)
IsMarked(k) ==
  LET first == IF ast[k].node \in {"STRUCT", "COMPONENT"} THEN ast[k].pos - 1
               ELSE ast[k].pos
  IN  Before(first) = "pub"

PublicAsMarked ==
  \A k \in DOMAIN ast :
    LET around == IF ast[k].into = 0 THEN "MODULE" ELSE ast[ast[k].into].node IN
    CASE around \in {"MODULE", "COMPONENT"} -> ast[k].is_pub = IsMarked(k)
      [] around = "STRUCT" -> ast[k].is_pub
      [] OTHER -> ast[k].is_pub = (ast[k].node \in {"STRUCT", "COMPONENT"})

(* What the symbol table builder takes for granted of the AST it walks: the *)
(* kinds of children each of its loops has a case for, and type names that  *)
(* are unique in the whole program, wherever they are declared.             *)
ChildrenOf(kind) ==
  CASE kind = "MODULE" -> {"MODULE", "FUNCTION", "STRUCT", "COMPONENT", "FIELD"}
    [] kind = "COMPONENT" -> {"FUNCTION", "STRUCT", "COMPONENT", "FIELD"}
    [] kind = "STRUCT" -> {"STRUCT", "FIELD"}
    [] OTHER -> {"STRUCT", "COMPONENT", "RET", "IF", "WHILE", "FOR", "BLOCK", "EXPR", "LET"}

NameOf(k) == tokens[ast[k].pos + 1]
NamedTypes == {k \in DOMAIN ast : /\ ast[k].node \in {"STRUCT", "COMPONENT"}
                                 /\ ast[k].pos + 1 < current_token_idx}

BuilderMayWalk ==
  /\ \A k \in DOMAIN ast :
       ast[k].node \in ChildrenOf(IF ast[k].into = 0 THEN "MODULE"
                                  ELSE ast[ast[k].into].node)
  /\ \A j, k \in NamedTypes : NameOf(j) = NameOf(k) => j = k
  /\ \A k \in NamedTypes : NameOf(k) \notin Builtins

(* Every source is parsed to its end or to an error.                        *)
ParsingEnds == <>(status # "parsing")

(* What a comment of parse_module says, and the code does not do: of a      *)
(* chain of modules only the last is filled, and has what is declared in    *)
(* the body.                                                                *)
OnlyTheLastOfAChainIsFilled ==
  \A k \in DOMAIN ast : ast[k].into = Parent(k)
=============================================================================
