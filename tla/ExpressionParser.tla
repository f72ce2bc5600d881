-------------------------- MODULE ExpressionParser --------------------------
(***************************************************************************)
(* The expression parser of the Serac compiler (Parser): precedence        *)
(* climbing, parse_expression, and the initializers in braces that may     *)
(* stand where an expression does.  The recursion of the parse_* functions *)
(* is an explicit stack: a frame is a call that waits for the expression   *)
(* it has just asked for.                                                  *)
(*                                                                         *)
(* The source is not a constant: a token comes into being when the parser  *)
(* first looks at it, so the behaviours are the parses of all sources.     *)
(* "x" is any identifier and "1" any literal; "#cast<T>" is a whole cast   *)
(* directive with its type.  Token indices start at 1.                     *)
(***************************************************************************)
EXTENDS Naturals, Sequences, FiniteSets

CONSTANTS
  Vocabularies, \* sets of kinds of tokens; a source is written in one of them
  MaxTokens     \* bound on the length of a source, for each of them

ASSUME TokensAssumption == MaxTokens \in [Vocabularies -> Nat]

VARIABLES
  tokens,             \* the tokens looked at so far
  current_token_idx,
  at,                 \* the point of the active call that is reached
  min_prec,           \* the argument of the active parse_expression
  lhs,                \* the tree parsed so far, or just returned
  stack,              \* the calls that wait, the innermost last
  status

control == <<at, min_prec, lhs, stack>>
vars == <<tokens, current_token_idx, control, status>>

PrefixOperators == {"++", "--", "-", "!", "~", "&", "$", "*"}
BinaryOperators == {"+", "-", "*", "/", "%", "&", "|", "^", "==", "!=", "<", "<=",
                    ">", ">=", "&&", "||", "<<", ">>"}
AssignOperators == {"=", "+=", "-=", "*=", "/=", "%=", "&=", "|=", "^=", "<<=", ">>="}

(* op_precedence: the tokens that may follow an operand; 0 for all others.  *)
Precedence(tok) ==
  CASE tok \in {"(", "{", "[", ".", "->", "++", "--"} -> 90
    [] tok \in {"*", "/", "%"} -> 60
    [] tok \in {"+", "-"} -> 50
    [] tok \in {"<<", ">>"} -> 45
    [] tok \in {"<", "<=", ">", ">="} -> 40
    [] tok \in {"==", "!="} -> 30
    [] tok = "&" -> 24
    [] tok = "^" -> 23
    [] tok = "|" -> 22
    [] tok = "&&" -> 20
    [] tok = "||" -> 15
    [] tok = "?" -> 12
    [] tok \in AssignOperators -> 10
    [] OTHER -> 0

IsRightAssociative(tok) == tok = "?" \/ tok \in AssignOperators

PREFIX_PRECEDENCE == 80

(* An AST node: its kind, its token, and its children.                      *)
Tree(node, pos, parts) == <<node, pos, parts>>
NoTree == <<>>

Frame(node, pos, parts) ==
  [node |-> node, pos |-> pos, parts |-> parts, min_prec |-> min_prec]

Top == stack[Len(stack)]
Push(f) == Append(stack, f)
Pop == SubSeq(stack, 1, Len(stack) - 1)
ReplaceTop(f) == [stack EXCEPT ![Len(stack)] = f]

(* The frame on top with the tree just returned, and the node it makes.     *)
Filled == [Top EXCEPT !.parts = Append(@, lhs)]
Built(f) == Tree(f.node, f.pos, f.parts)

----------------------------------------------------------------------------
Peeking == status = "parsing" /\ current_token_idx <= Len(tokens)
Peek == tokens[current_token_idx]
At(point) == Peeking /\ at = point

Advance ==
  /\ current_token_idx' = current_token_idx + 1
  /\ UNCHANGED <<tokens, status>>

Stay == UNCHANGED <<tokens, current_token_idx, status>>

Exit ==
  /\ status' = "exited"
  /\ UNCHANGED <<tokens, current_token_idx, control>>

Goto(point) == at' = point /\ UNCHANGED <<min_prec, lhs, stack>>
GotoIn(point, st) == at' = point /\ stack' = st /\ UNCHANGED <<min_prec, lhs>>

ParseExpression(min, st) ==
  at' = "parse_prefix" /\ min_prec' = min /\ lhs' = NoTree /\ stack' = st

PrattParse(tree, min, st) ==
  at' = "pratt_parse" /\ min_prec' = min /\ lhs' = tree /\ stack' = st

ReturnTree(tree, st) ==
  at' = "return" /\ lhs' = tree /\ stack' = st /\ UNCHANGED min_prec

(* expect, and what follows it when the token is the one expected           *)
Expect(tok, Rest) == IF Peek = tok THEN Advance /\ Rest ELSE Exit

(* The calls made by statements and declarations.                           *)
Init ==
  /\ tokens = <<>>
  /\ current_token_idx = 1
  /\ at \in {"parse_prefix", "parse_struct_init", "parse_arr_init"}
  /\ min_prec = 0
  /\ lhs = NoTree
  /\ stack = <<>>
  /\ status = "parsing"

(* The source has one more token, the one at current_token_idx.             *)
NextToken ==
  /\ status = "parsing" /\ current_token_idx > Len(tokens)
  /\ \E V \in Vocabularies :
       /\ \A i \in DOMAIN tokens : tokens[i] \in V
       /\ \E tok \in (IF Len(tokens) < MaxTokens[V] THEN V ELSE {}) \cup {"eof"} :
            tokens' = Append(tokens, tok)
  /\ UNCHANGED <<current_token_idx, control, status>>

----------------------------------------------------------------------------
(* parse_prefix *)
ParseLiteral ==
  /\ At("parse_prefix") /\ Peek = "1"
  /\ Advance /\ PrattParse(Tree("literal", current_token_idx, <<>>), min_prec, stack)

ParseIdent ==
  /\ At("parse_prefix") /\ Peek = "x"
  /\ Advance
  /\ at' = "path"
  /\ lhs' = Tree("ident", current_token_idx, <<>>)
  /\ UNCHANGED <<min_prec, stack>>

ParsePath ==
  \/ /\ At("path") /\ Peek = "::"
     /\ Advance /\ Goto("path_name")
  \/ /\ At("path") /\ Peek # "::"
     /\ Stay /\ Goto("pratt_parse")
  \/ /\ At("path_name")
     /\ Expect("x", /\ at' = "path"
                    /\ lhs' = [lhs EXCEPT ![3] = Append(@, current_token_idx)]
                    /\ UNCHANGED <<min_prec, stack>>)

ParseUnary ==
  /\ At("parse_prefix") /\ Peek \in PrefixOperators
  /\ Advance
  /\ ParseExpression(PREFIX_PRECEDENCE, Push(Frame("unary", current_token_idx, <<>>)))

ParseParen ==
  \/ /\ At("parse_prefix") /\ Peek = "("
     /\ Advance /\ Goto("after_lparen")
  \/ /\ At("after_lparen") /\ Peek # "#cast<T>"
     /\ Stay /\ ParseExpression(0, Push(Frame("paren", current_token_idx - 1, <<>>)))

(* parse_cast: the operand is a whole expression.                           *)
ParseCast ==
  \/ /\ At("after_lparen") /\ Peek = "#cast<T>"
     /\ Advance /\ Goto("cast")
  \/ /\ At("cast")
     /\ Expect(")", ParseExpression(0, Push(Frame("cast", current_token_idx - 2, <<>>))))

NoExpression ==
  /\ At("parse_prefix") /\ Peek \notin PrefixOperators \cup {"x", "1", "("}
  /\ Exit

----------------------------------------------------------------------------
(* pratt_parse: one round of its loop.                                      *)
Follows(toks) ==
  At("pratt_parse") /\ Precedence(Peek) > min_prec /\ Peek \in toks

EndOfExpression ==
  /\ At("pratt_parse") /\ Precedence(Peek) <= min_prec
  /\ Stay /\ ReturnTree(lhs, stack)

ParseFuncCall ==
  \/ /\ Follows({"("})
     /\ Advance /\ GotoIn("args", Push(Frame("call", current_token_idx, <<lhs>>)))
  \/ /\ At("args") /\ Peek = ")"
     /\ Advance /\ PrattParse(Built(Top), Top.min_prec, Pop)
  \/ /\ At("args") /\ Peek # ")"
     /\ Stay /\ ParseExpression(0, stack)

ParseArrSub ==
  \/ /\ Follows({"["})
     /\ Advance /\ ParseExpression(0, Push(Frame("subscript", current_token_idx, <<lhs>>)))
  \/ /\ At("subscripts") /\ Peek = "["
     /\ Advance /\ ParseExpression(0, stack)
  \/ /\ At("subscripts") /\ Peek # "["
     /\ Stay /\ PrattParse(Built(Top), Top.min_prec, Pop)

(* Mutant: whatever follows the dot is the member.                          *)
ParseAnyMember ==
  \/ /\ Follows({".", "->"})
     /\ Advance /\ Goto("member")
  \/ /\ At("member")
     /\ Advance
     /\ PrattParse(Tree("member", current_token_idx - 1, <<lhs>>), min_prec, stack)

ParseMemberAccess ==
  \/ /\ Follows({".", "->"})
     /\ Advance /\ Goto("member")
  \/ /\ At("member")
     /\ Expect("x", PrattParse(Tree("member", current_token_idx - 1, <<lhs>>),
                               min_prec, stack))

ParsePostIncDec ==
  /\ Follows({"++", "--"})
  /\ Advance /\ PrattParse(Tree("postfix", current_token_idx, <<lhs>>), min_prec, stack)

(* Mutant: the operand is lost.                                             *)
ParseStructCreateAlone ==
  /\ Follows({"{"})
  /\ Stay /\ GotoIn("parse_struct_init", Push(Frame("create", current_token_idx, <<>>)))

ParseStructCreate ==
  /\ Follows({"{"})
  /\ Stay /\ GotoIn("parse_struct_init", Push(Frame("create", current_token_idx, <<lhs>>)))

(* parse_infix.  Mutant: every operator as if it were left associative.     *)
MinRhsPrecLeft(tok) == Precedence(tok)

MinRhsPrec(tok) ==
  IF IsRightAssociative(tok) THEN Precedence(tok) - 1 ELSE Precedence(tok)

ParseInfix ==
  /\ Follows(BinaryOperators \cup AssignOperators)
  /\ Advance
  /\ ParseExpression(MinRhsPrec(Peek), Push(Frame("infix", current_token_idx, <<lhs>>)))

ParseTernary ==
  /\ Follows({"?"})
  /\ Advance /\ ParseExpression(0, Push(Frame("ternary", current_token_idx, <<lhs>>)))

----------------------------------------------------------------------------
(* Mutant: the loop only ends at a brace.                                   *)
ParseStructInitToBrace ==
  \/ /\ At("parse_struct_init")
     /\ Expect("{", GotoIn("member_inits",
                           Push(Frame("struct_init", current_token_idx, <<>>))))
  \/ /\ At("member_inits") /\ Peek = "."
     /\ Advance /\ Goto("member_name")
  \/ /\ At("member_inits") /\ Peek = "}"
     /\ Advance /\ ReturnTree(Built(Top), Pop)
  \/ /\ At("member_inits") /\ Peek \notin {".", "}"}
     /\ UNCHANGED vars
  \/ /\ At("member_name")
     /\ Expect("x", Goto("member_assign"))
  \/ /\ At("member_assign")
     /\ Expect("=", ParseExpression(0, stack))

(* parse_struct_init *)
ParseStructInit ==
  \/ /\ At("parse_struct_init")
     /\ Expect("{", GotoIn("member_inits",
                           Push(Frame("struct_init", current_token_idx, <<>>))))
  \/ /\ At("member_inits") /\ Peek = "."
     /\ Advance /\ Goto("member_name")
  \/ /\ At("member_inits") /\ Peek # "."
     /\ Expect("}", ReturnTree(Built(Top), Pop))
  \/ /\ At("member_name")
     /\ Expect("x", Goto("member_assign"))
  \/ /\ At("member_assign")
     /\ Expect("=", ParseExpression(0, stack))

(* parse_arr_init: the first element decides whether all are in braces.     *)
ParseArrInit ==
  \/ /\ At("parse_arr_init")
     /\ Expect("{", GotoIn("first_element",
                           Push(Frame("arr_init", current_token_idx, <<>>))))
  \/ /\ At("first_element") /\ Peek = "{"
     /\ Stay /\ GotoIn("parse_arr_init", ReplaceTop([Top EXCEPT !.node = "nested_arr_init"]))
  \/ /\ At("first_element") /\ Peek # "{"
     /\ Stay /\ ParseExpression(0, stack)

(* A comma must not be the last token of a list.                            *)
AfterComma ==
  \/ /\ At("after_comma") /\ Peek = (IF Top.node = "call" THEN ")" ELSE "}")
     /\ Exit
  \/ /\ At("after_comma") /\ Top.node = "call" /\ Peek # ")"
     /\ Stay /\ ParseExpression(0, stack)
  \/ /\ At("after_comma") /\ Top.node = "struct_init" /\ Peek # "}"
     /\ Stay /\ Goto("member_inits")

----------------------------------------------------------------------------
(* A call has returned lhs to the frame on top, which goes on.              *)
ReturningTo(nodes) ==
  status = "parsing" /\ at = "return" /\ stack # <<>> /\ Top.node \in nodes

EndParen ==
  /\ ReturningTo({"paren"}) /\ Peeking
  /\ Expect(")", PrattParse(lhs, Top.min_prec, Pop))

EndOperand ==
  /\ ReturningTo({"unary", "cast", "infix", "create"})
  /\ Stay /\ PrattParse(Built(Filled), Top.min_prec, Pop)

EndTernaryPart ==
  \/ /\ ReturningTo({"ternary"}) /\ Len(Top.parts) = 1 /\ Peeking
     /\ Expect(":", ParseExpression(Precedence("?") - 1, ReplaceTop(Filled)))
  \/ /\ ReturningTo({"ternary"}) /\ Len(Top.parts) = 2
     /\ Stay /\ PrattParse(Built(Filled), Top.min_prec, Pop)

EndArg ==
  /\ ReturningTo({"call"}) /\ Peeking
  /\ IF Peek = ","
     THEN Advance /\ GotoIn("after_comma", ReplaceTop(Filled))
     ELSE Expect(")", PrattParse(Built(Filled), Top.min_prec, Pop))

EndSubscript ==
  /\ ReturningTo({"subscript"}) /\ Peeking
  /\ Expect("]", GotoIn("subscripts", ReplaceTop(Filled)))

EndMemberInit ==
  /\ ReturningTo({"struct_init"}) /\ Peeking
  /\ IF Peek = ","
     THEN Advance /\ GotoIn("after_comma", ReplaceTop(Filled))
     ELSE Stay /\ GotoIn("member_inits", ReplaceTop(Filled))

EndElement ==
  /\ ReturningTo({"arr_init", "nested_arr_init"}) /\ Peeking
  /\ IF Peek = ","
     THEN /\ Advance
          /\ \/ Top.node = "arr_init" /\ ParseExpression(0, ReplaceTop(Filled))
             \/ Top.node = "nested_arr_init" /\ GotoIn("parse_arr_init", ReplaceTop(Filled))
     ELSE Expect("}", ReturnTree(Built(Filled), Pop))

ReturnToCaller ==
  /\ status = "parsing" /\ at = "return" /\ stack = <<>>
  /\ status' = "done"
  /\ UNCHANGED <<tokens, current_token_idx, control>>

Step ==
  \/ NextToken
  \/ ParseLiteral \/ ParseIdent \/ ParsePath \/ ParseUnary \/ ParseParen \/ ParseCast
  \/ NoExpression \/ EndOfExpression
  \/ ParseFuncCall \/ ParseArrSub \/ ParseMemberAccess \/ ParsePostIncDec
  \/ ParseStructCreate \/ ParseInfix \/ ParseTernary
  \/ ParseStructInit \/ ParseArrInit \/ AfterComma
  \/ EndParen \/ EndOperand \/ EndTernaryPart \/ EndArg \/ EndSubscript
  \/ EndMemberInit \/ EndElement \/ ReturnToCaller

Ended == status # "parsing" /\ UNCHANGED vars

Next == Step \/ Ended

(* The parser is one sequential call.                                       *)
Spec == Init /\ [][Next]_vars /\ WF_vars(Step)
----------------------------------------------------------------------------
Points == {"parse_prefix", "pratt_parse", "path", "path_name", "after_lparen", "cast",
           "args", "subscripts", "member", "parse_struct_init", "member_inits",
           "member_name", "member_assign", "parse_arr_init", "first_element",
           "after_comma", "return"}
FrameNodes == {"unary", "paren", "cast", "infix", "ternary", "call", "subscript",
               "create", "struct_init", "arr_init", "nested_arr_init"}

(* How many trees a frame that waits for one holds already.                 *)
HeldParts(node) ==
  CASE node \in {"unary", "paren", "cast"} -> {0}
    [] node \in {"infix", "create"} -> {1}
    [] node = "ternary" -> {1, 2}
    [] node \in {"call", "subscript"} -> Nat \ {0}
    [] OTHER -> Nat

TypeOK ==
  /\ current_token_idx \in 1 .. (Len(tokens) + 1)
  /\ at \in Points /\ status \in {"parsing", "done", "exited"}
  /\ min_prec \in 0 .. 90
  /\ at \in {"pratt_parse", "path", "path_name", "member", "return"} => lhs # NoTree
  /\ \A i \in DOMAIN stack :
       /\ stack[i].node \in FrameNodes
       /\ stack[i].pos \in 1 .. (current_token_idx)
       /\ stack[i].min_prec \in 0 .. 90
       /\ Len(stack[i].parts) \in HeldParts(stack[i].node)

(* The end of the source is never consumed: tokens.at would throw at the    *)
(* next look.  It is looked at once more by whatever still waits for a      *)
(* token, which fails there.                                                *)
EndIsNeverConsumed ==
  \A i \in DOMAIN tokens : tokens[i] = "eof" => i >= current_token_idx

(* What an expression means, read off its tokens: the operator that binds   *)
(* least, outside all brackets, is its root, the last such operator, or the *)
(* first if it is right associative; but all that follows a cast is its     *)
(* operand.  A "?" and its ":" are brackets.  Without operators, a prefix   *)
(* operator binds less than what follows the operand.  A span i .. j of the *)
(* source src is an expression or an initializer in braces.                 *)
Opening == {"(", "[", "{", "?"}
Closing == {")", "]", "}", ":"}
Count(src, kinds, i, j) == Cardinality({k \in i .. j : src[k] \in kinds})
IsBalanced(src, i, j) == Count(src, Opening, i, j) = Count(src, Closing, i, j)

Outside(src, i, j) == {k \in i .. j : IsBalanced(src, i, k - 1)}
Least(S) == CHOOSE k \in S : \A l \in S : k <= l
Greatest(S) == CHOOSE k \in S : \A l \in S : l <= k
Ranked(S, n) == {k \in S : Cardinality({l \in S : l <= k}) = n}
Nth(S, n) == CHOOSE k \in Ranked(S, n) : TRUE
Closer(src, o) ==
  Least({c \in o .. Len(src) : src[c] \in Closing /\ IsBalanced(src, o, c)})
Opener(src, c) ==
  Greatest({o \in 1 .. c : src[o] \in Opening /\ IsBalanced(src, o, c)})

EndsOperand(src, k) ==
  \/ src[k] \in {"x", "1", "]", "}"}
  \/ src[k] = ")" /\ src[k - 1] # "#cast<T>"

IsAfterOperand(src, i) ==
  \E k \in 1 .. (i - 1) :
    EndsOperand(src, k) /\ \A l \in (k + 1) .. (i - 1) : src[l] \in {"++", "--"}

IsCast(src, i) == src[i] = "(" /\ src[i + 1] = "#cast<T>"

InfixOutside(src, i, j) ==
  {k \in Outside(src, i, j) :
     /\ src[k] \in BinaryOperators \cup AssignOperators \cup {"?"}
     /\ IsAfterOperand(src, k)
     /\ \A c \in Outside(src, i, k) : ~IsCast(src, c)}

Root(src, S) ==
  LET loosest == {k \in S : \A l \in S : Precedence(src[k]) <= Precedence(src[l])}
  IN  IF \E k \in loosest : IsRightAssociative(src[k])
      THEN Least(loosest) ELSE Greatest(loosest)

(* The spans between the commas of a list, each without its first tokens.   *)
Cuts(src, i, j) == {i - 1, j + 1} \cup {k \in Outside(src, i, j) : src[k] = ","}
Items(src, i, j, skipped) ==
  LET cuts == Cuts(src, i, j)
  IN  IF i > j THEN <<>>
      ELSE [n \in 1 .. (Cardinality(cuts) - 1) |->
              <<Nth(cuts, n) + 1 + skipped, Nth(cuts, n + 1) - 1>>]

(* The spans within the run of subscripts at the end of a span.             *)
Subscripts(src, i, j) ==
  {o \in Outside(src, i, j) : \A k \in Outside(src, o, j) : src[k] = "["}
Indexes(src, subs) ==
  [n \in 1 .. Cardinality(subs) |->
     <<Nth(subs, n) + 1, Closer(src, Nth(subs, n)) - 1>>]

(* What a span means, given the trees of the spans inside it.               *)
Reading(src, tree, i, j) ==
  LET S == InfixOutside(src, i, j)
      Trees(spans) == [n \in DOMAIN spans |-> tree[spans[n]]]
      r == Root(src, S)
      o == Opener(src, j)
      subs == Subscripts(src, i, j)
      first == Nth(subs, 1)
  IN
  CASE S # {} /\ src[r] # "?" ->
         Tree("infix", r, <<tree[<<i, r - 1>>], tree[<<r + 1, j>>]>>)
    [] S # {} /\ src[r] = "?" ->
         Tree("ternary", r, <<tree[<<i, r - 1>>], tree[<<r + 1, Closer(src, r) - 1>>],
                              tree[<<Closer(src, r) + 1, j>>]>>)
    [] S = {} /\ src[i] \in PrefixOperators ->
         Tree("unary", i, <<tree[<<i + 1, j>>]>>)
    [] S = {} /\ IsCast(src, i) ->
         Tree("cast", i, <<tree[<<i + 3, j>>]>>)
    [] src[i] = "{" /\ src[i + 1] \in {".", "}"} ->
         Tree("struct_init", i, Trees(Items(src, i + 1, j - 1, 3)))
    [] src[i] = "{" /\ src[i + 1] = "{" ->
         Tree("nested_arr_init", i, Trees(Items(src, i + 1, j - 1, 0)))
    [] src[i] = "{" /\ src[i + 1] \notin {".", "}", "{"} ->
         Tree("arr_init", i, Trees(Items(src, i + 1, j - 1, 0)))
    [] OTHER ->
       CASE src[j] \in {"++", "--"} ->
              Tree("postfix", j, <<tree[<<i, j - 1>>]>>)
         [] src[j] = "x" /\ i < j /\ src[j - 1] \in {".", "->"} ->
              Tree("member", j - 1, <<tree[<<i, j - 2>>]>>)
         [] src[j] = "x" /\ (i = j \/ src[j - 1] = "::") ->
              Tree("ident", i, [n \in 1 .. ((j - i) \div 2) |-> i + 2 * n])
         [] src[j] = "1" ->
              Tree("literal", i, <<>>)
         [] src[j] = ")" /\ o = i ->
              tree[<<i + 1, j - 1>>]
         [] src[j] = ")" /\ o # i ->
              Tree("call", o, <<tree[<<i, o - 1>>]>> \o Trees(Items(src, o + 1, j - 1, 0)))
         [] src[j] = "]" ->
              Tree("subscript", first,
                   <<tree[<<i, first - 1>>]>> \o Trees(Indexes(src, subs)))
         [] src[j] = "}" ->
              Tree("create", o, <<tree[<<i, o - 1>>], tree[<<o, j>>]>>)

Spans(src) == (1 .. Len(src)) \X (0 .. Len(src))
Inside(src, span) ==
  {part \in Spans(src) : span[1] <= part[1] /\ part[2] <= span[2] /\ part # span}

Meanings(src) ==
  LET tree[span \in Spans(src)] ==
        Reading(src, [part \in Inside(src, span) |-> tree[part]], span[1], span[2])
  IN  tree

Meaning(src, first, last) == Meanings(src)[<<first, last>>]

(* The tree returned is the one the precedences give the tokens consumed:   *)
(* the loop of pratt_parse, its recursion with a least precedence, and the  *)
(* calls it makes for brackets never regroup, drop or duplicate an operand. *)
TreeIsMeaning == status = "done" => lhs = Meaning(tokens, 1, current_token_idx - 1)

(* Every source is parsed to the end of an expression or to an error.       *)
ParsingEnds == <>(status # "parsing")
=============================================================================
