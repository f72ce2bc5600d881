----------------------- MODULE ExpressionParserProofs ------------------------
(***************************************************************************)
(* Proofs about the expression parser, for every vocabulary and for sources*)
(* of every length: the calls that wait are never asked for something they *)
(* do not have, the end of the source is never gone past, and the tree that*)
(* is returned is what the precedences make of the tokens (TreeIsMeaning). *)
(***************************************************************************)
EXTENDS ExpressionParser, SequenceFacts, FiniteSetTheorems, WellFoundedInduction, TLAPS

(* A call that waits: a record, and as many trees as its kind may hold.     *)
FrameFits(f, idx) ==
  /\ f = [node |-> f.node, pos |-> f.pos, parts |-> f.parts, min_prec |-> f.min_prec]
  /\ f.node \in FrameNodes
  /\ f.pos \in 1 .. idx
  /\ f.min_prec \in 0 .. 90
  /\ IsSeq(f.parts) /\ Len(f.parts) \in HeldParts(f.node)

FramesFit(frames, idx) ==
  IsSeq(frames) /\ \A i \in 1 .. Len(frames) : FrameFits(frames[i], idx)

(* What the calls that wait at a point are, and what has been read and      *)
(* parsed there.                                                            *)
IsTop(frames, nodes) == frames # <<>> /\ frames[Len(frames)].node \in nodes

PointFits(point, tree, frames, idx) ==
  /\ point \in Points
  /\ point \in {"pratt_parse", "member", "return"} => tree # NoTree
  /\ point \in {"path", "path_name"} => tree = [part \in 1 .. 3 |-> tree[part]]
  /\ point = "args" => IsTop(frames, {"call"})
  /\ point = "subscripts" => IsTop(frames, {"subscript"})
  /\ point \in {"member_inits", "member_name", "member_assign"} => IsTop(frames, {"struct_init"})
  /\ point = "first_element" => IsTop(frames, {"arr_init"})
  /\ point = "after_comma" => IsTop(frames, {"call", "struct_init"})
  /\ point = "after_lparen" => idx >= 2
  /\ point = "cast" => idx >= 3

Statuses == {"parsing", "done", "exited"}

TokensFit ==
  /\ IsSeq(tokens)
  /\ current_token_idx \in 1 .. (Len(tokens) + 1)
  /\ status \in Statuses
  /\ EndIsNeverConsumed

EInv ==
  /\ TokensFit
  /\ min_prec \in 0 .. 90
  /\ FramesFit(stack, current_token_idx)
  /\ PointFits(at, lhs, stack, current_token_idx)

----------------------------------------------------------------------------
(* The precedences, and those of what follows an operand.                   *)
LEMMA PrecedenceIs ==
  ASSUME NEW tok
  PROVE  Precedence(tok) \in 0 .. 90
<1> DEFINE Arms == {90, 60, 50, 45, 40, 30, 24, 23, 22, 20, 15, 12, 10, 0}
<1>1. Precedence(tok) \in Arms
  <2> DEFINE C1 == tok \in {"(", "{", "[", ".", "->", "++", "--"}
             C2 == tok \in {"*", "/", "%"}
             C3 == tok \in {"+", "-"}
             C4 == tok \in {"<<", ">>"}
             C5 == tok \in {"<", "<=", ">", ">="}
             C6 == tok \in {"==", "!="}
             C7 == tok = "&"
             C8 == tok = "^"
             C9 == tok = "|"
             C10 == tok = "&&"
             C11 == tok = "||"
             C12 == tok = "?"
             C13 == tok \in AssignOperators
  <2>1. Precedence(tok) =
          CASE C1 -> 90 [] C2 -> 60 [] C3 -> 50 [] C4 -> 45 [] C5 -> 40 [] C6 -> 30 [] C7 -> 24
            [] C8 -> 23 [] C9 -> 22 [] C10 -> 20 [] C11 -> 15 [] C12 -> 12 [] C13 -> 10
            [] OTHER -> 0
    BY DEF Precedence
  <2> HIDE DEF C1, C2, C3, C4, C5, C6, C7, C8, C9, C10, C11, C12, C13
  <2> QED
    BY <2>1
<1>2. \A n \in Arms : n \in 0 .. 90
  OBVIOUS
<1> HIDE DEF Arms
<1> QED
  BY <1>1, <1>2

(* The precedence of the ternary.                                           *)
LEMMA TernaryPrecedenceIs == Precedence("?") = 12
BY ZenonT(60) DEF Precedence, AssignOperators

(* A tree is not nothing.                                                   *)
LEMMA TreeIs ==
  ASSUME NEW node, NEW pos, NEW parts
  PROVE  /\ Tree(node, pos, parts) # NoTree
         /\ Tree(node, pos, parts) = [part \in 1 .. 3 |-> Tree(node, pos, parts)[part]]
BY DEF Tree, NoTree

(* Frames stay what they are as the parser goes on,                         *)
LEMMA LaterFits ==
  ASSUME NEW idx \in Nat, NEW later \in Nat, idx <= later, NEW frames, FramesFit(frames, idx)
  PROVE  FramesFit(frames, later)
<1>1. \A n \in 1 .. idx : n \in 1 .. later
  OBVIOUS
<1> QED
  BY <1>1 DEF FramesFit, FrameFits

(* ... one more may wait,                                                   *)
LEMMA PushFits ==
  ASSUME NEW idx, NEW frames, FramesFit(frames, idx), NEW f, FrameFits(f, idx)
  PROVE  /\ FramesFit(Append(frames, f), idx)
         /\ IsTop(Append(frames, f), {f.node})
<1>1. IsSeq(frames) /\ Len(frames) \in Nat
      /\ \A i \in 1 .. Len(frames) : FrameFits(frames[i], idx)
  BY SeqFacts DEF FramesFit
<1>2. PICK more : more = Append(frames, f)
  OBVIOUS
<1>3. /\ IsSeq(more) /\ more # <<>> /\ Len(more) = Len(frames) + 1 /\ more[Len(frames) + 1] = f
      /\ \A i \in 1 .. Len(frames) : more[i] = frames[i]
  BY <1>1, <1>2, AppendSeq
<1>4. \A i \in 1 .. Len(more) : i \in 1 .. Len(frames) \/ i = Len(frames) + 1
  BY <1>1, <1>3
<1>5. FramesFit(more, idx)
  BY <1>1, <1>3, <1>4 DEF FramesFit
<1>6. IsTop(more, {f.node})
  BY <1>3 DEF IsTop
<1> QED
  BY <1>2, <1>5, <1>6

(* ... the innermost goes on,                                               *)
LEMMA PopFits ==
  ASSUME NEW idx, NEW frames, FramesFit(frames, idx), frames # <<>>
  PROVE  /\ FramesFit(SubSeq(frames, 1, Len(frames) - 1), idx)
         /\ FrameFits(frames[Len(frames)], idx)
<1>1. /\ IsSeq(frames) /\ Len(frames) \in Nat /\ Len(frames) > 0
      /\ \A i \in 1 .. Len(frames) : FrameFits(frames[i], idx)
  BY SeqFacts DEF FramesFit
<1>2. PICK rest : rest = SubSeq(frames, 1, Len(frames) - 1)
  OBVIOUS
<1>3. /\ IsSeq(rest) /\ Len(rest) = Len(frames) - 1
      /\ \A i \in 1 .. (Len(frames) - 1) : rest[i] = frames[i]
  BY <1>1, <1>2, FrontSeq
<1>4. Len(frames) \in 1 .. Len(frames) /\ \A i \in 1 .. (Len(frames) - 1) : i \in 1 .. Len(frames)
  BY <1>1
<1>5. FramesFit(rest, idx)
  BY <1>1, <1>3, <1>4 DEF FramesFit
<1> QED
  BY <1>1, <1>2, <1>4, <1>5

(* ... or changes.                                                          *)
LEMMA ReplaceFits ==
  ASSUME NEW idx, NEW frames, FramesFit(frames, idx), frames # <<>>, NEW f, FrameFits(f, idx)
  PROVE  /\ FramesFit([frames EXCEPT ![Len(frames)] = f], idx)
         /\ IsTop([frames EXCEPT ![Len(frames)] = f], {f.node})
<1>1. /\ IsSeq(frames) /\ Len(frames) \in Nat /\ Len(frames) > 0
      /\ \A i \in 1 .. Len(frames) : FrameFits(frames[i], idx)
  BY SeqFacts DEF FramesFit
<1>2. PICK n \in 1 .. Len(frames) : n = Len(frames)
  BY <1>1
<1> DEFINE changed == [frames EXCEPT ![n] = f]
<1>3. IsSeq(frames) /\ n \in 1 .. Len(frames)
  BY <1>1
<1>4. /\ IsSeq(changed) /\ Len(changed) = Len(frames) /\ changed[n] = f
      /\ \A i \in 1 .. Len(frames) : i # n => changed[i] = frames[i]
  BY <1>3, ReplaceSeq
<1>5. [frames EXCEPT ![Len(frames)] = f] = changed
  BY <1>2
<1> HIDE DEF changed
<1>6. FramesFit(changed, idx)
  BY <1>1, <1>4 DEF FramesFit
<1>7. changed # <<>>
  BY <1>1, <1>4, SeqFacts
<1>8. IsTop(changed, {f.node})
  BY <1>2, <1>4, <1>7 DEF IsTop
<1> QED
  BY <1>5, <1>6, <1>8

(* A frame as it is made.                                                   *)
LEMMA FrameIs ==
  ASSUME min_prec \in 0 .. 90, NEW node \in FrameNodes, NEW idx, NEW pos \in 1 .. idx,
         NEW parts, IsSeq(parts), Len(parts) \in HeldParts(node)
  PROVE  FrameFits(Frame(node, pos, parts), idx) /\ Frame(node, pos, parts).node = node
BY DEF FrameFits, Frame

----------------------------------------------------------------------------
(* A step that reads nothing,                                               *)
LEMMA StayFits ==
  ASSUME EInv, Stay, min_prec' \in 0 .. 90,
         FramesFit(stack', current_token_idx),
         PointFits(at', lhs', stack', current_token_idx)
  PROVE  EInv'
<1>1. tokens' = tokens /\ current_token_idx' = current_token_idx /\ status' = status
  BY DEF Stay
<1>2. TokensFit'
  BY <1>1 DEF EInv, TokensFit, EndIsNeverConsumed
<1>3. FramesFit(stack', current_token_idx') /\ PointFits(at', lhs', stack', current_token_idx')
  BY <1>1
<1> QED
  BY <1>2, <1>3 DEF EInv

(* ... and one that reads a token, which is not the end.                    *)
LEMMA AdvanceFits ==
  ASSUME EInv, Peeking, Peek # "eof", Advance, min_prec' \in 0 .. 90,
         FramesFit(stack', current_token_idx + 1),
         PointFits(at', lhs', stack', current_token_idx + 1)
  PROVE  EInv'
<1>1. tokens' = tokens /\ current_token_idx' = current_token_idx + 1 /\ status' = status
  BY DEF Advance
<1>2. Len(tokens) \in Nat /\ DOMAIN tokens = 1 .. Len(tokens)
  BY SeqFacts DEF EInv, TokensFit
<1>3. current_token_idx \in 1 .. Len(tokens)
  BY <1>2 DEF EInv, TokensFit, Peeking
<1>4. EndIsNeverConsumed'
  BY <1>1, <1>2, <1>3 DEF EInv, TokensFit, EndIsNeverConsumed, Peek
<1>5. TokensFit'
  BY <1>1, <1>2, <1>3, <1>4 DEF EInv, TokensFit
<1>6. FramesFit(stack', current_token_idx') /\ PointFits(at', lhs', stack', current_token_idx')
  BY <1>1
<1> QED
  BY <1>5, <1>6 DEF EInv

(* An error leaves all as it was.                                           *)
LEMMA ExitFits ==
  ASSUME EInv, Exit
  PROVE  EInv'
<1>1. /\ tokens' = tokens /\ current_token_idx' = current_token_idx /\ status' = "exited"
      /\ at' = at /\ min_prec' = min_prec /\ lhs' = lhs /\ stack' = stack
  BY DEF Exit, control
<1>2. TokensFit'
  BY <1>1 DEF EInv, TokensFit, EndIsNeverConsumed, Statuses
<1>3. FramesFit(stack', current_token_idx') /\ PointFits(at', lhs', stack', current_token_idx')
  BY <1>1 DEF EInv
<1>4. min_prec' \in 0 .. 90
  BY <1>1 DEF EInv
<1> QED
  BY <1>2, <1>3, <1>4 DEF EInv

(* What is known where the parser stands.                                   *)
LEMMA Here ==
  ASSUME EInv
  PROVE  /\ IsSeq(tokens) /\ Len(tokens) \in Nat
         /\ current_token_idx \in Nat /\ current_token_idx >= 1
         /\ current_token_idx \in 1 .. current_token_idx
         /\ current_token_idx + 1 \in Nat /\ current_token_idx <= current_token_idx + 1
         /\ min_prec \in 0 .. 90 /\ min_prec \in Nat
         /\ FramesFit(stack, current_token_idx)
         /\ FramesFit(stack, current_token_idx + 1)
         /\ IsSeq(stack) /\ Len(stack) \in Nat
<1>1. /\ IsSeq(tokens) /\ Len(tokens) \in Nat /\ FramesFit(stack, current_token_idx)
      /\ current_token_idx \in 1 .. (Len(tokens) + 1) /\ min_prec \in 0 .. 90
  BY SeqFacts DEF EInv, TokensFit
<1>2. /\ current_token_idx \in Nat /\ current_token_idx >= 1
      /\ current_token_idx \in 1 .. current_token_idx
      /\ current_token_idx + 1 \in Nat /\ current_token_idx <= current_token_idx + 1
      /\ min_prec \in Nat
  BY <1>1
<1>3. FramesFit(stack, current_token_idx + 1)
  BY <1>1, <1>2, LaterFits
<1>4. IsSeq(stack) /\ Len(stack) \in Nat
  BY <1>1, SeqFacts DEF FramesFit
<1> QED
  BY <1>1, <1>2, <1>3, <1>4

(* A step that reads at most the token looked at.                           *)
Moves == Stay \/ (Peeking /\ Peek # "eof" /\ Advance)

(* Another point of the same call, which needs no more.                     *)
LEMMA MoveFits ==
  ASSUME EInv, Moves, min_prec' \in 0 .. 90,
         FramesFit(stack', current_token_idx),
         PointFits(at', lhs', stack', current_token_idx)
  PROVE  EInv'
<1>1. /\ current_token_idx \in Nat /\ current_token_idx + 1 \in Nat
      /\ current_token_idx <= current_token_idx + 1
  BY Here
<1>2. CASE Stay
  BY <1>2, StayFits
<1>3. CASE Peeking /\ Peek # "eof" /\ Advance
  <2>1. FramesFit(stack', current_token_idx + 1)
    BY <1>1, LaterFits
  <2>2. PointFits(at', lhs', stack', current_token_idx + 1)
    BY <1>1 DEF PointFits
  <2> QED
    BY <1>3, <2>1, <2>2, AdvanceFits
<1> QED
  BY <1>2, <1>3 DEF Moves

(* The call that waits innermost.                                           *)
LEMMA TopFits ==
  ASSUME EInv, stack # <<>>
  PROVE  /\ FrameFits(Top, current_token_idx)
         /\ FramesFit(Pop, current_token_idx)
         /\ Top.min_prec \in 0 .. 90
         /\ Built(Top) # NoTree /\ Built(Filled) # NoTree
<1>1. FramesFit(stack, current_token_idx)
  BY DEF EInv
<1>2. FramesFit(Pop, current_token_idx) /\ FrameFits(Top, current_token_idx)
  BY <1>1, PopFits DEF Pop, Top
<1>3. Built(Top) # NoTree /\ Built(Filled) # NoTree
  BY DEF Built, Tree, NoTree
<1> QED
  BY <1>2, <1>3 DEF FrameFits

(* ... is given what it waits for and goes on.                              *)
LEMMA FilledFits ==
  ASSUME EInv, stack # <<>>, Len(Top.parts) + 1 \in HeldParts(Top.node)
  PROVE  /\ FramesFit(ReplaceTop(Filled), current_token_idx)
         /\ IsTop(ReplaceTop(Filled), {Top.node})
<1>1. FramesFit(stack, current_token_idx) /\ FrameFits(Top, current_token_idx)
  BY TopFits DEF EInv
<1>2. PICK f : f = Filled
  OBVIOUS
<1>3. PICK top : top = Top
  OBVIOUS
<1>4. FrameFits(top, current_token_idx) /\ Len(top.parts) + 1 \in HeldParts(top.node)
  BY <1>1, <1>3
<1>5. PICK parts : parts = Append(top.parts, lhs)
  OBVIOUS
<1>6. IsSeq(parts) /\ Len(parts) = Len(top.parts) + 1
  BY <1>4, <1>5, AppendSeq DEF FrameFits
<1>7. f = [top EXCEPT !.parts = parts]
  BY <1>2, <1>3, <1>5 DEF Filled
<1>8. f = [node |-> top.node, pos |-> top.pos, parts |-> parts, min_prec |-> top.min_prec]
  BY <1>4, <1>7 DEF FrameFits
<1>9. FrameFits(f, current_token_idx) /\ f.node = top.node
  BY <1>4, <1>6, <1>8 DEF FrameFits
<1> QED
  BY <1>1, <1>2, <1>3, <1>9, ReplaceFits DEF ReplaceTop

(* A call waits for an expression.                                          *)
LEMMA PushedFits ==
  ASSUME EInv, NEW node \in FrameNodes, NEW pos \in 1 .. current_token_idx,
         NEW parts, IsSeq(parts), Len(parts) \in HeldParts(node)
  PROVE  /\ FramesFit(Push(Frame(node, pos, parts)), current_token_idx)
         /\ IsTop(Push(Frame(node, pos, parts)), {node})
<1>1. FramesFit(stack, current_token_idx) /\ min_prec \in 0 .. 90
  BY DEF EInv
<1>2. PICK f : f = Frame(node, pos, parts)
  OBVIOUS
<1>3. FrameFits(f, current_token_idx) /\ f.node = node
  BY <1>1, <1>2, FrameIs
<1>4. FramesFit(Append(stack, f), current_token_idx) /\ IsTop(Append(stack, f), {f.node})
  BY <1>1, <1>3, PushFits
<1> QED
  BY <1>2, <1>3, <1>4 DEF Push

(* How many trees a call may hold.                                          *)
LEMMA HeldPartsAre ==
  /\ \A node \in {"unary", "paren", "cast", "struct_init", "arr_init"} : 0 \in HeldParts(node)
  /\ \A node \in {"infix", "create", "ternary", "call", "subscript"} : 1 \in HeldParts(node)
  /\ \A node \in {"call", "subscript", "struct_init", "arr_init", "nested_arr_init"} :
       \A n \in HeldParts(node) : n \in Nat /\ n + 1 \in HeldParts(node)
  /\ 2 \in HeldParts("ternary")
  /\ \A n \in HeldParts("ternary") : n = 1 \/ n = 2
  /\ HeldParts("nested_arr_init") = HeldParts("arr_init")
BY DEF HeldParts

----------------------------------------------------------------------------
(* An operand: a literal,                                                   *)
LEMMA LiteralKeeps ==
  ASSUME EInv, ParseLiteral
  PROVE  EInv'
<1>1. Moves /\ at' = "pratt_parse" /\ min_prec' = min_prec /\ stack' = stack /\ lhs' # NoTree
  BY DEF ParseLiteral, At, Moves, PrattParse, Tree, NoTree
<1>2. PointFits(at', lhs', stack', current_token_idx)
  BY <1>1 DEF PointFits, Points
<1> QED
  BY <1>1, <1>2, Here, MoveFits

(* ... and a name,                                                         *)
LEMMA IdentKeeps ==
  ASSUME EInv, ParseIdent
  PROVE  EInv'
<1>1. /\ Moves /\ at' = "path" /\ min_prec' = min_prec /\ stack' = stack
      /\ lhs' = Tree("ident", current_token_idx, <<>>)
  BY DEF ParseIdent, At, Moves
<1>2. PointFits(at', lhs', stack', current_token_idx)
  BY <1>1, TreeIs DEF PointFits, Points
<1> QED
  BY <1>1, <1>2, Here, MoveFits

(* ... which may be a path.                                                *)
LEMMA PathKeeps ==
  ASSUME EInv, ParsePath
  PROVE  EInv'
<1>1. CASE At("path") /\ Peek = "::" /\ Advance /\ Goto("path_name")
  <2>1. /\ Moves /\ at' = "path_name" /\ min_prec' = min_prec /\ stack' = stack /\ lhs' = lhs
        /\ at = "path"
    BY <1>1 DEF At, Moves, Goto
  <2>2. PointFits(at', lhs', stack', current_token_idx)
    BY <2>1 DEF EInv, PointFits, Points
  <2> QED
    BY <2>1, <2>2, Here, MoveFits
<1>2. CASE At("path") /\ Peek # "::" /\ Stay /\ Goto("pratt_parse")
  <2>1. /\ Moves /\ at' = "pratt_parse" /\ min_prec' = min_prec /\ stack' = stack /\ lhs' = lhs
        /\ at = "path"
    BY <1>2 DEF At, Moves, Goto
  <2>2. lhs = [part \in 1 .. 3 |-> lhs[part]]
    BY <2>1 DEF EInv, PointFits
  <2>3. lhs # NoTree
    BY <2>2 DEF NoTree
  <2>4. PointFits(at', lhs', stack', current_token_idx)
    BY <2>1, <2>3 DEF PointFits, Points
  <2> QED
    BY <2>1, <2>4, Here, MoveFits
<1>3. CASE At("path_name") /\ Peek = "x" /\ Advance
  <2>1. /\ Moves /\ at' = "path" /\ min_prec' = min_prec /\ stack' = stack /\ at = "path_name"
        /\ lhs' = [lhs EXCEPT ![3] = Append(@, current_token_idx)]
    BY <1>3 DEF ParsePath, Expect, At, Moves
  <2>2. lhs = [part \in 1 .. 3 |-> lhs[part]]
    BY <2>1 DEF EInv, PointFits
  <2>3. lhs' = [part \in 1 .. 3 |-> lhs'[part]]
    BY <2>1, <2>2
  <2>4. PointFits(at', lhs', stack', current_token_idx)
    BY <2>1, <2>3 DEF PointFits, Points
  <2> QED
    BY <2>1, <2>4, Here, MoveFits
<1>4. CASE Exit
  BY <1>4, ExitFits
<1> QED
  BY <1>1, <1>2, <1>3, <1>4 DEF ParsePath, Expect

(* A prefix operator waits for its operand,                                *)
LEMMA UnaryKeeps ==
  ASSUME EInv, ParseUnary
  PROVE  EInv'
<1> DEFINE st == Push(Frame("unary", current_token_idx, <<>>))
<1>1. FramesFit(st, current_token_idx)
  BY Here, ShortSeqs, HeldPartsAre, PushedFits DEF FrameNodes
<1>2. /\ Peeking /\ Peek # "eof" /\ Advance
      /\ at' = "parse_prefix" /\ min_prec' = 80 /\ stack' = st
  BY DEF ParseUnary, At, ParseExpression, PREFIX_PRECEDENCE, PrefixOperators
<1> HIDE DEF st
<1>3. PointFits(at', lhs', stack', current_token_idx)
  BY <1>2 DEF PointFits, Points
<1> QED
  BY <1>1, <1>2, <1>3, MoveFits DEF Moves

(* ... a parenthesis for what is in it,                                    *)
LEMMA ParenKeeps ==
  ASSUME EInv, ParseParen
  PROVE  EInv'
<1>1. CASE At("parse_prefix") /\ Peek = "(" /\ Advance /\ Goto("after_lparen")
  <2>1. /\ Peeking /\ Peek # "eof" /\ at' = "after_lparen" /\ min_prec' = min_prec
        /\ stack' = stack
    BY <1>1 DEF At, Goto
  <2>2. current_token_idx + 1 >= 2
    BY Here
  <2>3. PointFits(at', lhs', stack', current_token_idx + 1)
    BY <2>1, <2>2 DEF PointFits, Points
  <2> QED
    BY <1>1, <2>1, <2>3, Here, AdvanceFits
<1>2. CASE /\ At("after_lparen") /\ Peek # "#cast<T>" /\ Stay
           /\ ParseExpression(0, Push(Frame("paren", current_token_idx - 1, <<>>)))
  <2> DEFINE st == Push(Frame("paren", current_token_idx - 1, <<>>))
  <2>1. current_token_idx >= 2
    BY <1>2 DEF EInv, PointFits, At
  <2>2. current_token_idx - 1 \in 1 .. current_token_idx
    BY <2>1, Here
  <2>3. FramesFit(st, current_token_idx)
    BY <2>2, ShortSeqs, HeldPartsAre, PushedFits DEF FrameNodes
  <2>4. Moves /\ at' = "parse_prefix" /\ min_prec' = 0 /\ stack' = st
    BY <1>2 DEF Moves, ParseExpression
  <2> HIDE DEF st
  <2>5. PointFits(at', lhs', stack', current_token_idx)
    BY <2>4 DEF PointFits, Points
  <2> QED
    BY <2>3, <2>4, <2>5, MoveFits
<1> QED
  BY <1>1, <1>2 DEF ParseParen

(* ... and a cast for a whole expression.                                  *)
LEMMA CastKeeps ==
  ASSUME EInv, ParseCast
  PROVE  EInv'
<1>1. CASE At("after_lparen") /\ Peek = "#cast<T>" /\ Advance /\ Goto("cast")
  <2>1. /\ Peeking /\ Peek # "eof" /\ at' = "cast" /\ min_prec' = min_prec
        /\ stack' = stack /\ current_token_idx >= 2
    BY <1>1 DEF At, Goto, EInv, PointFits
  <2>2. current_token_idx + 1 >= 3
    BY <2>1, Here
  <2>3. PointFits(at', lhs', stack', current_token_idx + 1)
    BY <2>1, <2>2 DEF PointFits, Points
  <2> QED
    BY <1>1, <2>1, <2>3, Here, AdvanceFits
<1>2. CASE At("cast") /\ Peek = ")" /\ Advance
  <2> DEFINE st == Push(Frame("cast", current_token_idx - 2, <<>>))
  <2>1. current_token_idx >= 3
    BY <1>2 DEF EInv, PointFits, At
  <2>2. current_token_idx - 2 \in 1 .. current_token_idx
    BY <2>1, Here
  <2>3. FramesFit(st, current_token_idx)
    BY <2>2, ShortSeqs, HeldPartsAre, PushedFits DEF FrameNodes
  <2>4. Moves /\ at' = "parse_prefix" /\ min_prec' = 0 /\ stack' = st
    BY <1>2 DEF ParseCast, At, Expect, Moves, ParseExpression
  <2> HIDE DEF st
  <2>5. PointFits(at', lhs', stack', current_token_idx)
    BY <2>4 DEF PointFits, Points
  <2> QED
    BY <2>3, <2>4, <2>5, MoveFits
<1>3. CASE Exit
  BY <1>3, ExitFits
<1> QED
  BY <1>1, <1>2, <1>3 DEF ParseCast, Expect

(* An expression ends before what does not bind as much.                   *)
LEMMA EndOfExpressionKeeps ==
  ASSUME EInv, EndOfExpression
  PROVE  EInv'
<1>1. /\ Moves /\ at' = "return" /\ min_prec' = min_prec /\ stack' = stack /\ lhs' = lhs
      /\ lhs # NoTree
  BY DEF EndOfExpression, At, Moves, ReturnTree, EInv, PointFits
<1>2. PointFits(at', lhs', stack', current_token_idx)
  BY <1>1 DEF PointFits, Points
<1> QED
  BY <1>1, <1>2, Here, MoveFits

(* A call waits for its arguments,                                         *)
LEMMA FuncCallKeeps ==
  ASSUME EInv, ParseFuncCall
  PROVE  EInv'
<1>1. CASE /\ Follows({"("}) /\ Advance
           /\ GotoIn("args", Push(Frame("call", current_token_idx, <<lhs>>)))
  <2> DEFINE st == Push(Frame("call", current_token_idx, <<lhs>>))
  <2>1. FramesFit(st, current_token_idx) /\ IsTop(st, {"call"})
    BY Here, ShortSeqs, HeldPartsAre, PushedFits DEF FrameNodes
  <2>2. /\ Peeking /\ Peek # "eof" /\ Advance
        /\ at' = "args" /\ min_prec' = min_prec /\ stack' = st
    BY <1>1 DEF Follows, At, GotoIn
  <2> HIDE DEF st
  <2>3. PointFits(at', lhs', stack', current_token_idx)
    BY <2>1, <2>2 DEF PointFits, Points
  <2> QED
    BY <2>1, <2>2, <2>3, Here, MoveFits DEF Moves
<1>2. CASE At("args") /\ Peek = ")" /\ Advance /\ PrattParse(Built(Top), Top.min_prec, Pop)
  <2>1. stack # <<>>
    BY <1>2 DEF EInv, PointFits, At, IsTop
  <2>2. /\ Moves /\ at' = "pratt_parse" /\ min_prec' = Top.min_prec /\ stack' = Pop
        /\ lhs' = Built(Top)
    BY <1>2 DEF At, Moves, PrattParse
  <2>3. FramesFit(Pop, current_token_idx) /\ Top.min_prec \in 0 .. 90 /\ Built(Top) # NoTree
    BY <2>1, TopFits
  <2>4. PointFits(at', lhs', stack', current_token_idx)
    BY <2>2, <2>3 DEF PointFits, Points
  <2> QED
    BY <2>2, <2>3, <2>4, MoveFits
<1>3. CASE At("args") /\ Peek # ")" /\ Stay /\ ParseExpression(0, stack)
  <2>1. Moves /\ at' = "parse_prefix" /\ min_prec' = 0 /\ stack' = stack
    BY <1>3 DEF Moves, ParseExpression
  <2>2. PointFits(at', lhs', stack', current_token_idx)
    BY <2>1 DEF PointFits, Points
  <2> QED
    BY <2>1, <2>2, Here, MoveFits
<1> QED
  BY <1>1, <1>2, <1>3 DEF ParseFuncCall

(* ... a run of subscripts for each of its own,                            *)
LEMMA ArrSubKeeps ==
  ASSUME EInv, ParseArrSub
  PROVE  EInv'
<1>1. CASE /\ Follows({"["}) /\ Advance
           /\ ParseExpression(0, Push(Frame("subscript", current_token_idx, <<lhs>>)))
  <2> DEFINE st == Push(Frame("subscript", current_token_idx, <<lhs>>))
  <2>1. FramesFit(st, current_token_idx)
    BY Here, ShortSeqs, HeldPartsAre, PushedFits DEF FrameNodes
  <2>2. /\ Peeking /\ Peek # "eof" /\ Advance
        /\ at' = "parse_prefix" /\ min_prec' = 0 /\ stack' = st
    BY <1>1 DEF Follows, At, ParseExpression
  <2> HIDE DEF st
  <2>3. PointFits(at', lhs', stack', current_token_idx)
    BY <2>2 DEF PointFits, Points
  <2> QED
    BY <2>1, <2>2, <2>3, MoveFits DEF Moves
<1>2. CASE At("subscripts") /\ Peek = "[" /\ Advance /\ ParseExpression(0, stack)
  <2>1. Moves /\ at' = "parse_prefix" /\ min_prec' = 0 /\ stack' = stack
    BY <1>2 DEF At, Moves, ParseExpression
  <2>2. PointFits(at', lhs', stack', current_token_idx)
    BY <2>1 DEF PointFits, Points
  <2> QED
    BY <2>1, <2>2, Here, MoveFits
<1>3. CASE At("subscripts") /\ Peek # "[" /\ Stay /\ PrattParse(Built(Top), Top.min_prec, Pop)
  <2>1. stack # <<>>
    BY <1>3 DEF EInv, PointFits, At, IsTop
  <2>2. /\ Moves /\ at' = "pratt_parse" /\ min_prec' = Top.min_prec /\ stack' = Pop
        /\ lhs' = Built(Top)
    BY <1>3 DEF Moves, PrattParse
  <2>3. FramesFit(Pop, current_token_idx) /\ Top.min_prec \in 0 .. 90 /\ Built(Top) # NoTree
    BY <2>1, TopFits
  <2>4. PointFits(at', lhs', stack', current_token_idx)
    BY <2>2, <2>3 DEF PointFits, Points
  <2> QED
    BY <2>2, <2>3, <2>4, MoveFits
<1> QED
  BY <1>1, <1>2, <1>3 DEF ParseArrSub

(* ... a dot for the member,                                               *)
LEMMA MemberAccessKeeps ==
  ASSUME EInv, ParseMemberAccess
  PROVE  EInv'
<1>1. CASE Follows({".", "->"}) /\ Advance /\ Goto("member")
  <2>1. /\ Peeking /\ Peek # "eof" /\ Advance /\ lhs # NoTree
        /\ at' = "member" /\ min_prec' = min_prec /\ stack' = stack /\ lhs' = lhs
    BY <1>1 DEF Follows, At, Goto, EInv, PointFits
  <2>2. PointFits(at', lhs', stack', current_token_idx)
    BY <2>1 DEF PointFits, Points
  <2> QED
    BY <2>1, <2>2, Here, MoveFits DEF Moves
<1>2. CASE At("member") /\ Peek = "x" /\ Advance
  <2>1. /\ Moves /\ at' = "pratt_parse" /\ min_prec' = min_prec /\ stack' = stack
        /\ lhs' # NoTree
    BY <1>2 DEF ParseMemberAccess, Follows, At, Expect, Moves, PrattParse, Tree, NoTree
  <2>2. PointFits(at', lhs', stack', current_token_idx)
    BY <2>1 DEF PointFits, Points
  <2> QED
    BY <2>1, <2>2, Here, MoveFits
<1>3. CASE Exit
  BY <1>3, ExitFits
<1> QED
  BY <1>1, <1>2, <1>3 DEF ParseMemberAccess, Expect

(* ... and an increment for nothing.                                       *)
LEMMA PostIncDecKeeps ==
  ASSUME EInv, ParsePostIncDec
  PROVE  EInv'
<1>1. /\ Peeking /\ Peek # "eof" /\ Advance
      /\ at' = "pratt_parse" /\ min_prec' = min_prec /\ stack' = stack /\ lhs' # NoTree
  BY DEF ParsePostIncDec, Follows, At, PrattParse, Tree, NoTree
<1>2. PointFits(at', lhs', stack', current_token_idx)
  BY <1>1 DEF PointFits, Points
<1> QED
  BY <1>1, <1>2, Here, MoveFits DEF Moves

(* A structure is named, and its initializer waited for.                   *)
LEMMA StructCreateKeeps ==
  ASSUME EInv, ParseStructCreate
  PROVE  EInv'
<1> DEFINE st == Push(Frame("create", current_token_idx, <<lhs>>))
<1>1. FramesFit(st, current_token_idx)
  BY Here, ShortSeqs, HeldPartsAre, PushedFits DEF FrameNodes
<1>2. Moves /\ at' = "parse_struct_init" /\ min_prec' = min_prec /\ stack' = st
  BY DEF ParseStructCreate, Moves, GotoIn
<1> HIDE DEF st
<1>3. PointFits(at', lhs', stack', current_token_idx)
  BY <1>2 DEF PointFits, Points
<1> QED
  BY <1>1, <1>2, <1>3, Here, MoveFits

(* The operand on the right has a precedence of its own,                   *)
LEMMA InfixKeeps ==
  ASSUME EInv, ParseInfix
  PROVE  EInv'
<1> DEFINE st == Push(Frame("infix", current_token_idx, <<lhs>>))
<1>1. FramesFit(st, current_token_idx)
  BY Here, ShortSeqs, HeldPartsAre, PushedFits DEF FrameNodes
<1>2. /\ Advance /\ at' = "parse_prefix" /\ min_prec' = MinRhsPrec(Peek) /\ stack' = st
  BY DEF ParseInfix, ParseExpression
<1>3. Peeking /\ Precedence(Peek) > min_prec /\ Peek \in BinaryOperators \cup AssignOperators
  BY DEF ParseInfix, Follows, At
<1>4. Peek # "eof"
  BY <1>3 DEF BinaryOperators, AssignOperators
<1>5. PICK tok : tok = Peek
  OBVIOUS
<1>6. Precedence(tok) \in 0 .. 90 /\ min_prec \in 0 .. 90 /\ Precedence(tok) > min_prec
  BY <1>3, <1>5, PrecedenceIs, Here
<1>7. MinRhsPrec(tok) \in 0 .. 90
  BY <1>6 DEF MinRhsPrec
<1> HIDE DEF st
<1>8. PointFits(at', lhs', stack', current_token_idx)
  BY <1>2 DEF PointFits, Points
<1> QED
  BY <1>1, <1>2, <1>3, <1>4, <1>5, <1>7, <1>8, MoveFits DEF Moves

(* ... that of a condition none.                                           *)
LEMMA TernaryKeeps ==
  ASSUME EInv, ParseTernary
  PROVE  EInv'
<1> DEFINE st == Push(Frame("ternary", current_token_idx, <<lhs>>))
<1>1. FramesFit(st, current_token_idx)
  BY Here, ShortSeqs, HeldPartsAre, PushedFits DEF FrameNodes
<1>2. /\ Peeking /\ Peek # "eof" /\ Advance
      /\ at' = "parse_prefix" /\ min_prec' = 0 /\ stack' = st
  BY DEF ParseTernary, Follows, At, ParseExpression
<1> HIDE DEF st
<1>3. PointFits(at', lhs', stack', current_token_idx)
  BY <1>2 DEF PointFits, Points
<1> QED
  BY <1>1, <1>2, <1>3, MoveFits DEF Moves

----------------------------------------------------------------------------
(* The initializer of a structure: member by member,                       *)
LEMMA StructInitKeeps ==
  ASSUME EInv, ParseStructInit
  PROVE  EInv'
<1>1. CASE At("parse_struct_init") /\ Peek = "{" /\ Advance
  <2> DEFINE st == Push(Frame("struct_init", current_token_idx, <<>>))
  <2>1. FramesFit(st, current_token_idx) /\ IsTop(st, {"struct_init"})
    BY Here, ShortSeqs, HeldPartsAre, PushedFits DEF FrameNodes
  <2>2. Moves /\ at' = "member_inits" /\ min_prec' = min_prec /\ stack' = st
    BY <1>1 DEF ParseStructInit, At, Expect, Moves, GotoIn
  <2> HIDE DEF st
  <2>3. PointFits(at', lhs', stack', current_token_idx)
    BY <2>1, <2>2 DEF PointFits, Points
  <2> QED
    BY <2>1, <2>2, <2>3, Here, MoveFits
<1>2. CASE At("member_inits") /\ Peek = "." /\ Advance /\ Goto("member_name")
  <2>1. /\ Moves /\ at' = "member_name" /\ min_prec' = min_prec /\ stack' = stack
        /\ IsTop(stack, {"struct_init"})
    BY <1>2 DEF At, Moves, Goto, EInv, PointFits
  <2>2. PointFits(at', lhs', stack', current_token_idx)
    BY <2>1 DEF PointFits, Points
  <2> QED
    BY <2>1, <2>2, Here, MoveFits
<1>3. CASE At("member_inits") /\ Peek = "}" /\ Advance /\ ReturnTree(Built(Top), Pop)
  <2>1. stack # <<>>
    BY <1>3 DEF EInv, PointFits, At, IsTop
  <2>2. /\ Moves /\ at' = "return" /\ min_prec' = min_prec /\ stack' = Pop
        /\ lhs' = Built(Top)
    BY <1>3 DEF At, Moves, ReturnTree
  <2>3. FramesFit(Pop, current_token_idx) /\ Built(Top) # NoTree
    BY <2>1, TopFits
  <2>4. PointFits(at', lhs', stack', current_token_idx)
    BY <2>2, <2>3 DEF PointFits, Points
  <2> QED
    BY <2>2, <2>3, <2>4, Here, MoveFits
<1>4. CASE At("member_name") /\ Peek = "x" /\ Advance
  <2>1. /\ Moves /\ at' = "member_assign" /\ min_prec' = min_prec /\ stack' = stack
        /\ IsTop(stack, {"struct_init"})
    BY <1>4 DEF ParseStructInit, At, Expect, Moves, Goto, EInv, PointFits
  <2>2. PointFits(at', lhs', stack', current_token_idx)
    BY <2>1 DEF PointFits, Points
  <2> QED
    BY <2>1, <2>2, Here, MoveFits
<1>5. CASE At("member_assign") /\ Peek = "=" /\ Advance
  <2>1. Moves /\ at' = "parse_prefix" /\ min_prec' = 0 /\ stack' = stack
    BY <1>5 DEF ParseStructInit, At, Expect, Moves, ParseExpression
  <2>2. PointFits(at', lhs', stack', current_token_idx)
    BY <2>1 DEF PointFits, Points
  <2> QED
    BY <2>1, <2>2, Here, MoveFits
<1>6. CASE Exit
  BY <1>6, ExitFits
<1> QED
  BY <1>1, <1>2, <1>3, <1>4, <1>5, <1>6 DEF ParseStructInit, Expect

(* ... and of an array, whose first element says what all are.             *)
LEMMA ArrInitKeeps ==
  ASSUME EInv, ParseArrInit
  PROVE  EInv'
<1>1. CASE At("parse_arr_init") /\ Peek = "{" /\ Advance
  <2> DEFINE st == Push(Frame("arr_init", current_token_idx, <<>>))
  <2>1. FramesFit(st, current_token_idx) /\ IsTop(st, {"arr_init"})
    BY Here, ShortSeqs, HeldPartsAre, PushedFits DEF FrameNodes
  <2>2. Moves /\ at' = "first_element" /\ min_prec' = min_prec /\ stack' = st
    BY <1>1 DEF ParseArrInit, At, Expect, Moves, GotoIn
  <2> HIDE DEF st
  <2>3. PointFits(at', lhs', stack', current_token_idx)
    BY <2>1, <2>2 DEF PointFits, Points
  <2> QED
    BY <2>1, <2>2, <2>3, Here, MoveFits
<1>2. CASE /\ At("first_element") /\ Stay
           /\ GotoIn("parse_arr_init", ReplaceTop([Top EXCEPT !.node = "nested_arr_init"]))
  <2>1. stack # <<>> /\ Top.node = "arr_init"
    BY <1>2 DEF EInv, PointFits, At, IsTop, Top
  <2>2. PICK top : top = Top
    OBVIOUS
  <2>3. FrameFits(top, current_token_idx) /\ top.node = "arr_init"
    BY <2>1, <2>2, TopFits
  <2>4. PICK f : f = [top EXCEPT !.node = "nested_arr_init"]
    OBVIOUS
  <2>5. f = [node |-> "nested_arr_init", pos |-> top.pos, parts |-> top.parts,
             min_prec |-> top.min_prec]
    BY <2>3, <2>4 DEF FrameFits
  <2>6. FrameFits(f, current_token_idx)
    BY <2>3, <2>5, HeldPartsAre DEF FrameFits, FrameNodes
  <2>7. FramesFit(ReplaceTop(f), current_token_idx)
    BY <2>1, <2>6, Here, ReplaceFits DEF ReplaceTop
  <2>8. Moves /\ at' = "parse_arr_init" /\ min_prec' = min_prec /\ stack' = ReplaceTop(f)
    BY <1>2, <2>2, <2>4 DEF Moves, GotoIn
  <2>9. PointFits(at', lhs', stack', current_token_idx)
    BY <2>8 DEF PointFits, Points
  <2> QED
    BY <2>7, <2>8, <2>9, Here, MoveFits
<1>3. CASE At("first_element") /\ Stay /\ ParseExpression(0, stack)
  <2>1. Moves /\ at' = "parse_prefix" /\ min_prec' = 0 /\ stack' = stack
    BY <1>3 DEF Moves, ParseExpression
  <2>2. PointFits(at', lhs', stack', current_token_idx)
    BY <2>1 DEF PointFits, Points
  <2> QED
    BY <2>1, <2>2, Here, MoveFits
<1>4. CASE Exit
  BY <1>4, ExitFits
<1> QED
  BY <1>1, <1>2, <1>3, <1>4 DEF ParseArrInit, Expect

(* After a comma something must follow.                                    *)
LEMMA CommaKeeps ==
  ASSUME EInv, AfterComma
  PROVE  EInv'
<1>1. CASE Exit
  BY <1>1, ExitFits
<1>2. CASE Stay /\ ParseExpression(0, stack)
  <2>1. Moves /\ at' = "parse_prefix" /\ min_prec' = 0 /\ stack' = stack
    BY <1>2 DEF Moves, ParseExpression
  <2>2. PointFits(at', lhs', stack', current_token_idx)
    BY <2>1 DEF PointFits, Points
  <2> QED
    BY <2>1, <2>2, Here, MoveFits
<1>3. CASE At("after_comma") /\ Top.node = "struct_init" /\ Stay /\ Goto("member_inits")
  <2>1. /\ Moves /\ at' = "member_inits" /\ min_prec' = min_prec /\ stack' = stack
        /\ IsTop(stack, {"call", "struct_init"})
    BY <1>3 DEF At, Moves, Goto, EInv, PointFits
  <2>2. IsTop(stack, {"struct_init"})
    BY <1>3, <2>1 DEF IsTop, Top
  <2>3. PointFits(at', lhs', stack', current_token_idx)
    BY <2>1, <2>2 DEF PointFits, Points
  <2> QED
    BY <2>1, <2>3, Here, MoveFits
<1> QED
  BY <1>1, <1>2, <1>3 DEF AfterComma

----------------------------------------------------------------------------
(* A call goes on with its node made,                                       *)
LEMMA MadeFits ==
  ASSUME EInv, Moves, stack # <<>>, at' = "pratt_parse", min_prec' = Top.min_prec,
         stack' = Pop, lhs' # NoTree
  PROVE  EInv'
<1>1. FramesFit(Pop, current_token_idx) /\ Top.min_prec \in 0 .. 90
  BY TopFits
<1>2. PointFits(at', lhs', stack', current_token_idx)
  BY DEF PointFits, Points
<1> QED
  BY <1>1, <1>2, MoveFits

(* ... with one more tree of a list,                                        *)
LEMMA ListFills ==
  ASSUME EInv, stack # <<>>,
         Top.node \in {"call", "subscript", "struct_init", "arr_init", "nested_arr_init"}
  PROVE  /\ FramesFit(ReplaceTop(Filled), current_token_idx)
         /\ IsTop(ReplaceTop(Filled), {Top.node})
<1>1. Len(Top.parts) \in HeldParts(Top.node)
  BY TopFits DEF FrameFits
<1>2. Len(Top.parts) + 1 \in HeldParts(Top.node)
  BY <1>1, HeldPartsAre
<1> QED
  BY <1>2, FilledFits

(* ... after a parenthesis,                                                *)
LEMMA EndParenKeeps ==
  ASSUME EInv, EndParen
  PROVE  EInv'
<1>1. CASE Peek = ")" /\ Advance
  <2>1. /\ Peeking /\ Peek # "eof" /\ stack # <<>> /\ lhs # NoTree
        /\ at' = "pratt_parse" /\ min_prec' = Top.min_prec /\ stack' = Pop /\ lhs' = lhs
    BY <1>1 DEF EndParen, ReturningTo, Expect, PrattParse, EInv, PointFits
  <2> QED
    BY <1>1, <2>1, MadeFits DEF Moves
<1>2. CASE Exit
  BY <1>2, ExitFits
<1> QED
  BY <1>1, <1>2 DEF EndParen, Expect

(* ... with its operand,                                                   *)
LEMMA EndOperandKeeps ==
  ASSUME EInv, EndOperand
  PROVE  EInv'
<1>1. /\ Moves /\ stack # <<>>
      /\ at' = "pratt_parse" /\ min_prec' = Top.min_prec /\ stack' = Pop
      /\ lhs' = Built(Filled)
  BY DEF EndOperand, ReturningTo, PrattParse, Moves
<1> QED
  BY <1>1, TopFits, MadeFits

(* ... with one of the two parts of a condition,                           *)
LEMMA EndTernaryPartKeeps ==
  ASSUME EInv, EndTernaryPart
  PROVE  EInv'
<1>1. CASE ReturningTo({"ternary"}) /\ Len(Top.parts) = 1 /\ Peeking /\ Peek = ":" /\ Advance
  <2>1. stack # <<>> /\ Top.node = "ternary"
    BY <1>1 DEF ReturningTo
  <2>2. Len(Top.parts) + 1 \in HeldParts(Top.node)
    BY <1>1, <2>1, HeldPartsAre
  <2>3. FramesFit(ReplaceTop(Filled), current_token_idx)
    BY <2>1, <2>2, FilledFits
  <2>4. Moves /\ at' = "parse_prefix" /\ min_prec' = Precedence("?") - 1
        /\ stack' = ReplaceTop(Filled)
    BY <1>1 DEF EndTernaryPart, Expect, Moves, ParseExpression
  <2>5. min_prec' \in 0 .. 90
    BY <2>4, TernaryPrecedenceIs
  <2>6. PointFits(at', lhs', stack', current_token_idx)
    BY <2>4 DEF PointFits, Points
  <2> QED
    BY <2>3, <2>4, <2>5, <2>6, MoveFits
<1>2. CASE ReturningTo({"ternary"}) /\ Stay /\ PrattParse(Built(Filled), Top.min_prec, Pop)
  <2>1. /\ Moves /\ stack # <<>>
        /\ at' = "pratt_parse" /\ min_prec' = Top.min_prec /\ stack' = Pop
        /\ lhs' = Built(Filled)
    BY <1>2 DEF ReturningTo, PrattParse, Moves
  <2> QED
    BY <2>1, TopFits, MadeFits
<1>3. CASE Exit
  BY <1>3, ExitFits
<1> QED
  BY <1>1, <1>2, <1>3 DEF EndTernaryPart, Expect

(* ... with an argument,                                                   *)
LEMMA EndArgKeeps ==
  ASSUME EInv, EndArg
  PROVE  EInv'
<1>1. Peeking /\ stack # <<>> /\ Top.node = "call"
  BY DEF EndArg, ReturningTo
<1>2. FramesFit(ReplaceTop(Filled), current_token_idx) /\ IsTop(ReplaceTop(Filled), {"call"})
  BY <1>1, ListFills
<1>3. CASE Peek = "," /\ Advance /\ GotoIn("after_comma", ReplaceTop(Filled))
  <2>1. Moves /\ at' = "after_comma" /\ min_prec' = min_prec /\ stack' = ReplaceTop(Filled)
    BY <1>1, <1>3 DEF Moves, GotoIn
  <2>2. IsTop(ReplaceTop(Filled), {"call", "struct_init"})
    BY <1>2 DEF IsTop
  <2>3. PointFits(at', lhs', stack', current_token_idx)
    BY <2>1, <2>2 DEF PointFits, Points
  <2> QED
    BY <1>2, <2>1, <2>3, Here, MoveFits
<1>4. CASE Peek = ")" /\ Advance /\ PrattParse(Built(Filled), Top.min_prec, Pop)
  <2>1. /\ Moves /\ at' = "pratt_parse" /\ min_prec' = Top.min_prec /\ stack' = Pop
        /\ lhs' = Built(Filled)
    BY <1>1, <1>4 DEF Moves, PrattParse
  <2> QED
    BY <1>1, <2>1, TopFits, MadeFits
<1>5. CASE Exit
  BY <1>5, ExitFits
<1> QED
  BY <1>3, <1>4, <1>5 DEF EndArg, Expect

(* ... with a subscript,                                                   *)
LEMMA EndSubscriptKeeps ==
  ASSUME EInv, EndSubscript
  PROVE  EInv'
<1>1. CASE Peek = "]" /\ Advance
  <2>1. Peeking /\ stack # <<>> /\ Top.node = "subscript"
    BY DEF EndSubscript, ReturningTo
  <2>2. /\ FramesFit(ReplaceTop(Filled), current_token_idx)
        /\ IsTop(ReplaceTop(Filled), {"subscript"})
    BY <2>1, ListFills
  <2>3. Moves /\ at' = "subscripts" /\ min_prec' = min_prec /\ stack' = ReplaceTop(Filled)
    BY <1>1, <2>1 DEF EndSubscript, Expect, Moves, GotoIn
  <2>4. PointFits(at', lhs', stack', current_token_idx)
    BY <2>2, <2>3 DEF PointFits, Points
  <2> QED
    BY <2>2, <2>3, <2>4, Here, MoveFits
<1>2. CASE Exit
  BY <1>2, ExitFits
<1> QED
  BY <1>1, <1>2 DEF EndSubscript, Expect

(* ... with what a member is initialized to,                               *)
LEMMA EndMemberInitKeeps ==
  ASSUME EInv, EndMemberInit
  PROVE  EInv'
<1>1. Peeking /\ stack # <<>> /\ Top.node = "struct_init"
  BY DEF EndMemberInit, ReturningTo
<1>2. /\ FramesFit(ReplaceTop(Filled), current_token_idx)
      /\ IsTop(ReplaceTop(Filled), {"struct_init"})
  BY <1>1, ListFills
<1>3. CASE Peek = "," /\ Advance /\ GotoIn("after_comma", ReplaceTop(Filled))
  <2>1. Moves /\ at' = "after_comma" /\ min_prec' = min_prec /\ stack' = ReplaceTop(Filled)
    BY <1>1, <1>3 DEF Moves, GotoIn
  <2>2. IsTop(ReplaceTop(Filled), {"call", "struct_init"})
    BY <1>2 DEF IsTop
  <2>3. PointFits(at', lhs', stack', current_token_idx)
    BY <2>1, <2>2 DEF PointFits, Points
  <2> QED
    BY <1>2, <2>1, <2>3, Here, MoveFits
<1>4. CASE Stay /\ GotoIn("member_inits", ReplaceTop(Filled))
  <2>1. Moves /\ at' = "member_inits" /\ min_prec' = min_prec /\ stack' = ReplaceTop(Filled)
    BY <1>4 DEF Moves, GotoIn
  <2>2. PointFits(at', lhs', stack', current_token_idx)
    BY <1>2, <2>1 DEF PointFits, Points
  <2> QED
    BY <1>2, <2>1, <2>2, Here, MoveFits
<1> QED
  BY <1>3, <1>4 DEF EndMemberInit

(* ... or with an element.                                                 *)
LEMMA EndElementKeeps ==
  ASSUME EInv, EndElement
  PROVE  EInv'
<1>1. Peeking /\ stack # <<>> /\ Top.node \in {"arr_init", "nested_arr_init"}
  BY DEF EndElement, ReturningTo
<1>2. FramesFit(ReplaceTop(Filled), current_token_idx)
  BY <1>1, ListFills
<1>3. CASE /\ Peek = "," /\ Advance
           /\ at' \in {"parse_prefix", "parse_arr_init"} /\ min_prec' \in {0, min_prec}
           /\ stack' = ReplaceTop(Filled)
  <2>1. Moves
    BY <1>1, <1>3 DEF Moves
  <2>2. min_prec' \in 0 .. 90
    <3>1. min_prec' = 0 \/ min_prec' = min_prec
      BY <1>3
    <3> QED
      BY <3>1, Here
  <2>3. PointFits(at', lhs', stack', current_token_idx)
    BY <1>3 DEF PointFits, Points
  <2> QED
    BY <1>2, <1>3, <2>1, <2>2, <2>3, MoveFits
<1>4. CASE Peek = "}" /\ Advance /\ ReturnTree(Built(Filled), Pop)
  <2>1. /\ Moves /\ at' = "return" /\ min_prec' = min_prec /\ stack' = Pop
        /\ lhs' = Built(Filled)
    BY <1>1, <1>4 DEF Moves, ReturnTree
  <2>2. FramesFit(Pop, current_token_idx) /\ Built(Filled) # NoTree
    BY <1>1, TopFits
  <2>3. PointFits(at', lhs', stack', current_token_idx)
    BY <2>1, <2>2 DEF PointFits, Points
  <2> QED
    BY <2>1, <2>2, <2>3, Here, MoveFits
<1>5. CASE Exit
  BY <1>5, ExitFits
<1> QED
  BY <1>3, <1>4, <1>5 DEF EndElement, Expect, ParseExpression, GotoIn

(* The outermost call returns.                                              *)
LEMMA ReturnKeeps ==
  ASSUME EInv, ReturnToCaller
  PROVE  EInv'
<1>1. /\ tokens' = tokens /\ current_token_idx' = current_token_idx /\ status' = "done"
      /\ at' = at /\ min_prec' = min_prec /\ lhs' = lhs /\ stack' = stack
  BY DEF ReturnToCaller, control
<1>2. TokensFit'
  BY <1>1 DEF EInv, TokensFit, EndIsNeverConsumed, Statuses
<1>3. FramesFit(stack', current_token_idx') /\ PointFits(at', lhs', stack', current_token_idx')
  BY <1>1 DEF EInv
<1>4. min_prec' \in 0 .. 90
  BY <1>1 DEF EInv
<1> QED
  BY <1>2, <1>3, <1>4 DEF EInv

(* The source goes on: nothing is consumed yet.                             *)
LEMMA NextTokenKeeps ==
  ASSUME EInv, NextToken
  PROVE  EInv'
<1>1. /\ current_token_idx' = current_token_idx /\ status' = status
      /\ at' = at /\ min_prec' = min_prec /\ lhs' = lhs /\ stack' = stack
      /\ current_token_idx > Len(tokens)
  BY DEF NextToken, control
<1>2. PICK tok : tokens' = Append(tokens, tok)
  BY DEF NextToken
<1>3. IsSeq(tokens) /\ Len(tokens) \in Nat /\ current_token_idx \in 1 .. (Len(tokens) + 1)
  BY Here DEF EInv, TokensFit
<1>4. PICK more : more = Append(tokens, tok)
  OBVIOUS
<1>5. /\ IsSeq(more) /\ Len(more) = Len(tokens) + 1
      /\ \A i \in 1 .. Len(tokens) : more[i] = tokens[i]
  BY <1>3, <1>4, AppendSeq
<1>6. DOMAIN more = 1 .. Len(more) /\ DOMAIN tokens = 1 .. Len(tokens)
  BY <1>3, <1>5, SeqFacts
<1>7. \A i \in DOMAIN more : more[i] = "eof" => i >= current_token_idx
  <2>1. \A i \in 1 .. Len(more) : i \in 1 .. Len(tokens) \/ i >= current_token_idx
    BY <1>1, <1>3, <1>5
  <2>2. \A i \in 1 .. Len(tokens) : tokens[i] = "eof" => i >= current_token_idx
    BY <1>6 DEF EInv, TokensFit, EndIsNeverConsumed
  <2> QED
    BY <1>5, <1>6, <2>1, <2>2
<1>8. current_token_idx \in 1 .. (Len(more) + 1)
  BY <1>3, <1>5
<1>9. TokensFit'
  BY <1>1, <1>2, <1>4, <1>5, <1>7, <1>8 DEF EInv, TokensFit, EndIsNeverConsumed
<1>10. FramesFit(stack', current_token_idx') /\ PointFits(at', lhs', stack', current_token_idx')
  BY <1>1 DEF EInv
<1>11. min_prec' \in 0 .. 90
  BY <1>1 DEF EInv
<1> QED
  BY <1>9, <1>10, <1>11 DEF EInv

----------------------------------------------------------------------------
(* The first call needs nothing,                                            *)
LEMMA InitFits ==
  ASSUME Init
  PROVE  EInv
<1>1. IsSeq(<<>>) /\ Len(<<>>) = 0
  BY ShortSeqs
<1>2. DOMAIN <<>> = {}
  OBVIOUS
<1>3. TokensFit
  BY <1>1, <1>2 DEF Init, TokensFit, EndIsNeverConsumed, Statuses
<1>4. FramesFit(stack, current_token_idx) /\ min_prec \in 0 .. 90
  BY <1>1 DEF Init, FramesFit
<1>5. PointFits(at, lhs, stack, current_token_idx)
  BY DEF Init, PointFits, Points
<1> QED
  BY <1>3, <1>4, <1>5 DEF EInv

(* ... a step gives each call what it uses,                                 *)
LEMMA StepKeeps ==
  ASSUME EInv, Step
  PROVE  EInv'
<1>1. CASE NoExpression
  BY <1>1, ExitFits DEF NoExpression
<1> QED
  BY <1>1, NextTokenKeeps, LiteralKeeps, IdentKeeps, PathKeeps, UnaryKeeps, ParenKeeps,
     CastKeeps, EndOfExpressionKeeps, FuncCallKeeps, ArrSubKeeps, MemberAccessKeeps,
     PostIncDecKeeps, StructCreateKeeps, InfixKeeps, TernaryKeeps, StructInitKeeps,
     ArrInitKeeps, CommaKeeps, EndParenKeeps, EndOperandKeeps, EndTernaryPartKeeps,
     EndArgKeeps, EndSubscriptKeeps, EndMemberInitKeeps, EndElementKeeps, ReturnKeeps
  DEF Step

(* ... and a stutter takes nothing away.                                    *)
LEMMA NextKeeps ==
  ASSUME EInv, [Next]_vars
  PROVE  EInv'
<1>1. CASE Step
  BY <1>1, StepKeeps
<1>2. CASE UNCHANGED vars
  <2>1. /\ tokens' = tokens /\ current_token_idx' = current_token_idx /\ status' = status
        /\ at' = at /\ min_prec' = min_prec /\ lhs' = lhs /\ stack' = stack
    BY <1>2 DEF vars, control
  <2>2. Stay
    BY <2>1 DEF Stay
  <2>3. /\ FramesFit(stack', current_token_idx) /\ min_prec' \in 0 .. 90
        /\ PointFits(at', lhs', stack', current_token_idx)
    BY <2>1 DEF EInv
  <2> QED
    BY <2>2, <2>3, StayFits
<1> QED
  BY <1>1, <1>2 DEF Next, Ended

(* The invariant: every call that waits has the trees its kind holds there, *)
(* and every point of a call is reached only with what it goes on to use: a *)
(* tree, the call whose list it is in, the tokens it looks back at.         *)
THEOREM CallsHaveWhatTheyUse == Spec => []EInv
BY InitFits, NextKeeps, PTL DEF Spec

(* No parse_* function is ever without what it takes: the calls that wait   *)
(* hold as many operands as their node needs, a precedence is one there is, *)
(* and there is an operand wherever pratt_parse goes on.                    *)
THEOREM ExpressionTypeCorrect == Spec => []TypeOK
<1>1. EInv => TypeOK
  <2> SUFFICES ASSUME EInv PROVE TypeOK
    OBVIOUS
  <2>1. IsSeq(stack) /\ \A i \in 1 .. Len(stack) : FrameFits(stack[i], current_token_idx)
    BY DEF EInv, FramesFit
  <2>2. DOMAIN stack = 1 .. Len(stack)
    BY <2>1, SeqFacts
  <2>3. \A i \in DOMAIN stack :
          /\ stack[i].node \in FrameNodes
          /\ stack[i].pos \in 1 .. (current_token_idx)
          /\ stack[i].min_prec \in 0 .. 90
          /\ Len(stack[i].parts) \in HeldParts(stack[i].node)
    BY <2>1, <2>2 DEF FrameFits
  <2>4. at \in {"path", "path_name"} => lhs # NoTree
    <3>1. ASSUME at \in {"path", "path_name"} PROVE lhs # NoTree
      <4>1. lhs = [part \in 1 .. 3 |-> lhs[part]]
        BY <3>1 DEF EInv, PointFits
      <4> QED
        BY <4>1 DEF NoTree
    <3> QED
      BY <3>1
  <2>5. /\ current_token_idx \in 1 .. (Len(tokens) + 1)
        /\ at \in Points /\ status \in {"parsing", "done", "exited"}
        /\ min_prec \in 0 .. 90
        /\ at \in {"pratt_parse", "member", "return"} => lhs # NoTree
    BY DEF EInv, TokensFit, PointFits, Statuses
  <2> QED
    BY <2>3, <2>4, <2>5 DEF TypeOK
<1> QED
  BY <1>1, CallsHaveWhatTheyUse, PTL

(* However the source is cut short, the end is looked at and never consumed:*)
(* the parser never looks at a token behind it.                             *)
THEOREM ExpressionEndIsKept == Spec => []EndIsNeverConsumed
<1>1. EInv => EndIsNeverConsumed
  BY DEF EInv, TokensFit
<1> QED
  BY <1>1, CallsHaveWhatTheyUse, PTL

----------------------------------------------------------------------------
(***************************************************************************)
(* What the tree means.                                                    *)
(*                                                                         *)
(* The meaning of a span of tokens is defined by its operators outside all *)
(* brackets, without regard to the parser; the parser never counts brackets*)
(* nor compares two operators of a span.  The proof goes in four parts.    *)
(*                                                                         *)
(* Spans: how brackets, operators, commas and cuts of two spans in a row   *)
(* are those of the whole, and that the recursive definition of Meanings   *)
(* does define what each span means from what its parts mean.              *)
(*                                                                         *)
(* Expressions: Fits(src, s, j, min) says that the loop of pratt_parse,    *)
(* called with min, may stand behind j with what it parsed from s on.  Such*)
(* a span, followed by an operator and another that fits what parse_infix  *)
(* asks for, fits again, and the operator between them is its root.        *)
(*                                                                         *)
(* Calls: the invariant says where in the source each call that waits has  *)
(* started, what it has read, and what it asked the one above it for.      *)
(*                                                                         *)
(* Steps: every action leaves that so, in every source that goes on as the *)
(* tokens looked at do.  What has been read does not depend on what comes  *)
(* behind it; whether a call ends there depends on the very next token, and*)
(* the parser looks at that one first.                                     *)
(***************************************************************************)
(* A source, of which only its length matters; a place up to its end.       *)
IsSource(src) == Len(src) \in Nat
IsWithin(src, j) == j <= Len(src)

(* How far the brackets of i .. j open more than they close.                *)
Depth(src, i, j) == Count(src, Opening, i, j) - Count(src, Closing, i, j)

(* A span whose brackets are balanced, and never close more than they open. *)
Even(src, i, j) == Depth(src, i, j) = 0 /\ \A k \in i .. j : Depth(src, i, k) >= 0

(* A span in brackets.                                                      *)
Group(src, o, j) ==
  /\ o < j /\ src[o] \in Opening /\ src[j] \in Closing
  /\ Even(src, o + 1, j - 1)

(* What is within a source is so with all that is before it.                *)
LEMMA WithinLess ==
  ASSUME NEW src, IsSource(src), NEW j \in Int, IsWithin(src, j), NEW i \in Int, i <= j
  PROVE  IsWithin(src, i)
BY DEF IsSource, IsWithin

(* The tokens of some kinds in a span are finitely many,                    *)
LEMMA CountIs ==
  ASSUME NEW src, NEW kinds, NEW i \in Int, NEW j \in Int
  PROVE  /\ Count(src, kinds, i, j) \in Nat
         /\ IsFiniteSet({k \in i .. j : src[k] \in kinds})
<1>1. IsFiniteSet(i .. j)
  BY FS_Interval
<1>2. {k \in i .. j : src[k] \in kinds} \in SUBSET (i .. j)
  OBVIOUS
<1>3. IsFiniteSet({k \in i .. j : src[k] \in kinds})
  BY <1>1, <1>2, FS_Subset
<1> QED
  BY <1>3, FS_CardinalityType DEF Count

(* ... those of two spans in a row add up,                                  *)
LEMMA CountSplits ==
  ASSUME NEW src, NEW kinds, NEW i \in Int, NEW m \in Int, NEW j \in Int, i <= m + 1, m <= j
  PROVE  Count(src, kinds, i, j) = Count(src, kinds, i, m) + Count(src, kinds, m + 1, j)
<1> DEFINE A == {k \in i .. m : src[k] \in kinds}
           B == {k \in (m + 1) .. j : src[k] \in kinds}
           C == {k \in i .. j : src[k] \in kinds}
<1>1. IsFiniteSet(A) /\ IsFiniteSet(B)
  <2>1. m + 1 \in Int
    OBVIOUS
  <2> QED
    BY <2>1, CountIs
<1>2. C = A \cup B
  <2>1. \A k \in i .. j : k \in i .. m \/ k \in (m + 1) .. j
    OBVIOUS
  <2>2. \A k \in i .. m : k \in i .. j
    OBVIOUS
  <2>3. \A k \in (m + 1) .. j : k \in i .. j
    OBVIOUS
  <2> QED
    BY <2>1, <2>2, <2>3
<1>3. A \cap B = {}
  OBVIOUS
<1>4. Cardinality(A) \in Nat /\ Cardinality(B) \in Nat
  BY <1>1, FS_CardinalityType
<1> HIDE DEF A, B, C
<1>5. Cardinality(C) = Cardinality(A) + Cardinality(B) - Cardinality(A \cap B)
  BY <1>1, <1>2, FS_Union
<1>6. Cardinality(A \cap B) = 0
  BY <1>3, FS_EmptySet
<1>7. Cardinality(C) = Cardinality(A) + Cardinality(B)
  BY <1>4, <1>5, <1>6
<1> QED
  BY <1>7 DEF Count, A, B, C

(* ... and there are none in no token.                                      *)
LEMMA CountShort ==
  ASSUME NEW src, NEW kinds, NEW i \in Int
  PROVE  /\ Count(src, kinds, i, i - 1) = 0
         /\ Count(src, kinds, i, i) = IF src[i] \in kinds THEN 1 ELSE 0
<1>1. {k \in i .. (i - 1) : src[k] \in kinds} = {}
  OBVIOUS
<1>2. i .. i = {i}
  OBVIOUS
<1>3. {k \in i .. i : src[k] \in kinds} = IF src[i] \in kinds THEN {i} ELSE {}
  BY <1>2
<1> QED
  BY <1>1, <1>3, FS_EmptySet, FS_Singleton DEF Count

(* A bracket opens or closes.                                               *)
LEMMA BracketsDiffer ==
  \A tok : ~(tok \in Opening /\ tok \in Closing)
BY DEF Opening, Closing

(* The depth is an integer, and balance is depth zero;                      *)
LEMMA DepthIs ==
  ASSUME NEW src, NEW i \in Int
  PROVE  /\ \A j \in Int : Depth(src, i, j) \in Int
         /\ \A j \in Int : IsBalanced(src, i, j) <=> Depth(src, i, j) = 0
         /\ Depth(src, i, i - 1) = 0
         /\ src[i] \in Opening => Depth(src, i, i) = 1
         /\ src[i] \in Closing => Depth(src, i, i) = 0 - 1
         /\ src[i] \notin Opening \cup Closing => Depth(src, i, i) = 0
<1>1. \A j \in Int : Count(src, Opening, i, j) \in Nat /\ Count(src, Closing, i, j) \in Nat
  BY CountIs
<1>2. ASSUME NEW j \in Int
      PROVE  Depth(src, i, j) \in Int /\ (IsBalanced(src, i, j) <=> Depth(src, i, j) = 0)
  <2> DEFINE a == Count(src, Opening, i, j)
             b == Count(src, Closing, i, j)
  <2>1. a \in Nat /\ b \in Nat
    BY <1>1
  <2>2. (IsBalanced(src, i, j) <=> a = b) /\ Depth(src, i, j) = a - b
    BY DEF IsBalanced, Depth
  <2> HIDE DEF a, b
  <2> QED
    BY <2>1, <2>2
<1>3. /\ Count(src, Opening, i, i) = IF src[i] \in Opening THEN 1 ELSE 0
      /\ Count(src, Closing, i, i) = IF src[i] \in Closing THEN 1 ELSE 0
      /\ Count(src, Opening, i, i - 1) = 0 /\ Count(src, Closing, i, i - 1) = 0
  BY CountShort
<1>4. ~(src[i] \in Opening /\ src[i] \in Closing)
  BY BracketsDiffer
<1> QED
  BY <1>2, <1>3, <1>4 DEF Depth

(* ... depths of two spans in a row add up.                                 *)
LEMMA DepthSplits ==
  ASSUME NEW src, NEW i \in Int, NEW m \in Int, NEW j \in Int, i <= m + 1, m <= j
  PROVE  Depth(src, i, j) = Depth(src, i, m) + Depth(src, m + 1, j)
<1> DEFINE a1 == Count(src, Opening, i, m)
           a2 == Count(src, Opening, m + 1, j)
           b1 == Count(src, Closing, i, m)
           b2 == Count(src, Closing, m + 1, j)
<1>1. Count(src, Opening, i, j) = a1 + a2 /\ Count(src, Closing, i, j) = b1 + b2
  BY CountSplits
<1>2. a1 \in Nat /\ a2 \in Nat /\ b1 \in Nat /\ b2 \in Nat
  <2>1. m + 1 \in Int
    OBVIOUS
  <2> QED
    BY <2>1, CountIs
<1>3. Depth(src, i, m) = a1 - b1 /\ Depth(src, m + 1, j) = a2 - b2
  BY DEF Depth
<1>4. Depth(src, i, j) = (a1 + a2) - (b1 + b2)
  BY <1>1 DEF Depth
<1> HIDE DEF a1, a2, b1, b2
<1> QED
  BY <1>2, <1>3, <1>4

(* No token at all is even,                                                 *)
LEMMA EvenEmpty ==
  ASSUME NEW src, NEW i \in Int
  PROVE  Even(src, i, i - 1)
<1>1. Depth(src, i, i - 1) = 0
  BY DepthIs
<1>2. \A k \in i .. (i - 1) : FALSE
  OBVIOUS
<1> QED
  BY <1>1, <1>2 DEF Even

(* ... one that is no bracket is,                                           *)
LEMMA EvenOne ==
  ASSUME NEW src, NEW i \in Int, src[i] \notin Opening \cup Closing
  PROVE  Even(src, i, i)
<1>1. Depth(src, i, i) = 0
  BY DepthIs
<1>2. \A k \in i .. i : k = i
  OBVIOUS
<1> QED
  BY <1>1, <1>2 DEF Even

(* ... and so are two even spans in a row.                                  *)
LEMMA EvenJoins ==
  ASSUME NEW src, NEW i \in Int, NEW m \in Int, NEW j \in Int, i <= m + 1, m <= j,
         Even(src, i, m), Even(src, m + 1, j)
  PROVE  Even(src, i, j)
<1>1. /\ Depth(src, i, m) = 0 /\ Depth(src, m + 1, j) = 0
      /\ \A k \in i .. m : Depth(src, i, k) >= 0
      /\ \A k \in (m + 1) .. j : Depth(src, m + 1, k) >= 0
  BY DEF Even
<1>2. Depth(src, i, j) = 0
  BY <1>1, DepthSplits
<1>3. ASSUME NEW k \in i .. j
      PROVE  Depth(src, i, k) >= 0
  <2>1. CASE k \in i .. m
    BY <1>1, <2>1
  <2>2. CASE k > m
    <3>1. k \in Int /\ m <= k /\ k \in (m + 1) .. j
      BY <2>2
    <3>2. Depth(src, i, k) = Depth(src, i, m) + Depth(src, m + 1, k)
      BY <3>1, DepthSplits
    <3>3. m + 1 \in Int
      OBVIOUS
    <3>4. Depth(src, m + 1, k) \in Int
      BY <3>1, <3>3, DepthIs
    <3> QED
      BY <1>1, <3>1, <3>2, <3>4
  <2> QED
    BY <2>1, <2>2
<1> QED
  BY <1>2, <1>3 DEF Even

(* What is outside all brackets,                                            *)
LEMMA OutsideIs ==
  ASSUME NEW src, NEW i \in Int, NEW j \in Int
  PROVE  /\ \A k : k \in Outside(src, i, j) <=> k \in i .. j /\ Depth(src, i, k - 1) = 0
         /\ Outside(src, i, j) \subseteq i .. j
         /\ i <= j => i \in Outside(src, i, j)
<1>1. \A k \in i .. j : IsBalanced(src, i, k - 1) <=> Depth(src, i, k - 1) = 0
  <2>1. \A k \in i .. j : k - 1 \in Int
    OBVIOUS
  <2> QED
    BY <2>1, DepthIs
<1>2. i <= j => i \in i .. j
  OBVIOUS
<1> QED
  BY <1>1, <1>2, DepthIs DEF Outside

(* ... in two spans in a row, the first of them balanced,                   *)
LEMMA OutsideJoins ==
  ASSUME NEW src, NEW i \in Int, NEW m \in Int, NEW j \in Int, i <= m + 1, m <= j,
         Depth(src, i, m) = 0
  PROVE  Outside(src, i, j) = Outside(src, i, m) \cup Outside(src, m + 1, j)
<1>1. ASSUME NEW k \in i .. m
      PROVE  k \in i .. j /\ k \notin (m + 1) .. j
  OBVIOUS
<1>2. ASSUME NEW k \in (m + 1) .. j
      PROVE  k \in i .. j /\ k \notin i .. m /\ Depth(src, i, k - 1) = Depth(src, m + 1, k - 1)
  <2>1. k - 1 \in Int /\ m <= k - 1 /\ k \in i .. j /\ k \notin i .. m
    OBVIOUS
  <2>2. Depth(src, i, k - 1) = Depth(src, i, m) + Depth(src, m + 1, k - 1)
    BY <2>1, DepthSplits
  <2>3. Depth(src, m + 1, k - 1) \in Int
    BY <2>1, DepthIs
  <2> QED
    BY <2>1, <2>2, <2>3
<1>3. \A k \in i .. j : k \in i .. m \/ k \in (m + 1) .. j
  OBVIOUS
<1>4. /\ \A k : k \in Outside(src, i, j) <=> k \in i .. j /\ Depth(src, i, k - 1) = 0
      /\ \A k : k \in Outside(src, i, m) <=> k \in i .. m /\ Depth(src, i, k - 1) = 0
      /\ \A k : k \in Outside(src, m + 1, j) <=> k \in (m + 1) .. j /\ Depth(src, m + 1, k - 1) = 0
  BY OutsideIs
<1>5. \A k : k \in Outside(src, i, j) <=> k \in Outside(src, i, m) \/ k \in Outside(src, m + 1, j)
  BY <1>1, <1>2, <1>3, <1>4
<1> QED
  BY <1>5

(* ... in one token and in none.                                            *)
LEMMA OutsideShort ==
  ASSUME NEW src, NEW i \in Int
  PROVE  Outside(src, i, i) = {i} /\ Outside(src, i, i - 1) = {}
<1>1. i .. i = {i} /\ i .. (i - 1) = {}
  OBVIOUS
<1>2. i \in Outside(src, i, i)
  BY OutsideIs
<1>3. Outside(src, i, i) \subseteq i .. i /\ Outside(src, i, i - 1) \subseteq i .. (i - 1)
  BY OutsideIs
<1> QED
  BY <1>1, <1>2, <1>3

(* Within a group the depth never returns to zero before its end.           *)
LEMMA GroupDepths ==
  ASSUME NEW src, NEW o \in Int, NEW j \in Int, Group(src, o, j)
  PROVE  /\ \A k \in o .. (j - 1) : Depth(src, o, k) >= 1
         /\ Depth(src, o, j) = 0
         /\ \A k \in (o + 1) .. j : Depth(src, k, j) < 0
<1>1. /\ o < j /\ src[o] \in Opening /\ src[j] \in Closing /\ Depth(src, o + 1, j - 1) = 0
      /\ \A k \in (o + 1) .. (j - 1) : Depth(src, o + 1, k) >= 0
  BY DEF Group, Even
<1>2. Depth(src, o, o) = 1 /\ Depth(src, j, j) = 0 - 1
  BY <1>1, DepthIs
<1>3. ASSUME NEW k \in o .. (j - 1)
      PROVE  Depth(src, o, k) >= 1
  <2>1. CASE k = o
    BY <1>2, <2>1
  <2>2. CASE k # o
    <3>1. k \in Int /\ o <= k /\ k \in (o + 1) .. (j - 1)
      BY <2>2
    <3>2. Depth(src, o, k) = Depth(src, o, o) + Depth(src, o + 1, k)
      BY <3>1, DepthSplits
    <3>3. Depth(src, o + 1, k) \in Int
      <4>1. o + 1 \in Int
        OBVIOUS
      <4> QED
        BY <3>1, <4>1, DepthIs
    <3> QED
      BY <1>1, <1>2, <3>1, <3>2, <3>3
  <2> QED
    BY <2>1, <2>2
<1>4. Depth(src, o, j) = 0
  <2>1. Depth(src, o, j) = Depth(src, o, j - 1) + Depth(src, (j - 1) + 1, j)
    BY <1>1, DepthSplits
  <2>2. Depth(src, o, j - 1) = Depth(src, o, o) + Depth(src, o + 1, j - 1)
    BY <1>1, DepthSplits
  <2>3. (j - 1) + 1 = j
    OBVIOUS
  <2> QED
    BY <1>1, <1>2, <2>1, <2>2, <2>3
<1>5. ASSUME NEW k \in (o + 1) .. j
      PROVE  Depth(src, k, j) < 0
  <2>1. k - 1 \in o .. (j - 1) /\ k - 1 \in Int /\ o <= (k - 1) + 1 /\ k - 1 <= j
        /\ (k - 1) + 1 = k
    OBVIOUS
  <2>2. Depth(src, o, j) = Depth(src, o, k - 1) + Depth(src, (k - 1) + 1, j)
    BY <2>1, DepthSplits
  <2>3. Depth(src, o, k - 1) \in Int /\ Depth(src, k, j) \in Int /\ Depth(src, o, k - 1) >= 1
    BY <1>3, <2>1, DepthIs
  <2> QED
    BY <1>4, <2>1, <2>2, <2>3
<1> QED
  BY <1>3, <1>4, <1>5

(* The least of a set is the member that none is less than,                 *)
LEMMA LeastIs ==
  ASSUME NEW S, S \subseteq Int, NEW x \in S, \A k \in S : x <= k
  PROVE  Least(S) = x
<1>1. Least(S) \in S /\ \A l \in S : Least(S) <= l
  BY DEF Least
<1> DEFINE g == Least(S)
<1>2. g \in Int /\ x \in Int /\ x <= g /\ g <= x
  BY <1>1
<1> HIDE DEF g
<1>3. g = x
  BY <1>2
<1> QED
  BY <1>3 DEF g

(* ... the greatest the one that none is greater than.                      *)
LEMMA GreatestIs ==
  ASSUME NEW S, S \subseteq Int, NEW x \in S, \A k \in S : k <= x
  PROVE  Greatest(S) = x
<1>1. Greatest(S) \in S /\ \A l \in S : l <= Greatest(S)
  BY DEF Greatest
<1> DEFINE g == Greatest(S)
<1>2. g \in Int /\ x \in Int /\ x <= g /\ g <= x
  BY <1>1
<1> HIDE DEF g
<1>3. g = x
  BY <1>2
<1> QED
  BY <1>3 DEF g

(* The brackets of a group belong to each other, with nothing outside them. *)
LEMMA GroupIs ==
  ASSUME NEW src, IsSource(src), NEW o \in Int, NEW j \in Int, 1 <= o, IsWithin(src, j),
         Group(src, o, j)
  PROVE  /\ Even(src, o, j) /\ Outside(src, o, j) = {o}
         /\ Opener(src, j) = o /\ Closer(src, o) = j
<1>1. /\ \A k \in o .. (j - 1) : Depth(src, o, k) >= 1
      /\ Depth(src, o, j) = 0
      /\ \A k \in (o + 1) .. j : Depth(src, k, j) < 0
  BY GroupDepths
<1>2. o < j /\ src[o] \in Opening /\ src[j] \in Closing
  BY DEF Group
<1>3. Even(src, o, j)
  <2>1. ASSUME NEW k \in o .. j PROVE Depth(src, o, k) >= 0
    <3>1. CASE k = j
      BY <1>1, <3>1
    <3>2. CASE k # j
      <4>1. k \in o .. (j - 1) /\ k \in Int
        BY <3>2
      <4>2. Depth(src, o, k) \in Int /\ Depth(src, o, k) >= 1
        BY <1>1, <4>1, DepthIs
      <4> QED
        BY <4>2
    <3> QED
      BY <3>1, <3>2
  <2> QED
    BY <1>1, <2>1 DEF Even
<1>4. Outside(src, o, j) = {o}
  <2>1. o \in Outside(src, o, j)
    BY <1>2, OutsideIs
  <2>2. ASSUME NEW k \in Outside(src, o, j) PROVE k = o
    <3>1. k \in o .. j /\ Depth(src, o, k - 1) = 0
      BY OutsideIs
    <3>2. k # o => k - 1 \in o .. (j - 1)
      BY <3>1
    <3> QED
      BY <1>1, <3>1, <3>2
  <2> QED
    BY <2>1, <2>2
<1>5. Opener(src, j) = o
  <2> DEFINE S == {k \in 1 .. j : src[k] \in Opening /\ IsBalanced(src, k, j)}
  <2>1. o \in S
    BY <1>1, <1>2, DepthIs
  <2>2. ASSUME NEW k \in S PROVE k <= o
    <3>1. k \in 1 .. j /\ Depth(src, k, j) = 0
      BY DepthIs
    <3>2. k > o => k \in (o + 1) .. j
      BY <3>1
    <3> QED
      BY <1>1, <3>1, <3>2
  <2>3. S \subseteq Int
    OBVIOUS
  <2> HIDE DEF S
  <2>4. Greatest(S) = o
    BY <2>1, <2>2, <2>3, GreatestIs
  <2> QED
    BY <2>4 DEF Opener, S
<1>6. Closer(src, o) = j
  <2> DEFINE S == {c \in o .. Len(src) : src[c] \in Closing /\ IsBalanced(src, o, c)}
  <2>1. j \in S
    <3>1. j \in o .. Len(src)
      BY <1>2 DEF IsSource, IsWithin
    <3> QED
      BY <1>1, <1>2, <3>1, DepthIs
  <2>2. ASSUME NEW k \in S PROVE j <= k
    <3>1. k \in o .. Len(src) /\ Depth(src, o, k) = 0
      <4>1. k \in o .. Len(src) /\ IsBalanced(src, o, k)
        OBVIOUS
      <4>2. k \in Int
        BY <4>1
      <4> QED
        BY <4>1, <4>2, DepthIs
    <3>2. k < j => k \in o .. (j - 1)
      BY <3>1
    <3> QED
      BY <1>1, <3>1, <3>2
  <2>3. S \subseteq Int
    OBVIOUS
  <2> HIDE DEF S
  <2>4. Least(S) = j
    BY <2>1, <2>2, <2>3, LeastIs
  <2> QED
    BY <2>4 DEF Closer, S
<1> QED
  BY <1>3, <1>4, <1>5, <1>6

(* The tokens that follow an operand, that stand between two, that begin    *)
(* one.                                                                     *)
Followers == {"(", "{", "[", ".", "->", "++", "--"}
Infixes == BinaryOperators \cup AssignOperators \cup {"?"}
Starts == {"x", "1", "("} \cup PrefixOperators
NoCast(src, i, j) == \A c \in Outside(src, i, j) : ~IsCast(src, c)

(* What follows an operand binds tightest,                                  *)
LEMMA FollowerPrecedence == \A tok \in Followers : Precedence(tok) = 90
<1>1. /\ Precedence("(") = 90 /\ Precedence("{") = 90 /\ Precedence("[") = 90
      /\ Precedence(".") = 90 /\ Precedence("->") = 90
      /\ Precedence("++") = 90 /\ Precedence("--") = 90
  BY ZenonT(60) DEF Precedence, AssignOperators
<1> QED
  BY <1>1 DEF Followers

(* ... a binary operator tighter than the ternary,                          *)
LEMMA BinaryPrecedence == \A tok \in BinaryOperators : Precedence(tok) \in 15 .. 60
<1>1. /\ Precedence("*") = 60 /\ Precedence("/") = 60 /\ Precedence("%") = 60
      /\ Precedence("+") = 50 /\ Precedence("-") = 50
      /\ Precedence("<<") = 45 /\ Precedence(">>") = 45
  BY ZenonT(60) DEF Precedence, AssignOperators
<1>2. /\ Precedence("<") = 40 /\ Precedence("<=") = 40 /\ Precedence(">") = 40
      /\ Precedence(">=") = 40 /\ Precedence("==") = 30 /\ Precedence("!=") = 30
  BY ZenonT(60) DEF Precedence, AssignOperators
<1>3. /\ Precedence("&") = 24 /\ Precedence("^") = 23 /\ Precedence("|") = 22
      /\ Precedence("&&") = 20 /\ Precedence("||") = 15
  BY ZenonT(60) DEF Precedence, AssignOperators
<1>4. \A n \in {60, 50, 45, 40, 30, 24, 23, 22, 20, 15} : n \in 15 .. 60
  OBVIOUS
<1>5. \A tok \in BinaryOperators : Precedence(tok) \in {60, 50, 45, 40, 30, 24, 23, 22, 20, 15}
  BY <1>1, <1>2, <1>3 DEF BinaryOperators
<1> QED
  BY <1>4, <1>5

(* ... and an assignment loosest.                                           *)
LEMMA AssignPrecedence == \A tok \in AssignOperators : Precedence(tok) = 10
<1>1. /\ Precedence("=") = 10 /\ Precedence("+=") = 10 /\ Precedence("-=") = 10
      /\ Precedence("*=") = 10 /\ Precedence("/=") = 10 /\ Precedence("%=") = 10
      /\ Precedence("&=") = 10 /\ Precedence("|=") = 10 /\ Precedence("^=") = 10
      /\ Precedence("<<=") = 10 /\ Precedence(">>=") = 10
  BY ZenonT(60) DEF Precedence, AssignOperators
<1> QED
  BY <1>1 DEF AssignOperators

(* An operator between operands is neither what follows one nor a part of   *)
(* one.                                                                     *)
LEMMA KindsOfOperators ==
  /\ \A tok \in BinaryOperators : tok \notin AssignOperators /\ tok # "?"
  /\ "?" \notin AssignOperators
  /\ \A tok \in Infixes :
       tok \notin Followers /\ tok \notin {"x", "1", "(", ")", "]", "}", ",", "::"}
  /\ \A tok \in Followers \cup {"x", "1", "::"} : tok \notin Infixes /\ tok # ","
BY DEF BinaryOperators, AssignOperators, Infixes, Followers

(* An operator asks for an operand that binds at least as tightly.          *)
LEMMA InfixPrecedence ==
  ASSUME NEW tok \in Infixes
  PROVE  /\ Precedence(tok) \in 1 .. 60 /\ MinRhsPrec(tok) \in 0 .. 60
         /\ IsRightAssociative(tok) => MinRhsPrec(tok) = Precedence(tok) - 1
         /\ ~IsRightAssociative(tok) => MinRhsPrec(tok) = Precedence(tok)
         /\ MinRhsPrec(tok) <= Precedence(tok) /\ Precedence(tok) <= MinRhsPrec(tok) + 1
<1>1. Precedence(tok) \in 1 .. 60
  <2>1. \A n \in 15 .. 60 : n \in 1 .. 60
    OBVIOUS
  <2>2. 10 \in 1 .. 60 /\ 12 \in 1 .. 60
    OBVIOUS
  <2> QED
    BY <2>1, <2>2, BinaryPrecedence, AssignPrecedence, TernaryPrecedenceIs DEF Infixes
<1>2. /\ IsRightAssociative(tok) => MinRhsPrec(tok) = Precedence(tok) - 1
      /\ ~IsRightAssociative(tok) => MinRhsPrec(tok) = Precedence(tok)
  BY DEF MinRhsPrec
<1>3. \A n \in 1 .. 60 : /\ n \in 0 .. 60 /\ n - 1 \in 0 .. 60
                           /\ n <= n /\ n - 1 <= n /\ n <= n + 1 /\ n <= (n - 1) + 1
  OBVIOUS
<1> QED
  BY <1>1, <1>2, <1>3

(* The operators of one precedence associate to the same side.              *)
LEMMA LevelsAgree ==
  ASSUME NEW a \in Infixes, NEW b \in Infixes, Precedence(a) = Precedence(b)
  PROVE  IsRightAssociative(a) <=> IsRightAssociative(b)
<1>1. ASSUME NEW tok \in Infixes
      PROVE  IsRightAssociative(tok) <=> Precedence(tok) < 15
  <2>1. CASE tok \in BinaryOperators
    <3>1. Precedence(tok) \in 15 .. 60 /\ ~IsRightAssociative(tok)
      BY <2>1, BinaryPrecedence, KindsOfOperators DEF IsRightAssociative
    <3>2. ~(Precedence(tok) < 15)
      BY <3>1
    <3> QED
      BY <3>1, <3>2
  <2>2. CASE tok \in AssignOperators
    <3>1. 10 < 15
      OBVIOUS
    <3> QED
      BY <2>2, <3>1, AssignPrecedence DEF IsRightAssociative
  <2>3. CASE tok = "?"
    <3>1. 12 < 15
      OBVIOUS
    <3> QED
      BY <2>3, <3>1, TernaryPrecedenceIs DEF IsRightAssociative
  <2> QED
    BY <2>1, <2>2, <2>3 DEF Infixes
<1> QED
  BY <1>1

----------------------------------------------------------------------------
(* After the end of an operand,                                             *)
LEMMA AfterEnd ==
  ASSUME NEW src, NEW j \in Nat \ {0}, EndsOperand(src, j)
  PROVE  IsAfterOperand(src, j + 1)
<1>1. j \in 1 .. ((j + 1) - 1) /\ (j + 1) .. ((j + 1) - 1) = {}
  OBVIOUS
<1> QED
  BY <1>1 DEF IsAfterOperand

(* ... and after the increments that follow it, an operator stands,         *)
LEMMA AfterStep ==
  ASSUME NEW src, NEW j \in Nat \ {0}, src[j] \in {"++", "--"}, IsAfterOperand(src, j)
  PROVE  IsAfterOperand(src, j + 1)
<1>1. PICK k \in 1 .. (j - 1) :
        EndsOperand(src, k) /\ \A l \in (k + 1) .. (j - 1) : src[l] \in {"++", "--"}
  BY DEF IsAfterOperand
<1>2. k \in 1 .. ((j + 1) - 1)
  OBVIOUS
<1>3. \A l \in (k + 1) .. ((j + 1) - 1) : l \in (k + 1) .. (j - 1) \/ l = j
  OBVIOUS
<1> QED
  BY <1>1, <1>2, <1>3 DEF IsAfterOperand

(* Right behind a token that ends no operand there is none.                 *)
LEMMA NotAfter ==
  ASSUME NEW src, NEW j \in Int, ~EndsOperand(src, j),
         src[j] \in {"++", "--"} => ~IsAfterOperand(src, j)
  PROVE  ~IsAfterOperand(src, j + 1)
<1> SUFFICES ASSUME IsAfterOperand(src, j + 1) PROVE FALSE
  OBVIOUS
<1>1. PICK k \in 1 .. ((j + 1) - 1) :
        EndsOperand(src, k) /\ \A l \in (k + 1) .. ((j + 1) - 1) : src[l] \in {"++", "--"}
  BY DEF IsAfterOperand
<1>2. k # j
  BY <1>1
<1>3. k \in 1 .. (j - 1) /\ j \in (k + 1) .. ((j + 1) - 1)
      /\ \A l \in (k + 1) .. (j - 1) : l \in (k + 1) .. ((j + 1) - 1)
  BY <1>2
<1>4. src[j] \in {"++", "--"} /\ IsAfterOperand(src, j)
  BY <1>1, <1>3 DEF IsAfterOperand
<1> QED
  BY <1>4

(* ... but never at the very beginning.                                     *)
LEMMA NotAfterFirst ==
  ASSUME NEW src
  PROVE  ~IsAfterOperand(src, 1)
<1>1. 1 .. (1 - 1) = {}
  OBVIOUS
<1> QED
  BY <1>1 DEF IsAfterOperand

(* What an operand may end with.                                            *)
LEMMA AfterWhat ==
  ASSUME NEW src, NEW j \in Int, IsAfterOperand(src, j + 1)
  PROVE  src[j] \in {"x", "1", "]", "}", ")", "++", "--"}
<1>1. EndsOperand(src, j) \/ src[j] \in {"++", "--"}
  BY NotAfter
<1> QED
  BY <1>1 DEF EndsOperand

----------------------------------------------------------------------------
(* An operator between operands, outside all brackets and after no cast.    *)
LEMMA InfixIs ==
  ASSUME NEW src, NEW i, NEW j
  PROVE  \A k : k \in InfixOutside(src, i, j) <=>
                  /\ k \in Outside(src, i, j) /\ src[k] \in Infixes
                  /\ IsAfterOperand(src, k) /\ NoCast(src, i, k)
BY DEF InfixOutside, Infixes, NoCast

(* Those of two spans in a row: the second's count if the first has no cast.*)
LEMMA InfixJoins ==
  ASSUME NEW src, NEW i \in Int, NEW m \in Int, NEW j \in Int, i <= m + 1, m <= j,
         Depth(src, i, m) = 0
  PROVE  InfixOutside(src, i, j) =
           InfixOutside(src, i, m)
             \cup {k \in InfixOutside(src, m + 1, j) : NoCast(src, i, m)}
<1>1. Outside(src, i, j) = Outside(src, i, m) \cup Outside(src, m + 1, j)
  BY OutsideJoins
<1>2. ASSUME NEW k \in Outside(src, m + 1, j)
      PROVE  NoCast(src, i, k) <=> NoCast(src, i, m) /\ NoCast(src, m + 1, k)
  <2>1. k \in (m + 1) .. j
    <3>1. m + 1 \in Int
      OBVIOUS
    <3> QED
      BY <3>1, OutsideIs
  <2>2. k \in Int /\ m <= k
    BY <2>1
  <2>3. Outside(src, i, k) = Outside(src, i, m) \cup Outside(src, m + 1, k)
    BY <2>2, OutsideJoins
  <2> QED
    BY <2>3 DEF NoCast
<1>3. ASSUME NEW k
      PROVE  k \in InfixOutside(src, i, j) <=>
               \/ k \in InfixOutside(src, i, m)
               \/ k \in InfixOutside(src, m + 1, j) /\ NoCast(src, i, m)
  BY <1>1, <1>2, InfixIs
<1> QED
  BY <1>3

(* A cast is in one of two spans in a row.                                  *)
LEMMA NoCastJoins ==
  ASSUME NEW src, NEW i \in Int, NEW m \in Int, NEW j \in Int, i <= m + 1, m <= j,
         Depth(src, i, m) = 0
  PROVE  NoCast(src, i, j) <=> NoCast(src, i, m) /\ NoCast(src, m + 1, j)
BY OutsideJoins DEF NoCast

(* The root: all left of it bind at least as tight, all right of it tighter.*)
LEMMA RootIs ==
  ASSUME NEW src, NEW p \in Int, src[p] \in Infixes, NEW A, NEW B, NEW S,
         S = A \cup {p} \cup B,
         \A k \in A : /\ k \in Int /\ k < p /\ src[k] \in Infixes
                      /\ Precedence(src[p]) <= MinRhsPrec(src[k]),
         \A k \in B : /\ k \in Int /\ p < k /\ src[k] \in Infixes
                      /\ Precedence(src[k]) > MinRhsPrec(src[p])
  PROVE  Root(src, S) = p
<1> DEFINE L == {k \in S : \A l \in S : Precedence(src[k]) <= Precedence(src[l])}
<1>1. S \subseteq Int /\ p \in S /\ \A k \in S : src[k] \in Infixes
  OBVIOUS
<1>2. \A k \in S : /\ Precedence(src[k]) \in 1 .. 60 /\ MinRhsPrec(src[k]) \in 0 .. 60
                   /\ IsRightAssociative(src[k]) => MinRhsPrec(src[k]) = Precedence(src[k]) - 1
                   /\ ~IsRightAssociative(src[k]) => MinRhsPrec(src[k]) = Precedence(src[k])
  BY <1>1, InfixPrecedence
<1>3. \A k \in S : Precedence(src[p]) <= Precedence(src[k])
  <2>1. ASSUME NEW k \in A PROVE Precedence(src[p]) <= Precedence(src[k])
    BY <1>1, <1>2
  <2>2. ASSUME NEW k \in B PROVE Precedence(src[p]) <= Precedence(src[k])
    BY <1>1, <1>2
  <2>3. Precedence(src[p]) <= Precedence(src[p])
    BY <1>1, <1>2
  <2> QED
    BY <2>1, <2>2, <2>3
<1>4. p \in L
  BY <1>1, <1>3
<1>5. ASSUME NEW k \in L
      PROVE  /\ Precedence(src[k]) = Precedence(src[p])
             /\ IsRightAssociative(src[k]) <=> IsRightAssociative(src[p])
  <2>1. k \in S /\ Precedence(src[k]) <= Precedence(src[p])
        /\ Precedence(src[p]) <= Precedence(src[k])
    BY <1>1, <1>3
  <2>2. Precedence(src[k]) = Precedence(src[p])
    BY <1>1, <1>2, <2>1
  <2> QED
    BY <1>1, <2>1, <2>2, LevelsAgree
<1>6. L \subseteq S
  OBVIOUS
<1>7. Root(src, S) = IF \E k \in L : IsRightAssociative(src[k]) THEN Least(L) ELSE Greatest(L)
  BY DEF Root
<1> HIDE DEF L
<1>8. CASE IsRightAssociative(src[p])
  <2>1. ASSUME NEW k \in L PROVE p <= k
    <3>1. k \notin A
      <4>1. SUFFICES ASSUME k \in A PROVE FALSE
        OBVIOUS
      <4>2. MinRhsPrec(src[k]) = Precedence(src[k]) - 1
        BY <1>2, <1>5, <1>6, <1>8
      <4>3. Precedence(src[p]) <= MinRhsPrec(src[k]) /\ Precedence(src[p]) = Precedence(src[k])
        BY <1>5, <4>1
      <4>4. Precedence(src[p]) \in 1 .. 60
        BY <1>1, <1>2
      <4> QED
        BY <4>2, <4>3, <4>4
    <3>2. k = p \/ k \in B
      BY <1>6, <3>1
    <3> QED
      BY <3>2
  <2>2. Least(L) = p
    BY <1>1, <1>4, <1>6, <2>1, LeastIs
  <2> QED
    BY <1>4, <1>7, <1>8, <2>2
<1>9. CASE ~IsRightAssociative(src[p])
  <2>1. ASSUME NEW k \in L PROVE k <= p
    <3>1. k \notin B
      <4>1. SUFFICES ASSUME k \in B PROVE FALSE
        OBVIOUS
      <4>2. MinRhsPrec(src[p]) = Precedence(src[p])
        BY <1>1, <1>2, <1>9
      <4>3. Precedence(src[k]) > MinRhsPrec(src[p]) /\ Precedence(src[p]) = Precedence(src[k])
        BY <1>5, <4>1
      <4>4. Precedence(src[p]) \in 1 .. 60
        BY <1>1, <1>2
      <4> QED
        BY <4>2, <4>3, <4>4
    <3>2. k = p \/ k \in A
      BY <1>6, <3>1
    <3> QED
      BY <3>2
  <2>2. Greatest(L) = p
    BY <1>1, <1>4, <1>6, <2>1, GreatestIs
  <2>3. ~\E k \in L : IsRightAssociative(src[k])
    BY <1>5, <1>9
  <2> QED
    BY <1>7, <2>2, <2>3
<1> QED
  BY <1>8, <1>9

----------------------------------------------------------------------------
(* A span without a comma outside all brackets.                             *)
Commaless(src, i, j) == \A k \in Outside(src, i, j) : src[k] # ","

(* A span that is an expression, by its brackets and its ends.              *)
IsExpression(src, s, j) ==
  /\ s \in Nat \ {0} /\ j \in Nat /\ s <= j /\ IsWithin(src, j)
  /\ Even(src, s, j) /\ Commaless(src, s, j)
  /\ src[s] \in Starts /\ ~IsAfterOperand(src, s) /\ IsAfterOperand(src, j + 1)

(* Every operator in a span binds tighter than the least precedence, and    *)
(* would have given its right operand no more than it has;                  *)
OpsFit(src, s, j, min) ==
  \A k \in InfixOutside(src, s, j) :
    Precedence(src[k]) > min /\ Precedence(src[j + 1]) <= MinRhsPrec(src[k])

(* the span ends in something that is not a subscript;                      *)
EndsPlain(src, s, j) ==
  \E q \in Outside(src, s, j) : src[q] # "[" /\ \A k \in Outside(src, s, j) : k <= q

(* what is behind the span binds no tighter than what may end there.        *)
TailFits(src, s, j) ==
  /\ src[s] \in PrefixOperators => Precedence(src[j + 1]) <= PREFIX_PRECEDENCE
  /\ ~NoCast(src, s, j) => Precedence(src[j + 1]) <= 0
  /\ src[j + 1] = "[" => EndsPlain(src, s, j)

(* Fits: what pratt_parse has parsed and may go on from with a least        *)
(* precedence.                                                              *)
Fits(src, s, j, min) ==
  IsExpression(src, s, j) /\ OpsFit(src, s, j, min) /\ TailFits(src, s, j)

(* The token behind a span: only a follower has the highest precedence.     *)
LEMMA NextPrecedence ==
  ASSUME NEW src, NEW j
  PROVE  Precedence(src[j]) \in 0 .. 90 /\ (Precedence(src[j]) < 90 => src[j] \notin Followers)
<1>1. ~(90 < 90)
  OBVIOUS
<1> QED
  BY <1>1, PrecedenceIs, FollowerPrecedence

(* An operand without operators, prefixes or casts may be followed by       *)
(* anything.                                                                *)
IsPrimary(src, s, j) ==
  InfixOutside(src, s, j) = {} /\ NoCast(src, s, j) /\ src[s] \notin PrefixOperators

(* What a follower follows has no operators of its own,                     *)
LEMMA FollowedIsPrimary ==
  ASSUME NEW src, NEW s, NEW j, NEW min, Fits(src, s, j, min), src[j + 1] \in Followers
  PROVE  IsPrimary(src, s, j)
<1>1. Precedence(src[j + 1]) = 90
  BY FollowerPrecedence
<1>2. InfixOutside(src, s, j) = {}
  <2> SUFFICES ASSUME NEW k \in InfixOutside(src, s, j) PROVE FALSE
    OBVIOUS
  <2>1. src[k] \in Infixes /\ Precedence(src[j + 1]) <= MinRhsPrec(src[k])
    BY InfixIs DEF Fits, OpsFit
  <2>2. MinRhsPrec(src[k]) \in 0 .. 60
    BY <2>1, InfixPrecedence
  <2> QED
    BY <1>1, <2>1, <2>2
<1>3. ~(90 <= 80) /\ ~(90 <= 0)
  OBVIOUS
<1> QED
  BY <1>1, <1>2, <1>3 DEF Fits, TailFits, IsPrimary, PREFIX_PRECEDENCE

(* What follows an operand directly: a call, subscripts, a member, ++ ...   *)
IsEnding(src, p, j) ==
  /\ p <= j /\ Even(src, p, j) /\ src[p] \in Followers
  /\ \A k \in Outside(src, p, j) : src[k] \in Followers \cup {"x"} /\ ~IsCast(src, k)

(* ... and with what follows it still has none.                             *)
LEMMA SuffixFits ==
  ASSUME NEW src, NEW s, NEW p \in Nat \ {0}, NEW j \in Nat, IsWithin(src, j), NEW min,
         Fits(src, s, p - 1, min), IsEnding(src, p, j), IsAfterOperand(src, j + 1),
         src[j + 1] = "[" => EndsPlain(src, p, j)
  PROVE  IsPrimary(src, s, j) /\ \A m : Fits(src, s, j, m)
<1>1. /\ s \in Nat \ {0} /\ s <= p - 1 /\ IsWithin(src, p - 1) /\ Even(src, s, p - 1)
      /\ Commaless(src, s, p - 1) /\ src[s] \in Starts /\ ~IsAfterOperand(src, s)
  BY DEF Fits, IsExpression
<1>2. /\ p <= j /\ Even(src, p, j) /\ src[p] \in Followers
      /\ \A k \in Outside(src, p, j) : src[k] \in Followers \cup {"x"} /\ ~IsCast(src, k)
  BY DEF IsEnding
<1>3. s \in Int /\ p - 1 \in Int /\ s <= (p - 1) + 1 /\ p - 1 <= j /\ (p - 1) + 1 = p /\ s <= j
      /\ j \in Int
  BY <1>1, <1>2
<1>4. IsPrimary(src, s, p - 1)
  BY <1>2, <1>3, FollowedIsPrimary
<1>5. Even(src, s, j)
  BY <1>1, <1>2, <1>3, EvenJoins
<1>6. Depth(src, s, p - 1) = 0
  BY <1>1 DEF Even
<1>7. Outside(src, s, j) = Outside(src, s, p - 1) \cup Outside(src, p, j)
  BY <1>3, <1>6, OutsideJoins
<1>8. InfixOutside(src, s, j) = {}
  <2>1. InfixOutside(src, s, j) =
          InfixOutside(src, s, p - 1)
             \cup {k \in InfixOutside(src, p, j) : NoCast(src, s, p - 1)}
    BY <1>3, <1>6, InfixJoins
  <2>2. InfixOutside(src, p, j) = {}
    BY <1>2, InfixIs, KindsOfOperators
  <2> QED
    BY <1>4, <2>1, <2>2 DEF IsPrimary
<1>9. NoCast(src, s, j)
  BY <1>2, <1>4, <1>7 DEF NoCast, IsPrimary
<1>10. Commaless(src, s, j)
  BY <1>1, <1>2, <1>7, KindsOfOperators DEF Commaless
<1>11. src[j + 1] = "[" => EndsPlain(src, s, j)
  <2> SUFFICES ASSUME EndsPlain(src, p, j) PROVE EndsPlain(src, s, j)
    OBVIOUS
  <2>1. PICK q \in Outside(src, p, j) : src[q] # "[" /\ \A k \in Outside(src, p, j) : k <= q
    BY DEF EndsPlain
  <2>2. q \in p .. j
    BY <1>3, OutsideIs
  <2>3. ASSUME NEW k \in Outside(src, s, p - 1) PROVE k <= q
    <3>1. k \in s .. (p - 1)
      BY <1>3, OutsideIs
    <3> QED
      BY <1>3, <2>2, <3>1
  <2> QED
    BY <1>7, <2>1, <2>3 DEF EndsPlain
<1>12. IsExpression(src, s, j)
  BY <1>1, <1>3, <1>5, <1>10 DEF IsExpression
<1> QED
  BY <1>4, <1>8, <1>9, <1>11, <1>12 DEF IsPrimary, Fits, OpsFit, TailFits

(* A span without brackets is even.                                         *)
LEMMA FlatIs ==
  ASSUME NEW src, NEW i \in Int, NEW j \in Int, i <= j,
         \A k \in i .. j : src[k] \notin Opening \cup Closing
  PROVE  Even(src, i, j)
<1>1. ASSUME NEW k \in i .. j PROVE Depth(src, i, k) = 0
  <2>1. \A l \in i .. k : l \in i .. j
    OBVIOUS
  <2>2. {l \in i .. k : src[l] \in Opening} = {} /\ {l \in i .. k : src[l] \in Closing} = {}
    BY <2>1
  <2>3. Count(src, Opening, i, k) = 0 /\ Count(src, Closing, i, k) = 0
    BY <2>2, FS_EmptySet DEF Count
  <2> QED
    BY <2>3 DEF Depth
<1>2. j \in i .. j /\ 0 >= 0
  OBVIOUS
<1> QED
  BY <1>1, <1>2 DEF Even

(* The kinds of tokens that are apart from each other.                      *)
LEMMA PlainTokens ==
  /\ \A tok \in {"x", "1", "::", ".", "->", "++", "--", "#cast<T>", ",", "="} :
       tok \notin Opening \cup Closing
  /\ \A tok \in PrefixOperators : tok \notin Opening \cup Closing /\ tok # "(" /\ tok # ","
  /\ \A tok \in BinaryOperators \cup AssignOperators : tok \notin Opening \cup Closing /\ tok # "("
  /\ \A tok \in Starts : tok \notin {"#cast<T>", "{", ",", ".", "}", ")", "]"}
  /\ "(" \in Opening /\ "[" \in Opening /\ "{" \in Opening /\ "?" \in Opening
  /\ ")" \in Closing /\ "]" \in Closing /\ "}" \in Closing /\ ":" \in Closing
  /\ "(" \notin PrefixOperators /\ "x" \notin PrefixOperators /\ "1" \notin PrefixOperators
  /\ "{" \notin PrefixOperators
BY DEF Opening, Closing, PrefixOperators, BinaryOperators, AssignOperators, Starts

(* A name or a path, a literal.                                             *)
IsAtom(src, s, j) ==
  /\ \A k \in s .. j : src[k] \in {"x", "1", "::"}
  /\ src[s] \in {"x", "1"} /\ src[j] \in {"x", "1"}

(* A literal, a name or a group in parentheses is an operand.               *)
LEMMA AtomFits ==
  ASSUME NEW src, NEW s \in Nat \ {0}, NEW j \in Nat, s <= j, IsWithin(src, j),
         IsAtom(src, s, j), ~IsAfterOperand(src, s)
  PROVE  IsPrimary(src, s, j) /\ \A m : Fits(src, s, j, m)
<1>0. s \in Int /\ j \in Int /\ j \in Nat \ {0}
  OBVIOUS
<1>a. /\ \A k \in s .. j : src[k] \in {"x", "1", "::"}
      /\ src[s] \in {"x", "1"} /\ src[j] \in {"x", "1"}
  BY DEF IsAtom
<1>b. \A k \in s .. j : src[k] \notin Opening \cup Closing
  BY <1>a, PlainTokens
<1>1. Even(src, s, j)
  BY <1>0, <1>b, FlatIs
<1>2. Outside(src, s, j) \subseteq s .. j
  BY <1>0, OutsideIs
<1>3. InfixOutside(src, s, j) = {}
  BY <1>2, <1>a, InfixIs, KindsOfOperators
<1>4. NoCast(src, s, j)
  <2>1. \A k \in s .. j : src[k] # "("
    BY <1>a
  <2> QED
    BY <1>2, <2>1 DEF NoCast, IsCast
<1>5. Commaless(src, s, j)
  <2>1. \A k \in s .. j : src[k] # ","
    BY <1>a
  <2> QED
    BY <1>2, <2>1 DEF Commaless
<1>6. IsAfterOperand(src, j + 1)
  <2>1. EndsOperand(src, j)
    BY <1>a DEF EndsOperand
  <2> QED
    BY <1>0, <2>1, AfterEnd
<1>7. EndsPlain(src, s, j)
  <2>1. j \in Outside(src, s, j)
    <3>1. j \in s .. j /\ Depth(src, s, j - 1) = 0
      <4>1. CASE s = j
        <5>1. Depth(src, s, s - 1) = 0
          BY <1>0, DepthIs
        <5>2. s \in s .. s
          OBVIOUS
        <5> QED
          BY <4>1, <5>1, <5>2
      <4>2. CASE s < j
        <5>1. s <= j - 1 /\ j - 1 \in Int /\ \A k \in s .. (j - 1) : k \in s .. j
          BY <4>2
        <5>3. \A k \in s .. (j - 1) : src[k] \notin Opening \cup Closing
          BY <1>b, <5>1
        <5>2. Even(src, s, j - 1)
          BY <1>0, <5>1, <5>3, FlatIs
        <5> QED
          BY <5>2 DEF Even
      <4> QED
        BY <4>1, <4>2
    <3> QED
      BY <3>1, OutsideIs
  <2>2. \A k \in s .. j : k <= j
    OBVIOUS
  <2>3. src[j] # "["
    BY <1>a
  <2> QED
    BY <1>2, <2>1, <2>2, <2>3 DEF EndsPlain
<1>8. src[s] \in Starts /\ src[s] \notin PrefixOperators
  BY <1>a, PlainTokens DEF Starts
<1>9. IsExpression(src, s, j)
  BY <1>1, <1>5, <1>6, <1>8 DEF IsExpression
<1> QED
  BY <1>3, <1>4, <1>7, <1>8, <1>9 DEF IsPrimary, Fits, OpsFit, TailFits

(* An expression in parentheses.                                            *)
LEMMA ParenFits ==
  ASSUME NEW src, IsSource(src), NEW s \in Nat \ {0}, NEW j \in Nat, IsWithin(src, j),
         src[s] = "(", src[j] = ")", NEW min, Fits(src, s + 1, j - 1, min), ~IsAfterOperand(src, s)
  PROVE  Group(src, s, j) /\ IsPrimary(src, s, j) /\ \A m : Fits(src, s, j, m)
<1>1. /\ s + 1 <= j - 1 /\ Even(src, s + 1, j - 1) /\ src[s + 1] \in Starts
      /\ IsAfterOperand(src, (j - 1) + 1)
  BY DEF Fits, IsExpression
<1>2. s \in Int /\ j \in Int /\ s < j /\ 1 <= s /\ s <= j
  BY <1>1
<1>3. Group(src, s, j)
  BY <1>1, <1>2, PlainTokens DEF Group
<1>4. Even(src, s, j) /\ Outside(src, s, j) = {s}
  BY <1>2, <1>3, GroupIs
<1>5. InfixOutside(src, s, j) = {}
  BY <1>4, InfixIs, KindsOfOperators DEF Followers
<1>6. NoCast(src, s, j) /\ Commaless(src, s, j)
  BY <1>1, <1>4, PlainTokens DEF NoCast, Commaless, IsCast
<1>7. IsAfterOperand(src, j + 1)
  <2>1. j - 1 \in Int
    OBVIOUS
  <2>2. src[j - 1] # "#cast<T>"
    BY <1>1, <2>1, AfterWhat
  <2>3. EndsOperand(src, j) /\ j \in Nat \ {0}
    BY <1>2, <2>2 DEF EndsOperand
  <2> QED
    BY <2>3, AfterEnd
<1>8. EndsPlain(src, s, j)
  BY <1>4 DEF EndsPlain
<1>9. src[s] \in Starts /\ src[s] \notin PrefixOperators
  BY PlainTokens DEF Starts
<1>10. IsExpression(src, s, j)
  BY <1>2, <1>4, <1>6, <1>7, <1>9 DEF IsExpression
<1> QED
  BY <1>3, <1>5, <1>6, <1>8, <1>9, <1>10 DEF IsPrimary, Fits, OpsFit, TailFits

(* A prefix operator.                                                       *)
LEMMA UnaryFits ==
  ASSUME NEW src, NEW s \in Nat \ {0}, NEW j \in Nat, src[s] \in PrefixOperators,
         ~IsAfterOperand(src, s), Fits(src, s + 1, j, PREFIX_PRECEDENCE),
         Precedence(src[j + 1]) <= PREFIX_PRECEDENCE
  PROVE  InfixOutside(src, s, j) = {} /\ \A m : Fits(src, s, j, m)
<1>1. /\ s + 1 <= j /\ IsWithin(src, j) /\ Even(src, s + 1, j) /\ Commaless(src, s + 1, j)
      /\ IsAfterOperand(src, j + 1)
  BY DEF Fits, IsExpression
<1>2. s \in Int /\ j \in Int /\ s <= s + 1 /\ s <= j
  BY <1>1
<1>3. src[s] \notin Opening \cup Closing /\ src[s] # "(" /\ src[s] # ","
  BY PlainTokens
<1>4. Even(src, s, s) /\ Depth(src, s, s) = 0 /\ Outside(src, s, s) = {s}
  BY <1>2, <1>3, EvenOne, OutsideShort DEF Even
<1>5. Even(src, s, j)
  BY <1>1, <1>2, <1>4, EvenJoins
<1>6. Outside(src, s, j) = {s} \cup Outside(src, s + 1, j)
  BY <1>2, <1>4, OutsideJoins
<1>7. InfixOutside(src, s + 1, j) = {}
  <2> SUFFICES ASSUME NEW k \in InfixOutside(src, s + 1, j) PROVE FALSE
    OBVIOUS
  <2>1. src[k] \in Infixes /\ Precedence(src[k]) > PREFIX_PRECEDENCE
    BY InfixIs DEF Fits, OpsFit
  <2>2. Precedence(src[k]) \in 1 .. 60
    BY <2>1, InfixPrecedence
  <2> QED
    BY <2>1, <2>2 DEF PREFIX_PRECEDENCE
<1>8. InfixOutside(src, s, s) = {}
  BY <1>4, InfixIs
<1>9. InfixOutside(src, s, j) = {}
  BY <1>2, <1>4, <1>7, <1>8, InfixJoins
<1>10. Commaless(src, s, j)
  BY <1>1, <1>3, <1>6 DEF Commaless
<1>11. ~NoCast(src, s, j) => Precedence(src[j + 1]) <= 0
  BY <1>3, <1>6 DEF NoCast, IsCast, Fits, TailFits
<1>12. src[j + 1] # "["
  <2>1. Precedence(src[j + 1]) \in 0 .. 90 /\ Precedence(src[j + 1]) <= 80
    BY NextPrecedence DEF PREFIX_PRECEDENCE
  <2>2. Precedence(src[j + 1]) < 90
    BY <2>1
  <2> QED
    BY <2>2, NextPrecedence DEF Followers
<1>13. IsExpression(src, s, j)
  BY <1>1, <1>2, <1>5, <1>10 DEF IsExpression, Starts
<1> QED
  BY <1>9, <1>11, <1>12, <1>13 DEF Fits, OpsFit, TailFits

(* A cast: all that follows is its operand.                                 *)
LEMMA CastFits ==
  ASSUME NEW src, IsSource(src), NEW s \in Nat \ {0}, NEW j \in Nat,
         src[s] = "(", src[s + 1] = "#cast<T>", src[s + 2] = ")",
         ~IsAfterOperand(src, s), Fits(src, s + 3, j, 0), Precedence(src[j + 1]) <= 0
  PROVE  InfixOutside(src, s, j) = {} /\ \A m : Fits(src, s, j, m)
<1>1. /\ s + 3 <= j /\ IsWithin(src, j) /\ Even(src, s + 3, j) /\ Commaless(src, s + 3, j)
      /\ IsAfterOperand(src, j + 1)
  BY DEF Fits, IsExpression
<1>2. /\ s \in Int /\ j \in Int /\ s + 2 \in Int /\ s <= s + 2 /\ s <= j /\ 1 <= s
      /\ s < s + 2 /\ (s + 2) - 1 = s + 1 /\ s + 1 \in Int
      /\ s <= (s + 2) + 1 /\ s + 2 <= j /\ (s + 2) + 1 = s + 3
  BY <1>1
<1>0. IsWithin(src, s + 2)
  BY <1>1, <1>2, WithinLess
<1>3. Group(src, s, s + 2)
  <2>1. Even(src, s + 1, s + 1)
    BY <1>2, EvenOne, PlainTokens
  <2> QED
    BY <1>2, <2>1, PlainTokens DEF Group
<1>4. Even(src, s, s + 2) /\ Outside(src, s, s + 2) = {s} /\ Depth(src, s, s + 2) = 0
  BY <1>0, <1>2, <1>3, GroupIs DEF Even
<1>5. Even(src, s, j)
  BY <1>1, <1>2, <1>4, EvenJoins
<1>6. Outside(src, s, j) = {s} \cup Outside(src, s + 3, j)
  BY <1>2, <1>4, OutsideJoins
<1>7. IsCast(src, s)
  BY DEF IsCast
<1>8. InfixOutside(src, s, j) = {}
  <2> SUFFICES ASSUME NEW k \in InfixOutside(src, s, j) PROVE FALSE
    OBVIOUS
  <2>1. k \in Outside(src, s, j) /\ NoCast(src, s, k)
    BY InfixIs
  <2>2. k \in s .. j
    BY <1>2, <2>1, OutsideIs
  <2>3. s \in Outside(src, s, k)
    BY <1>2, <2>2, OutsideIs
  <2> QED
    BY <1>7, <2>1, <2>3 DEF NoCast
<1>9. Commaless(src, s, j)
  BY <1>1, <1>6 DEF Commaless
<1>10. src[j + 1] # "["
  <2>1. Precedence(src[j + 1]) \in 0 .. 90 /\ Precedence(src[j + 1]) <= 0
    BY NextPrecedence
  <2>2. Precedence(src[j + 1]) < 90
    BY <2>1
  <2> QED
    BY <2>2, NextPrecedence DEF Followers
<1>11. IsExpression(src, s, j)
  BY <1>1, <1>2, <1>5, <1>9 DEF IsExpression, Starts
<1> QED
  BY <1>8, <1>10, <1>11, PlainTokens DEF Fits, OpsFit, TailFits

(* What stands between the left and the right operand: an operator, or the  *)
(* middle of a ternary with its brackets.                                   *)
IsMiddle(src, p, q) ==
  \/ p = q /\ src[p] \in BinaryOperators \cup AssignOperators
  \/ Group(src, p, q) /\ src[p] = "?"

(* An operator, and the middle of a ternary with its mark, is even.         *)
LEMMA MiddleIs ==
  ASSUME NEW src, IsSource(src), NEW p \in Int, NEW q \in Int, 1 <= p, IsWithin(src, q),
         IsMiddle(src, p, q)
  PROVE  /\ p <= q /\ src[p] \in Infixes /\ Even(src, p, q) /\ Outside(src, p, q) = {p}
         /\ src[p] # "(" /\ src[p] # ","
<1>1. src[p] \in Infixes /\ src[p] # "(" /\ src[p] # ","
  <2>1. src[p] \in Infixes
    BY DEF IsMiddle, Infixes
  <2> QED
    BY <2>1, KindsOfOperators
<1>2. CASE p = q /\ src[p] \in BinaryOperators \cup AssignOperators
  <2>1. src[p] \notin Opening \cup Closing
    BY <1>2, PlainTokens
  <2>2. Even(src, p, p) /\ Outside(src, p, p) = {p}
    BY <2>1, EvenOne, OutsideShort
  <2>3. p <= p
    OBVIOUS
  <2> QED
    BY <1>1, <1>2, <2>2, <2>3
<1>3. CASE Group(src, p, q)
  <2>1. Even(src, p, q) /\ Outside(src, p, q) = {p}
    BY <1>3, GroupIs
  <2>2. p <= q
    BY <1>3 DEF Group
  <2> QED
    BY <1>1, <2>1, <2>2
<1> QED
  BY <1>2, <1>3 DEF IsMiddle

(* Two operands and the operator between them, which the left one has left  *)
(* over and whose right one ends where the span does,                       *)
Joined(src, s, p, q, j, min) ==
  /\ Fits(src, s, p - 1, min) /\ Precedence(src[p]) > min /\ IsMiddle(src, p, q)
  /\ Fits(src, q + 1, j, MinRhsPrec(src[p])) /\ Precedence(src[j + 1]) <= MinRhsPrec(src[p])

(* ... are an expression whose root that operator is.                       *)
LEMMA InfixFits ==
  ASSUME NEW src, IsSource(src), NEW s \in Nat \ {0}, NEW p \in Nat \ {0}, NEW q \in Nat,
         NEW j \in Nat,
         NEW min \in Nat, Joined(src, s, p, q, j, min)
  PROVE  /\ Fits(src, s, j, min)
         /\ InfixOutside(src, s, j) # {} /\ Root(src, InfixOutside(src, s, j)) = p
<1> DEFINE A == InfixOutside(src, s, p - 1)
           B == InfixOutside(src, q + 1, j)
           S == InfixOutside(src, s, j)
<1>0. /\ Fits(src, s, p - 1, min) /\ IsMiddle(src, p, q)
      /\ Fits(src, q + 1, j, MinRhsPrec(src[p]))
  BY DEF Joined
<1>1. /\ s <= p - 1 /\ Even(src, s, p - 1) /\ Commaless(src, s, p - 1) /\ src[s] \in Starts
      /\ ~IsAfterOperand(src, s) /\ IsAfterOperand(src, (p - 1) + 1) /\ (p - 1) + 1 = p
  BY <1>0 DEF Fits, IsExpression
<1>2. /\ q + 1 <= j /\ IsWithin(src, j) /\ Even(src, q + 1, j) /\ Commaless(src, q + 1, j)
      /\ IsAfterOperand(src, j + 1)
  BY <1>0 DEF Fits, IsExpression
<1>3. p \in Int /\ q \in Int /\ 1 <= p /\ IsWithin(src, q)
  <2>1. q <= j /\ q \in Int /\ j \in Int /\ p \in Int /\ 1 <= p
    BY <1>2
  <2> QED
    BY <1>2, <2>1, WithinLess
<1>4. /\ p <= q /\ src[p] \in Infixes /\ Even(src, p, q) /\ Outside(src, p, q) = {p}
      /\ src[p] # "(" /\ src[p] # ","
  BY <1>0, <1>3, MiddleIs
<1>5. /\ s \in Int /\ j \in Int /\ p - 1 \in Int /\ q + 1 \in Int /\ s <= p /\ p - 1 <= j
      /\ p <= q + 1 /\ q <= j /\ s <= j /\ p <= j /\ p <= p
  <2>1. s <= p - 1 /\ q + 1 <= j /\ p <= q
    BY <1>1, <1>2, <1>4
  <2> QED
    BY <2>1
<1>6. Depth(src, s, p - 1) = 0 /\ Depth(src, p, q) = 0
  BY <1>1, <1>4 DEF Even
<1>7. Even(src, s, j)
  <2>1. Even(src, p, j)
    BY <1>2, <1>3, <1>4, <1>5, EvenJoins
  <2> QED
    BY <1>1, <1>5, <2>1, EvenJoins
<1>8. /\ Outside(src, s, j) = Outside(src, s, p - 1) \cup Outside(src, p, j)
      /\ Outside(src, p, j) = {p} \cup Outside(src, q + 1, j)
  <2>1. Outside(src, s, j) = Outside(src, s, p - 1) \cup Outside(src, p, j)
    BY <1>1, <1>5, <1>6, OutsideJoins
  <2>2. Outside(src, p, j) = Outside(src, p, q) \cup Outside(src, q + 1, j)
    BY <1>3, <1>5, <1>6, OutsideJoins
  <2> QED
    BY <1>4, <2>1, <2>2
<1>9. /\ Precedence(src[p]) \in 1 .. 60 /\ MinRhsPrec(src[p]) \in 0 .. 60
      /\ MinRhsPrec(src[p]) <= Precedence(src[p]) /\ Precedence(src[p]) <= MinRhsPrec(src[p]) + 1
      /\ Precedence(src[p]) > min /\ Precedence(src[j + 1]) <= MinRhsPrec(src[p])
  BY <1>4, InfixPrecedence DEF Joined
<1>10. NoCast(src, s, p - 1)
  <2>1. ~(Precedence(src[p]) <= 0)
    BY <1>9
  <2> QED
    BY <1>0, <1>1, <2>1 DEF Fits, TailFits
<1>11. NoCast(src, p, q) /\ NoCast(src, p, p)
  <2>1. Outside(src, p, p) = {p}
    BY <1>3, OutsideShort
  <2> QED
    BY <1>4, <2>1 DEF NoCast, IsCast
<1>12. S = A \cup {p} \cup B
  <2>1. S = A \cup InfixOutside(src, p, j)
    <3>1. S = A \cup {k \in InfixOutside(src, p, j) : NoCast(src, s, p - 1)}
      BY <1>1, <1>5, <1>6, InfixJoins
    <3> QED
      BY <1>10, <3>1
  <2>2. InfixOutside(src, p, j) = InfixOutside(src, p, q) \cup B
    <3>1. InfixOutside(src, p, j)
            = InfixOutside(src, p, q) \cup {k \in InfixOutside(src, q + 1, j) : NoCast(src, p, q)}
      BY <1>3, <1>5, <1>6, InfixJoins
    <3> QED
      BY <1>11, <3>1
  <2>3. InfixOutside(src, p, q) = {p}
    <3>1. \A k : k \in InfixOutside(src, p, q) <=> k = p
      <4>1. IsAfterOperand(src, p)
        BY <1>1
      <4> QED
        BY <4>1, <1>4, <1>11, InfixIs
    <3> QED
      BY <3>1
  <2> QED
    BY <2>1, <2>2, <2>3
<1>13. \A k \in A : /\ k \in Int /\ k < p /\ src[k] \in Infixes
                    /\ Precedence(src[p]) <= MinRhsPrec(src[k]) /\ Precedence(src[k]) > min
  <2> SUFFICES ASSUME NEW k \in A
               PROVE  /\ k \in Int /\ k < p /\ src[k] \in Infixes
                      /\ Precedence(src[p]) <= MinRhsPrec(src[k]) /\ Precedence(src[k]) > min
    OBVIOUS
  <2>1. k \in Outside(src, s, p - 1) /\ src[k] \in Infixes
    BY InfixIs
  <2>2. k \in s .. (p - 1)
    BY <1>5, <2>1, OutsideIs
  <2>3. Precedence(src[(p - 1) + 1]) <= MinRhsPrec(src[k]) /\ Precedence(src[k]) > min
    BY <1>0 DEF Fits, OpsFit
  <2> QED
    BY <1>1, <2>1, <2>2, <2>3
<1>14. \A k \in B : /\ k \in Int /\ p < k /\ src[k] \in Infixes
                    /\ Precedence(src[k]) > MinRhsPrec(src[p])
                    /\ Precedence(src[j + 1]) <= MinRhsPrec(src[k])
  <2> SUFFICES ASSUME NEW k \in B
               PROVE  /\ k \in Int /\ p < k /\ src[k] \in Infixes
                      /\ Precedence(src[k]) > MinRhsPrec(src[p])
                      /\ Precedence(src[j + 1]) <= MinRhsPrec(src[k])
    OBVIOUS
  <2>1. k \in Outside(src, q + 1, j) /\ src[k] \in Infixes
    BY InfixIs
  <2>2. k \in (q + 1) .. j
    BY <1>5, <2>1, OutsideIs
  <2>3. Precedence(src[k]) > MinRhsPrec(src[p]) /\ Precedence(src[j + 1]) <= MinRhsPrec(src[k])
    BY <1>0 DEF Fits, OpsFit
  <2>4. k \in Int /\ p < k
    <3>1. p <= q
      BY <1>4
    <3> QED
      BY <2>2, <3>1
  <2> QED
    BY <2>1, <2>3, <2>4
<1>15. Precedence(src[j + 1]) \in 0 .. 90
  BY NextPrecedence
<1> HIDE DEF A, B
<1>16. S # {} /\ Root(src, S) = p
  BY <1>3, <1>4, <1>12, <1>13, <1>14, RootIs
<1>17. OpsFit(src, s, j, min)
  <2> SUFFICES ASSUME NEW k \in S
               PROVE  Precedence(src[k]) > min /\ Precedence(src[j + 1]) <= MinRhsPrec(src[k])
    BY DEF OpsFit
  <2>1. CASE k \in A
    <3>1. MinRhsPrec(src[k]) \in 0 .. 60 /\ Precedence(src[p]) <= MinRhsPrec(src[k])
          /\ Precedence(src[k]) > min
      BY <1>13, <2>1, InfixPrecedence
    <3>2. MinRhsPrec(src[p]) <= Precedence(src[p])
      BY <1>9
    <3>3. Precedence(src[p]) \in 1 .. 60 /\ MinRhsPrec(src[p]) \in 0 .. 60
          /\ Precedence(src[j + 1]) <= MinRhsPrec(src[p])
      BY <1>9
    <3>4. Precedence(src[j + 1]) <= MinRhsPrec(src[k])
      BY <1>15, <3>1, <3>2, <3>3
    <3> QED
      BY <3>1, <3>4
  <2>2. CASE k = p
    BY <1>9, <2>2
  <2>3. CASE k \in B
    <3>1. /\ Precedence(src[k]) \in 1 .. 60 /\ Precedence(src[k]) > MinRhsPrec(src[p])
          /\ Precedence(src[j + 1]) <= MinRhsPrec(src[k])
      BY <1>14, <2>3, InfixPrecedence
    <3>2. MinRhsPrec(src[p]) >= min
      BY <1>9
    <3> QED
      BY <1>9, <3>1, <3>2
  <2> QED
    BY <1>12, <2>1, <2>2, <2>3
<1> HIDE DEF S
<1>18. Precedence(src[j + 1]) <= 60
  BY <1>9, <1>15
<1>19. src[j + 1] # "["
  <2>1. Precedence(src[j + 1]) < 90
    BY <1>15, <1>18
  <2> QED
    BY <2>1, NextPrecedence DEF Followers
<1>20. Precedence(src[j + 1]) <= PREFIX_PRECEDENCE
  BY <1>15, <1>18 DEF PREFIX_PRECEDENCE
<1>21. ~NoCast(src, s, j) => Precedence(src[j + 1]) <= 0
  <2>1. NoCast(src, q + 1, j) => NoCast(src, s, j)
    BY <1>4, <1>8, <1>10, <1>11 DEF NoCast
  <2> QED
    BY <1>0, <2>1 DEF Fits, TailFits
<1>22. Commaless(src, s, j)
  BY <1>1, <1>2, <1>4, <1>8 DEF Commaless
<1>23. IsExpression(src, s, j)
  BY <1>1, <1>2, <1>5, <1>7, <1>22 DEF IsExpression
<1> QED
  BY <1>16, <1>17, <1>19, <1>20, <1>21, <1>23 DEF Fits, TailFits, S

(* One more, greater than all of a set, comes last in it.                   *)
LEMMA NthOfMore ==
  ASSUME NEW S, IsFiniteSet(S), S \subseteq Int, NEW x \in Int, \A k \in S : k < x
  PROVE  /\ IsFiniteSet(S \cup {x}) /\ Cardinality(S) \in Nat
         /\ Cardinality(S \cup {x}) = Cardinality(S) + 1
         /\ \A n \in 1 .. Cardinality(S) : Nth(S \cup {x}, n) = Nth(S, n)
         /\ Nth(S \cup {x}, Cardinality(S) + 1) = x
<1> DEFINE T == S \cup {x}
           UpToIn(A, k) == {l \in A : l <= k}
<1>1. x \notin S
  <2> SUFFICES ASSUME x \in S PROVE FALSE
    OBVIOUS
  <2>1. x < x
    OBVIOUS
  <2> QED
    BY <2>1
<1>2. IsFiniteSet(T) /\ Cardinality(T) = Cardinality(S) + 1 /\ Cardinality(S) \in Nat
  BY <1>1, FS_AddElement, FS_CardinalityType
<1>3. ASSUME NEW k \in S PROVE UpToIn(T, k) = UpToIn(S, k)
  <2>1. ~(x <= k)
    OBVIOUS
  <2> QED
    BY <2>1
<1>4. UpToIn(T, x) = T
  <2>1. \A k \in S : k <= x
    OBVIOUS
  <2>2. x <= x
    OBVIOUS
  <2> QED
    BY <2>1, <2>2
<1>5. ASSUME NEW k \in S PROVE Cardinality(UpToIn(S, k)) \in Nat
      /\ Cardinality(UpToIn(S, k)) <= Cardinality(S)
  <2>1. UpToIn(S, k) \in SUBSET S
    OBVIOUS
  <2> QED
    BY <2>1, FS_Subset, FS_CardinalityType
<1> HIDE DEF UpToIn
<1>6. ASSUME NEW n \in 1 .. Cardinality(S) PROVE Nth(T, n) = Nth(S, n)
  <2>1. Cardinality(UpToIn(T, x)) # n
    <3> HIDE DEF T
    <3> QED
      BY <1>2, <1>4
  <2>2. Ranked(T, n) = Ranked(S, n)
    <3>1. Ranked(T, n) = {k \in T : Cardinality(UpToIn(T, k)) = n}
      BY DEF Ranked, UpToIn
    <3>2. Ranked(S, n) = {k \in S : Cardinality(UpToIn(S, k)) = n}
      BY DEF Ranked, UpToIn
    <3> QED
      BY <1>3, <2>1, <3>1, <3>2
  <2> QED
    BY <2>2 DEF Nth
<1>7. Nth(T, Cardinality(S) + 1) = x
  <2> DEFINE n == Cardinality(S) + 1
  <2>1. Ranked(T, n) = {k \in T : Cardinality(UpToIn(T, k)) = n}
    BY DEF Ranked, UpToIn
  <2>2. Cardinality(UpToIn(T, x)) = n
    BY <1>2, <1>4
  <2>3. ASSUME NEW k \in S PROVE Cardinality(UpToIn(T, k)) # n
    <3>1. Cardinality(UpToIn(S, k)) \in Nat /\ Cardinality(UpToIn(S, k)) <= Cardinality(S)
      BY <1>5
    <3>2. Cardinality(UpToIn(S, k)) # Cardinality(S) + 1
      BY <1>2, <3>1
    <3> QED
      BY <1>3, <3>2
  <2>4. Ranked(T, n) = {x}
    BY <2>1, <2>2, <2>3
  <2> HIDE DEF n
  <2>5. Nth(T, n) \in {x}
    BY <2>4 DEF Nth
  <2> QED
    BY <2>5 DEF n
<1> QED
  BY <1>2, <1>6, <1>7

----------------------------------------------------------------------------
(* The commas that cut a span.                                              *)
Commas(src, i, j) == {k \in Outside(src, i, j) : src[k] = ","}

(* The spans of a source between two places.                                *)
SpansIn(src, b, e) ==
  {span \in Spans(src) : b <= span[1] /\ span[1] <= span[2] /\ span[2] <= e}

(* The cuts: before the first token, the commas, behind the last,           *)
LEMMA CutsAre ==
  ASSUME NEW src, NEW i \in Int, NEW j \in Int, i <= j
  PROVE  /\ IsFiniteSet({i - 1} \cup Commas(src, i, j))
         /\ {i - 1} \cup Commas(src, i, j) \subseteq Int
         /\ \A k \in {i - 1} \cup Commas(src, i, j) : k < j + 1
         /\ Cuts(src, i, j) = ({i - 1} \cup Commas(src, i, j)) \cup {j + 1}
<1>1. Commas(src, i, j) \subseteq i .. j
  BY OutsideIs DEF Commas
<1>2. IsFiniteSet(Commas(src, i, j))
  BY <1>1, FS_Interval, FS_Subset
<1>3. IsFiniteSet({i - 1} \cup Commas(src, i, j))
  BY <1>2, FS_Singleton, FS_Union
<1>4. \A k \in i .. j : k \in Int /\ k < j + 1
  OBVIOUS
<1>5. i - 1 \in Int /\ i - 1 < j + 1
  OBVIOUS
<1>6. Cuts(src, i, j) = ({i - 1} \cup Commas(src, i, j)) \cup {j + 1}
  BY DEF Cuts, Commas
<1> QED
  BY <1>1, <1>3, <1>4, <1>5, <1>6

(* ... and the items between them.                                          *)
LEMMA ItemsAre ==
  ASSUME NEW src, NEW i \in Int, NEW j \in Int, i <= j, NEW skipped
  PROVE  /\ DOMAIN Items(src, i, j, skipped) = 1 .. (Cardinality(Cuts(src, i, j)) - 1)
         /\ \A n \in 1 .. (Cardinality(Cuts(src, i, j)) - 1) :
              Items(src, i, j, skipped)[n]
                = <<Nth(Cuts(src, i, j), n) + 1 + skipped, Nth(Cuts(src, i, j), n + 1) - 1>>
<1> DEFINE cuts == Cuts(src, i, j)
<1>1. ~(i > j)
  OBVIOUS
<1>2. Items(src, i, j, skipped) =
        [n \in 1 .. (Cardinality(cuts) - 1) |->
           <<Nth(cuts, n) + 1 + skipped, Nth(cuts, n + 1) - 1>>]
  BY <1>1 DEF Items
<1> HIDE DEF cuts
<1>3. /\ DOMAIN Items(src, i, j, skipped) = 1 .. (Cardinality(cuts) - 1)
      /\ \A n \in 1 .. (Cardinality(cuts) - 1) :
           Items(src, i, j, skipped)[n] = <<Nth(cuts, n) + 1 + skipped, Nth(cuts, n + 1) - 1>>
  BY <1>2
<1> QED
  BY <1>3 DEF cuts

(* The first item.                                                          *)
LEMMA FirstItem ==
  ASSUME NEW src, NEW b \in Int, NEW j \in Int, b <= j, Commaless(src, b, j), NEW skipped \in Nat
  PROVE  /\ DOMAIN Items(src, b, j, skipped) = 1 .. 1
         /\ Items(src, b, j, skipped)[1] = <<b + skipped, j>>
<1> DEFINE S == {b - 1} \cup Commas(src, b, j)
           x == j + 1
           T == S \cup {x}
<1>1. IsFiniteSet(S) /\ S \subseteq Int /\ (\A k \in S : k < x) /\ x \in Int
      /\ Cuts(src, b, j) = T
  <2>1. x \in Int
    OBVIOUS
  <2>2. IsFiniteSet(S) /\ S \subseteq Int /\ (\A k \in S : k < j + 1)
        /\ Cuts(src, b, j) = S \cup {j + 1}
    <3> HIDE DEF x, T
    <3> QED
      BY CutsAre
  <2> QED
    BY <2>1, <2>2
<1>2. Commas(src, b, j) = {}
  BY DEF Commas, Commaless
<1>3. S = {} \cup {b - 1}
  BY <1>2
<1>4. Cardinality(S) = 1 /\ Nth(S, 1) = b - 1
  <2>1. IsFiniteSet({}) /\ Cardinality({}) = 0
    BY FS_EmptySet
  <2>2. b - 1 \in Int
    OBVIOUS
  <2>3. Nth({} \cup {b - 1}, Cardinality({}) + 1) = b - 1
        /\ Cardinality({} \cup {b - 1}) = Cardinality({}) + 1
    BY <2>1, <2>2, NthOfMore
  <2> HIDE DEF S
  <2> QED
    BY <1>3, <2>1, <2>3
<1> HIDE DEF S
<1>5. /\ Cardinality(T) = Cardinality(S) + 1
      /\ \A n \in 1 .. Cardinality(S) : Nth(T, n) = Nth(S, n)
      /\ Nth(T, Cardinality(S) + 1) = x
  BY <1>1, NthOfMore
<1> HIDE DEF T, x
<1>6. Cardinality(T) - 1 = 1 /\ 1 \in 1 .. 1 /\ 1 + 1 = 2 /\ Nth(T, 1) = b - 1 /\ Nth(T, 2) = x
  BY <1>4, <1>5
<1>7. /\ DOMAIN Items(src, b, j, skipped) = 1 .. (Cardinality(T) - 1)
      /\ \A n \in 1 .. (Cardinality(T) - 1) :
           Items(src, b, j, skipped)[n] = <<Nth(T, n) + 1 + skipped, Nth(T, n + 1) - 1>>
  BY <1>1, ItemsAre
<1>8. Items(src, b, j, skipped)[1] = <<Nth(T, 1) + 1 + skipped, Nth(T, 2) - 1>>
  BY <1>6, <1>7
<1>9. Nth(T, 1) + 1 + skipped = b + skipped /\ Nth(T, 2) - 1 = j
  BY <1>6 DEF x
<1> QED
  BY <1>6, <1>7, <1>8, <1>9

(* ... and the next, after a comma.                                         *)

(* An item comes after a comma,                                             *)
IsNextPlace(b, a, j) == b \in Int /\ a \in Int /\ j \in Int /\ b <= a - 2 /\ a <= j

(* ... at depth zero, and has no comma of its own.                          *)
IsNext(src, b, a, j) ==
  /\ IsNextPlace(b, a, j)
  /\ Depth(src, b, a - 2) = 0 /\ src[a - 1] = "," /\ Commaless(src, a, j)

(* The places around that comma.                                            *)
LEMMA NextPlace ==
  ASSUME NEW b, NEW a, NEW j, IsNextPlace(b, a, j)
  PROVE  /\ b \in Int /\ a - 2 \in Int /\ a - 1 \in Int /\ a \in Int /\ j \in Int /\ b <= a - 2
         /\ b <= j /\ a - 1 <= j /\ (a - 2) + 1 = a - 1 /\ (a - 1) + 1 = a /\ b <= (a - 2) + 1
         /\ a - 2 <= j /\ a - 1 <= (a - 1) + 1 /\ a <= j /\ j + 1 \in Int
BY DEF IsNextPlace

(* The last cut is behind the last token,                                   *)
LEMMA LastCut ==
  ASSUME NEW src, NEW i \in Int, NEW j \in Int, i <= j
  PROVE  /\ IsFiniteSet(Cuts(src, i, j)) /\ Cuts(src, i, j) \subseteq Int
         /\ \A k \in Cuts(src, i, j) : k < j + 2
         /\ Cardinality(Cuts(src, i, j)) \in Nat
         /\ Nth(Cuts(src, i, j), Cardinality(Cuts(src, i, j))) = j + 1
<1> DEFINE B == {i - 1} \cup Commas(src, i, j)
<1>1. /\ IsFiniteSet(B) /\ B \subseteq Int /\ \A k \in B : k < j + 1
      /\ Cuts(src, i, j) = B \cup {j + 1}
  BY CutsAre
<1>2. j + 1 \in Int
  OBVIOUS
<1> HIDE DEF B
<1>3. /\ IsFiniteSet(B \cup {j + 1}) /\ Cardinality(B) \in Nat
      /\ Cardinality(B \cup {j + 1}) = Cardinality(B) + 1
      /\ Nth(B \cup {j + 1}, Cardinality(B) + 1) = j + 1
  BY <1>1, <1>2, NthOfMore
<1>4. \A k \in B \cup {j + 1} : k \in Int /\ k < j + 2
  <2> SUFFICES ASSUME NEW k \in B PROVE k \in Int /\ k < j + 2
    OBVIOUS
  <2>1. k \in Int /\ k < j + 1
    BY <1>1
  <2> QED
    BY <2>1
<1>5. Cardinality(B) + 1 \in Nat
  BY <1>3
<1> QED
  BY <1>1, <1>3, <1>4, <1>5

(* ... and another item has one cut more.                                   *)
LEMMA CutsMore ==
  ASSUME NEW src, NEW b, NEW a, NEW j, IsNext(src, b, a, j)
  PROVE  Cuts(src, b, j) = Cuts(src, b, a - 2) \cup {j + 1}
<1>1. /\ b \in Int /\ a - 2 \in Int /\ a - 1 \in Int /\ a \in Int /\ j \in Int /\ b <= a - 2
      /\ b <= j /\ a - 1 <= j /\ (a - 2) + 1 = a - 1 /\ (a - 1) + 1 = a /\ b <= (a - 2) + 1
      /\ a - 2 <= j /\ a - 1 <= (a - 1) + 1
  BY NextPlace DEF IsNext
<1>2. Depth(src, b, a - 2) = 0 /\ src[a - 1] = "," /\ Commaless(src, a, j)
  BY DEF IsNext
<1>3. Outside(src, b, j) = Outside(src, b, a - 2) \cup Outside(src, a - 1, j)
  <2>1. Depth(src, b, a - 2) = 0
    BY <1>2
  <2>2. Outside(src, b, j) = Outside(src, b, a - 2) \cup Outside(src, (a - 2) + 1, j)
    BY <1>1, <2>1, OutsideJoins
  <2> QED
    BY <1>1, <2>2
<1>4. src[a - 1] \notin Opening \cup Closing
  BY <1>2, PlainTokens
<1>5. Depth(src, a - 1, a - 1) = 0 /\ Outside(src, a - 1, a - 1) = {a - 1}
  BY <1>1, <1>4, DepthIs, OutsideShort
<1>6. Outside(src, a - 1, j) = Outside(src, a - 1, a - 1) \cup Outside(src, (a - 1) + 1, j)
  BY <1>1, <1>5, OutsideJoins
<1>7. Outside(src, a - 1, j) = {a - 1} \cup Outside(src, a, j)
  BY <1>1, <1>5, <1>6
<1>8. Commas(src, b, j) = Commas(src, b, a - 2) \cup {a - 1}
  BY <1>2, <1>3, <1>7 DEF Commas, Commaless
<1>9. Cuts(src, b, j) = ({b - 1} \cup Commas(src, b, j)) \cup {j + 1}
  BY <1>1, CutsAre, ZenonT(60)
<1>10. Cuts(src, b, a - 2) = ({b - 1} \cup Commas(src, b, a - 2)) \cup {(a - 2) + 1}
  BY <1>1, CutsAre
<1> QED
  BY <1>1, <1>8, <1>9, <1>10

(* The length of a list is known by its places.                             *)
LEMMA SameLength ==
  ASSUME NEW c \in Nat, NEW d \in Nat, 1 .. c = 1 .. d
  PROVE  c = d
<1>1. Cardinality(1 .. c) = IF 1 > c THEN 0 ELSE c - 1 + 1
  BY FS_Interval
<1>2. Cardinality(1 .. d) = IF 1 > d THEN 0 ELSE d - 1 + 1
  BY FS_Interval
<1> QED
  BY <1>1, <1>2

(* Another item leaves those before it what they are.                       *)
LEMMA NextItem ==
  ASSUME NEW src, NEW b, NEW a, NEW j, IsNext(src, b, a, j), NEW skipped \in Nat,
         NEW m \in Nat, DOMAIN Items(src, b, a - 2, skipped) = 1 .. m
  PROVE  /\ DOMAIN Items(src, b, j, skipped) = 1 .. (m + 1)
         /\ \A n \in 1 .. m : Items(src, b, j, skipped)[n] = Items(src, b, a - 2, skipped)[n]
         /\ Items(src, b, j, skipped)[m + 1] = <<a + skipped, j>>
<1> DEFINE S == Cuts(src, b, a - 2)
           T == Cuts(src, b, j)
<1>1. /\ b \in Int /\ a - 2 \in Int /\ a \in Int /\ j \in Int /\ b <= a - 2 /\ b <= j /\ a <= j
      /\ j + 1 \in Int /\ (a - 2) + 1 = a - 1 /\ a - 1 \in Int
  BY NextPlace DEF IsNext
<1> HIDE DEF S, T
<1>2. /\ IsFiniteSet(S) /\ S \subseteq Int
      /\ (\A k \in S : k < (a - 2) + 2) /\ Cardinality(S) \in Nat
      /\ Nth(S, Cardinality(S)) = (a - 2) + 1
  BY <1>1, LastCut DEF S
<1>3. T = S \cup {j + 1}
  BY CutsMore DEF S, T
<1>4. /\ DOMAIN Items(src, b, j, skipped) = 1 .. (Cardinality(T) - 1)
      /\ \A n \in 1 .. (Cardinality(T) - 1) :
           Items(src, b, j, skipped)[n] = <<Nth(T, n) + 1 + skipped, Nth(T, n + 1) - 1>>
  <2>1. b \in Int /\ j \in Int /\ b <= j
    BY <1>1
  <2> QED
    BY <2>1, ItemsAre, ZenonT(60) DEF T
<1>5. /\ DOMAIN Items(src, b, a - 2, skipped) = 1 .. (Cardinality(S) - 1)
      /\ \A n \in 1 .. (Cardinality(S) - 1) :
           Items(src, b, a - 2, skipped)[n] = <<Nth(S, n) + 1 + skipped, Nth(S, n + 1) - 1>>
  <2>1. b \in Int /\ a - 2 \in Int /\ b <= a - 2
    BY <1>1
  <2> QED
    BY <2>1, ItemsAre, ZenonT(60) DEF S
<1>6. Cardinality(S) # 0
  <2>1. S # {}
    BY DEF S, Cuts
  <2> QED
    BY <1>2, <2>1, FS_EmptySet
<1>7. Cardinality(S) - 1 \in Nat
  BY <1>2, <1>6
<1>8. Cardinality(S) - 1 = m
  <2> DEFINE c == Cardinality(S) - 1
  <2>1. c \in Nat /\ 1 .. c = 1 .. m
    BY <1>5, <1>7
  <2> HIDE DEF c
  <2>2. c = m
    BY <2>1, SameLength
  <2> QED
    BY <2>2 DEF c
<1>9. Cardinality(S) = m + 1
  BY <1>2, <1>8
<1>10. \A k \in S : k < j + 1
  <2> SUFFICES ASSUME NEW k \in S PROVE k < j + 1
    OBVIOUS
  <2>1. k \in Int /\ k < (a - 2) + 2
    BY <1>2
  <2> QED
    BY <1>1, <2>1
<1>11. /\ Cardinality(T) = Cardinality(S) + 1
       /\ \A n \in 1 .. Cardinality(S) : Nth(T, n) = Nth(S, n)
       /\ Nth(T, Cardinality(S) + 1) = j + 1
  BY <1>1, <1>2, <1>3, <1>10, NthOfMore
<1>12. Cardinality(T) - 1 = m + 1
  BY <1>9, <1>11
<1>13. ASSUME NEW n \in 1 .. m
       PROVE  Items(src, b, j, skipped)[n] = Items(src, b, a - 2, skipped)[n]
  <2>1. n \in 1 .. (m + 1) /\ n + 1 \in 1 .. (m + 1)
    OBVIOUS
  <2>2. Nth(T, n) = Nth(S, n) /\ Nth(T, n + 1) = Nth(S, n + 1)
    BY <1>9, <1>11, <2>1
  <2>3. Items(src, b, j, skipped)[n] = <<Nth(T, n) + 1 + skipped, Nth(T, n + 1) - 1>>
    BY <1>4, <1>12, <2>1
  <2>4. Items(src, b, a - 2, skipped)[n] = <<Nth(S, n) + 1 + skipped, Nth(S, n + 1) - 1>>
    BY <1>5, <1>8
  <2> QED
    BY <2>2, <2>3, <2>4
<1>14. Items(src, b, j, skipped)[m + 1] = <<a + skipped, j>>
  <2>1. m + 1 \in 1 .. (m + 1)
    OBVIOUS
  <2>2. Nth(T, m + 1) = a - 1 /\ Nth(T, (m + 1) + 1) = j + 1
    BY <1>1, <1>2, <1>9, <1>11, <2>1
  <2>3. Items(src, b, j, skipped)[m + 1] = <<Nth(T, m + 1) + 1 + skipped, Nth(T, (m + 1) + 1) - 1>>
    BY <1>4, <1>12, <2>1
  <2>4. (a - 1) + 1 + skipped = a + skipped /\ (j + 1) - 1 = j
    BY <1>1
  <2> QED
    BY <2>2, <2>3, <2>4
<1> QED
  BY <1>4, <1>12, <1>13, <1>14

(* A set of numbers has a least.                                            *)
LEMMA LeastOne ==
  ASSUME NEW T, T \subseteq Nat, T # {}
  PROVE  \E x \in T : \A y \in T : ~(y < x)
<1>1. IsWellFoundedOn(OpToRel(<, Nat), Nat)
  BY NatLessThanWellFounded
<1>2. PICK m \in T : \A k \in T : ~(<<k, m>> \in OpToRel(<, Nat))
  BY <1>1, WFMin
<1> QED
  BY <1>2 DEF OpToRel

(* A reading from what the parts mean; the spans by their size.             *)
Given(src, f, span) ==
  Reading(src, [part \in Inside(src, span) |-> f[part]], span[1], span[2])

Size(src, span) == span[2] + Len(src) - span[1]
Smaller(src, n) == {span \in Spans(src) : Size(src, span) < n}
HasMeanings(src, n) == \E f : f = [span \in Smaller(src, n) |-> Given(src, f, span)]

(* A reading uses nothing but the parts of its span,                        *)
LEMMA GivenSame ==
  ASSUME NEW src, NEW f, NEW g, NEW span, \A part \in Inside(src, span) : f[part] = g[part]
  PROVE  Given(src, f, span) = Given(src, g, span)
<1>1. [part \in Inside(src, span) |-> f[part]] = [part \in Inside(src, span) |-> g[part]]
  OBVIOUS
<1> QED
  BY <1>1 DEF Given

(* ... which are smaller than it.                                           *)
LEMMA SizeIs ==
  ASSUME NEW src, IsSource(src)
  PROVE  /\ \A span \in Spans(src) : Size(src, span) \in Nat /\ Size(src, span) < 2 * Len(src)
         /\ \A span \in Spans(src) : \A part \in Inside(src, span) :
              part \in Spans(src) /\ Size(src, part) < Size(src, span)
<1>1. Len(src) \in Nat
  BY DEF IsSource
<1> DEFINE n == Len(src)
<1> HIDE DEF n
<1>2. n \in Nat
  BY <1>1 DEF n
<1>3. ASSUME NEW span \in (1 .. n) \X (0 .. n)
      PROVE  span[1] \in 1 .. n /\ span[2] \in 0 .. n /\ span = <<span[1], span[2]>>
  OBVIOUS
<1>4. ASSUME NEW a \in 1 .. n, NEW b \in 0 .. n
      PROVE  b + n - a \in Nat /\ b + n - a < 2 * n
  BY <1>2
<1>5. ASSUME NEW a \in 1 .. n, NEW b \in 0 .. n, NEW c \in 1 .. n, NEW d \in 0 .. n,
             a <= c, d <= b, ~(a = c /\ b = d)
      PROVE  d + n - c < b + n - a
  BY <1>2, <1>5
<1>6. ASSUME NEW span \in Spans(src)
      PROVE  Size(src, span) \in Nat /\ Size(src, span) < 2 * n
  BY <1>3, <1>4 DEF Spans, Size, n
<1>7. ASSUME NEW span \in Spans(src), NEW part \in Inside(src, span)
      PROVE  part \in Spans(src) /\ Size(src, part) < Size(src, span)
  <2>1. /\ part \in Spans(src) /\ part # span
        /\ span[1] <= part[1] /\ part[2] <= span[2]
    BY DEF Inside
  <2>2. part \in (1 .. n) \X (0 .. n) /\ span \in (1 .. n) \X (0 .. n)
    BY <2>1 DEF Spans, n
  <2>3. ~(span[1] = part[1] /\ span[2] = part[2])
    BY <1>3, <2>1, <2>2
  <2>4. span[1] \in 1 .. n /\ span[2] \in 0 .. n /\ part[1] \in 1 .. n /\ part[2] \in 0 .. n
    BY <1>3, <2>2
  <2>5. part[2] + n - part[1] < span[2] + n - span[1]
    BY <1>5, <2>1, <2>3, <2>4
  <2> QED
    BY <2>1, <2>5 DEF Size, n
<1> QED
  BY <1>6, <1>7 DEF n

(* If all spans below a size have meanings, those of that size have,        *)
LEMMA MeaningsStep ==
  ASSUME NEW src, IsSource(src), NEW n \in Nat, HasMeanings(src, n)
  PROVE  HasMeanings(src, n + 1)
<1> DEFINE A == Smaller(src, n)
           B == Smaller(src, n + 1)
<1>1. PICK f : f = [span \in A |-> Given(src, f, span)]
  BY DEF HasMeanings
<1> DEFINE g == [span \in B |-> IF span \in A THEN f[span] ELSE Given(src, f, span)]
<1>2. \A span \in B : \A part \in Inside(src, span) : part \in A /\ part \in B
  <2> SUFFICES ASSUME NEW span \in B, NEW part \in Inside(src, span)
               PROVE  part \in A /\ part \in B
    OBVIOUS
  <2>1. span \in Spans(src) /\ Size(src, span) < n + 1
    BY DEF Smaller
  <2>2. /\ part \in Spans(src) /\ Size(src, part) < Size(src, span)
        /\ Size(src, part) \in Nat /\ Size(src, span) \in Nat
    BY <2>1, SizeIs
  <2>3. Size(src, part) < n /\ Size(src, part) < n + 1
    BY <2>1, <2>2
  <2> QED
    BY <2>2, <2>3 DEF Smaller
<1> HIDE DEF A, B
<1>3. \A span \in A : f[span] = Given(src, f, span)
  BY <1>1
<1>4. \A span \in B : g[span] = Given(src, f, span)
  BY <1>3
<1>5. \A span \in B : Given(src, f, span) = Given(src, g, span)
  <2> SUFFICES ASSUME NEW span \in B PROVE Given(src, f, span) = Given(src, g, span)
    OBVIOUS
  <2>1. \A part \in Inside(src, span) : f[part] = g[part]
    BY <1>2
  <2> HIDE DEF g
  <2> QED
    BY <2>1, GivenSame
<1>6. g = [span \in B |-> Given(src, g, span)]
  <2>1. \A span \in B : g[span] = Given(src, g, span)
    BY <1>4, <1>5
  <2>2. g = [span \in B |-> g[span]]
    OBVIOUS
  <2> HIDE DEF g
  <2> QED
    BY <2>1, <2>2
<1> HIDE DEF g
<1> QED
  BY <1>6 DEF HasMeanings, B

(* ... so that the recursive definition of the meanings defines them.       *)
LEMMA MeaningsAre ==
  ASSUME NEW src, IsSource(src)
  PROVE  Meanings(src) = [span \in Spans(src) |-> Given(src, Meanings(src), span)]
<1>1. HasMeanings(src, 0)
  <2>1. Smaller(src, 0) = {}
    <3>1. \A span \in Spans(src) : Size(src, span) \in Nat
      BY SizeIs
    <3> QED
      BY <3>1 DEF Smaller
  <2>2. PICK f : f = [span \in {} |-> 0]
    OBVIOUS
  <2>3. f = [span \in {} |-> Given(src, f, span)]
    BY <2>2
  <2> QED
    BY <2>1, <2>3 DEF HasMeanings
<1>2. \A n \in Nat : HasMeanings(src, n)
  <2> DEFINE T == {n \in Nat : ~HasMeanings(src, n)}
  <2>1. T = {}
    <3> SUFFICES ASSUME T # {} PROVE FALSE
      OBVIOUS
    <3>1. T \subseteq Nat
      OBVIOUS
    <3>2. PICK m \in T : \A k \in T : ~(k < m)
      <4> HIDE DEF T
      <4> QED
        BY <3>1, LeastOne
    <3>3. m \in Nat /\ ~HasMeanings(src, m) /\ m # 0
      BY <1>1
    <3>4. m - 1 \in Nat /\ m - 1 < m /\ (m - 1) + 1 = m
      BY <3>3
    <3>5. m - 1 \notin T
      BY <3>2, <3>4
    <3>6. HasMeanings(src, m - 1)
      BY <3>4, <3>5
    <3>7. HasMeanings(src, (m - 1) + 1)
      BY <3>4, <3>6, MeaningsStep
    <3> QED
      BY <3>3, <3>4, <3>7
  <2> QED
    BY <2>1
<1>3. 2 * Len(src) \in Nat
  BY DEF IsSource
<1>4. Smaller(src, 2 * Len(src)) = Spans(src)
  BY SizeIs DEF Smaller
<1>5. \E f : f = [span \in Spans(src) |-> Given(src, f, span)]
  BY <1>2, <1>3, <1>4 DEF HasMeanings
<1>6. Meanings(src) = CHOOSE f : f = [span \in Spans(src) |-> Given(src, f, span)]
  BY DEF Meanings, Given
<1> QED
  BY <1>5, <1>6

(* The meanings of the parts of a span.                                     *)
Parts(src, i, j) == [part \in Inside(src, <<i, j>>) |-> Meanings(src)[part]]

(* What a span means is read from what its parts mean,                      *)
LEMMA MeaningIs ==
  ASSUME NEW src, IsSource(src), NEW i \in Nat \ {0}, NEW j \in Nat, i <= j, IsWithin(src, j)
  PROVE  /\ Meaning(src, i, j) = Reading(src, Parts(src, i, j), i, j)
         /\ <<i, j>> \in Spans(src)
<1>1. <<i, j>> \in Spans(src)
  <2>1. i \in 1 .. Len(src) /\ j \in 0 .. Len(src)
    BY DEF IsSource, IsWithin
  <2> QED
    BY <2>1 DEF Spans
<1>2. Meanings(src)[<<i, j>>] = Given(src, Meanings(src), <<i, j>>)
  BY <1>1, MeaningsAre
<1>3. <<i, j>>[1] = i /\ <<i, j>>[2] = j
  OBVIOUS
<1>4. Given(src, Meanings(src), <<i, j>>) = Reading(src, Parts(src, i, j), i, j)
  BY <1>3 DEF Given, Parts
<1> QED
  BY <1>1, <1>2, <1>4 DEF Meaning

(* ... which is what they mean by themselves.                               *)
LEMMA PartIs ==
  ASSUME NEW src, IsSource(src), NEW i \in Nat \ {0}, NEW j \in Nat, IsWithin(src, j),
         NEW a \in Int, NEW b \in Int, i <= a, a <= b, b <= j, a # i \/ b # j
  PROVE  Parts(src, i, j)[<<a, b>>] = Meaning(src, a, b)
<1>1. <<a, b>> \in Spans(src)
  <2>1. a \in 1 .. Len(src) /\ b \in 0 .. Len(src)
    BY DEF IsSource, IsWithin
  <2> QED
    BY <2>1 DEF Spans
<1>2. <<a, b>>[1] = a /\ <<a, b>>[2] = b /\ <<i, j>>[1] = i /\ <<i, j>>[2] = j
  OBVIOUS
<1>3. <<a, b>> # <<i, j>>
  OBVIOUS
<1>4. <<a, b>> \in Inside(src, <<i, j>>)
  BY <1>1, <1>2, <1>3 DEF Inside
<1> QED
  BY <1>4 DEF Parts, Meaning

(* The readings, case by case.  A span, and the trees of some spans in it.  *)
ASpan(src, i, j) == i \in Nat \ {0} /\ j \in Nat /\ i <= j /\ IsWithin(src, j)

Trees(tree, spans) == [n \in DOMAIN spans |-> tree[spans[n]]]

(* An operator between operands,                                            *)
IsInfix(src, i, j, r) ==
  /\ InfixOutside(src, i, j) # {} /\ Root(src, InfixOutside(src, i, j)) = r
  /\ src[r] # "?" /\ src[i] # "{"

(* ... with the operands on its sides;                                      *)
LEMMA ReadInfix ==
  ASSUME NEW src, NEW tree, NEW i, NEW j, NEW r, IsInfix(src, i, j, r)
  PROVE  Reading(src, tree, i, j) = Tree("infix", r, <<tree[<<i, r - 1>>], tree[<<r + 1, j>>]>>)
BY Zenon DEF Reading, IsInfix

(* the ternary,                                                             *)
IsTernary(src, i, j, r, c) ==
  /\ InfixOutside(src, i, j) # {} /\ Root(src, InfixOutside(src, i, j)) = r
  /\ src[r] = "?" /\ src[i] # "{" /\ Closer(src, r) = c

(* ... with the two parts after it;                                         *)
LEMMA ReadTernary ==
  ASSUME NEW src, NEW tree, NEW i, NEW j, NEW r, NEW c, IsTernary(src, i, j, r, c)
  PROVE  Reading(src, tree, i, j) =
           Tree("ternary", r, <<tree[<<i, r - 1>>], tree[<<r + 1, c - 1>>], tree[<<c + 1, j>>]>>)
BY Zenon DEF Reading, IsTernary

(* a prefix operator,                                                       *)
IsUnary(src, i, j) ==
  /\ InfixOutside(src, i, j) = {} /\ src[i] \in PrefixOperators /\ src[i] # "{" /\ src[i] # "("

(* ... with all that follows;                                               *)
LEMMA ReadUnary ==
  ASSUME NEW src, NEW tree, NEW i, NEW j, IsUnary(src, i, j)
  PROVE  Reading(src, tree, i, j) = Tree("unary", i, <<tree[<<i + 1, j>>]>>)
BY Zenon DEF Reading, IsCast, IsUnary

(* a cast,                                                                  *)
Casts(src, i, j) ==
  /\ InfixOutside(src, i, j) = {} /\ src[i] \notin PrefixOperators /\ src[i] # "{"
  /\ IsCast(src, i)

(* ... with all that follows;                                               *)
LEMMA ReadCast ==
  ASSUME NEW src, NEW tree, NEW i, NEW j, Casts(src, i, j)
  PROVE  Reading(src, tree, i, j) = Tree("cast", i, <<tree[<<i + 3, j>>]>>)
BY Zenon DEF Reading, Casts

(* no operators at all,                                                     *)
Plain(src, i, j) ==
  /\ InfixOutside(src, i, j) = {} /\ src[i] \notin PrefixOperators /\ ~IsCast(src, i)
  /\ src[i] # "{"

(* ... but an increment at the end,                                         *)
LEMMA ReadPostfix ==
  ASSUME NEW src, NEW tree, NEW i, NEW j, Plain(src, i, j), src[j] \in {"++", "--"}
  PROVE  Reading(src, tree, i, j) = Tree("postfix", j, <<tree[<<i, j - 1>>]>>)
<1>1. src[j] # "x" /\ src[j] # "1" /\ src[j] # ")" /\ src[j] # "]" /\ src[j] # "}"
  OBVIOUS
<1> QED
  BY <1>1, Zenon DEF Reading, Plain

(* ... a member,                                                            *)
LEMMA ReadMember ==
  ASSUME NEW src, NEW tree, NEW i \in Int, NEW j \in Int, Plain(src, i, j), src[j] = "x", i < j,
         src[j - 1] \in {".", "->"}
  PROVE  Reading(src, tree, i, j) = Tree("member", j - 1, <<tree[<<i, j - 2>>]>>)
<1>1. src[j] # "1"
      /\ src[j] # ")" /\ src[j] # "]" /\ src[j] # "}" /\ src[j] # "++" /\ src[j] # "--"
  OBVIOUS
<1>2. i # j
  OBVIOUS
<1>3. src[j - 1] # "::"
  OBVIOUS
<1> QED
  BY <1>1, <1>2, <1>3, Zenon DEF Reading, Plain

(* ... a literal,                                                           *)
LEMMA ReadLiteral ==
  ASSUME NEW src, NEW tree, NEW i, NEW j, Plain(src, i, j), src[j] = "1"
  PROVE  Reading(src, tree, i, j) = Tree("literal", i, <<>>)
<1>1. src[j] # "x"
      /\ src[j] # ")" /\ src[j] # "]" /\ src[j] # "}" /\ src[j] # "++" /\ src[j] # "--"
  OBVIOUS
<1> QED
  BY <1>1, Zenon DEF Reading, Plain

(* ... parentheses,                                                         *)
LEMMA ReadParen ==
  ASSUME NEW src, NEW tree, NEW i, NEW j, Plain(src, i, j), src[j] = ")", Opener(src, j) = i
  PROVE  Reading(src, tree, i, j) = tree[<<i + 1, j - 1>>]
<1>1. src[j] # "x" /\ src[j] # "1" /\ src[j] # "]" /\ src[j] # "}" /\ src[j] # "++"
      /\ src[j] # "--"
  OBVIOUS
<1> QED
  BY <1>1, Zenon DEF Reading, Plain

(* ... a call,                                                              *)
LEMMA ReadCall ==
  ASSUME NEW src, NEW tree, NEW i, NEW j, Plain(src, i, j), src[j] = ")", NEW o, Opener(src,
         j) = o, o # i
  PROVE  Reading(src, tree, i, j) =
           Tree("call", o, <<tree[<<i, o - 1>>]>> \o Trees(tree, Items(src, o + 1, j - 1, 0)))
<1>1. src[j] # "x" /\ src[j] # "1" /\ src[j] # "]" /\ src[j] # "}" /\ src[j] # "++"
      /\ src[j] # "--"
  OBVIOUS
<1> QED
  BY <1>1, Zenon DEF Reading, Plain, Trees

(* ... subscripts,                                                          *)
LEMMA ReadSubscript ==
  ASSUME NEW src, NEW tree, NEW i, NEW j, Plain(src, i, j), src[j] = "]", NEW subs,
         Subscripts(src, i, j) = subs,
         NEW first, Nth(subs, 1) = first
  PROVE  Reading(src, tree, i, j) =
           Tree("subscript", first, <<tree[<<i, first - 1>>]>> \o Trees(tree, Indexes(src, subs)))
<1>1. src[j] # "x" /\ src[j] # "1"
      /\ src[j] # ")" /\ src[j] # "}" /\ src[j] # "++" /\ src[j] # "--"
  OBVIOUS
<1> QED
  BY <1>1, Zenon DEF Reading, Plain, Trees

(* ... an initializer of what is before it,                                 *)
IsCreated(src, i, j, o) == Plain(src, i, j) /\ src[j] = "}" /\ Opener(src, j) = o

(* ... with that and the braces,                                            *)
LEMMA ReadCreate ==
  ASSUME NEW src, NEW tree, NEW i, NEW j, NEW o, IsCreated(src, i, j, o)
  PROVE  Reading(src, tree, i, j) =
           Tree("create", o, <<tree[<<i, o - 1>>], tree[<<o, j>>]>>)
<1>1. src[j] = "}" /\ Plain(src, i, j) /\ Opener(src, j) = o
  BY DEF IsCreated
<1>2. src[j] # "x" /\ src[j] # "1"
      /\ src[j] # ")" /\ src[j] # "]" /\ src[j] # "++" /\ src[j] # "--"
  BY <1>1
<1> QED
  BY <1>1, <1>2, Zenon DEF Reading, Plain

(* ... or a name;                                                           *)
LEMMA ReadIdent ==
  ASSUME NEW src, NEW tree, NEW i, NEW j, Plain(src, i, j), src[j] = "x",
         i = j \/ src[j - 1] = "::", ~(i < j /\ src[j - 1] \in {".", "->"})
  PROVE  Reading(src, tree, i, j)
           = Tree("ident", i, [n \in 1 .. ((j - i) \div 2) |-> i + 2 * n])
<1>1. src[j] # "1"
      /\ src[j] # ")" /\ src[j] # "]" /\ src[j] # "}" /\ src[j] # "++" /\ src[j] # "--"
  OBVIOUS
<1> QED
  BY <1>1, Zenon DEF Reading, Plain

(* braces,                                                                  *)
Braced(src, i, j) == src[i] = "{" /\ InfixOutside(src, i, j) = {}

IsStruct(src, i, j) == Braced(src, i, j) /\ src[i + 1] \in {".", "}"}
IsNested(src, i, j) == Braced(src, i, j) /\ src[i + 1] = "{"
IsArray(src, i, j) == Braced(src, i, j) /\ src[i + 1] \notin {".", "}", "{"}

(* ... with the values of members,                                          *)
LEMMA ReadStruct ==
  ASSUME NEW src, NEW tree, NEW i, NEW j, IsStruct(src, i, j)
  PROVE  Reading(src, tree, i, j) =
           Tree("struct_init", i, Trees(tree, Items(src, i + 1, j - 1, 3)))
<1>1. src[i] # "(" /\ src[i] \notin PrefixOperators /\ src[i + 1] # "{"
  BY DEF Braced, PrefixOperators, IsStruct
<1> QED
  BY <1>1, Zenon DEF Reading, Braced, IsCast, Trees, IsStruct

(* ... with initializers,                                                   *)
LEMMA ReadNested ==
  ASSUME NEW src, NEW tree, NEW i, NEW j, IsNested(src, i, j)
  PROVE  Reading(src, tree, i, j) =
           Tree("nested_arr_init", i, Trees(tree, Items(src, i + 1, j - 1, 0)))
<1>1. /\ src[i] # "(" /\ src[i] \notin PrefixOperators /\ src[i + 1] # "." /\ src[i + 1] # "}"
      /\ src[i + 1] \notin {".", "}"} /\ src[i + 1] \in {".", "}", "{"}
  BY DEF Braced, PrefixOperators, IsNested
<1> QED
  BY <1>1, Zenon DEF Reading, Braced, IsCast, Trees, IsNested

(* ... or with expressions in them.                                         *)
LEMMA ReadArray ==
  ASSUME NEW src, NEW tree, NEW i, NEW j, IsArray(src, i, j)
  PROVE  Reading(src, tree, i, j) =
           Tree("arr_init", i, Trees(tree, Items(src, i + 1, j - 1, 0)))
<1>1. /\ src[i] # "(" /\ src[i] \notin PrefixOperators /\ src[i + 1] \notin {".", "}"}
      /\ src[i + 1] # "{"
  BY DEF Braced, PrefixOperators, IsArray
<1> QED
  BY <1>1, Zenon DEF Reading, Braced, IsCast, Trees, IsArray

(* The spans in a longer one are more, and all inside what encloses it.     *)
LEMMA SpansInIs ==
  ASSUME NEW src, IsSource(src), NEW b \in Nat \ {0}, NEW e \in Nat, IsWithin(src, e)
  PROVE  /\ \A x \in Int, y \in Int : b <= x /\ x <= y /\ y <= e => <<x, y>> \in SpansIn(src, b, e)
         /\ \A d \in Int : d <= e => SpansIn(src, b, d) \subseteq SpansIn(src, b, e)
         /\ \A i \in Int, j \in Int : i < b /\ e <= j =>
              SpansIn(src, b, e) \subseteq Inside(src, <<i, j>>)
<1> DEFINE n == Len(src)
<1> HIDE DEF n
<1>1. n \in Nat /\ e <= n
  BY DEF IsSource, IsWithin, n
<1>2. \A span \in Spans(src) : span[1] \in 1 .. n /\ span[2] \in 0 .. n
  BY DEF Spans, n
<1>3. ASSUME NEW x \in Int, NEW y \in Int, b <= x, x <= y, y <= e
      PROVE  <<x, y>> \in SpansIn(src, b, e)
  <2>1. x \in 1 .. n /\ y \in 0 .. n
    BY <1>1, <1>3
  <2>2. <<x, y>> \in Spans(src)
    BY <2>1 DEF Spans, n
  <2>3. <<x, y>>[1] = x /\ <<x, y>>[2] = y
    OBVIOUS
  <2> QED
    BY <1>3, <2>2, <2>3 DEF SpansIn
<1>4. ASSUME NEW d \in Int, d <= e
      PROVE  SpansIn(src, b, d) \subseteq SpansIn(src, b, e)
  <2> SUFFICES ASSUME NEW span \in SpansIn(src, b, d) PROVE span \in SpansIn(src, b, e)
    OBVIOUS
  <2>1. /\ span \in Spans(src) /\ b <= span[1] /\ span[1] <= span[2] /\ span[2] <= d
    BY DEF SpansIn
  <2>2. span[2] \in Int
    BY <1>2, <2>1
  <2>3. span[2] <= e
    BY <1>4, <2>1, <2>2
  <2> QED
    BY <2>1, <2>3 DEF SpansIn
<1>5. ASSUME NEW i \in Int, NEW j \in Int, i < b, e <= j, NEW span \in SpansIn(src, b, e)
      PROVE  span \in Inside(src, <<i, j>>)
  <2>1. /\ span \in Spans(src) /\ b <= span[1] /\ span[2] <= e
    BY DEF SpansIn
  <2>2. span[1] \in Int /\ span[2] \in Int
    BY <1>2, <2>1
  <2>3. i <= span[1] /\ span[2] <= j /\ span[1] # i
    BY <1>5, <2>1, <2>2
  <2>4. <<i, j>>[1] = i /\ <<i, j>>[2] = j
    OBVIOUS
  <2>5. span # <<i, j>>
    BY <2>3, <2>4
  <2> QED
    BY <2>1, <2>3, <2>4, <2>5 DEF Inside
<1> QED
  BY <1>3, <1>4, <1>5

(* The trees of spans.                                                      *)
TreesRead(src, parts, spans, b, e) ==
  /\ IsSeq(parts) /\ DOMAIN spans = 1 .. Len(parts)
  /\ \A n \in 1 .. Len(parts) :
       spans[n] \in SpansIn(src, b, e) /\ parts[n] = Meanings(src)[spans[n]]

(* What was read of the spans of a list is what they mean in its node.      *)
LEMMA TreesAre ==
  ASSUME NEW src, IsSource(src), NEW b \in Nat \ {0}, NEW e \in Nat, IsWithin(src, e),
         NEW parts, NEW spans, TreesRead(src, parts, spans, b, e),
         NEW i \in Int, NEW j \in Int, i < b, e <= j
  PROVE  Trees(Parts(src, i, j), spans) = parts
<1>1. SpansIn(src, b, e) \subseteq Inside(src, <<i, j>>)
  BY SpansInIs
<1>2. /\ IsSeq(parts) /\ DOMAIN spans = 1 .. Len(parts)
      /\ \A n \in 1 .. Len(parts) :
           spans[n] \in SpansIn(src, b, e) /\ parts[n] = Meanings(src)[spans[n]]
  BY DEF TreesRead
<1>3. \A n \in 1 .. Len(parts) : Parts(src, i, j)[spans[n]] = parts[n]
  BY <1>1, <1>2 DEF Parts
<1>4. Trees(Parts(src, i, j), spans) = [n \in 1 .. Len(parts) |-> parts[n]]
  BY <1>2, <1>3 DEF Trees
<1>5. parts = [n \in 1 .. Len(parts) |-> parts[n]]
  <2>1. DOMAIN parts = 1 .. Len(parts) /\ parts \in Seq(ToSet(parts))
    BY <1>2, SeqFacts DEF IsSeq
  <2> QED
    BY <2>1
<1> QED
  BY <1>4, <1>5

(* One more.                                                                *)
LEMMA OneMoreRead ==
  ASSUME NEW src, IsSource(src), NEW b \in Nat \ {0}, NEW d \in Int, NEW e \in Nat,
         d <= e, IsWithin(src, e), NEW parts, NEW spans, TreesRead(src, parts, spans, b, d),
         NEW x \in Int, NEW y \in Int, b <= x, x <= y, y <= e, NEW more,
         DOMAIN more = 1 .. (Len(parts) + 1), more[Len(parts) + 1] = <<x, y>>,
         \A n \in 1 .. Len(parts) : more[n] = spans[n]
  PROVE  TreesRead(src, Append(parts, Meaning(src, x, y)), more, b, e)
<1>1. /\ IsSeq(parts) /\ DOMAIN spans = 1 .. Len(parts)
      /\ \A n \in 1 .. Len(parts) :
           spans[n] \in SpansIn(src, b, d) /\ parts[n] = Meanings(src)[spans[n]]
  BY DEF TreesRead
<1>2. PICK all : all = Append(parts, Meaning(src, x, y))
  OBVIOUS
<1>3. /\ IsSeq(all) /\ Len(all) = Len(parts) + 1 /\ all[Len(parts) + 1] = Meaning(src, x, y)
      /\ \A n \in 1 .. Len(parts) : all[n] = parts[n]
  BY <1>1, <1>2, AppendSeq
<1>4. <<x, y>> \in SpansIn(src, b, e) /\ SpansIn(src, b, d) \subseteq SpansIn(src, b, e)
  BY SpansInIs
<1>5. Len(parts) \in Nat
  BY <1>1, SeqFacts
<1>6. \A n \in 1 .. Len(all) : n \in 1 .. Len(parts) \/ n = Len(parts) + 1
  BY <1>3, <1>5
<1>7. ASSUME NEW n \in 1 .. Len(all)
      PROVE  more[n] \in SpansIn(src, b, e) /\ all[n] = Meanings(src)[more[n]]
  <2>1. CASE n \in 1 .. Len(parts)
    BY <1>1, <1>3, <1>4, <2>1
  <2>2. CASE n = Len(parts) + 1
    <3>1. more[n] = <<x, y>> /\ all[n] = Meanings(src)[<<x, y>>]
      BY <1>3, <2>2 DEF Meaning
    <3> QED
      BY <1>4, <3>1
  <2> QED
    BY <1>6, <2>1, <2>2
<1> QED
  BY <1>2, <1>3, <1>7 DEF TreesRead

(* Nothing has been read of no spans,                                       *)
LEMMA NoneRead ==
  ASSUME NEW src, NEW spans, DOMAIN spans = 1 .. 0, NEW b, NEW e
  PROVE  TreesRead(src, <<>>, spans, b, e)
<1>1. \A n \in 1 .. 0 : FALSE
  OBVIOUS
<1> QED
  BY <1>1, ShortSeqs DEF TreesRead

(* ... and one is put behind the others.                                    *)
LEMMA JoinsAppend ==
  ASSUME NEW t, NEW s, IsSeq(s), NEW x
  PROVE  Append(<<t>> \o s, x) = <<t>> \o Append(s, x)
<1>1. PICK u : u = <<t>> \o s
  OBVIOUS
<1>2. PICK v : v = Append(s, x)
  OBVIOUS
<1>3. PICK a : a = Append(u, x)
  OBVIOUS
<1>4. PICK b : b = <<t>> \o v
  OBVIOUS
<1>5. IsSeq(u) /\ Len(u) = Len(s) + 1 /\ u[1] = t /\ \A i \in 1 .. Len(s) : u[i + 1] = s[i]
  BY <1>1, ConsSeq
<1>6. /\ IsSeq(v) /\ Len(v) = Len(s) + 1 /\ v[Len(s) + 1] = x
      /\ \A i \in 1 .. Len(s) : v[i] = s[i]
  BY <1>2, AppendSeq
<1>7. /\ IsSeq(a) /\ Len(a) = Len(u) + 1 /\ a[Len(u) + 1] = x
      /\ \A i \in 1 .. Len(u) : a[i] = u[i]
  BY <1>3, <1>5, AppendSeq
<1>8. IsSeq(b) /\ Len(b) = Len(v) + 1 /\ b[1] = t /\ \A i \in 1 .. Len(v) : b[i + 1] = v[i]
  BY <1>4, <1>6, ConsSeq
<1>9. Len(s) \in Nat
  BY SeqFacts
<1>10. ASSUME NEW i \in 1 .. Len(a) PROVE a[i] = b[i]
  <2>1. i = 1 \/ (\E k \in 1 .. Len(s) : i = k + 1) \/ i = Len(s) + 2
    <3>1. i \in 1 .. (Len(s) + 2)
      BY <1>5, <1>7, <1>9
    <3>2. i = 1 \/ i - 1 \in 1 .. Len(s) \/ i = Len(s) + 2
      BY <1>9, <3>1
    <3>3. i = (i - 1) + 1
      BY <3>1
    <3> QED
      BY <3>2, <3>3
  <2>2. CASE i = 1
    <3>1. 1 \in 1 .. Len(u)
      BY <1>5, <1>9
    <3> QED
      BY <1>5, <1>7, <1>8, <2>2, <3>1
  <2>3. CASE \E k \in 1 .. Len(s) : i = k + 1
    <3>1. PICK k \in 1 .. Len(s) : i = k + 1
      BY <2>3
    <3>2. k + 1 \in 1 .. Len(u) /\ k \in 1 .. Len(v)
      BY <1>5, <1>6, <1>9
    <3> QED
      BY <1>5, <1>6, <1>7, <1>8, <3>1, <3>2
  <2>4. CASE i = Len(s) + 2
    <3>1. Len(s) + 1 \in 1 .. Len(v) /\ i = Len(u) + 1 /\ i = (Len(s) + 1) + 1
      BY <1>5, <1>6, <1>9, <2>4
    <3> QED
      BY <1>6, <1>7, <1>8, <3>1
  <2> QED
    BY <2>1, <2>2, <2>3, <2>4
<1>11. Len(a) = Len(b)
  BY <1>5, <1>6, <1>7, <1>8, <1>9
<1>12. a = b
  BY <1>7, <1>8, <1>10, <1>11, SameSeq
<1> QED
  BY <1>1, <1>2, <1>3, <1>4, <1>12

(* The items of a list from b, read to e: *)
ItemsTo(src, parts, b, e, skipped) ==
  /\ b <= e /\ parts # <<>> /\ Even(src, b, e)
  /\ TreesRead(src, parts, Items(src, b, e, skipped), b, e)

(* ... and where the next one starts.                                       *)
NextAt(src, parts, b, a, skipped) ==
  \/ a = b /\ parts = <<>>
  \/ a \in Nat /\ b <= a - 2 /\ src[a - 1] = "," /\ ItemsTo(src, parts, b, a - 2, skipped)

(* Where the next item of a list starts.                                    *)
LEMMA NextAtIs ==
  ASSUME NEW src, NEW b \in Nat \ {0}, NEW a, NEW parts, NEW skipped,
         NextAt(src, parts, b, a, skipped)
  PROVE  a \in Nat \ {0} /\ b <= a /\ IsSeq(parts)
<1>1. CASE a = b /\ parts = <<>>
  BY <1>1, ShortSeqs
<1>2. CASE a \in Nat /\ b <= a - 2 /\ ItemsTo(src, parts, b, a - 2, skipped)
  <2>1. IsSeq(parts)
    BY <1>2 DEF ItemsTo, TreesRead
  <2>2. a \in Nat /\ b <= a - 2
    BY <1>2
  <2>3. a \in Nat \ {0} /\ b <= a
    BY <2>2
  <2> QED
    BY <2>1, <2>3
<1> QED
  BY <1>1, <1>2 DEF NextAt

(* An item that has been parsed is the next of its list,                    *)
LEMMA ItemRead ==
  ASSUME NEW src, IsSource(src), NEW b \in Nat \ {0}, NEW a, NEW j \in Nat, NEW skipped \in Nat,
         IsWithin(src, j), NEW parts, NextAt(src, parts, b, a, skipped), a + skipped <= j,
         Even(src, a, j), Commaless(src, a, j)
  PROVE  ItemsTo(src, Append(parts, Meaning(src, a + skipped, j)), b, j, skipped)
<1>1. a \in Nat \ {0} /\ b <= a /\ IsSeq(parts)
  BY NextAtIs
<1>2. Append(parts, Meaning(src, a + skipped, j)) # <<>>
  BY <1>1, AppendSeq
<1>3. /\ a \in Int /\ b \in Int /\ j \in Int /\ a <= j /\ b <= j /\ a + skipped \in Int
      /\ b <= a + skipped /\ j <= j
  BY <1>1
<1>4. CASE a = b /\ parts = <<>>
  <2>1. Commaless(src, b, j) /\ Even(src, b, j)
    BY <1>4
  <2>2. /\ DOMAIN Items(src, b, j, skipped) = 1 .. 1
        /\ Items(src, b, j, skipped)[1] = <<b + skipped, j>>
    <3>1. b \in Int /\ j \in Int /\ b <= j
      BY <1>3
    <3> QED
      BY <2>1, <3>1, FirstItem, ZenonT(60)
  <2>3. PICK none : none = [n \in 1 .. 0 |-> 0]
    OBVIOUS
  <2>4. TreesRead(src, <<>>, none, b, j)
    BY <2>3, NoneRead
  <2>5. PICK no : no = <<>>
    OBVIOUS
  <2>6. IsSeq(no) /\ Len(no) = 0 /\ TreesRead(src, no, none, b, j)
    BY <2>4, <2>5, ShortSeqs
  <2>7. Len(no) + 1 = 1 /\ \A n \in 1 .. Len(no) : FALSE
    BY <2>6
  <2>8. PICK more : more = Items(src, b, j, skipped)
    OBVIOUS
  <2>9. PICK x : x = b + skipped
    OBVIOUS
  <2>10. /\ DOMAIN more = 1 .. (Len(no) + 1) /\ more[Len(no) + 1] = <<x, j>>
         /\ \A n \in 1 .. Len(no) : more[n] = none[n]
         /\ x \in Int /\ b <= x /\ x <= j
    BY <1>3, <1>4, <2>2, <2>7, <2>8, <2>9
  <2>11. TreesRead(src, Append(no, Meaning(src, x, j)), more, b, j)
    BY <1>3, <2>6, <2>10, OneMoreRead
  <2> QED
    BY <1>3, <1>4, <1>2, <2>1, <2>5, <2>8, <2>9, <2>11 DEF ItemsTo
<1>5. CASE /\ a \in Nat /\ b <= a - 2 /\ src[a - 1] = ","
           /\ ItemsTo(src, parts, b, a - 2, skipped)
  <2>1. Even(src, b, a - 2) /\ TreesRead(src, parts, Items(src, b, a - 2, skipped), b, a - 2)
    BY <1>5 DEF ItemsTo
  <2>2. IsNextPlace(b, a, j) /\ a - 2 \in Int /\ a - 2 <= j
    <3>1. b <= a - 2
      BY <1>5
    <3> QED
      BY <1>1, <1>3, <3>1 DEF IsNextPlace
  <2>3. IsNext(src, b, a, j)
    BY <1>5, <2>1, <2>2 DEF IsNext, Even
  <2>4. PICK spans : spans = Items(src, b, a - 2, skipped)
    OBVIOUS
  <2>5. PICK more : more = Items(src, b, j, skipped)
    OBVIOUS
  <2>6. DOMAIN spans = 1 .. Len(parts) /\ Len(parts) \in Nat
    BY <1>1, <2>1, <2>4, SeqFacts DEF TreesRead
  <2>7. /\ DOMAIN more = 1 .. (Len(parts) + 1)
        /\ \A n \in 1 .. Len(parts) : more[n] = spans[n]
        /\ more[Len(parts) + 1] = <<a + skipped, j>>
    BY <2>3, <2>4, <2>5, <2>6, NextItem
  <2>8. PICK x : x = a + skipped
    OBVIOUS
  <2>9. /\ x \in Int /\ b <= x /\ x <= j
    BY <1>3, <2>8
  <2>10. more[Len(parts) + 1] = <<x, j>> /\ TreesRead(src, parts, spans, b, a - 2)
    BY <2>1, <2>4, <2>7, <2>8
  <2>11. TreesRead(src, Append(parts, Meaning(src, x, j)), more, b, j)
    BY <1>3, <2>2, <2>6, <2>7, <2>9, <2>10, OneMoreRead
  <2>12. Even(src, b, j)
    <3>1. src[a - 1] \notin Opening \cup Closing
      BY <1>5, PlainTokens
    <3>2. (a - 2) + 1 = a - 1 /\ (a - 1) + 1 = a /\ a - 1 \in Int /\ b <= (a - 2) + 1
          /\ a - 2 <= a - 1 /\ b <= (a - 1) + 1 /\ a - 1 <= j
      BY <2>2 DEF IsNextPlace
    <3>3. Even(src, a - 1, a - 1)
      BY <3>1, <3>2, EvenOne
    <3>4. Even(src, b, a - 1)
      BY <1>3, <2>1, <2>2, <3>2, <3>3, EvenJoins
    <3> QED
      BY <1>3, <3>2, <3>4, EvenJoins
  <2> QED
    BY <1>3, <1>2, <2>5, <2>8, <2>11, <2>12 DEF ItemsTo
<1> QED
  BY <1>4, <1>5 DEF NextAt

(* ... and behind it comes                                                  *)
LEMMA TwoMore ==
  \A j \in Nat : j + 2 \in Nat /\ (j + 2) - 2 = j /\ (j + 2) - 1 = j + 1
OBVIOUS

(* ... a comma.                                                             *)
LEMMA CommaRead ==
  ASSUME NEW src, NEW b \in Nat \ {0}, NEW j \in Nat, NEW skipped, NEW parts,
         ItemsTo(src, parts, b, j, skipped), src[j + 1] = ","
  PROVE  NextAt(src, parts, b, j + 2, skipped)
<1>1. b <= j
  BY DEF ItemsTo
<1>2. j + 2 \in Nat /\ (j + 2) - 2 = j /\ (j + 2) - 1 = j + 1
  BY TwoMore
<1> QED
  BY <1>1, <1>2 DEF NextAt

(* A list without an item.                                                  *)
LEMMA NoItems ==
  ASSUME NEW src, NEW b \in Nat \ {0}, NEW skipped
  PROVE  TreesRead(src, <<>>, Items(src, b, b - 1, skipped), b, b - 1)
<1>1. b > b - 1
  OBVIOUS
<1>2. Items(src, b, b - 1, skipped) = <<>>
  BY <1>1 DEF Items
<1>3. DOMAIN <<>> = 1 .. 0
  OBVIOUS
<1> QED
  BY <1>2, <1>3, NoneRead

(* Subscripts in a row, read from p to e.                                   *)
RunTo(src, parts, p, e) ==
  /\ p <= e + 1 /\ Even(src, p, e) /\ \A k \in Outside(src, p, e) : src[k] = "["
  /\ TreesRead(src, parts, Indexes(src, Outside(src, p, e)), p + 1, e)
  /\ p <= e => Nth(Outside(src, p, e), 1) = p

(* The spans of a run of subscripts.                                        *)
LEMMA IndexesAre ==
  ASSUME NEW src, NEW subs
  PROVE  /\ DOMAIN Indexes(src, subs) = 1 .. Cardinality(subs)
         /\ \A n \in 1 .. Cardinality(subs) :
              Indexes(src, subs)[n] = <<Nth(subs, n) + 1, Closer(src, Nth(subs, n)) - 1>>
BY DEF Indexes

(* A run begins with none,                                                  *)
LEMMA NoRun ==
  ASSUME NEW src, NEW p \in Nat \ {0}
  PROVE  RunTo(src, <<>>, p, p - 1)
<1>1. p \in Int /\ p <= (p - 1) + 1 /\ ~(p <= p - 1)
  OBVIOUS
<1>2. Even(src, p, p - 1) /\ Outside(src, p, p - 1) = {}
  BY <1>1, EvenEmpty, OutsideShort
<1>3. DOMAIN Indexes(src, {}) = 1 .. 0
  <2>1. Cardinality({}) = 0
    BY FS_EmptySet
  <2> QED
    BY <2>1, IndexesAre
<1>4. TreesRead(src, <<>>, Indexes(src, {}), p + 1, p - 1)
  BY <1>3, NoneRead
<1> QED
  BY <1>1, <1>2, <1>4 DEF RunTo

(* ... has finitely many                                                    *)
LEMMA OutsideFinite ==
  ASSUME NEW src, NEW i \in Int, NEW j \in Int
  PROVE  /\ IsFiniteSet(Outside(src, i, j)) /\ Outside(src, i, j) \subseteq Int
         /\ \A k \in Outside(src, i, j) : k < j + 1
<1>1. Outside(src, i, j) \subseteq i .. j
  BY OutsideIs
<1>2. IsFiniteSet(i .. j)
  BY FS_Interval
<1>3. \A k \in i .. j : k \in Int /\ k < j + 1
  OBVIOUS
<1> QED
  BY <1>1, <1>2, <1>3, FS_Subset

(* ... and grows by one in brackets;                                        *)
LEMMA RunGrows ==
  ASSUME NEW src, IsSource(src), NEW p \in Nat \ {0}, NEW e \in Nat, NEW j \in Nat,
         IsWithin(src, j), NEW parts, RunTo(src, parts, p, e), e + 2 <= j - 1,
         Group(src, e + 1, j), src[e + 1] = "["
  PROVE  RunTo(src, Append(parts, Meaning(src, e + 2, j - 1)), p, j)
<1> DEFINE S == Outside(src, p, e)
           T == Outside(src, p, j)
           o == e + 1
<1>1. /\ p \in Int /\ e \in Int /\ j \in Int /\ o \in Int /\ p <= e + 1 /\ 1 <= o /\ e <= j
      /\ e <= j - 1
      /\ e + 2 \in Int /\ p + 1 <= e + 2 /\ j - 1 \in Nat /\ j - 1 <= j /\ p <= j /\ p <= j + 1
      /\ o + 1 = e + 2 /\ p + 1 \in Nat \ {0} /\ (p <= e \/ p = o)
  BY DEF RunTo
<1>2. /\ Even(src, p, e) /\ (\A k \in S : src[k] = "[") /\ (p <= e => Nth(S, 1) = p)
      /\ TreesRead(src, parts, Indexes(src, S), p + 1, e)
  BY DEF RunTo
<1>3. Even(src, o, j) /\ Outside(src, o, j) = {o} /\ Closer(src, o) = j
  BY <1>1, GroupIs
<1>4. Even(src, p, j)
  BY <1>1, <1>2, <1>3, EvenJoins
<1>5. T = S \cup {o}
  <2>1. Depth(src, p, e) = 0
    BY <1>2 DEF Even
  <2> QED
    BY <1>1, <1>3, <2>1, OutsideJoins
<1>6. IsFiniteSet(S) /\ S \subseteq Int /\ \A k \in S : k < o
  BY <1>1, OutsideFinite
<1> HIDE DEF S, T, o
<1>7. /\ Cardinality(S) \in Nat /\ Cardinality(T) = Cardinality(S) + 1
      /\ \A n \in 1 .. Cardinality(S) : Nth(T, n) = Nth(S, n)
      /\ Nth(T, Cardinality(S) + 1) = o
  BY <1>1, <1>5, <1>6, NthOfMore
<1> DEFINE spans == Indexes(src, S)
           more == Indexes(src, T)
           m == Cardinality(S)
<1>8. /\ DOMAIN spans = 1 .. m /\ DOMAIN more = 1 .. (m + 1)
      /\ \A n \in 1 .. m : spans[n] = <<Nth(S, n) + 1, Closer(src, Nth(S, n)) - 1>>
      /\ \A n \in 1 .. (m + 1) : more[n] = <<Nth(T, n) + 1, Closer(src, Nth(T, n)) - 1>>
  BY <1>7, IndexesAre
<1> HIDE DEF spans, more
<1>9. Len(parts) = m
  <2>1. DOMAIN spans = 1 .. Len(parts) /\ Len(parts) \in Nat
    BY <1>2, SeqFacts DEF TreesRead, spans
  <2> HIDE DEF m
  <2>2. m \in Nat
    BY <1>7 DEF m
  <2> QED
    BY <1>8, <2>1, <2>2, SameLength
<1> HIDE DEF m
<1>10. m \in Nat /\ m + 1 \in 1 .. (m + 1) /\ \A n \in 1 .. m : n \in 1 .. (m + 1)
  <2>1. m \in Nat
    BY <1>7 DEF m
  <2> QED
    BY <2>1
<1>11. \A n \in 1 .. m : more[n] = spans[n]
  <2> SUFFICES ASSUME NEW n \in 1 .. m PROVE more[n] = spans[n]
    OBVIOUS
  <2>1. Nth(T, n) = Nth(S, n)
    BY <1>7 DEF m
  <2> QED
    BY <1>8, <1>10, <2>1
<1>12. more[m + 1] = <<e + 2, j - 1>>
  <2>1. Nth(T, m + 1) = o
    BY <1>7 DEF m
  <2>2. more[m + 1] = <<o + 1, j - 1>>
    BY <1>3, <1>8, <1>10, <2>1
  <2> QED
    BY <1>1, <2>2
<1>13. TreesRead(src, Append(parts, Meaning(src, e + 2, j - 1)), more, p + 1, j)
  <2>1. PICK x : x = e + 2
    OBVIOUS
  <2>2. PICK y : y = j - 1
    OBVIOUS
  <2>3. PICK b : b = p + 1
    OBVIOUS
  <2>4. /\ x \in Int /\ y \in Int /\ b <= x /\ x <= y /\ y <= j /\ b \in Nat \ {0}
    BY <1>1, <2>1, <2>2, <2>3
  <2>5. /\ DOMAIN more = 1 .. (Len(parts) + 1) /\ more[Len(parts) + 1] = <<x, y>>
        /\ \A n \in 1 .. Len(parts) : more[n] = spans[n]
        /\ TreesRead(src, parts, spans, b, e)
    BY <1>2, <1>8, <1>9, <1>11, <1>12, <2>1, <2>2, <2>3 DEF spans
  <2>6. TreesRead(src, Append(parts, Meaning(src, x, y)), more, b, j)
    BY <1>1, <2>4, <2>5, OneMoreRead
  <2> QED
    BY <2>1, <2>2, <2>3, <2>6
<1>14. Nth(T, 1) = p
  <2>1. CASE p <= e
    <3>1. p \in S
      BY <1>1, <2>1, OutsideIs DEF S
    <3>2. Cardinality(S) # 0
      BY <1>6, <3>1, FS_EmptySet
    <3>3. 1 \in 1 .. Cardinality(S)
      BY <1>7, <3>2
    <3> QED
      BY <1>2, <1>7, <2>1, <3>3 DEF S
  <2>2. CASE p = o
    <3>1. p - 1 = e
      BY <1>1, <2>2 DEF o
    <3>2. S = {}
      BY <1>1, <3>1, OutsideShort DEF S
    <3>3. Cardinality(S) = 0
      BY <3>2, FS_EmptySet
    <3> QED
      BY <1>7, <2>2, <3>3
  <2> QED
    BY <1>1, <2>1, <2>2
<1>15. \A k \in T : src[k] = "["
  BY <1>2, <1>5 DEF o, S
<1> QED
  BY <1>1, <1>4, <1>13, <1>14, <1>15 DEF RunTo, T, more

(* it is all the subscripts of a span if what is before it ends otherwise.  *)
LEMMA SubscriptsAre ==
  ASSUME NEW src, NEW s \in Int, NEW p \in Int, NEW j \in Int, s <= p - 1, p <= j,
         Depth(src, s, p - 1) = 0, EndsPlain(src, s, p - 1),
         \A k \in Outside(src, p, j) : src[k] = "["
  PROVE  Subscripts(src, s, j) = Outside(src, p, j)
<1>1. /\ p - 1 \in Int /\ (p - 1) + 1 = p /\ s <= (p - 1) + 1 /\ p - 1 <= j
  OBVIOUS
<1>2. Outside(src, s, j) = Outside(src, s, p - 1) \cup Outside(src, p, j)
  <2>1. Depth(src, s, p - 1) = 0
    OBVIOUS
  <2>2. PICK e : e = p - 1
    OBVIOUS
  <2>3. /\ e \in Int /\ s <= e + 1 /\ e <= j /\ e + 1 = p /\ Depth(src, s, e) = 0
    BY <1>1, <2>1, <2>2
  <2>4. Outside(src, s, j) = Outside(src, s, e) \cup Outside(src, e + 1, j)
    BY <2>3, OutsideJoins
  <2> QED
    BY <2>2, <2>3, <2>4
<1>3. ASSUME NEW o \in Outside(src, s, p - 1)
      PROVE  ~(\A k \in Outside(src, o, j) : src[k] = "[")
  <2>1. PICK q \in Outside(src, s, p - 1) :
          src[q] # "[" /\ \A k \in Outside(src, s, p - 1) : k <= q
    BY DEF EndsPlain
  <2>2. o <= q
    BY <2>1
  <2>3. /\ o \in s .. (p - 1) /\ q \in s .. (p - 1) /\ Depth(src, s, o - 1) = 0
        /\ Depth(src, s, q - 1) = 0
    BY <1>1, <1>3, <2>1, OutsideIs
  <2>4. /\ o \in Int /\ q \in Int /\ o - 1 \in Int /\ q - 1 \in Int /\ (o - 1) + 1 = o
        /\ s <= (o - 1) + 1 /\ o - 1 <= q - 1 /\ q \in o .. j
    <3>1. o \in Int /\ q \in Int /\ s <= o /\ q <= p - 1
      BY <2>3
    <3> QED
      BY <1>1, <2>2, <3>1
  <2>5. Depth(src, s, q - 1) = Depth(src, s, o - 1) + Depth(src, o, q - 1)
    BY <2>4, DepthSplits
  <2>6. Depth(src, o, q - 1) = 0
    <3>1. Depth(src, o, q - 1) \in Int
      BY <2>4, DepthIs
    <3> QED
      BY <2>3, <2>5, <3>1
  <2>7. q \in Outside(src, o, j)
    BY <2>4, <2>6, OutsideIs
  <2> QED
    BY <2>1, <2>7
<1>4. ASSUME NEW o \in Outside(src, p, j)
      PROVE  \A k \in Outside(src, o, j) : src[k] = "["
  <2> SUFFICES ASSUME NEW k \in Outside(src, o, j) PROVE k \in Outside(src, p, j)
    OBVIOUS
  <2>1. o \in p .. j /\ Depth(src, p, o - 1) = 0
    BY <1>4, OutsideIs
  <2>2. o \in Int /\ o - 1 \in Int /\ (o - 1) + 1 = o /\ p <= (o - 1) + 1 /\ o - 1 <= j
    BY <2>1
  <2>3. Outside(src, p, j) = Outside(src, p, o - 1) \cup Outside(src, o, j)
    BY <2>1, <2>2, OutsideJoins
  <2> QED
    BY <2>3
<1> QED
  BY <1>2, <1>3, <1>4 DEF Subscripts

(* An expression read from s to j: where it fits, and its tree.             *)
Reads(src, tree, s, j, min) == Fits(src, s, j, min) /\ tree = Meaning(src, s, j)

(* An initializer in braces.                                                *)
ReadsBraces(src, tree, s, j) ==
  /\ s \in Nat \ {0} /\ j \in Nat /\ IsWithin(src, j)
  /\ Group(src, s, j) /\ src[s] = "{" /\ src[j] = "}"
  /\ tree = Meaning(src, s, j)

(* A path of n names after the first, from s on.                            *)
PathTo(src, tree, s, n) ==
  /\ s \in Nat \ {0} /\ n \in Nat /\ IsWithin(src, s + 2 * n)
  /\ ~IsAfterOperand(src, s) /\ src[s] = "x"
  /\ \A k \in 1 .. n : src[s + 2 * k] = "x" /\ src[s + 2 * k - 1] = "::"
  /\ tree = Tree("ident", s, [k \in 1 .. n |-> s + 2 * k])

(* The calls that parse braces, those that ask for braces, and the points   *)
(* between two parts of a call.                                             *)
BraceNodes == {"struct_init", "arr_init", "nested_arr_init"}
Bracers == {"create", "nested_arr_init"}
Between == {"args", "subscripts", "after_comma", "member_inits", "member_name",
            "member_assign", "first_element"}

(* The left operand of a call that waits in pratt_parse.                    *)
Leads(src, f, s) ==
  /\ f.pos \in Nat \ {0} /\ Fits(src, s, f.pos - 1, f.min_prec)
  /\ IsSeq(f.parts) /\ f.parts # <<>> /\ f.parts[1] = Meaning(src, s, f.pos - 1)

(* What a call that waits has read: a prefix operator or a parenthesis,     *)
(* itself;                                                                  *)
BeginsAt(src, f, s) == f.pos = s /\ f.parts = <<>> /\ ~IsAfterOperand(src, s)

(* an operator: its left operand, which it did not belong to;               *)
WaitsInfix(src, f, s, o) ==
  /\ Leads(src, f, s) /\ Len(f.parts) = 1 /\ o = f.pos + 1
  /\ src[f.pos] \in BinaryOperators \cup AssignOperators
  /\ Precedence(src[f.pos]) > f.min_prec

(* the ternary: that and perhaps the middle;                                *)
WaitsTernary(src, f, s, o) ==
  /\ Leads(src, f, s) /\ src[f.pos] = "?" /\ Precedence(src[f.pos]) > f.min_prec
  /\ \/ Len(f.parts) = 1 /\ o = f.pos + 1
     \/ /\ Len(f.parts) = 2 /\ f.pos + 1 <= o - 2 /\ Group(src, f.pos, o - 1)
        /\ f.parts[2] = Meaning(src, f.pos + 1, o - 2)

(* a call: the callee and the arguments before;                             *)
WaitsCall(src, f, s, o) ==
  /\ Leads(src, f, s) /\ src[f.pos] = "("
  /\ NextAt(src, Tail(f.parts), f.pos + 1, o, 0)
  /\ Len(f.parts) # 1 => src[f.pos + 1] \in Starts

(* a run of subscripts: what they are of and the subscripts before;         *)
WaitsSubscript(src, f, s, o) ==
  /\ Leads(src, f, s) /\ src[f.pos] = "["
  /\ f.pos <= o - 1 /\ src[o - 1] = "[" /\ RunTo(src, Tail(f.parts), f.pos, o - 2)

(* an initializer: what it is of;                                           *)
WaitsCreate(src, f, s, o) ==
  Leads(src, f, s) /\ Len(f.parts) = 1 /\ src[f.pos] = "{" /\ o = f.pos

(* The members of a struct that are read, the next at a.                    *)
MembersTo(src, f, s, a) ==
  /\ f.pos = s /\ src[s] = "{" /\ NextAt(src, f.parts, s + 1, a, 3)
  /\ f.parts # <<>> => src[s + 1] = "."

(* the braces of a struct: the members before and the name of this one;     *)
WaitsStruct(src, f, s, o) ==
  /\ o - 3 \in Nat /\ MembersTo(src, f, s, o - 3)
  /\ src[o - 3] = "." /\ src[o - 2] = "x" /\ src[o - 1] = "="

(* those of an array: the elements before,                                  *)
WaitsArray(src, f, s, o) ==
  /\ f.pos = s /\ src[s] = "{" /\ src[s + 1] # "{"
  /\ NextAt(src, f.parts, s + 1, o, 0)
  /\ f.parts # <<>> => src[s + 1] \in Starts

(* ... which are in braces themselves.                                      *)
WaitsNested(src, f, s, o) ==
  /\ f.pos = s /\ src[s] = "{" /\ src[s + 1] = "{"
  /\ NextAt(src, f.parts, s + 1, o, 0)

(* A call that started at s waits for a part that starts at o.              *)
Waits(src, f, s, o) ==
  /\ f.node = "unary" => BeginsAt(src, f, s) /\ src[s] \in PrefixOperators /\ o = s + 1
  /\ f.node = "paren" => BeginsAt(src, f, s) /\ src[s] = "(" /\ o = s + 1
  /\ f.node = "cast" => /\ BeginsAt(src, f, s) /\ o = s + 3
                        /\ src[s] = "(" /\ src[s + 1] = "#cast<T>" /\ src[s + 2] = ")"
  /\ f.node = "infix" => WaitsInfix(src, f, s, o)
  /\ f.node = "ternary" => WaitsTernary(src, f, s, o)
  /\ f.node = "call" => WaitsCall(src, f, s, o)
  /\ f.node = "subscript" => WaitsSubscript(src, f, s, o)
  /\ f.node = "create" => WaitsCreate(src, f, s, o)
  /\ f.node = "struct_init" => WaitsStruct(src, f, s, o)
  /\ f.node = "arr_init" => WaitsArray(src, f, s, o)
  /\ f.node = "nested_arr_init" => WaitsNested(src, f, s, o)

(* The least precedence of the part a call waits for.                       *)
PartMin(src, f) ==
  CASE f.node = "unary" -> PREFIX_PRECEDENCE
    [] f.node = "infix" -> MinRhsPrec(src[f.pos])
    [] f.node = "ternary" /\ Len(f.parts) = 2 -> Precedence("?") - 1
    [] OTHER -> 0

(* What a call asks for: an expression, with a least precedence, or braces. *)
AsksExpression(src, f, min) == f.node \notin Bracers /\ min = PartMin(src, f)
AsksBraces(f) == f.node \in Bracers

(* Each call is what the one below it asks for.                             *)
Linked(src, frames, n) ==
  IF frames[n].node \in BraceNodes
  THEN AsksBraces(frames[n - 1])
  ELSE AsksExpression(src, frames[n - 1], frames[n].min_prec)

(* The first m of the calls that wait: the one at n parses what starts at   *)
(* opens[n], and waits for a part that starts at opens[n + 1].              *)
Chain(src, frames, opens, m) ==
  /\ opens[1] = 1
  /\ \A n \in 1 .. (Len(frames) + 1) : opens[n] \in Nat \ {0}
  /\ \A n \in 1 .. m : Waits(src, frames[n], opens[n], opens[n + 1])
  /\ \A n \in 2 .. Len(frames) : Linked(src, frames, n)

(* All of them wait, for a part that starts at o;                           *)
Awaited(src, frames, o) ==
  \E opens : Chain(src, frames, opens, Len(frames)) /\ opens[Len(frames) + 1] = o

(* ... all but the innermost, which parses what starts at s.                *)
Held(src, frames, s) ==
  \E opens : Chain(src, frames, opens, Len(frames) - 1) /\ opens[Len(frames)] = s

(* The innermost that waits asks for what is being parsed.                  *)
Expects(src, frames, min) == frames # <<>> => AsksExpression(src, frames[Len(frames)], min)
ExpectsBraces(frames) == frames # <<>> => AsksBraces(frames[Len(frames)])

(* Where the innermost call is between two of its parts.                    *)
BetweenState(src, point, f, s, c) ==
  /\ point = "args" => WaitsCall(src, f, s, c) /\ Len(f.parts) = 1 /\ c = f.pos + 1
  /\ point = "after_comma" =>
       IF f.node = "call" THEN WaitsCall(src, f, s, c) /\ src[c - 1] = ","
       ELSE MembersTo(src, f, s, c) /\ f.parts # <<>>
  /\ point = "subscripts" =>
       /\ Leads(src, f, s) /\ src[f.pos] = "[" /\ f.pos <= c - 1
       /\ RunTo(src, Tail(f.parts), f.pos, c - 1)
       /\ IsWithin(src, c - 1) /\ src[c - 1] = "]"
  /\ point = "member_inits" =>
       \/ MembersTo(src, f, s, c) /\ (f.parts # <<>> => src[c] # "}")
       \/ /\ f.pos = s /\ src[s] = "{" /\ src[s + 1] = "." /\ src[c] # "."
          /\ ItemsTo(src, f.parts, s + 1, c - 1, 3)
  /\ point = "member_name" => MembersTo(src, f, s, c - 1) /\ src[c - 1] = "."
  /\ point = "member_assign" =>
       MembersTo(src, f, s, c - 2) /\ src[c - 2] = "." /\ src[c - 1] = "x"
  /\ point = "first_element" =>
       f.pos = s /\ src[s] = "{" /\ f.parts = <<>> /\ c = s + 1

(* Where a call is that parses an expression from s on,                     *)
ExpressionState(src, point, tree, min, s, c) ==
  /\ point = "parse_prefix" => s = c /\ ~IsAfterOperand(src, s)
  /\ point = "after_lparen" => c = s + 1 /\ src[s] = "(" /\ ~IsAfterOperand(src, s)
  /\ point = "cast" =>
       c = s + 2 /\ src[s] = "(" /\ src[s + 1] = "#cast<T>" /\ ~IsAfterOperand(src, s)
  /\ point = "path" => \E n \in Nat : c = s + 2 * n + 1 /\ PathTo(src, tree, s, n)
  /\ point = "path_name" =>
       \E n \in Nat : c = s + 2 * n + 2 /\ PathTo(src, tree, s, n) /\ src[c - 1] = "::"
  /\ point = "pratt_parse" => Reads(src, tree, s, c - 1, min)
  /\ point = "member" => Reads(src, tree, s, c - 2, min) /\ src[c - 1] \in {".", "->"}
  /\ point = "return" => Reads(src, tree, s, c - 1, min) /\ Precedence(src[c]) <= min

(* ... or an initializer in braces.                                         *)
BracesState(src, point, tree, s, c) ==
  IF point = "return" THEN ReadsBraces(src, tree, s, c - 1) ELSE s = c

(* The points of a call that parses an expression, and of one that parses   *)
(* braces.                                                                  *)
ForExpressions == {"parse_prefix", "after_lparen", "cast", "path", "path_name", "pratt_parse",
                   "member", "return"}
ForBraces == {"parse_struct_init", "parse_arr_init", "return"}

(* The parser at a point in a source, with what it has parsed and who waits.*)
PState(src, point, tree, min, frames, c) ==
  \/ /\ point \in ForExpressions /\ Expects(src, frames, min)
     /\ \E s \in Nat \ {0} :
          Awaited(src, frames, s) /\ ExpressionState(src, point, tree, min, s, c)
  \/ /\ point \in ForBraces /\ ExpectsBraces(frames)
     /\ \E s \in Nat \ {0} : Awaited(src, frames, s) /\ BracesState(src, point, tree, s, c)
  \/ /\ point \in Between /\ frames # <<>>
     /\ \E s \in Nat \ {0} :
          Held(src, frames, s) /\ BetweenState(src, point, frames[Len(frames)], s, c)

(* The source may go on in any way.                                         *)
Extends(src) ==
  /\ IsSource(src) /\ Len(tokens) <= Len(src)
  /\ \A k \in 1 .. Len(tokens) : tokens[k] = src[k]

(* The invariant: all this holds in every source that goes on as the tokens *)
(* that have been looked at do, and only the first call returns to nobody.  *)
MInv ==
  /\ status = "done" => at = "return" /\ stack = <<>>
  /\ \A src : Extends(src) => PState(src, at, lhs, min_prec, stack, current_token_idx)

----------------------------------------------------------------------------
(* With nobody waiting, it is the whole that is parsed, from the first token*)
(* on.                                                                      *)
LEMMA AwaitedNone ==
  ASSUME NEW src
  PROVE  Awaited(src, <<>>, 1) /\ \A o : Awaited(src, <<>>, o) => o = 1
<1>1. PICK none : none = <<>>
  OBVIOUS
<1>2. Len(none) = 0
  BY <1>1, ShortSeqs
<1>3. PICK opens : opens = [k \in 1 .. 1 |-> 1]
  OBVIOUS
<1>4. 0 + 1 = 1 /\ 1 \in 1 .. 1 /\ 1 \in Nat \ {0} /\ (\A n \in 1 .. 0 : FALSE)
      /\ (\A n \in 2 .. 0 : FALSE) /\ (\A n \in 1 .. 1 : n = 1)
  OBVIOUS
<1>5. opens[1] = 1
  BY <1>3, <1>4
<1>6. Chain(src, none, opens, 0)
  BY <1>2, <1>4, <1>5 DEF Chain
<1>7. Awaited(src, none, 1)
  BY <1>2, <1>4, <1>5, <1>6 DEF Awaited
<1>8. \A o : Awaited(src, none, o) => o = 1
  BY <1>2, <1>4 DEF Awaited, Chain
<1> QED
  BY <1>1, <1>7, <1>8

(* A call that is made is held by those that wait,                          *)
LEMMA PushHeld ==
  ASSUME NEW src, NEW frames, IsSeq(frames), NEW s, Awaited(src, frames, s), NEW f,
         IF f.node \in BraceNodes THEN ExpectsBraces(frames)
                                  ELSE Expects(src, frames, f.min_prec)
  PROVE  /\ Held(src, Append(frames, f), s) /\ Append(frames, f) # <<>>
         /\ Append(frames, f)[Len(Append(frames, f))] = f
<1>1. PICK n : n = Len(frames)
  OBVIOUS
<1>2. n \in Nat /\ (frames # <<>> <=> n > 0)
  BY <1>1, SeqFacts
<1>3. PICK opens : Chain(src, frames, opens, n) /\ opens[n + 1] = s
  BY <1>1 DEF Awaited
<1>4. PICK more : more = Append(frames, f)
  OBVIOUS
<1>5. Len(more) = n + 1 /\ more[n + 1] = f /\ more # <<>> /\ \A k \in 1 .. n : more[k] = frames[k]
  BY <1>1, <1>4, AppendSeq
<1>6. PICK later : later = [k \in 1 .. ((n + 1) + 1) |-> IF k <= n + 1 THEN opens[k] ELSE 1]
  OBVIOUS
<1>7. /\ n + 1 \in 1 .. ((n + 1) + 1) /\ 1 \in 1 .. (n + 1) /\ (n + 1) - 1 = n
      /\ \A k \in 1 .. (n + 1) : k \in 1 .. ((n + 1) + 1) /\ k <= n + 1
      /\ \A k \in 1 .. ((n + 1) + 1) : k \in 1 .. (n + 1) \/ ~(k <= n + 1)
      /\ \A k \in 1 .. n : k \in 1 .. (n + 1) /\ k + 1 \in 1 .. (n + 1)
      /\ \A k \in 2 .. (n + 1) : (k \in 2 .. n /\ k \in 1 .. n /\ k - 1 \in 1 .. n)
                                 \/ (k = n + 1 /\ k - 1 = n /\ n \in 1 .. n /\ n > 0)
      /\ 1 \in Nat \ {0}
  BY <1>2
<1>8. \A k \in 1 .. (n + 1) : later[k] = opens[k]
  BY <1>6, <1>7
<1>9. \A k \in 1 .. ((n + 1) + 1) : later[k] \in Nat \ {0}
  <2> SUFFICES ASSUME NEW k \in 1 .. ((n + 1) + 1) PROVE later[k] \in Nat \ {0}
    OBVIOUS
  <2>1. CASE k \in 1 .. (n + 1)
    BY <1>1, <1>3, <1>8, <2>1 DEF Chain
  <2>2. CASE ~(k <= n + 1)
    BY <1>6, <1>7, <2>2
  <2> QED
    BY <1>7, <2>1, <2>2
<1>10. \A k \in 1 .. n : Waits(src, more[k], later[k], later[k + 1])
  BY <1>3, <1>5, <1>7, <1>8 DEF Chain
<1>11. \A k \in 2 .. (n + 1) : Linked(src, more, k)
  <2> SUFFICES ASSUME NEW k \in 2 .. (n + 1) PROVE Linked(src, more, k)
    OBVIOUS
  <2>1. CASE k \in 2 .. n /\ k \in 1 .. n /\ k - 1 \in 1 .. n
    <3>1. Linked(src, frames, k)
      BY <1>1, <1>3, <2>1 DEF Chain
    <3> QED
      BY <1>5, <2>1, <3>1 DEF Linked
  <2>2. CASE k = n + 1 /\ k - 1 = n /\ n \in 1 .. n /\ n > 0
    <3>1. more[k] = f /\ more[k - 1] = frames[n]
      BY <1>5, <2>2
    <3>2. IF f.node \in BraceNodes THEN AsksBraces(frames[n])
                                   ELSE AsksExpression(src, frames[n], f.min_prec)
      BY <1>1, <1>2, <2>2 DEF Expects, ExpectsBraces
    <3> QED
      BY <3>1, <3>2 DEF Linked
  <2> QED
    BY <1>7, <2>1, <2>2
<1>12. Chain(src, more, later, (n + 1) - 1)
  BY <1>3, <1>5, <1>7, <1>8, <1>9, <1>10, <1>11 DEF Chain
<1>13. later[n + 1] = s
  BY <1>3, <1>7, <1>8
<1>14. Held(src, more, s)
  BY <1>5, <1>12, <1>13 DEF Held
<1> QED
  BY <1>4, <1>5, <1>14

(* ... waits in its turn,                                                   *)
LEMMA HeldAwaits ==
  ASSUME NEW src, NEW frames, IsSeq(frames), frames # <<>>, NEW s, Held(src, frames, s),
         NEW o \in Nat \ {0}, Waits(src, frames[Len(frames)], s, o)
  PROVE  Awaited(src, frames, o)
<1>1. PICK n : n = Len(frames)
  OBVIOUS
<1>2. n \in Nat /\ n > 0
  BY <1>1, SeqFacts
<1>3. PICK opens : Chain(src, frames, opens, n - 1) /\ opens[n] = s
  BY <1>1 DEF Held
<1>4. PICK later : later = [k \in 1 .. (n + 1) |-> IF k <= n THEN opens[k] ELSE o]
  OBVIOUS
<1>5. /\ n \in 1 .. n /\ n + 1 \in 1 .. (n + 1) /\ ~(n + 1 <= n) /\ 1 \in 1 .. n
      /\ \A k \in 1 .. n : k \in 1 .. (n + 1) /\ k <= n
      /\ \A k \in 1 .. (n + 1) : k \in 1 .. n \/ k = n + 1
      /\ \A k \in 1 .. n : (k \in 1 .. (n - 1) /\ k + 1 \in 1 .. n) \/ k = n
  BY <1>2
<1>6. (\A k \in 1 .. n : later[k] = opens[k]) /\ later[n + 1] = o
  BY <1>4, <1>5
<1>7. \A k \in 1 .. (n + 1) : later[k] \in Nat \ {0}
  BY <1>1, <1>3, <1>5, <1>6 DEF Chain
<1>8. \A k \in 1 .. n : Waits(src, frames[k], later[k], later[k + 1])
  <2> SUFFICES ASSUME NEW k \in 1 .. n PROVE Waits(src, frames[k], later[k], later[k + 1])
    OBVIOUS
  <2>1. CASE k \in 1 .. (n - 1) /\ k + 1 \in 1 .. n
    BY <1>3, <1>6, <2>1 DEF Chain
  <2>2. CASE k = n
    BY <1>1, <1>3, <1>5, <1>6, <2>2
  <2> QED
    BY <1>5, <2>1, <2>2
<1>9. Chain(src, frames, later, n)
  BY <1>1, <1>3, <1>5, <1>6, <1>7, <1>8 DEF Chain
<1> QED
  BY <1>1, <1>6, <1>9 DEF Awaited

(* ... goes on when it is answered,                                         *)
LEMMA AwaitedHeld ==
  ASSUME NEW src, NEW frames, IsSeq(frames), frames # <<>>, NEW o, Awaited(src, frames, o)
  PROVE  \E s \in Nat \ {0} : Held(src, frames, s) /\ Waits(src, frames[Len(frames)], s, o)
<1>1. PICK n : n = Len(frames)
  OBVIOUS
<1>2. n \in Nat /\ n > 0
  BY <1>1, SeqFacts
<1>3. PICK opens : Chain(src, frames, opens, n) /\ opens[n + 1] = o
  BY <1>1 DEF Awaited
<1>4. n \in 1 .. n /\ n \in 1 .. (n + 1) /\ \A k \in 1 .. (n - 1) : k \in 1 .. n
  BY <1>2
<1>5. Chain(src, frames, opens, n - 1)
  BY <1>3, <1>4 DEF Chain
<1>6. opens[n] \in Nat \ {0} /\ Waits(src, frames[n], opens[n], o)
  BY <1>1, <1>3, <1>4 DEF Chain
<1> QED
  BY <1>1, <1>5, <1>6 DEF Held

(* ... returns to them,                                                     *)
LEMMA HeldPop ==
  ASSUME NEW src, NEW frames, IsSeq(frames), frames # <<>>, NEW s, Held(src, frames, s)
  PROVE  LET rest == SubSeq(frames, 1, Len(frames) - 1)
             f == frames[Len(frames)]
         IN  /\ Awaited(src, rest, s) /\ IsSeq(rest)
             /\ f.node \in BraceNodes => ExpectsBraces(rest)
             /\ f.node \notin BraceNodes => Expects(src, rest, f.min_prec)
<1>1. PICK n : n = Len(frames)
  OBVIOUS
<1>2. n \in Nat /\ n > 0
  BY <1>1, SeqFacts
<1>3. PICK opens : Chain(src, frames, opens, n - 1) /\ opens[n] = s
  BY <1>1 DEF Held
<1>4. PICK rest : rest = SubSeq(frames, 1, n - 1)
  OBVIOUS
<1>5. IsSeq(rest) /\ Len(rest) = n - 1 /\ \A k \in 1 .. (n - 1) : rest[k] = frames[k]
  BY <1>1, <1>4, FrontSeq
<1>6. /\ (n - 1) + 1 = n /\ n - 1 \in Nat
      /\ \A k \in 1 .. n : k \in 1 .. (n + 1)
      /\ \A k \in 2 .. (n - 1) : k \in 2 .. n /\ k \in 1 .. (n - 1) /\ k - 1 \in 1 .. (n - 1)
      /\ n - 1 > 0 => n \in 2 .. n /\ n - 1 \in 1 .. (n - 1)
  BY <1>2
<1>7. \A k \in 2 .. (n - 1) : Linked(src, rest, k)
  <2> SUFFICES ASSUME NEW k \in 2 .. (n - 1) PROVE Linked(src, rest, k)
    OBVIOUS
  <2>1. Linked(src, frames, k)
    BY <1>1, <1>3, <1>6 DEF Chain
  <2> QED
    BY <1>5, <1>6, <2>1 DEF Linked
<1>8. Chain(src, rest, opens, n - 1)
  BY <1>1, <1>3, <1>5, <1>6, <1>7 DEF Chain
<1>9. Awaited(src, rest, s)
  BY <1>3, <1>5, <1>6, <1>8 DEF Awaited
<1>10. ASSUME rest # <<>>
       PROVE  /\ frames[n].node \in BraceNodes => AsksBraces(rest[Len(rest)])
              /\ frames[n].node \notin BraceNodes =>
                   AsksExpression(src, rest[Len(rest)], frames[n].min_prec)
  <2>1. n - 1 > 0
    BY <1>5, <1>10, SeqFacts
  <2>2. Linked(src, frames, n) /\ rest[Len(rest)] = frames[n - 1]
    BY <1>1, <1>3, <1>5, <1>6, <2>1 DEF Chain
  <2> QED
    BY <2>2 DEF Linked
<1>11. /\ frames[n].node \in BraceNodes => ExpectsBraces(rest)
       /\ frames[n].node \notin BraceNodes => Expects(src, rest, frames[n].min_prec)
  BY <1>10 DEF Expects, ExpectsBraces
<1> QED
  BY <1>1, <1>4, <1>5, <1>9, <1>11

(* ... and changes while they wait.                                         *)
LEMMA HeldReplace ==
  ASSUME NEW src, NEW frames, IsSeq(frames), frames # <<>>, NEW s, Held(src, frames, s), NEW f,
         f.min_prec = frames[Len(frames)].min_prec,
         f.node \in BraceNodes <=> frames[Len(frames)].node \in BraceNodes
  PROVE  LET changed == [frames EXCEPT ![Len(frames)] = f]
         IN  /\ Held(src, changed, s) /\ IsSeq(changed) /\ changed # <<>>
             /\ changed[Len(changed)] = f
<1>1. PICK n : n = Len(frames)
  OBVIOUS
<1>2. n \in Nat /\ n > 0 /\ n \in 1 .. Len(frames)
  <2>1. n \in Nat /\ n > 0
    BY <1>1, SeqFacts
  <2> QED
    BY <1>1, <2>1
<1>3. PICK opens : Chain(src, frames, opens, n - 1) /\ opens[n] = s
  BY <1>1 DEF Held
<1> DEFINE changed == [frames EXCEPT ![n] = f]
<1>5. /\ IsSeq(changed) /\ Len(changed) = n /\ changed[n] = f
      /\ \A k \in 1 .. Len(frames) : k # n => changed[k] = frames[k]
  <2>1. n \in 1 .. Len(frames) /\ IsSeq(frames)
    BY <1>2
  <2>2. /\ IsSeq(changed) /\ Len(changed) = Len(frames) /\ changed[n] = f
        /\ \A k \in 1 .. Len(frames) : k # n => changed[k] = frames[k]
    BY <2>1, ReplaceSeq
  <2> HIDE DEF changed
  <2> QED
    BY <1>1, <2>2
<1>4. changed = [frames EXCEPT ![Len(frames)] = f]
  BY <1>1
<1> HIDE DEF changed
<1>6. /\ \A k \in 1 .. (n - 1) : k \in 1 .. Len(frames) /\ k # n
      /\ \A k \in 2 .. n : k - 1 \in 1 .. Len(frames) /\ k - 1 # n
      /\ \A k \in 2 .. n : k = n \/ (k # n /\ k \in 1 .. Len(frames))
  BY <1>1, <1>2
<1>7. \A k \in 2 .. n : Linked(src, changed, k)
  <2> SUFFICES ASSUME NEW k \in 2 .. n PROVE Linked(src, changed, k)
    OBVIOUS
  <2>1. Linked(src, frames, k)
    BY <1>1, <1>3 DEF Chain
  <2>2. changed[k - 1] = frames[k - 1]
    BY <1>5, <1>6
  <2>3. /\ changed[k].node \in BraceNodes <=> frames[k].node \in BraceNodes
        /\ changed[k].min_prec = frames[k].min_prec
    BY <1>1, <1>5, <1>6
  <2> QED
    BY <2>1, <2>2, <2>3 DEF Linked
<1>8. Chain(src, changed, opens, n - 1)
  BY <1>1, <1>3, <1>5, <1>6, <1>7 DEF Chain
<1>9. changed # <<>>
  BY <1>2, <1>5, SeqFacts
<1>10. Held(src, changed, s)
  BY <1>3, <1>5, <1>8 DEF Held
<1> QED
  BY <1>1, <1>4, <1>5, <1>9, <1>10

(* What an expression that fits is made of.                                 *)
LEMMA FitsIs ==
  ASSUME NEW src, NEW s, NEW j, NEW min, Fits(src, s, j, min)
  PROVE  /\ s \in Nat \ {0} /\ j \in Nat /\ s <= j /\ IsWithin(src, j)
         /\ src[s] \in Starts /\ src[s] # "{" /\ Even(src, s, j) /\ Commaless(src, s, j)
         /\ IsAfterOperand(src, j + 1) /\ ~IsAfterOperand(src, s)
<1>1. IsExpression(src, s, j)
  BY DEF Fits
<1>2. src[s] \in Starts
  BY <1>1 DEF IsExpression
<1>3. src[s] # "{"
  BY <1>2, PlainTokens
<1> QED
  BY <1>1, <1>3 DEF IsExpression

(* One without operators is read from its end.                              *)
LEMMA PlainIs ==
  ASSUME NEW src, NEW s, NEW j, NEW min, Fits(src, s, j, min), IsPrimary(src, s, j)
  PROVE  Plain(src, s, j)
<1>1. s \in Nat \ {0} /\ j \in Nat /\ s <= j /\ src[s] # "{"
  BY FitsIs
<1>2. s \in Int /\ j \in Int
  <2>1. s \in Nat \ {0} /\ j \in Nat
    BY <1>1
  <2> QED
    BY <2>1
<1>3. s \in Outside(src, s, j)
  BY <1>1, <1>2, OutsideIs
<1> QED
  BY <1>1, <1>3 DEF Plain, IsPrimary, NoCast

(* What an expression means, of whose parts?                                *)
LEMMA ExpressionIs ==
  ASSUME NEW src, IsSource(src), NEW s, NEW j, NEW min, Fits(src, s, j, min)
  PROVE  /\ Meaning(src, s, j) = Reading(src, Parts(src, s, j), s, j)
         /\ \A a \in Int, b \in Int :
              s <= a /\ a <= b /\ b <= j /\ (a # s \/ b # j) =>
                Parts(src, s, j)[<<a, b>>] = Meaning(src, a, b)
<1>1. s \in Nat \ {0} /\ j \in Nat /\ s <= j /\ IsWithin(src, j)
  BY FitsIs
<1> QED
  BY <1>1, MeaningIs, PartIs, ZenonT(60)

(* A literal,                                                               *)
LEMMA LiteralReads ==
  ASSUME NEW src, IsSource(src), NEW s \in Nat \ {0}, IsWithin(src, s), src[s] = "1",
         ~IsAfterOperand(src, s), NEW m
  PROVE  Reads(src, Tree("literal", s, <<>>), s, s, m)
<1>1. s \in Nat /\ s <= s
  OBVIOUS
<1>2. \A k \in s .. s : k = s
  OBVIOUS
<1>3. IsAtom(src, s, s)
  BY <1>2 DEF IsAtom
<1>4. IsPrimary(src, s, s) /\ Fits(src, s, s, m)
  BY <1>1, <1>3, AtomFits
<1>5. Plain(src, s, s)
  BY <1>4, PlainIs
<1>6. Meaning(src, s, s) = Reading(src, Parts(src, s, s), s, s)
  BY <1>4, ExpressionIs
<1>7. Reading(src, Parts(src, s, s), s, s) = Tree("literal", s, <<>>)
  BY <1>5, ReadLiteral
<1> QED
  BY <1>4, <1>6, <1>7 DEF Reads

(* a name or a path.                                                        *)
LEMMA PathPlaces ==
  ASSUME NEW s \in Nat \ {0}, NEW n \in Nat
  PROVE  /\ s + 2 * n \in Nat /\ s <= s + 2 * n /\ ((s + 2 * n) - s) \div 2 = n
         /\ n = 0 => s + 2 * n = s
         /\ n # 0 => n \in 1 .. n /\ s < s + 2 * n
         /\ \A k \in s .. (s + 2 * n) : \/ k = s
                                        \/ \E l \in 1 .. n : k = s + 2 * l \/ k = s + 2 * l - 1
<1>1. ((s + 2 * n) - s) \div 2 = n
  OBVIOUS
<1>2. ASSUME NEW k \in s .. (s + 2 * n), k # s
      PROVE  \E l \in 1 .. n : k = s + 2 * l \/ k = s + 2 * l - 1
  <2>1. k - s \in 1 .. (2 * n)
    BY <1>2
  <2>2. ((k - s) + 1) \div 2 \in 1 .. n
    BY <2>1
  <2>3. k - s = 2 * (((k - s) + 1) \div 2) \/ k - s = 2 * (((k - s) + 1) \div 2) - 1
    BY <2>1
  <2>4. \A l \in Nat : k - s = 2 * l => k = s + 2 * l
    BY <2>1
  <2>5. \A l \in Nat : k - s = 2 * l - 1 => k = s + 2 * l - 1
    BY <2>1
  <2>6. ((k - s) + 1) \div 2 \in Nat
    BY <2>2
  <2> QED
    BY <2>2, <2>3, <2>4, <2>5, <2>6
<1>3. /\ s + 2 * n \in Nat /\ s <= s + 2 * n
      /\ n = 0 => s + 2 * n = s
      /\ n # 0 => n \in 1 .. n /\ s < s + 2 * n
  OBVIOUS
<1> QED
  BY <1>1, <1>2, <1>3

(* A name, with the names after it, is read as such.                        *)
LEMMA PathReads ==
  ASSUME NEW src, IsSource(src), NEW tree, NEW s, NEW n, PathTo(src, tree, s, n), NEW m
  PROVE  Reads(src, tree, s, s + 2 * n, m)
<1>1. /\ s \in Nat \ {0} /\ n \in Nat /\ IsWithin(src, s + 2 * n)
      /\ ~IsAfterOperand(src, s) /\ src[s] = "x"
      /\ \A k \in 1 .. n : src[s + 2 * k] = "x" /\ src[s + 2 * k - 1] = "::"
      /\ tree = Tree("ident", s, [k \in 1 .. n |-> s + 2 * k])
  BY DEF PathTo
<1>2. PICK j : j = s + 2 * n
  OBVIOUS
<1>3. /\ j \in Nat /\ s <= j /\ (j - s) \div 2 = n
      /\ (n = 0 => j = s) /\ (n # 0 => n \in 1 .. n /\ s < j)
      /\ \A k \in s .. j : k = s \/ \E l \in 1 .. n : k = s + 2 * l \/ k = s + 2 * l - 1
  <2>1. s \in Nat \ {0} /\ n \in Nat
    BY <1>1
  <2> QED
    BY <1>2, <2>1, PathPlaces
<1>4. src[j] = "x" /\ (s = j \/ src[j - 1] = "::")
  BY <1>1, <1>2, <1>3
<1>5. IsAtom(src, s, j)
  <2>1. \A k \in s .. j : src[k] \in {"x", "::"}
    BY <1>1, <1>3, ZenonT(60)
  <2> QED
    BY <1>1, <1>4, <2>1 DEF IsAtom
<1>6. s \in Nat \ {0} /\ IsWithin(src, j) /\ ~IsAfterOperand(src, s)
  BY <1>1, <1>2
<1>7. IsPrimary(src, s, j) /\ Fits(src, s, j, m)
  BY <1>3, <1>5, <1>6, AtomFits
<1>8. Plain(src, s, j)
  BY <1>7, PlainIs
<1>9. Meaning(src, s, j) = Reading(src, Parts(src, s, j), s, j)
  BY <1>7, ExpressionIs
<1>10. ~(s < j /\ src[j - 1] \in {".", "->"})
  <2>1. CASE s = j
    BY <1>3, <2>1
  <2>2. CASE src[j - 1] = "::"
    BY <2>2
  <2> QED
    BY <1>4, <2>1, <2>2
<1>11. Reading(src, Parts(src, s, j), s, j)
         = Tree("ident", s, [k \in 1 .. ((j - s) \div 2) |-> s + 2 * k])
  BY <1>4, <1>8, <1>10, ReadIdent
<1>12. Reading(src, Parts(src, s, j), s, j) = tree
  <2>1. (j - s) \div 2 = n /\ tree = Tree("ident", s, [k \in 1 .. n |-> s + 2 * k])
    BY <1>1, <1>3
  <2> QED
    BY <1>11, <2>1
<1> QED
  BY <1>2, <1>7, <1>9, <1>12 DEF Reads

(* What follows an operand directly.                                        *)
Suffixed(src, s, p, j, min) ==
  /\ p \in Nat \ {0} /\ j \in Nat /\ IsWithin(src, j)
  /\ Fits(src, s, p - 1, min) /\ IsEnding(src, p, j) /\ IsAfterOperand(src, j + 1)
  /\ src[j + 1] = "[" => EndsPlain(src, p, j)

(* What follows an operand makes a new one of it:                           *)
LEMMA SuffixReads ==
  ASSUME NEW src, IsSource(src), NEW s, NEW p, NEW j, NEW min, Suffixed(src, s, p, j, min)
  PROVE  /\ Plain(src, s, j) /\ \A m : Fits(src, s, j, m)
         /\ Meaning(src, s, j) = Reading(src, Parts(src, s, j), s, j)
         /\ Parts(src, s, j)[<<s, p - 1>>] = Meaning(src, s, p - 1)
         /\ s \in Int /\ p \in Int /\ j \in Int /\ s <= p - 1 /\ p <= j /\ s < p
<1>1. Fits(src, s, p - 1, min) /\ IsEnding(src, p, j) /\ IsAfterOperand(src, j + 1)
      /\ p \in Nat \ {0} /\ j \in Nat /\ IsWithin(src, j)
      /\ (src[j + 1] = "[" => EndsPlain(src, p, j))
  BY DEF Suffixed
<1>2. s \in Nat \ {0} /\ p - 1 \in Nat /\ s <= p - 1
  BY <1>1, FitsIs
<1>3. p <= j
  BY <1>1 DEF IsEnding
<1>4. IsPrimary(src, s, j) /\ \A m : Fits(src, s, j, m)
  BY <1>1, <1>2, SuffixFits
<1>5. Plain(src, s, j)
  BY <1>4, PlainIs
<1>6. /\ s \in Int /\ p \in Int /\ j \in Int /\ s <= p - 1 /\ p <= j /\ s < p /\ s <= s
      /\ p - 1 \in Int /\ p - 1 <= j /\ p - 1 # j
  <2>1. p \in Nat \ {0} /\ j \in Nat
    BY <1>1
  <2> QED
    BY <1>2, <1>3, <2>1
<1>7. /\ Meaning(src, s, j) = Reading(src, Parts(src, s, j), s, j)
      /\ Parts(src, s, j)[<<s, p - 1>>] = Meaning(src, s, p - 1)
  <2>1. Fits(src, s, j, 0)
    BY <1>4
  <2> QED
    BY <1>6, <2>1, ExpressionIs
<1> QED
  BY <1>4, <1>5, <1>6, <1>7

(* ... an increment,                                                        *)
LEMMA PostfixReads ==
  ASSUME NEW src, IsSource(src), NEW s, NEW p \in Nat \ {0}, IsWithin(src, p), NEW min,
         Fits(src, s, p - 1, min), src[p] \in {"++", "--"}, NEW m
  PROVE  Reads(src, Tree("postfix", p, <<Meaning(src, s, p - 1)>>), s, p, m)
<1>1. p \in Int /\ p \in Nat /\ p <= p /\ (p - 1) + 1 = p
  OBVIOUS
<1>2. src[p] \notin Opening \cup Closing /\ src[p] # "(" /\ src[p] # "[" /\ src[p] \in Followers
  BY PlainTokens DEF Followers
<1>3. Even(src, p, p) /\ Outside(src, p, p) = {p}
  BY <1>1, <1>2, EvenOne, OutsideShort
<1>4. IsEnding(src, p, p)
  BY <1>1, <1>2, <1>3 DEF IsEnding, IsCast
<1>5. IsAfterOperand(src, (p - 1) + 1)
  BY FitsIs
<1>6. IsAfterOperand(src, p)
  BY <1>1, <1>5
<1>7. IsAfterOperand(src, p + 1)
  BY <1>6, AfterStep
<1>8. EndsPlain(src, p, p)
  BY <1>1, <1>2, <1>3 DEF EndsPlain
<1>9. Suffixed(src, s, p, p, min)
  BY <1>1, <1>4, <1>7, <1>8 DEF Suffixed
<1>10. Reading(src, Parts(src, s, p), s, p)
         = Tree("postfix", p, <<Parts(src, s, p)[<<s, p - 1>>]>>)
  BY <1>9, SuffixReads, ReadPostfix
<1> QED
  BY <1>9, <1>10, SuffixReads DEF Reads

(* ... a member,                                                            *)
LEMMA MemberReads ==
  ASSUME NEW src, IsSource(src), NEW s, NEW p \in Nat \ {0}, IsWithin(src, p + 1), NEW min,
         Fits(src, s, p - 1, min), src[p] \in {".", "->"}, src[p + 1] = "x", NEW m
  PROVE  Reads(src, Tree("member", p, <<Meaning(src, s, p - 1)>>), s, p + 1, m)
<1>1. PICK j : j = p + 1
  OBVIOUS
<1>2. /\ p \in Int /\ j \in Int /\ j \in Nat /\ j \in Nat \ {0} /\ p <= j /\ j - 1 = p
      /\ j - 2 = p - 1 /\ p <= p /\ p + 1 = j /\ p <= p + 1
      /\ \A k \in p .. j : k = p \/ k = j
  BY <1>1
<1>3. src[p] \notin Opening \cup Closing /\ src[p] # "(" /\ src[p] # "[" /\ src[p] \in Followers
  BY PlainTokens DEF Followers
<1>4. src[j] = "x" /\ src[j] \notin Opening \cup Closing /\ src[j] # "[" /\ src[j] # "("
  BY <1>1, PlainTokens
<1>5. Even(src, p, j)
  BY <1>2, <1>3, <1>4, FlatIs
<1>6. Outside(src, p, j) \subseteq {p, j}
  BY <1>2, OutsideIs
<1>7. IsEnding(src, p, j)
  BY <1>2, <1>3, <1>4, <1>5, <1>6 DEF IsEnding, IsCast
<1>8. EndsOperand(src, j)
  BY <1>4 DEF EndsOperand
<1>9. IsAfterOperand(src, j + 1)
  BY <1>2, <1>8, AfterEnd
<1>10. EndsPlain(src, p, j)
  <2>1. Depth(src, p, p) = 0
    BY <1>2, <1>3, DepthIs
  <2>2. j \in Outside(src, p, j)
    BY <1>2, <2>1, OutsideIs
  <2>3. \A k \in {p, j} : k <= j
    BY <1>2
  <2> QED
    BY <1>4, <1>6, <2>2, <2>3 DEF EndsPlain
<1>11. Suffixed(src, s, p, j, min)
  BY <1>1, <1>2, <1>7, <1>9, <1>10 DEF Suffixed
<1>12. Plain(src, s, j) /\ s \in Int /\ s < j
  <2>1. Plain(src, s, j) /\ s \in Int /\ s < p
    BY <1>11, SuffixReads
  <2> QED
    BY <1>2, <2>1
<1>13. src[j - 1] \in {".", "->"}
  BY <1>2
<1>14. Reading(src, Parts(src, s, j), s, j)
         = Tree("member", j - 1, <<Parts(src, s, j)[<<s, j - 2>>]>>)
  <2>1. Plain(src, s, j) /\ s \in Int /\ j \in Int /\ s < j
    BY <1>2, <1>12
  <2>2. src[j] = "x"
    BY <1>4
  <2> QED
    BY <1>13, <2>1, <2>2, ReadMember
<1>15. /\ (\A k : Fits(src, s, j, k))
       /\ Meaning(src, s, j) = Reading(src, Parts(src, s, j), s, j)
       /\ Parts(src, s, j)[<<s, p - 1>>] = Meaning(src, s, p - 1)
  BY <1>11, SuffixReads
<1> QED
  BY <1>1, <1>2, <1>14, <1>15 DEF Reads

(* A call: its arguments are the items between its parentheses.             *)
CallSpan(src, s, p, j, min) ==
  /\ p \in Nat \ {0} /\ j \in Nat /\ IsWithin(src, j)
  /\ Fits(src, s, p - 1, min) /\ Group(src, p, j)
  /\ src[p] = "(" /\ src[p + 1] # "#cast<T>" /\ src[j] = ")" /\ src[j - 1] # "#cast<T>"

(* Places are integers.                                                     *)
LEMMA PlaceFacts ==
  /\ \A p \in Nat \ {0} : p \in Int /\ 1 <= p /\ p <= p
  /\ \A p \in Int, j \in Int : p < j => p <= j
  /\ \A j \in Nat : j \in Int
OBVIOUS

(* ... a group in brackets,                                                 *)
LEMMA GroupSuffix ==
  ASSUME NEW src, IsSource(src), NEW p \in Nat \ {0}, NEW j \in Nat, IsWithin(src, j),
         Group(src, p, j), src[p] \in {"(", "{"}, ~IsCast(src, p)
  PROVE  IsEnding(src, p, j) /\ EndsPlain(src, p, j) /\ Opener(src, j) = p /\ p < j
<1>1. p \in Int /\ j \in Int /\ 1 <= p
  BY PlaceFacts
<1>2. Even(src, p, j) /\ Outside(src, p, j) = {p} /\ Opener(src, j) = p
  BY <1>1, GroupIs
<1>3. p < j
  BY DEF Group
<1>4. p <= j /\ p <= p
  BY <1>1, <1>3, PlaceFacts
<1>5. src[p] \in Followers /\ src[p] # "["
  BY DEF Followers
<1>6. IsEnding(src, p, j)
  BY <1>2, <1>4, <1>5 DEF IsEnding
<1>7. EndsPlain(src, p, j)
  BY <1>2, <1>4, <1>5 DEF EndsPlain
<1> QED
  BY <1>2, <1>3, <1>6, <1>7

(* ... a call,                                                              *)
LEMMA CallReads ==
  ASSUME NEW src, IsSource(src), NEW s, NEW p, NEW j, NEW min, CallSpan(src, s, p, j, min),
         NEW args, TreesRead(src, args, Items(src, p + 1, j - 1, 0), p + 1, j - 1), NEW m
  PROVE  Reads(src, Tree("call", p, <<Meaning(src, s, p - 1)>> \o args), s, j, m)
<1>1. /\ p \in Nat \ {0} /\ j \in Nat /\ IsWithin(src, j)
      /\ Fits(src, s, p - 1, min) /\ Group(src, p, j)
  BY DEF CallSpan
<1>2. src[p] = "(" /\ src[p + 1] # "#cast<T>" /\ src[j] = ")" /\ src[j - 1] # "#cast<T>"
  BY DEF CallSpan
<1>3. IsEnding(src, p, j) /\ EndsPlain(src, p, j) /\ Opener(src, j) = p /\ p < j
  BY <1>1, <1>2, GroupSuffix DEF IsCast
<1>4. j \in Nat \ {0}
  BY <1>1, <1>3
<1>5. IsAfterOperand(src, j + 1)
  BY <1>2, <1>4, AfterEnd DEF EndsOperand
<1>6. Suffixed(src, s, p, j, min)
  BY <1>1, <1>3, <1>5 DEF Suffixed
<1>7. /\ Plain(src, s, j) /\ (\A k : Fits(src, s, j, k))
      /\ Meaning(src, s, j) = Reading(src, Parts(src, s, j), s, j)
      /\ Parts(src, s, j)[<<s, p - 1>>] = Meaning(src, s, p - 1)
      /\ s \in Int /\ p \in Int /\ j \in Int /\ s < p
  BY <1>6, SuffixReads
<1>8. p # s
  BY <1>7
<1>9. Reading(src, Parts(src, s, j), s, j) =
        Tree("call", p, <<Parts(src, s, j)[<<s, p - 1>>]>>
                          \o Trees(Parts(src, s, j), Items(src, p + 1, j - 1, 0)))
  BY <1>2, <1>3, <1>7, <1>8, ReadCall
<1>10. Trees(Parts(src, s, j), Items(src, p + 1, j - 1, 0)) = args
  <2>1. /\ p + 1 \in Nat \ {0} /\ j - 1 \in Nat /\ j - 1 \in Int /\ j - 1 <= j /\ s < p + 1
    BY <1>1, <1>4, <1>7
  <2>2. IsWithin(src, j - 1)
    BY <1>1, <1>7, <2>1, WithinLess
  <2> QED
    BY <1>7, <2>1, <2>2, TreesAre
<1> QED
  BY <1>7, <1>9, <1>10 DEF Reads

(* Subscripts in a row.                                                     *)
RunSpan(src, s, p, j, min) ==
  /\ p \in Nat \ {0} /\ j \in Nat /\ p <= j /\ IsWithin(src, j) /\ Fits(src, s, p - 1, min)
  /\ src[p] = "[" /\ src[j] = "]" /\ src[j + 1] # "["

(* ... or a run of subscripts.                                              *)
LEMMA SubscriptReads ==
  ASSUME NEW src, IsSource(src), NEW s, NEW p, NEW j, NEW min, RunSpan(src, s, p, j, min),
         NEW parts, RunTo(src, parts, p, j), NEW m
  PROVE  Reads(src, Tree("subscript", p, <<Meaning(src, s, p - 1)>> \o parts), s, j, m)
<1>1. /\ p \in Nat \ {0} /\ j \in Nat /\ p <= j /\ IsWithin(src, j)
      /\ Fits(src, s, p - 1, min)
  BY DEF RunSpan
<1>2. src[p] = "[" /\ src[j] = "]" /\ src[j + 1] # "["
  BY DEF RunSpan
<1>3. /\ Even(src, p, j) /\ (\A k \in Outside(src, p, j) : src[k] = "[")
      /\ TreesRead(src, parts, Indexes(src, Outside(src, p, j)), p + 1, j)
      /\ Nth(Outside(src, p, j), 1) = p
  BY <1>1 DEF RunTo
<1>4. IsEnding(src, p, j)
  <2>1. \A k \in Outside(src, p, j) : src[k] \in Followers /\ ~IsCast(src, k)
    BY <1>3 DEF Followers, IsCast
  <2>2. src[p] \in Followers
    BY <1>2 DEF Followers
  <2> QED
    BY <1>1, <1>3, <2>1, <2>2 DEF IsEnding
<1>5. j \in Nat \ {0}
  BY <1>1
<1>6. IsAfterOperand(src, j + 1)
  BY <1>2, <1>5, AfterEnd DEF EndsOperand
<1>7. Suffixed(src, s, p, j, min)
  BY <1>1, <1>2, <1>4, <1>6 DEF Suffixed
<1>8. /\ Plain(src, s, j) /\ (\A k : Fits(src, s, j, k))
      /\ Meaning(src, s, j) = Reading(src, Parts(src, s, j), s, j)
      /\ Parts(src, s, j)[<<s, p - 1>>] = Meaning(src, s, p - 1)
      /\ s \in Int /\ p \in Int /\ j \in Int /\ s <= p - 1 /\ p <= j /\ s < p
  BY <1>7, SuffixReads
<1>9. EndsPlain(src, s, p - 1)
  <2>1. (p - 1) + 1 = p
    BY <1>8
  <2>2. src[(p - 1) + 1] = "["
    BY <1>2, <2>1
  <2> QED
    BY <1>1, <2>2 DEF Fits, TailFits
<1>10. Depth(src, s, p - 1) = 0
  <2>1. Even(src, s, p - 1)
    BY <1>1, FitsIs
  <2> QED
    BY <2>1 DEF Even
<1>11. Subscripts(src, s, j) = Outside(src, p, j)
  BY <1>3, <1>8, <1>9, <1>10, SubscriptsAre
<1>12. Reading(src, Parts(src, s, j), s, j) =
         Tree("subscript", p, <<Parts(src, s, j)[<<s, p - 1>>]>>
                                \o Trees(Parts(src, s, j), Indexes(src, Outside(src, p, j))))
  BY <1>2, <1>3, <1>8, <1>11, ReadSubscript, ZenonT(60)
<1>13. Trees(Parts(src, s, j), Indexes(src, Outside(src, p, j))) = parts
  <2>1. p + 1 \in Nat \ {0} /\ s < p + 1 /\ j <= j
    BY <1>1, <1>8
  <2> QED
    BY <1>1, <1>3, <1>8, <2>1, TreesAre
<1> QED
  BY <1>8, <1>12, <1>13 DEF Reads

(* A struct created of its operand.                                         *)
LEMMA CreateReads ==
  ASSUME NEW src, IsSource(src), NEW s, NEW p \in Nat \ {0}, NEW j, NEW min,
         Fits(src, s, p - 1, min), NEW tree, ReadsBraces(src, tree, p, j), NEW m
  PROVE  Reads(src, Tree("create", p, <<Meaning(src, s, p - 1), tree>>), s, j, m)
<1>1. j \in Nat /\ IsWithin(src, j) /\ Group(src, p, j) /\ tree = Meaning(src, p, j)
  BY DEF ReadsBraces
<1>2. src[p] = "{" /\ src[j] = "}"
  BY DEF ReadsBraces
<1>3. IsEnding(src, p, j) /\ EndsPlain(src, p, j) /\ Opener(src, j) = p /\ p < j
  BY <1>1, <1>2, GroupSuffix DEF IsCast
<1>4. j \in Nat \ {0}
  BY <1>1, <1>3
<1>5. IsAfterOperand(src, j + 1)
  BY <1>2, <1>4, AfterEnd DEF EndsOperand
<1>6. Suffixed(src, s, p, j, min)
  BY <1>1, <1>3, <1>5 DEF Suffixed
<1>7. /\ Plain(src, s, j) /\ (\A k : Fits(src, s, j, k))
      /\ Meaning(src, s, j) = Reading(src, Parts(src, s, j), s, j)
      /\ Parts(src, s, j)[<<s, p - 1>>] = Meaning(src, s, p - 1)
      /\ s \in Int /\ p \in Int /\ j \in Int /\ s < p /\ p <= j
  BY <1>6, SuffixReads
<1>8. Reading(src, Parts(src, s, j), s, j) =
        Tree("create", p, <<Parts(src, s, j)[<<s, p - 1>>], Parts(src, s, j)[<<p, j>>]>>)
  <2>1. IsCreated(src, s, j, p)
    BY <1>2, <1>3, <1>7 DEF IsCreated
  <2> QED
    BY <2>1, ReadCreate
<1>9. Parts(src, s, j)[<<p, j>>] = tree
  <2>1. s <= p /\ j <= j /\ p # s
    BY <1>7
  <2>2. Fits(src, s, j, 0)
    BY <1>7
  <2> QED
    BY <1>1, <1>7, <2>1, <2>2, ExpressionIs
<1> QED
  BY <1>7, <1>8, <1>9 DEF Reads

(* An expression in parentheses,                                            *)
ParenSpan(src, s, j, min) ==
  /\ s \in Nat \ {0} /\ j \in Nat /\ IsWithin(src, j) /\ ~IsAfterOperand(src, s)
  /\ src[s] = "(" /\ src[j] = ")" /\ Fits(src, s + 1, j - 1, min)

(* What is in parentheses is read as what is in them,                       *)
LEMMA ParenReads ==
  ASSUME NEW src, IsSource(src), NEW s, NEW j, NEW min, ParenSpan(src, s, j, min), NEW m
  PROVE  Reads(src, Meaning(src, s + 1, j - 1), s, j, m)
<1>1. s \in Nat \ {0} /\ j \in Nat /\ IsWithin(src, j) /\ ~IsAfterOperand(src, s)
      /\ Fits(src, s + 1, j - 1, min)
  BY DEF ParenSpan
<1>2. src[s] = "(" /\ src[j] = ")"
  BY DEF ParenSpan
<1>3. Group(src, s, j) /\ IsPrimary(src, s, j) /\ \A k : Fits(src, s, j, k)
  BY <1>1, <1>2, ParenFits
<1>4. Plain(src, s, j)
  BY <1>3, PlainIs
<1>5. s \in Int /\ j \in Int /\ 1 <= s
  BY <1>1, PlaceFacts
<1>6. Opener(src, j) = s
  BY <1>1, <1>3, <1>5, GroupIs
<1>7. Reading(src, Parts(src, s, j), s, j) = Parts(src, s, j)[<<s + 1, j - 1>>]
  BY <1>2, <1>4, <1>6, ReadParen
<1>8. s + 1 \in Int /\ j - 1 \in Int /\ s <= s + 1 /\ s + 1 <= j - 1 /\ j - 1 <= j /\ s + 1 # s
  <2>1. s + 1 <= j - 1
    BY <1>1, FitsIs
  <2> QED
    BY <1>5, <2>1
<1> QED
  BY <1>3, <1>7, <1>8, ExpressionIs DEF Reads

(* behind a prefix operator,                                                *)
UnarySpan(src, s, j) ==
  /\ s \in Nat \ {0} /\ src[s] \in PrefixOperators /\ ~IsAfterOperand(src, s)
  /\ Fits(src, s + 1, j, PREFIX_PRECEDENCE) /\ Precedence(src[j + 1]) <= PREFIX_PRECEDENCE

(* ... a prefix operator with its operand,                                  *)
LEMMA UnaryReads ==
  ASSUME NEW src, IsSource(src), NEW s, NEW j, UnarySpan(src, s, j), NEW m
  PROVE  Reads(src, Tree("unary", s, <<Meaning(src, s + 1, j)>>), s, j, m)
<1>0. /\ s \in Nat \ {0} /\ src[s] \in PrefixOperators /\ ~IsAfterOperand(src, s)
      /\ Fits(src, s + 1, j, PREFIX_PRECEDENCE) /\ Precedence(src[j + 1]) <= PREFIX_PRECEDENCE
  BY DEF UnarySpan
<1>1. j \in Nat /\ s + 1 <= j
  BY <1>0, FitsIs
<1>2. InfixOutside(src, s, j) = {} /\ \A k : Fits(src, s, j, k)
  BY <1>0, <1>1, UnaryFits
<1>3. IsUnary(src, s, j)
  BY <1>0, <1>2, PlainTokens DEF IsUnary
<1>4. Reading(src, Parts(src, s, j), s, j) = Tree("unary", s, <<Parts(src, s, j)[<<s + 1, j>>]>>)
  BY <1>3, ReadUnary
<1>5. s + 1 \in Int /\ j \in Int /\ s <= s + 1 /\ s + 1 <= j /\ j <= j /\ s + 1 # s
  BY <1>0, <1>1
<1> QED
  BY <1>2, <1>4, <1>5, ExpressionIs DEF Reads

(* behind a cast,                                                           *)
CastSpan(src, s, j) ==
  /\ s \in Nat \ {0} /\ ~IsAfterOperand(src, s)
  /\ src[s] = "(" /\ src[s + 1] = "#cast<T>" /\ src[s + 2] = ")"
  /\ Fits(src, s + 3, j, 0) /\ Precedence(src[j + 1]) <= 0

(* ... a cast with all that follows,                                        *)
LEMMA CastReads ==
  ASSUME NEW src, IsSource(src), NEW s, NEW j, CastSpan(src, s, j), NEW m
  PROVE  Reads(src, Tree("cast", s, <<Meaning(src, s + 3, j)>>), s, j, m)
<1>1. /\ s \in Nat \ {0} /\ ~IsAfterOperand(src, s)
      /\ Fits(src, s + 3, j, 0) /\ Precedence(src[j + 1]) <= 0
  BY DEF CastSpan
<1>2. src[s] = "(" /\ src[s + 1] = "#cast<T>" /\ src[s + 2] = ")"
  BY DEF CastSpan
<1>3. j \in Nat /\ s + 3 <= j
  BY <1>1, FitsIs
<1>4. InfixOutside(src, s, j) = {} /\ \A k : Fits(src, s, j, k)
  BY <1>1, <1>2, <1>3, CastFits
<1>5. Casts(src, s, j)
  BY <1>2, <1>4 DEF PrefixOperators, IsCast, Casts
<1>6. Reading(src, Parts(src, s, j), s, j) = Tree("cast", s, <<Parts(src, s, j)[<<s + 3, j>>]>>)
  BY <1>5, ReadCast
<1>7. s + 3 \in Int /\ j \in Int /\ s <= s + 3 /\ s + 3 <= j /\ j <= j /\ s + 3 # s
  BY <1>1, <1>3
<1> QED
  BY <1>4, <1>6, <1>7, ExpressionIs DEF Reads

(* on the two sides of an operator,                                         *)
InfixSpan(src, s, p, j, min) ==
  /\ p \in Nat \ {0} /\ min \in Nat /\ Joined(src, s, p, p, j, min)
  /\ src[p] \in BinaryOperators \cup AssignOperators

(* ... an operator with its two,                                            *)
LEMMA InfixReads ==
  ASSUME NEW src, IsSource(src), NEW s, NEW p, NEW j, NEW min, InfixSpan(src, s, p, j, min)
  PROVE  Reads(src, Tree("infix", p, <<Meaning(src, s, p - 1), Meaning(src, p + 1, j)>>),
               s, j, min)
<1>0. /\ p \in Nat \ {0} /\ p \in Nat /\ min \in Nat /\ Joined(src, s, p, p, j, min)
      /\ src[p] \in BinaryOperators \cup AssignOperators
  BY DEF InfixSpan
<1>1. Fits(src, s, p - 1, min) /\ Fits(src, p + 1, j, MinRhsPrec(src[p]))
  BY <1>0 DEF Joined
<1>2. s \in Nat \ {0} /\ s <= p - 1 /\ j \in Nat /\ p + 1 <= j
  BY <1>1, FitsIs
<1>3. src[s] # "{"
  BY <1>1, FitsIs
<1>4. /\ Fits(src, s, j, min)
      /\ InfixOutside(src, s, j) # {} /\ Root(src, InfixOutside(src, s, j)) = p
  BY <1>0, <1>2, InfixFits
<1>5. IsInfix(src, s, j, p)
  BY <1>0, <1>3, <1>4, KindsOfOperators DEF IsInfix
<1>6. Reading(src, Parts(src, s, j), s, j)
        = Tree("infix", p, <<Parts(src, s, j)[<<s, p - 1>>], Parts(src, s, j)[<<p + 1, j>>]>>)
  BY <1>5, ReadInfix
<1>7. /\ s \in Int /\ p - 1 \in Int /\ s <= s /\ s <= p - 1 /\ p - 1 <= j /\ p - 1 # j
      /\ p + 1 \in Int /\ j \in Int /\ s <= p + 1 /\ p + 1 <= j /\ j <= j /\ p + 1 # s
  BY <1>0, <1>2
<1> QED
  BY <1>4, <1>6, <1>7, ExpressionIs DEF Reads

(* and in the three parts of a ternary.                                     *)
TernarySpan(src, s, p, q, j, min) ==
  /\ p \in Nat \ {0} /\ q \in Nat /\ min \in Nat /\ Joined(src, s, p, q, j, min)
  /\ src[p] = "?" /\ IsWithin(src, q) /\ Group(src, p, q) /\ p + 1 <= q - 1

(* ... the ternary with its three.                                          *)
LEMMA TernaryReads ==
  ASSUME NEW src, IsSource(src), NEW s, NEW p, NEW q, NEW j, NEW min,
         TernarySpan(src, s, p, q, j, min)
  PROVE  Reads(src, Tree("ternary", p, <<Meaning(src, s, p - 1), Meaning(src, p + 1, q - 1),
                                         Meaning(src, q + 1, j)>>), s, j, min)
<1>0. /\ p \in Nat \ {0} /\ q \in Nat /\ min \in Nat /\ Joined(src, s, p, q, j, min)
      /\ IsWithin(src, q) /\ Group(src, p, q) /\ p + 1 <= q - 1
  BY DEF TernarySpan
<1>1. Fits(src, s, p - 1, min) /\ Fits(src, q + 1, j, MinRhsPrec(src[p]))
  BY <1>0 DEF Joined
<1>2. s \in Nat \ {0} /\ s <= p - 1 /\ j \in Nat /\ q + 1 <= j
  BY <1>1, FitsIs
<1>3. /\ Fits(src, s, j, min)
      /\ InfixOutside(src, s, j) # {} /\ Root(src, InfixOutside(src, s, j)) = p
  BY <1>0, <1>2, InfixFits
<1>4. p \in Int /\ q \in Int /\ 1 <= p
  BY <1>0, PlaceFacts
<1>8. Closer(src, p) = q
  BY <1>0, <1>4, GroupIs
<1>9. src[s] # "{"
  BY <1>1, FitsIs
<1>5. IsTernary(src, s, j, p, q)
  BY <1>3, <1>8, <1>9 DEF TernarySpan, IsTernary
<1>6. Reading(src, Parts(src, s, j), s, j)
        = Tree("ternary", p, <<Parts(src, s, j)[<<s, p - 1>>], Parts(src, s, j)[<<p + 1, q - 1>>],
                               Parts(src, s, j)[<<q + 1, j>>]>>)
  BY <1>5, ReadTernary
<1>7. /\ s \in Int /\ p - 1 \in Int /\ s <= s /\ s <= p - 1 /\ p - 1 <= j /\ p - 1 # j
      /\ p + 1 \in Int /\ q - 1 \in Int /\ s <= p + 1 /\ q - 1 <= j /\ p + 1 # s
      /\ q + 1 \in Int /\ j \in Int /\ s <= q + 1 /\ q + 1 <= j /\ j <= j /\ q + 1 # s
      /\ p + 1 <= q - 1
  BY <1>0, <1>2, <1>4
<1> QED
  BY <1>3, <1>6, <1>7, ExpressionIs DEF Reads

----------------------------------------------------------------------------
(* What is in braces: its members or elements are the items between them.   *)
BraceSpan(src, s, j) ==
  /\ s \in Nat \ {0} /\ j \in Nat /\ IsWithin(src, j)
  /\ Group(src, s, j) /\ src[s] = "{" /\ src[j] = "}"

(* What is in braces is read by their lists:                                *)
LEMMA BracesAre ==
  ASSUME NEW src, IsSource(src), NEW s, NEW j, BraceSpan(src, s, j)
  PROVE  /\ Braced(src, s, j) /\ Meaning(src, s, j) = Reading(src, Parts(src, s, j), s, j)
         /\ \A parts, spans : TreesRead(src, parts, spans, s + 1, j - 1) =>
              Trees(Parts(src, s, j), spans) = parts
<1>1. s \in Nat \ {0} /\ j \in Nat /\ IsWithin(src, j) /\ Group(src, s, j)
  BY DEF BraceSpan
<1>2. src[s] = "{" /\ src[j] = "}"
  BY DEF BraceSpan
<1>3. s \in Int /\ j \in Int /\ 1 <= s
  BY <1>1, PlaceFacts
<1>4. Outside(src, s, j) = {s}
  BY <1>1, <1>3, GroupIs
<1>5. src[s] \notin Infixes
  BY <1>2, KindsOfOperators DEF Followers
<1>6. InfixOutside(src, s, j) = {}
  BY <1>4, <1>5, InfixIs
<1>7. s < j
  BY <1>1 DEF Group
<1>8. /\ s <= j /\ s + 1 \in Nat \ {0} /\ j - 1 \in Nat /\ j - 1 \in Int /\ j - 1 <= j
      /\ s < s + 1
  BY <1>1, <1>7
<1>9. IsWithin(src, j - 1)
  BY <1>1, <1>3, <1>8, WithinLess
<1>10. Meaning(src, s, j) = Reading(src, Parts(src, s, j), s, j)
  BY <1>1, <1>8, MeaningIs
<1>11. \A parts, spans : TreesRead(src, parts, spans, s + 1, j - 1) =>
         Trees(Parts(src, s, j), spans) = parts
  BY <1>3, <1>8, <1>9, TreesAre
<1> QED
  BY <1>2, <1>6, <1>10, <1>11 DEF Braced

(* ... of members,                                                          *)
LEMMA StructReads ==
  ASSUME NEW src, IsSource(src), NEW s, NEW j, BraceSpan(src, s, j), src[s + 1] \in {".", "}"},
         NEW parts, TreesRead(src, parts, Items(src, s + 1, j - 1, 3), s + 1, j - 1)
  PROVE  ReadsBraces(src, Tree("struct_init", s, parts), s, j)
<1>1. Reading(src, Parts(src, s, j), s, j)
        = Tree("struct_init", s, Trees(Parts(src, s, j), Items(src, s + 1, j - 1, 3)))
  <2>1. IsStruct(src, s, j)
    BY BracesAre DEF IsStruct
  <2> QED
    BY <2>1, ReadStruct
<1>2. Meaning(src, s, j) = Tree("struct_init", s, parts)
  BY <1>1, BracesAre
<1> QED
  BY <1>2 DEF ReadsBraces, BraceSpan

(* ... of initializers,                                                     *)
LEMMA NestedReads ==
  ASSUME NEW src, IsSource(src), NEW s, NEW j, BraceSpan(src, s, j), src[s + 1] = "{",
         NEW parts, TreesRead(src, parts, Items(src, s + 1, j - 1, 0), s + 1, j - 1)
  PROVE  ReadsBraces(src, Tree("nested_arr_init", s, parts), s, j)
<1>1. Reading(src, Parts(src, s, j), s, j)
        = Tree("nested_arr_init", s, Trees(Parts(src, s, j), Items(src, s + 1, j - 1, 0)))
  <2>1. IsNested(src, s, j)
    BY BracesAre DEF IsNested
  <2> QED
    BY <2>1, ReadNested
<1>2. Meaning(src, s, j) = Tree("nested_arr_init", s, parts)
  BY <1>1, BracesAre
<1> QED
  BY <1>2 DEF ReadsBraces, BraceSpan

(* ... or of elements.                                                      *)
LEMMA ArrayReads ==
  ASSUME NEW src, IsSource(src), NEW s, NEW j, BraceSpan(src, s, j), src[s + 1] \in Starts,
         NEW parts, TreesRead(src, parts, Items(src, s + 1, j - 1, 0), s + 1, j - 1)
  PROVE  ReadsBraces(src, Tree("arr_init", s, parts), s, j)
<1>1. src[s + 1] \notin {".", "}", "{"}
  BY PlainTokens
<1>2. Reading(src, Parts(src, s, j), s, j)
        = Tree("arr_init", s, Trees(Parts(src, s, j), Items(src, s + 1, j - 1, 0)))
  <2>1. IsArray(src, s, j)
    BY <1>1, BracesAre DEF IsArray
  <2> QED
    BY <2>1, ReadArray
<1>3. Meaning(src, s, j) = Tree("arr_init", s, parts)
  BY <1>2, BracesAre
<1> QED
  BY <1>3 DEF ReadsBraces, BraceSpan

(* The first of a sequence and the others.                                  *)
LEMMA TailAppend ==
  ASSUME NEW s, IsSeq(s), s # <<>>, NEW x
  PROVE  /\ IsSeq(Tail(s)) /\ s = <<s[1]>> \o Tail(s) /\ (Len(s) = 1 <=> Tail(s) = <<>>)
         /\ Append(s, x)[1] = s[1] /\ Tail(Append(s, x)) = Append(Tail(s), x)
         /\ Append(s, x) = <<s[1]>> \o Append(Tail(s), x) /\ Len(Append(s, x)) # 1
<1>1. PICK n : n = Len(s)
  OBVIOUS
<1>2. n \in Nat /\ n > 0 /\ n - 1 \in Nat /\ 1 \in 1 .. n /\ (n - 1) + 1 = n
  BY <1>1, SeqFacts
<1>3. PICK t : t = Tail(s)
  OBVIOUS
<1>4. IsSeq(t) /\ Len(t) = n - 1 /\ \A i \in 1 .. (n - 1) : t[i] = s[i + 1]
  BY <1>1, <1>3, TailSeq
<1>5. s = <<s[1]>> \o t
  <2>1. PICK u : u = <<s[1]>> \o t
    OBVIOUS
  <2>2. IsSeq(u) /\ Len(u) = n /\ u[1] = s[1] /\ \A i \in 1 .. (n - 1) : u[i + 1] = t[i]
    BY <1>2, <1>4, <2>1, ConsSeq
  <2>3. \A i \in 1 .. n : i = 1 \/ (i - 1 \in 1 .. (n - 1) /\ (i - 1) + 1 = i)
    BY <1>2
  <2>4. \A i \in 1 .. n : s[i] = u[i]
    BY <1>4, <2>2, <2>3
  <2> QED
    BY <1>1, <2>1, <2>2, <2>4, SameSeq
<1>6. n = 1 <=> t = <<>>
  BY <1>2, <1>4, SeqFacts
<1>7. PICK more : more = Append(s, x)
  OBVIOUS
<1>8. /\ IsSeq(more) /\ more # <<>> /\ Len(more) = n + 1
      /\ (\A i \in 1 .. n : more[i] = s[i]) /\ more[n + 1] = x
  BY <1>1, <1>7, AppendSeq
<1>9. Append(t, x) = Tail(more)
  <2>1. PICK u : u = Append(t, x)
    OBVIOUS
  <2>2. /\ IsSeq(u) /\ Len(u) = n /\ (\A i \in 1 .. (n - 1) : u[i] = t[i]) /\ u[n] = x
    BY <1>2, <1>4, <2>1, AppendSeq
  <2>3. PICK v : v = Tail(more)
    OBVIOUS
  <2>4. IsSeq(v) /\ Len(v) = n /\ \A i \in 1 .. n : v[i] = more[i + 1]
    <3>1. (n + 1) - 1 = n
      BY <1>2
    <3> QED
      BY <1>8, <2>3, <3>1, TailSeq
  <2>5. \A i \in 1 .. n : i = n \/ (i \in 1 .. (n - 1) /\ i + 1 \in 1 .. n)
    BY <1>2
  <2>6. \A i \in 1 .. n : u[i] = v[i]
    BY <1>4, <1>8, <2>2, <2>4, <2>5, ZenonT(60)
  <2>7. u = v
    BY <2>2, <2>4, <2>6, SameSeq
  <2> QED
    BY <2>1, <2>3, <2>7
<1>10. more = <<s[1]>> \o Append(t, x)
  BY <1>4, <1>5, <1>7, JoinsAppend
<1>11. n + 1 # 1
  BY <1>2
<1> QED
  BY <1>1, <1>2, <1>3, <1>4, <1>5, <1>6, <1>7, <1>8, <1>9, <1>10, <1>11

----------------------------------------------------------------------------
(* A call that waits, with one more part,                                   *)
IsFilled(g, f, tree) ==
  /\ g.node = f.node /\ g.pos = f.pos /\ g.min_prec = f.min_prec
  /\ g.parts = Append(f.parts, tree)

(* ... and the node it makes of it.                                         *)
Made(f, tree) == Tree(f.node, f.pos, Append(f.parts, tree))

(* Few parts.                                                               *)
LEMMA TwoParts ==
  \A x, y : <<x>> \o Append(<<>>, y) = <<x, y>>
<1> TAKE x, y
<1>1. PICK one : one = <<x>>
  OBVIOUS
<1>2. PICK two : two = <<x, y>>
  OBVIOUS
<1>3. PICK other : other = <<y>>
  OBVIOUS
<1>4. Append(<<>>, y) = other
  BY <1>3
<1>5. IsSeq(other) /\ Len(other) = 1 /\ other[1] = y
  BY <1>3, ShortSeqs
<1>6. PICK both : both = <<x>> \o other
  OBVIOUS
<1>7. IsSeq(both) /\ Len(both) = 1 + 1 /\ both[1] = x /\ both[1 + 1] = y
  BY <1>5, <1>6, ConsSeq
<1>8. two \in Seq({x, y}) /\ Len(two) = 2 /\ two[1] = x /\ two[2] = y
  BY <1>2
<1>9. IsSeq(two)
  BY <1>8, SeqOfItsOwn
<1>10. \A i \in 1 .. 2 : i = 1 \/ i = 2
  OBVIOUS
<1>11. both = two
  BY <1>7, <1>8, <1>9, <1>10, SameSeq
<1> QED
  BY <1>2, <1>4, <1>6, <1>11

(* A sequence of some length.                                               *)
HasLen(s, n) == IsSeq(s) /\ n = Len(s)

(* What is appended comes last,                                             *)
LEMMA AppendPlaces ==
  ASSUME NEW s, NEW n, NEW x, HasLen(s, n)
  PROVE  HasLen(Append(s, x), n + 1) /\ Append(s, x)[n + 1] = x
<1>1. IsSeq(s) /\ n = Len(s)
  BY DEF HasLen
<1>2. PICK more : more = Append(s, x)
  OBVIOUS
<1>3. IsSeq(more) /\ Len(more) = n + 1 /\ (\A i \in 1 .. n : more[i] = s[i]) /\ more[n + 1] = x
  BY <1>1, <1>2, AppendSeq
<1> QED
  BY <1>2, <1>3 DEF HasLen

(* ... second after one,                                                    *)
LEMMA SecondIs ==
  ASSUME NEW s, HasLen(s, 1), NEW x
  PROVE  HasLen(Append(s, x), 2) /\ Append(s, x)[2] = x
<1>1. PICK n : n = Len(s)
  OBVIOUS
<1>2. IsSeq(s)
  BY DEF HasLen
<1>3. PICK more : more = Append(s, x)
  OBVIOUS
<1>4. IsSeq(more) /\ Len(more) = n + 1 /\ more[n + 1] = x
  BY <1>1, <1>2, <1>3, AppendSeq
<1>5. n + 1 = 2
  <2>1. n = 1
    BY <1>1 DEF HasLen
  <2> QED
    BY <2>1
<1> QED
  BY <1>3, <1>4, <1>5 DEF HasLen

(* ... behind what was there,                                               *)
LEMMA AppendKeeps ==
  ASSUME NEW s, NEW n, NEW x, HasLen(s, n), NEW i \in 1 .. n
  PROVE  Append(s, x)[i] = s[i]
<1>1. IsSeq(s) /\ n = Len(s)
  BY DEF HasLen
<1>2. PICK more : more = Append(s, x)
  OBVIOUS
<1>3. \A k \in 1 .. n : more[k] = s[k]
  BY <1>1, <1>2, AppendSeq
<1> QED
  BY <1>2, <1>3

(* ... third after two.                                                     *)
LEMMA ThreeParts ==
  ASSUME NEW s, HasLen(s, 2), NEW x
  PROVE  Append(s, x) = <<s[1], s[2], x>>
<1>1. PICK three : three = <<s[1], s[2], x>>
  OBVIOUS
<1>2. /\ three \in Seq({s[1], s[2], x}) /\ Len(three) = 3
      /\ three[1] = s[1] /\ three[2] = s[2] /\ three[3] = x
  BY <1>1
<1>3. IsSeq(three)
  BY <1>2, SeqOfItsOwn
<1>4. PICK more : more = Append(s, x)
  OBVIOUS
<1>5. HasLen(more, 2 + 1) /\ more[2 + 1] = x
  <2>1. HasLen(Append(s, x), 2 + 1)
    BY AppendPlaces
  <2>2. Append(s, x)[2 + 1] = x
    BY AppendPlaces
  <2> QED
    BY <1>4, <2>1, <2>2
<1>9. \A i \in 1 .. 2 : more[i] = s[i]
  <2>1. \A i \in 1 .. 2 : Append(s, x)[i] = s[i]
    BY AppendKeeps
  <2> QED
    BY <1>4, <2>1, Zenon
<1>6. 2 + 1 = 3 /\ 1 \in 1 .. 2 /\ 2 \in 1 .. 2 /\ \A i \in 1 .. 3 : i = 1 \/ i = 2 \/ i = 3
  OBVIOUS
<1>7. IsSeq(more) /\ Len(more) = 3
  BY <1>5, <1>6 DEF HasLen
<1>8. more = three
  BY <1>2, <1>3, <1>5, <1>6, <1>7, <1>9, SameSeq
<1> QED
  BY <1>1, <1>4, <1>8

(* A call that has its left operand,                                        *)
LEMMA LeadsAre ==
  ASSUME NEW src, NEW f, NEW s, Leads(src, f, s)
  PROVE  /\ f.pos \in Nat \ {0} /\ Fits(src, s, f.pos - 1, f.min_prec) /\ IsSeq(f.parts)
         /\ f.parts # <<>> /\ IsSeq(Tail(f.parts))
         /\ Len(f.parts) = 1 <=> Tail(f.parts) = <<>>
         /\ f.parts = <<Meaning(src, s, f.pos - 1)>> \o Tail(f.parts)
<1>1. /\ f.pos \in Nat \ {0} /\ Fits(src, s, f.pos - 1, f.min_prec)
      /\ IsSeq(f.parts) /\ f.parts # <<>> /\ f.parts[1] = Meaning(src, s, f.pos - 1)
  BY DEF Leads
<1>2. PICK parts : parts = f.parts
  OBVIOUS
<1>3. /\ IsSeq(Tail(parts)) /\ parts = <<parts[1]>> \o Tail(parts)
      /\ Len(parts) = 1 <=> Tail(parts) = <<>>
  BY <1>1, <1>2, TailAppend
<1> QED
  BY <1>1, <1>2, <1>3

(* ... gets a part                                                          *)
LEMMA LeadsMore ==
  ASSUME NEW src, NEW f, NEW s, Leads(src, f, s), NEW tree
  PROVE  Append(f.parts, tree) = <<Meaning(src, s, f.pos - 1)>> \o Append(Tail(f.parts), tree)
<1>1. IsSeq(f.parts) /\ f.parts # <<>> /\ f.parts[1] = Meaning(src, s, f.pos - 1)
  BY DEF Leads
<1>2. PICK parts : parts = f.parts
  OBVIOUS
<1>3. Append(parts, tree) = <<parts[1]>> \o Append(Tail(parts), tree)
  BY <1>1, <1>2, TailAppend
<1> QED
  BY <1>1, <1>2, <1>3

(* ... and still has it.                                                    *)
LEMMA LeadsFilled ==
  ASSUME NEW src, NEW f, NEW s, Leads(src, f, s), NEW tree, NEW g, IsFilled(g, f, tree)
  PROVE  /\ Leads(src, g, s) /\ Tail(g.parts) = Append(Tail(f.parts), tree)
         /\ Len(g.parts) # 1
<1>1. /\ f.pos \in Nat \ {0} /\ Fits(src, s, f.pos - 1, f.min_prec)
      /\ IsSeq(f.parts) /\ f.parts # <<>> /\ f.parts[1] = Meaning(src, s, f.pos - 1)
  BY DEF Leads
<1>2. PICK parts : parts = f.parts
  OBVIOUS
<1>3. /\ Append(parts, tree)[1] = parts[1]
      /\ Tail(Append(parts, tree)) = Append(Tail(parts), tree)
      /\ Len(Append(parts, tree)) # 1
  BY <1>1, <1>2, TailAppend
<1>4. IsSeq(Append(parts, tree)) /\ Append(parts, tree) # <<>>
  BY <1>1, <1>2, AppendSeq
<1>5. g.pos = f.pos /\ g.min_prec = f.min_prec /\ g.parts = Append(parts, tree)
  BY <1>2 DEF IsFilled
<1> QED
  BY <1>1, <1>2, <1>3, <1>4, <1>5 DEF Leads

(* What a call waits for has been read.                                     *)
Answered(src, f, s, o, tree, c) ==
  /\ Waits(src, f, s, o) /\ s \in Nat \ {0} /\ o \in Nat \ {0} /\ c \in Nat \ {0}
  /\ Reads(src, tree, o, c - 1, PartMin(src, f)) /\ Precedence(src[c]) <= PartMin(src, f)
  /\ f.min_prec \in Nat

(* What a call waits for has been read.                                     *)
LEMMA AnsweredIs ==
  ASSUME NEW src, NEW f, NEW s, NEW o, NEW tree, NEW c, Answered(src, f, s, o, tree, c)
  PROVE  /\ Waits(src, f, s, o) /\ s \in Nat \ {0} /\ o \in Nat \ {0} /\ c \in Nat \ {0}
         /\ c - 1 \in Nat /\ (c - 1) + 1 = c /\ c \in Int /\ c - 1 \in Int
         /\ Fits(src, o, c - 1, PartMin(src, f)) /\ tree = Meaning(src, o, c - 1)
         /\ Precedence(src[c]) <= PartMin(src, f) /\ o <= c - 1 /\ f.min_prec \in Nat
         /\ IsWithin(src, c - 1)
<1>1. /\ Waits(src, f, s, o) /\ s \in Nat \ {0} /\ o \in Nat \ {0} /\ c \in Nat \ {0}
      /\ Fits(src, o, c - 1, PartMin(src, f)) /\ tree = Meaning(src, o, c - 1)
      /\ Precedence(src[c]) <= PartMin(src, f) /\ f.min_prec \in Nat
  BY DEF Answered, Reads
<1>2. o <= c - 1 /\ IsWithin(src, c - 1)
  BY <1>1, FitsIs
<1>3. c - 1 \in Nat /\ (c - 1) + 1 = c /\ c \in Int /\ c - 1 \in Int
  BY <1>1
<1> QED
  BY <1>1, <1>2, <1>3

(* The node that is made of it: of a prefix operator,                       *)
LEMMA UnaryMade ==
  ASSUME NEW src, IsSource(src), NEW f, f.node = "unary", NEW s, NEW o, NEW tree, NEW c,
         Answered(src, f, s, o, tree, c)
  PROVE  Reads(src, Made(f, tree), s, c - 1, f.min_prec)
<1>1. /\ s \in Nat \ {0} /\ (c - 1) + 1 = c
      /\ Fits(src, o, c - 1, PartMin(src, f)) /\ tree = Meaning(src, o, c - 1)
      /\ Precedence(src[c]) <= PartMin(src, f)
  BY AnsweredIs
<1>2. BeginsAt(src, f, s) /\ src[s] \in PrefixOperators /\ o = s + 1
  BY AnsweredIs DEF Waits
<1>3. PartMin(src, f) = PREFIX_PRECEDENCE
  BY DEF PartMin
<1>4. UnarySpan(src, s, c - 1)
  BY <1>1, <1>2, <1>3 DEF UnarySpan, BeginsAt
<1>5. Reads(src, Tree("unary", s, <<Meaning(src, s + 1, c - 1)>>), s, c - 1, f.min_prec)
  BY <1>4, UnaryReads
<1>6. Append(<<>>, tree) = <<tree>>
  OBVIOUS
<1> QED
  BY <1>1, <1>2, <1>5, <1>6 DEF Made, BeginsAt

(* ... a cast,                                                              *)
LEMMA CastMade ==
  ASSUME NEW src, IsSource(src), NEW f, f.node = "cast", NEW s, NEW o, NEW tree, NEW c,
         Answered(src, f, s, o, tree, c)
  PROVE  Reads(src, Made(f, tree), s, c - 1, f.min_prec)
<1>1. /\ s \in Nat \ {0} /\ (c - 1) + 1 = c
      /\ Fits(src, o, c - 1, PartMin(src, f)) /\ tree = Meaning(src, o, c - 1)
      /\ Precedence(src[c]) <= PartMin(src, f)
  BY AnsweredIs
<1>2. BeginsAt(src, f, s) /\ o = s + 3
  BY AnsweredIs DEF Waits
<1>3. src[s] = "(" /\ src[s + 1] = "#cast<T>" /\ src[s + 2] = ")"
  BY AnsweredIs DEF Waits
<1>4. PartMin(src, f) = 0
  BY DEF PartMin
<1>5. CastSpan(src, s, c - 1)
  BY <1>1, <1>2, <1>3, <1>4 DEF CastSpan, BeginsAt
<1>6. Reads(src, Tree("cast", s, <<Meaning(src, s + 3, c - 1)>>), s, c - 1, f.min_prec)
  BY <1>5, CastReads
<1>7. Append(<<>>, tree) = <<tree>>
  OBVIOUS
<1> QED
  BY <1>1, <1>2, <1>6, <1>7 DEF Made, BeginsAt

(* ... an operator,                                                         *)
LEMMA InfixMade ==
  ASSUME NEW src, IsSource(src), NEW f, f.node = "infix", NEW s, NEW o, NEW tree, NEW c,
         Answered(src, f, s, o, tree, c)
  PROVE  Reads(src, Made(f, tree), s, c - 1, f.min_prec)
<1>1. /\ (c - 1) + 1 = c /\ f.min_prec \in Nat
      /\ Fits(src, o, c - 1, PartMin(src, f)) /\ tree = Meaning(src, o, c - 1)
      /\ Precedence(src[c]) <= PartMin(src, f)
  BY AnsweredIs
<1>2. /\ Leads(src, f, s) /\ Len(f.parts) = 1 /\ o = f.pos + 1
      /\ src[f.pos] \in BinaryOperators \cup AssignOperators
      /\ Precedence(src[f.pos]) > f.min_prec
  BY AnsweredIs DEF Waits, WaitsInfix
<1>3. PartMin(src, f) = MinRhsPrec(src[f.pos])
  BY DEF PartMin
<1>4. PICK p : p = f.pos
  OBVIOUS
<1>5. /\ p \in Nat \ {0} /\ Fits(src, s, p - 1, f.min_prec) /\ Tail(f.parts) = <<>>
      /\ Append(f.parts, tree) = <<Meaning(src, s, p - 1)>> \o Append(Tail(f.parts), tree)
  <2>1. Leads(src, f, s) /\ Len(f.parts) = 1
    BY <1>2
  <2>2. /\ f.pos \in Nat \ {0} /\ Fits(src, s, f.pos - 1, f.min_prec)
        /\ (Len(f.parts) = 1 <=> Tail(f.parts) = <<>>)
        /\ Append(f.parts, tree)
             = <<Meaning(src, s, f.pos - 1)>> \o Append(Tail(f.parts), tree)
    BY <2>1, LeadsAre, LeadsMore
  <2> QED
    BY <1>4, <2>1, <2>2
<1>6. IsMiddle(src, p, p)
  BY <1>2, <1>4 DEF IsMiddle
<1>7. InfixSpan(src, s, p, c - 1, f.min_prec)
  BY <1>1, <1>2, <1>3, <1>4, <1>5, <1>6 DEF InfixSpan, Joined
<1>8. Reads(src, Tree("infix", p, <<Meaning(src, s, p - 1), Meaning(src, p + 1, c - 1)>>),
            s, c - 1, f.min_prec)
  BY <1>7, InfixReads
<1>9. Append(f.parts, tree) = <<Meaning(src, s, p - 1), tree>>
  BY <1>5, TwoParts
<1> QED
  BY <1>1, <1>2, <1>4, <1>8, <1>9 DEF Made

(* ... or an initializer, is what its tokens mean.                          *)
LEMMA CreateMade ==
  ASSUME NEW src, IsSource(src), NEW f, f.node = "create", NEW s, NEW o, Waits(src, f, s, o),
         NEW tree, NEW j, ReadsBraces(src, tree, o, j)
  PROVE  Reads(src, Made(f, tree), s, j, f.min_prec)
<1>1. Leads(src, f, s) /\ Len(f.parts) = 1 /\ o = f.pos
  BY DEF Waits, WaitsCreate
<1>2. PICK p : p = f.pos
  OBVIOUS
<1>3. /\ p \in Nat \ {0} /\ Fits(src, s, p - 1, f.min_prec) /\ Tail(f.parts) = <<>>
      /\ Append(f.parts, tree) = <<Meaning(src, s, p - 1)>> \o Append(Tail(f.parts), tree)
  <2>1. /\ f.pos \in Nat \ {0} /\ Fits(src, s, f.pos - 1, f.min_prec)
        /\ Len(f.parts) = 1 <=> Tail(f.parts) = <<>>
        /\ Append(f.parts, tree)
             = <<Meaning(src, s, f.pos - 1)>> \o Append(Tail(f.parts), tree)
    BY <1>1, LeadsAre, LeadsMore
  <2> QED
    BY <1>1, <1>2, <2>1
<1>4. ReadsBraces(src, tree, p, j)
  BY <1>1, <1>2
<1>5. Reads(src, Tree("create", p, <<Meaning(src, s, p - 1), tree>>), s, j, f.min_prec)
  BY <1>3, <1>4, CreateReads
<1>6. Append(f.parts, tree) = <<Meaning(src, s, p - 1), tree>>
  BY <1>3, TwoParts
<1> QED
  BY <1>2, <1>5, <1>6 DEF Made

(* The token that comes after the answer.                                   *)
AnsweredBy(src, f, s, o, tree, c, tok) ==
  Answered(src, f, s, o, tree, c) /\ IsWithin(src, c) /\ src[c] = tok

(* What was in parentheses means what the parentheses mean.                 *)
LEMMA ParenMade ==
  ASSUME NEW src, IsSource(src), NEW f, f.node = "paren", NEW s, NEW o, NEW tree, NEW c,
         AnsweredBy(src, f, s, o, tree, c, ")"), NEW m
  PROVE  Reads(src, tree, s, c, m)
<1>1. Answered(src, f, s, o, tree, c) /\ IsWithin(src, c)
  BY DEF AnsweredBy
<1>2. src[c] = ")"
  BY DEF AnsweredBy
<1>3. /\ s \in Nat \ {0} /\ c \in Nat \ {0} /\ Waits(src, f, s, o)
      /\ Fits(src, o, c - 1, PartMin(src, f)) /\ tree = Meaning(src, o, c - 1)
  BY <1>1, AnsweredIs
<1>4. BeginsAt(src, f, s) /\ src[s] = "(" /\ o = s + 1
  BY <1>3 DEF Waits
<1>5. c \in Nat
  BY <1>3
<1>6. ParenSpan(src, s, c, PartMin(src, f))
  BY <1>1, <1>2, <1>3, <1>4, <1>5 DEF ParenSpan, BeginsAt
<1>7. Reads(src, Meaning(src, s + 1, c - 1), s, c, m)
  BY <1>6, ParenReads
<1> QED
  BY <1>3, <1>4, <1>7

(* The middle of a ternary,                                                 *)
LEMMA TernaryHalf ==
  ASSUME NEW src, IsSource(src), NEW f, f.node = "ternary", Len(f.parts) = 1, NEW s, NEW o,
         NEW tree, NEW c, AnsweredBy(src, f, s, o, tree, c, ":"), NEW g, IsFilled(g, f, tree)
  PROVE  Waits(src, g, s, c + 1) /\ Len(g.parts) = 2
<1>1. Answered(src, f, s, o, tree, c) /\ IsWithin(src, c)
  BY DEF AnsweredBy
<1>2. src[c] = ":"
  BY DEF AnsweredBy
<1>3. /\ c \in Int /\ (c + 1) - 1 = c /\ (c + 1) - 2 = c - 1 /\ o <= c - 1 /\ c - 1 \in Int
      /\ Waits(src, f, s, o) /\ Fits(src, o, c - 1, PartMin(src, f))
      /\ tree = Meaning(src, o, c - 1)
  <2>1. /\ c \in Int /\ o <= c - 1 /\ c - 1 \in Int
        /\ Waits(src, f, s, o) /\ Fits(src, o, c - 1, PartMin(src, f))
        /\ tree = Meaning(src, o, c - 1)
    BY <1>1, AnsweredIs
  <2>2. (c + 1) - 1 = c /\ (c + 1) - 2 = c - 1
    BY <2>1
  <2> QED
    BY <2>1, <2>2
<1>4. Leads(src, f, s) /\ src[f.pos] = "?" /\ Precedence(src[f.pos]) > f.min_prec /\ o = f.pos + 1
  <2>1. WaitsTernary(src, f, s, o)
    BY <1>3 DEF Waits
  <2> QED
    BY <2>1 DEF WaitsTernary
<1>5. Leads(src, g, s) /\ g.pos = f.pos /\ g.min_prec = f.min_prec /\ g.node = "ternary"
      /\ g.parts = Append(f.parts, tree)
  BY <1>4, LeadsFilled DEF IsFilled
<1>6. Len(g.parts) = 2 /\ g.parts[2] = tree
  <2>1. IsSeq(f.parts)
    BY <1>4, LeadsAre
  <2>2. HasLen(f.parts, 1)
    BY <2>1 DEF HasLen
  <2>3. HasLen(Append(f.parts, tree), 2) /\ Append(f.parts, tree)[2] = tree
    BY <2>2, SecondIs, Zenon
  <2>4. HasLen(g.parts, 2) /\ g.parts[2] = tree
    BY <1>5, <2>3, Zenon
  <2> QED
    BY <2>4 DEF HasLen
<1>7. Group(src, f.pos, c)
  <2>1. f.pos < c
    <3>1. f.pos \in Nat \ {0}
      BY <1>4, LeadsAre
    <3>2. f.pos + 1 <= c - 1
      BY <1>3, <1>4
    <3> QED
      BY <1>3, <3>1, <3>2
  <2>2. Even(src, f.pos + 1, c - 1)
    BY <1>3, <1>4, FitsIs
  <2>3. src[f.pos] \in Opening /\ src[c] \in Closing
    BY <1>2, <1>4, PlainTokens
  <2> QED
    BY <2>1, <2>2, <2>3 DEF Group
<1>8. f.pos + 1 <= c - 1
  BY <1>3, <1>4
<1>9. tree = Meaning(src, f.pos + 1, c - 1)
  BY <1>3, <1>4
<1>10. WaitsTernary(src, g, s, c + 1)
  BY <1>3, <1>4, <1>5, <1>6, <1>7, <1>8, <1>9 DEF WaitsTernary
<1> QED
  BY <1>5, <1>6, <1>10 DEF Waits

(* ... and its end.                                                         *)
LEMMA TernaryMade ==
  ASSUME NEW src, IsSource(src), NEW f, f.node = "ternary", Len(f.parts) = 2, NEW s, NEW o,
         NEW tree, NEW c, Answered(src, f, s, o, tree, c)
  PROVE  Reads(src, Made(f, tree), s, c - 1, f.min_prec)
<1>1. /\ (c - 1) + 1 = c /\ f.min_prec \in Nat /\ o \in Nat \ {0} /\ Waits(src, f, s, o)
      /\ Fits(src, o, c - 1, PartMin(src, f)) /\ tree = Meaning(src, o, c - 1)
      /\ Precedence(src[c]) <= PartMin(src, f) /\ o <= c - 1 /\ IsWithin(src, c - 1)
      /\ c - 1 \in Int
  BY AnsweredIs
<1>2. PICK q : q = o - 1
  OBVIOUS
<1>3. q \in Nat /\ q + 1 = o /\ q - 1 = o - 2 /\ q <= c - 1 /\ q \in Int
  BY <1>1, <1>2
<1>4. WaitsTernary(src, f, s, o)
  BY <1>1 DEF Waits
<1>5. Leads(src, f, s) /\ src[f.pos] = "?" /\ Precedence(src[f.pos]) > f.min_prec
  BY <1>4 DEF WaitsTernary
<1>6. f.pos + 1 <= q - 1 /\ Group(src, f.pos, q) /\ f.parts[2] = Meaning(src, f.pos + 1, q - 1)
  <2>1. 2 # 1
    OBVIOUS
  <2>2. /\ f.pos + 1 <= o - 2 /\ Group(src, f.pos, o - 1)
        /\ f.parts[2] = Meaning(src, f.pos + 1, o - 2)
    BY <1>4, <2>1 DEF WaitsTernary
  <2> QED
    BY <1>2, <1>3, <2>2
<1>7. PartMin(src, f) = MinRhsPrec("?")
  <2>1. PartMin(src, f) = Precedence("?") - 1
    BY Zenon DEF PartMin
  <2>2. IsRightAssociative("?")
    BY DEF IsRightAssociative
  <2> QED
    BY <2>1, <2>2 DEF MinRhsPrec
<1>8. f.pos \in Nat \ {0} /\ Fits(src, s, f.pos - 1, f.min_prec) /\ IsSeq(f.parts)
      /\ f.parts[1] = Meaning(src, s, f.pos - 1)
  BY <1>5, LeadsAre DEF Leads
<1>9. IsMiddle(src, f.pos, q)
  BY <1>5, <1>6 DEF IsMiddle
<1>10. Joined(src, s, f.pos, q, c - 1, f.min_prec)
  BY <1>1, <1>3, <1>5, <1>7, <1>8, <1>9 DEF Joined
<1>11. IsWithin(src, q)
  BY <1>1, <1>3, WithinLess
<1>12. TernarySpan(src, s, f.pos, q, c - 1, f.min_prec)
  BY <1>1, <1>3, <1>5, <1>6, <1>8, <1>10, <1>11 DEF TernarySpan
<1>13. Reads(src, Tree("ternary", f.pos,
                       <<Meaning(src, s, f.pos - 1), Meaning(src, f.pos + 1, q - 1),
                         Meaning(src, q + 1, c - 1)>>), s, c - 1, f.min_prec)
  BY <1>12, TernaryReads
<1>14. tree = Meaning(src, q + 1, c - 1)
  BY <1>1, <1>3
<1>15. Append(f.parts, tree) = <<f.parts[1], f.parts[2], tree>>
  <2>1. HasLen(f.parts, 2)
    BY <1>8 DEF HasLen
  <2> QED
    BY <2>1, ThreeParts
<1> QED
  BY <1>6, <1>8, <1>13, <1>14, <1>15 DEF Made

(* Places.                                                                  *)
LEMMA Nearby ==
  \A c \in Nat \ {0} :
    /\ c - 1 \in Nat /\ (c - 1) + 1 = c /\ (c - 1) + 2 = c + 1 /\ c + 1 \in Nat \ {0}
    /\ (c + 1) - 1 = c /\ c \in Nat /\ c \in Int /\ (c + 1) - 2 = c - 1 /\ (c + 2) - 1 = c + 1
    /\ (c + 2) - 2 = c /\ c + 2 \in Nat \ {0} /\ c + 1 + 1 = c + 2
    /\ c + 3 \in Nat \ {0} /\ (c + 3) - 3 = c /\ (c + 3) - 2 = c + 1 /\ (c + 3) - 1 = c + 2
OBVIOUS

(* The items of a list that are read, and the one just read.                *)
LEMMA NextIsFirst ==
  ASSUME NEW src, NEW b, NEW a, NEW skipped, NextAt(src, <<>>, b, a, skipped)
  PROVE  a = b
BY DEF NextAt, ItemsTo

(* An argument is the next item of the list.                                *)
LEMMA CallItems ==
  ASSUME NEW src, IsSource(src), NEW f, f.node = "call", NEW s, NEW o, NEW tree, NEW c,
         Answered(src, f, s, o, tree, c)
  PROVE  /\ Leads(src, f, s) /\ src[f.pos] = "(" /\ src[f.pos + 1] \in Starts
         /\ ItemsTo(src, Append(Tail(f.parts), tree), f.pos + 1, c - 1, 0)
<1>1. /\ Waits(src, f, s, o) /\ o \in Nat \ {0} /\ c - 1 \in Nat
      /\ Fits(src, o, c - 1, PartMin(src, f)) /\ tree = Meaning(src, o, c - 1)
      /\ o <= c - 1 /\ IsWithin(src, c - 1)
  BY AnsweredIs
<1>2. /\ Leads(src, f, s) /\ src[f.pos] = "("
      /\ NextAt(src, Tail(f.parts), f.pos + 1, o, 0)
      /\ Len(f.parts) # 1 => src[f.pos + 1] \in Starts
  BY <1>1 DEF Waits, WaitsCall
<1>3. f.pos \in Nat \ {0} /\ (Len(f.parts) = 1 <=> Tail(f.parts) = <<>>)
  BY <1>2, LeadsAre
<1>4. src[o] \in Starts /\ Even(src, o, c - 1) /\ Commaless(src, o, c - 1)
  BY <1>1, FitsIs
<1>5. src[f.pos + 1] \in Starts
  <2>1. CASE Tail(f.parts) = <<>>
    <3>1. o = f.pos + 1
      BY <1>2, <2>1, NextIsFirst
    <3> QED
      BY <1>4, <3>1
  <2>2. CASE Tail(f.parts) # <<>>
    BY <1>2, <1>3, <2>2
  <2> QED
    BY <2>1, <2>2
<1>6. PICK b : b = f.pos + 1
  OBVIOUS
<1>7. PICK j : j = c - 1
  OBVIOUS
<1>8. PICK parts : parts = Tail(f.parts)
  OBVIOUS
<1>9. NextAt(src, parts, b, o, 0)
  BY <1>2, <1>6, <1>8
<1>10. /\ b \in Nat \ {0} /\ j \in Nat /\ 0 \in Nat /\ o + 0 <= j /\ o + 0 = o
       /\ IsWithin(src, j) /\ Even(src, o, j) /\ Commaless(src, o, j)
       /\ tree = Meaning(src, o, j)
  <2>1. b \in Nat \ {0}
    BY <1>3, <1>6
  <2>2. o + 0 <= j /\ o + 0 = o
    BY <1>1, <1>7
  <2> QED
    BY <1>1, <1>4, <1>7, <2>1, <2>2
<1>11. ItemsTo(src, Append(parts, Meaning(src, o + 0, j)), b, j, 0)
  BY <1>9, <1>10, ItemRead
<1>12. ItemsTo(src, Append(parts, tree), b, j, 0)
  BY <1>10, <1>11
<1> QED
  BY <1>2, <1>5, <1>6, <1>7, <1>8, <1>12

(* An argument and a comma,                                                 *)
LEMMA CallMore ==
  ASSUME NEW src, IsSource(src), NEW f, f.node = "call", NEW s, NEW o, NEW tree, NEW c,
         AnsweredBy(src, f, s, o, tree, c, ","), NEW g, IsFilled(g, f, tree)
  PROVE  WaitsCall(src, g, s, c + 1)
<1>1. Answered(src, f, s, o, tree, c)
  BY DEF AnsweredBy
<1>2. src[c] = ","
  BY DEF AnsweredBy
<1>3. /\ Leads(src, f, s) /\ src[f.pos] = "(" /\ src[f.pos + 1] \in Starts
      /\ ItemsTo(src, Append(Tail(f.parts), tree), f.pos + 1, c - 1, 0)
  BY <1>1, CallItems
<1>4. Leads(src, f, s)
  BY <1>3
<1>5. Leads(src, g, s) /\ Tail(g.parts) = Append(Tail(f.parts), tree)
  BY <1>4, LeadsFilled
<1>6. g.pos = f.pos
  BY DEF IsFilled
<1>7. f.pos \in Nat \ {0}
  BY <1>4, LeadsAre
<1>8. c - 1 \in Nat /\ (c - 1) + 1 = c /\ (c - 1) + 2 = c + 1
  <2>1. c \in Nat \ {0}
    BY <1>1, AnsweredIs
  <2> QED
    BY <2>1, Nearby
<1>9. f.pos + 1 \in Nat \ {0}
  BY <1>7, Nearby
<1>10. NextAt(src, Tail(g.parts), f.pos + 1, (c - 1) + 2, 0)
  <2>1. src[(c - 1) + 1] = ","
    BY <1>2, <1>8
  <2> QED
    BY <1>3, <1>5, <1>8, <1>9, <2>1, CommaRead
<1> QED
  BY <1>3, <1>5, <1>6, <1>8, <1>10 DEF WaitsCall

(* ... or the end of the call.                                              *)
LEMMA CallMade ==
  ASSUME NEW src, IsSource(src), NEW f, f.node = "call", NEW s, NEW o, NEW tree, NEW c,
         AnsweredBy(src, f, s, o, tree, c, ")"), NEW m
  PROVE  Reads(src, Made(f, tree), s, c, m)
<1>1. Answered(src, f, s, o, tree, c) /\ IsWithin(src, c)
  BY DEF AnsweredBy
<1>2. src[c] = ")"
  BY DEF AnsweredBy
<1>3. /\ Leads(src, f, s) /\ src[f.pos] = "(" /\ src[f.pos + 1] \in Starts
      /\ ItemsTo(src, Append(Tail(f.parts), tree), f.pos + 1, c - 1, 0)
  BY <1>1, CallItems
<1>4. f.pos \in Nat \ {0} /\ Fits(src, s, f.pos - 1, f.min_prec)
      /\ Append(f.parts, tree) = <<Meaning(src, s, f.pos - 1)>> \o Append(Tail(f.parts), tree)
  BY <1>3, LeadsAre, LeadsMore, ZenonT(60)
<1>5. /\ f.pos + 1 <= c - 1 /\ Even(src, f.pos + 1, c - 1)
      /\ TreesRead(src, Append(Tail(f.parts), tree), Items(src, f.pos + 1, c - 1, 0),
                   f.pos + 1, c - 1)
  BY <1>3 DEF ItemsTo
<1>6. c \in Nat /\ c - 1 \in Int /\ (c - 1) + 1 = c /\ Fits(src, o, c - 1, PartMin(src, f))
  <2>1. c \in Nat \ {0}
    BY <1>1, AnsweredIs
  <2> QED
    BY <1>1, <2>1, AnsweredIs
<1>7. f.pos < c
  BY <1>4, <1>5, <1>6
<1>8. Group(src, f.pos, c)
  BY <1>2, <1>3, <1>5, <1>7, PlainTokens DEF Group
<1>9. src[c - 1] # "#cast<T>"
  <2>1. IsAfterOperand(src, (c - 1) + 1)
    BY <1>6, FitsIs
  <2>2. src[c - 1] \in {"x", "1", "]", "}", ")", "++", "--"}
    BY <1>6, <2>1, AfterWhat
  <2> QED
    BY <2>2
<1>10. src[f.pos + 1] # "#cast<T>"
  BY <1>3, PlainTokens
<1>11. CallSpan(src, s, f.pos, c, f.min_prec)
  BY <1>1, <1>2, <1>3, <1>4, <1>6, <1>8, <1>9, <1>10 DEF CallSpan
<1>12. Reads(src, Tree("call", f.pos,
                       <<Meaning(src, s, f.pos - 1)>> \o Append(Tail(f.parts), tree)),
             s, c, m)
  BY <1>5, <1>11, CallReads
<1> QED
  BY <1>4, <1>12 DEF Made

(* A call of nothing.                                                       *)
EmptyCall(src, f, s, c) ==
  /\ f.node = "call" /\ Leads(src, f, s) /\ Len(f.parts) = 1 /\ c = f.pos + 1
  /\ src[f.pos] = "(" /\ src[c] = ")" /\ IsWithin(src, c)

(* A call without arguments means what it says.                             *)
LEMMA CallEmpty ==
  ASSUME NEW src, IsSource(src), NEW f, NEW s, NEW c, EmptyCall(src, f, s, c), NEW m
  PROVE  Reads(src, Built(f), s, c, m)
<1>1. f.node = "call" /\ Leads(src, f, s) /\ Len(f.parts) = 1 /\ c = f.pos + 1 /\ IsWithin(src, c)
  BY DEF EmptyCall
<1>2. src[f.pos] = "(" /\ src[c] = ")"
  BY DEF EmptyCall
<1>3. /\ f.pos \in Nat \ {0} /\ Fits(src, s, f.pos - 1, f.min_prec) /\ Tail(f.parts) = <<>>
      /\ f.parts = <<Meaning(src, s, f.pos - 1)>> \o Tail(f.parts)
  <2>1. /\ f.pos \in Nat \ {0} /\ Fits(src, s, f.pos - 1, f.min_prec)
        /\ Len(f.parts) = 1 <=> Tail(f.parts) = <<>>
        /\ f.parts = <<Meaning(src, s, f.pos - 1)>> \o Tail(f.parts)
    BY <1>1, LeadsAre
  <2> QED
    BY <1>1, <2>1
<1>4. PICK p : p = f.pos
  OBVIOUS
<1>5. /\ c = p + 1 /\ c \in Nat \ {0} /\ c \in Nat /\ c - 1 = p /\ p < c /\ p \in Int
      /\ p + 1 \in Nat \ {0}
      /\ (p + 1) - 1 = p
  BY <1>1, <1>3, <1>4
<1>6. Even(src, p + 1, c - 1)
  <2>1. p + 1 \in Int
    BY <1>5
  <2>2. Even(src, p + 1, (p + 1) - 1)
    BY <2>1, EvenEmpty
  <2> QED
    BY <1>5, <2>2
<1>7. Group(src, p, c)
  BY <1>2, <1>4, <1>5, <1>6, PlainTokens DEF Group
<1>8. src[p + 1] # "#cast<T>" /\ src[c - 1] # "#cast<T>"
  BY <1>2, <1>4, <1>5
<1>9. CallSpan(src, s, p, c, f.min_prec)
  BY <1>1, <1>2, <1>3, <1>4, <1>5, <1>7, <1>8 DEF CallSpan
<1>10. TreesRead(src, Tail(f.parts), Items(src, p + 1, c - 1, 0), p + 1, c - 1)
  <2>1. TreesRead(src, <<>>, Items(src, p + 1, (p + 1) - 1, 0), p + 1, (p + 1) - 1)
    BY <1>5, NoItems
  <2> QED
    BY <1>3, <1>5, <2>1
<1>11. Reads(src, Tree("call", p, <<Meaning(src, s, p - 1)>> \o Tail(f.parts)), s, c, m)
  BY <1>9, <1>10, CallReads
<1> QED
  BY <1>1, <1>3, <1>4, <1>11 DEF Built

----------------------------------------------------------------------------
(* A subscript.                                                             *)
LEMMA SubscriptMore ==
  ASSUME NEW src, IsSource(src), NEW f, f.node = "subscript", NEW s, NEW o, NEW tree, NEW c,
         AnsweredBy(src, f, s, o, tree, c, "]"), NEW g, IsFilled(g, f, tree)
  PROVE  /\ Leads(src, g, s) /\ src[g.pos] = "[" /\ g.pos <= c
         /\ RunTo(src, Tail(g.parts), g.pos, c)
<1>1. Answered(src, f, s, o, tree, c) /\ IsWithin(src, c)
  BY DEF AnsweredBy
<1>2. src[c] = "]"
  BY DEF AnsweredBy
<1>3. /\ Waits(src, f, s, o) /\ o \in Nat \ {0} /\ c - 1 \in Nat /\ c \in Int
      /\ Fits(src, o, c - 1, PartMin(src, f)) /\ tree = Meaning(src, o, c - 1)
      /\ o <= c - 1
  BY <1>1, AnsweredIs
<1>4. Leads(src, f, s) /\ f.pos <= o - 1 /\ RunTo(src, Tail(f.parts), f.pos, o - 2)
  BY <1>3 DEF Waits, WaitsSubscript
<1>5. src[f.pos] = "[" /\ src[o - 1] = "["
  BY <1>3 DEF Waits, WaitsSubscript
<1>6. f.pos \in Nat \ {0}
  BY <1>4, LeadsAre
<1>7. PICK e : e = o - 2
  OBVIOUS
<1>8. PICK p : p = f.pos
  OBVIOUS
<1>9. /\ e \in Nat /\ e + 1 = o - 1 /\ e + 2 = o /\ e + 2 <= c - 1 /\ c \in Nat /\ p <= c
      /\ p \in Nat \ {0} /\ e + 1 < c /\ (e + 1) + 1 = o
  BY <1>3, <1>4, <1>6, <1>7, <1>8
<1>10. Group(src, e + 1, c)
  <2>1. Even(src, (e + 1) + 1, c - 1)
    <3>1. Even(src, o, c - 1)
      BY <1>3, FitsIs
    <3> QED
      BY <1>9, <3>1
  <2>2. src[e + 1] \in Opening /\ src[c] \in Closing
    BY <1>2, <1>5, <1>9, PlainTokens
  <2> QED
    BY <1>9, <2>1, <2>2 DEF Group
<1>11. RunTo(src, Append(Tail(f.parts), tree), p, c)
  <2>1. src[e + 1] = "["
    BY <1>5, <1>9
  <2>2. tree = Meaning(src, e + 2, c - 1)
    BY <1>3, <1>9
  <2>3. PICK parts : parts = Tail(f.parts)
    OBVIOUS
  <2>4. RunTo(src, parts, p, e)
    BY <1>4, <1>7, <1>8, <2>3
  <2>5. RunTo(src, Append(parts, Meaning(src, e + 2, c - 1)), p, c)
    BY <1>1, <1>9, <1>10, <2>1, <2>4, RunGrows
  <2> QED
    BY <2>2, <2>3, <2>5
<1>12. Leads(src, g, s) /\ Tail(g.parts) = Append(Tail(f.parts), tree) /\ g.pos = f.pos
  <2>1. Leads(src, f, s)
    BY <1>4
  <2>2. Leads(src, g, s) /\ Tail(g.parts) = Append(Tail(f.parts), tree)
    BY <2>1, LeadsFilled
  <2>3. g.pos = f.pos
    BY DEF IsFilled
  <2> QED
    BY <2>2, <2>3
<1> QED
  BY <1>5, <1>8, <1>9, <1>11, <1>12

(* ... and the end of the run.                                              *)
RunEnds(src, f, s, c) ==
  /\ f.node = "subscript" /\ Leads(src, f, s) /\ f.pos <= c - 1 /\ IsWithin(src, c - 1)
  /\ RunTo(src, Tail(f.parts), f.pos, c - 1) /\ c \in Nat \ {0}
  /\ src[f.pos] = "[" /\ src[c - 1] = "]" /\ src[c] # "["

(* A run of subscripts means what it says.                                  *)
LEMMA RunMade ==
  ASSUME NEW src, IsSource(src), NEW f, NEW s, NEW c, RunEnds(src, f, s, c), NEW m
  PROVE  Reads(src, Built(f), s, c - 1, m)
<1>1. /\ f.node = "subscript" /\ Leads(src, f, s) /\ f.pos <= c - 1 /\ IsWithin(src, c - 1)
      /\ RunTo(src, Tail(f.parts), f.pos, c - 1) /\ c \in Nat \ {0}
  BY DEF RunEnds
<1>2. src[f.pos] = "[" /\ src[c - 1] = "]" /\ src[c] # "["
  BY DEF RunEnds
<1>3. /\ f.pos \in Nat \ {0} /\ Fits(src, s, f.pos - 1, f.min_prec)
      /\ f.parts = <<Meaning(src, s, f.pos - 1)>> \o Tail(f.parts)
  BY <1>1, LeadsAre
<1>4. c - 1 \in Nat /\ (c - 1) + 1 = c
  BY <1>1
<1>5. RunSpan(src, s, f.pos, c - 1, f.min_prec)
  BY <1>1, <1>2, <1>3, <1>4 DEF RunSpan
<1>6. Reads(src, Tree("subscript", f.pos, <<Meaning(src, s, f.pos - 1)>> \o Tail(f.parts)),
            s, c - 1, m)
  BY <1>1, <1>5, SubscriptReads
<1> QED
  BY <1>1, <1>3, <1>6 DEF Built

(* A member, with its name, is an item of its list.                         *)
NamesMember(src, a, o, j) ==
  /\ a \in Nat /\ j \in Int /\ o = a + 3 /\ o <= j
  /\ src[a] = "." /\ src[a + 1] = "x" /\ src[a + 2] = "="
  /\ Even(src, o, j) /\ Commaless(src, o, j)

(* A value is what comes after the name of its member,                      *)
LEMMA MemberIsItem ==
  ASSUME NEW src, NEW a, NEW o, NEW j, NamesMember(src, a, o, j)
  PROVE  Even(src, a, j) /\ Commaless(src, a, j)
<1>1. /\ a \in Nat /\ j \in Int /\ o = a + 3 /\ o <= j
      /\ Even(src, o, j) /\ Commaless(src, o, j)
  BY DEF NamesMember
<1>2. /\ a \in Int /\ a + 2 \in Int /\ a <= a + 2 /\ a <= (a + 2) + 1 /\ a + 2 <= j
      /\ (a + 2) + 1 = o /\ \A k \in a .. (a + 2) : k = a \/ k = a + 1 \/ k = a + 2
  BY <1>1
<1>3. src[a] = "." /\ src[a + 1] = "x" /\ src[a + 2] = "="
  BY DEF NamesMember
<1>4. \A k \in a .. (a + 2) : src[k] \notin Opening \cup Closing /\ src[k] # ","
  BY <1>2, <1>3, PlainTokens
<1>5. Even(src, a, a + 2)
  BY <1>2, <1>4, FlatIs
<1>6. Even(src, a, j)
  <2>1. Even(src, (a + 2) + 1, j)
    BY <1>1, <1>2
  <2> QED
    BY <1>1, <1>2, <1>5, <2>1, EvenJoins
<1>7. Outside(src, a, j) = Outside(src, a, a + 2) \cup Outside(src, (a + 2) + 1, j)
  <2>1. Depth(src, a, a + 2) = 0
    BY <1>5 DEF Even
  <2> QED
    BY <1>1, <1>2, <2>1, OutsideJoins
<1>8. Outside(src, a, a + 2) \subseteq a .. (a + 2)
  BY <1>2, OutsideIs
<1>9. Commaless(src, a, j)
  BY <1>1, <1>2, <1>4, <1>7, <1>8 DEF Commaless
<1> QED
  BY <1>6, <1>9

(* ... and the next item of the list.                                       *)
LEMMA MemberItems ==
  ASSUME NEW src, IsSource(src), NEW f, f.node = "struct_init", NEW s, NEW o, NEW tree, NEW c,
         Answered(src, f, s, o, tree, c)
  PROVE  /\ f.pos = s /\ src[s] = "{" /\ src[s + 1] = "."
         /\ ItemsTo(src, Append(f.parts, tree), s + 1, c - 1, 3)
<1>1. /\ Waits(src, f, s, o) /\ s \in Nat \ {0} /\ o \in Nat \ {0} /\ c - 1 \in Nat
      /\ Fits(src, o, c - 1, PartMin(src, f)) /\ tree = Meaning(src, o, c - 1)
      /\ o <= c - 1 /\ IsWithin(src, c - 1)
  BY AnsweredIs
<1>2. WaitsStruct(src, f, s, o)
  BY <1>1 DEF Waits
<1>3. o - 3 \in Nat /\ MembersTo(src, f, s, o - 3)
  BY <1>2 DEF WaitsStruct
<1>4. src[o - 3] = "." /\ src[o - 2] = "x" /\ src[o - 1] = "="
  BY <1>2 DEF WaitsStruct
<1>5. f.pos = s /\ NextAt(src, f.parts, s + 1, o - 3, 3)
  BY <1>3 DEF MembersTo
<1>6. src[s] = "{" /\ (f.parts # <<>> => src[s + 1] = ".")
  BY <1>3 DEF MembersTo
<1>7. PICK a : a = o - 3
  OBVIOUS
<1>8. PICK b : b = s + 1
  OBVIOUS
<1>9. PICK j : j = c - 1
  OBVIOUS
<1>10. /\ a \in Nat /\ o = a + 3 /\ o - 2 = a + 1 /\ o - 1 = a + 2
       /\ b \in Nat \ {0} /\ j \in Nat /\ j \in Int /\ a + 3 <= j /\ o <= j /\ IsWithin(src, j)
       /\ 3 \in Nat
  <2>1. a \in Nat /\ o = a + 3 /\ o - 2 = a + 1 /\ o - 1 = a + 2
    BY <1>1, <1>3, <1>7
  <2>2. b \in Nat \ {0}
    BY <1>1, <1>8
  <2>3. j \in Nat /\ j \in Int /\ o <= j /\ IsWithin(src, j)
    BY <1>1, <1>9
  <2> QED
    BY <2>1, <2>2, <2>3
<1>11. src[s + 1] = "."
  <2>1. CASE f.parts = <<>>
    <3>1. a = b
      BY <1>5, <1>7, <1>8, <2>1, NextIsFirst
    <3> QED
      BY <1>4, <1>7, <1>8, <3>1
  <2>2. CASE f.parts # <<>>
    BY <1>6, <2>2
  <2> QED
    BY <2>1, <2>2
<1>12. Even(src, o, j) /\ Commaless(src, o, j)
  BY <1>1, <1>9, FitsIs
<1>13. NamesMember(src, a, o, j)
  <2>1. src[a] = "." /\ src[a + 1] = "x" /\ src[a + 2] = "="
    BY <1>4, <1>7, <1>10
  <2> QED
    BY <1>10, <1>12, <2>1 DEF NamesMember
<1>14. Even(src, a, j) /\ Commaless(src, a, j)
  BY <1>13, MemberIsItem
<1>15. PICK parts : parts = f.parts
  OBVIOUS
<1>16. NextAt(src, parts, b, a, 3)
  BY <1>5, <1>7, <1>8, <1>15
<1>17. ItemsTo(src, Append(parts, Meaning(src, a + 3, j)), b, j, 3)
  BY <1>10, <1>14, <1>16, ItemRead
<1>18. Meaning(src, a + 3, j) = tree
  BY <1>1, <1>9, <1>10
<1> QED
  BY <1>5, <1>6, <1>8, <1>9, <1>11, <1>15, <1>17, <1>18

(* A member and a comma,                                                    *)
LEMMA MemberMore ==
  ASSUME NEW src, IsSource(src), NEW f, f.node = "struct_init", NEW s, NEW o, NEW tree, NEW c,
         AnsweredBy(src, f, s, o, tree, c, ","), NEW g, IsFilled(g, f, tree)
  PROVE  MembersTo(src, g, s, c + 1) /\ g.parts # <<>>
<1>1. Answered(src, f, s, o, tree, c)
  BY DEF AnsweredBy
<1>2. src[c] = ","
  BY DEF AnsweredBy
<1>3. c \in Nat \ {0} /\ s \in Nat \ {0}
  BY <1>1, AnsweredIs
<1>4. /\ f.pos = s /\ src[s] = "{" /\ src[s + 1] = "."
      /\ ItemsTo(src, Append(f.parts, tree), s + 1, c - 1, 3)
  BY <1>1, MemberItems
<1>5. g.pos = s /\ g.parts = Append(f.parts, tree)
  BY <1>4 DEF IsFilled
<1>6. c - 1 \in Nat /\ (c - 1) + 1 = c /\ (c - 1) + 2 = c + 1 /\ s + 1 \in Nat \ {0}
  BY <1>3, Nearby
<1>7. NextAt(src, g.parts, s + 1, (c - 1) + 2, 3)
  <2>1. src[(c - 1) + 1] = ","
    BY <1>2, <1>6
  <2>2. ItemsTo(src, g.parts, s + 1, c - 1, 3)
    BY <1>4, <1>5
  <2> QED
    BY <1>6, <2>1, <2>2, CommaRead
<1>8. g.parts # <<>>
  BY <1>4, <1>5 DEF ItemsTo
<1> QED
  BY <1>4, <1>5, <1>6, <1>7, <1>8 DEF MembersTo

(* ... the last one,                                                        *)
LEMMA MemberLast ==
  ASSUME NEW src, IsSource(src), NEW f, f.node = "struct_init", NEW s, NEW o, NEW tree, NEW c,
         Answered(src, f, s, o, tree, c), NEW g, IsFilled(g, f, tree)
  PROVE  /\ g.pos = s /\ src[s] = "{" /\ src[s + 1] = "." /\ src[c] # "."
         /\ ItemsTo(src, g.parts, s + 1, c - 1, 3)
<1>1. /\ f.pos = s /\ src[s] = "{" /\ src[s + 1] = "."
      /\ ItemsTo(src, Append(f.parts, tree), s + 1, c - 1, 3)
  BY MemberItems
<1>2. g.pos = s /\ g.parts = Append(f.parts, tree)
  BY <1>1 DEF IsFilled
<1>3. src[c] # "."
  <2>1. Precedence(src[c]) <= PartMin(src, f)
    BY AnsweredIs
  <2>2. PartMin(src, f) = 0
    BY DEF PartMin
  <2>3. Precedence(".") = 90
    BY FollowerPrecedence DEF Followers
  <2> QED
    BY <2>1, <2>2, <2>3
<1> QED
  BY <1>1, <1>2, <1>3

----------------------------------------------------------------------------
(* A list in braces that is read to its end.                                *)
BraceList(src, s, c, parts, skipped) ==
  /\ s \in Nat \ {0} /\ c \in Nat \ {0} /\ IsWithin(src, c)
  /\ src[s] = "{" /\ src[c] = "}" /\ ItemsTo(src, parts, s + 1, c - 1, skipped)

(* A list that is all there is in braces.                                   *)
LEMMA BraceListIs ==
  ASSUME NEW src, NEW s, NEW c, NEW parts, NEW skipped, BraceList(src, s, c, parts, skipped)
  PROVE  /\ BraceSpan(src, s, c)
         /\ TreesRead(src, parts, Items(src, s + 1, c - 1, skipped), s + 1, c - 1)
<1>1. /\ s \in Nat \ {0} /\ c \in Nat \ {0} /\ IsWithin(src, c)
      /\ ItemsTo(src, parts, s + 1, c - 1, skipped)
  BY DEF BraceList
<1>2. src[s] = "{" /\ src[c] = "}"
  BY DEF BraceList
<1>3. /\ s + 1 <= c - 1 /\ Even(src, s + 1, c - 1)
      /\ TreesRead(src, parts, Items(src, s + 1, c - 1, skipped), s + 1, c - 1)
  BY <1>1 DEF ItemsTo
<1>4. s < c /\ c \in Nat
  BY <1>1, <1>3
<1>5. Group(src, s, c)
  BY <1>2, <1>3, <1>4, PlainTokens DEF Group
<1> QED
  BY <1>1, <1>2, <1>3, <1>4, <1>5 DEF BraceSpan

(* A struct is made,                                                        *)
LEMMA StructMade ==
  ASSUME NEW src, IsSource(src), NEW f, f.node = "struct_init", NEW s, f.pos = s, NEW c,
         BraceList(src, s, c, f.parts, 3), src[s + 1] = "."
  PROVE  ReadsBraces(src, Built(f), s, c)
<1>1. PICK parts : parts = f.parts
  OBVIOUS
<1>2. BraceList(src, s, c, parts, 3)
  BY <1>1
<1>3. /\ BraceSpan(src, s, c)
      /\ TreesRead(src, parts, Items(src, s + 1, c - 1, 3), s + 1, c - 1)
  BY <1>2, BraceListIs
<1>4. src[s + 1] \in {".", "}"}
  OBVIOUS
<1>5. ReadsBraces(src, Tree("struct_init", s, parts), s, c)
  BY <1>3, <1>4, StructReads
<1> QED
  BY <1>1, <1>5 DEF Built

(* also without a member.                                                   *)
EmptyStruct(src, f, s, c) ==
  /\ f.node = "struct_init" /\ f.pos = s /\ f.parts = <<>> /\ s \in Nat \ {0} /\ c = s + 1
  /\ IsWithin(src, c) /\ src[s] = "{" /\ src[c] = "}"

(* No members mean what they say.                                           *)
LEMMA StructEmpty ==
  ASSUME NEW src, IsSource(src), NEW f, NEW s, NEW c, EmptyStruct(src, f, s, c)
  PROVE  ReadsBraces(src, Built(f), s, c)
<1>1. /\ f.node = "struct_init" /\ f.pos = s /\ f.parts = <<>> /\ s \in Nat \ {0} /\ c = s + 1
      /\ IsWithin(src, c)
  BY DEF EmptyStruct
<1>2. src[s] = "{" /\ src[c] = "}"
  BY DEF EmptyStruct
<1>3. c \in Nat /\ c - 1 = s /\ s < c /\ s + 1 \in Nat \ {0} /\ (s + 1) - 1 = s
      /\ c - 1 = (s + 1) - 1 /\ s + 1 \in Int
  BY <1>1
<1>4. Even(src, s + 1, c - 1)
  <2>1. Even(src, s + 1, (s + 1) - 1)
    BY <1>3, EvenEmpty
  <2> QED
    BY <1>3, <2>1
<1>5. Group(src, s, c)
  BY <1>2, <1>3, <1>4, PlainTokens DEF Group
<1>6. BraceSpan(src, s, c)
  BY <1>1, <1>2, <1>3, <1>5 DEF BraceSpan
<1>7. TreesRead(src, <<>>, Items(src, s + 1, c - 1, 3), s + 1, c - 1)
  <2>1. TreesRead(src, <<>>, Items(src, s + 1, (s + 1) - 1, 3), s + 1, (s + 1) - 1)
    BY <1>3, NoItems
  <2> QED
    BY <1>3, <2>1
<1>8. src[s + 1] \in {".", "}"}
  BY <1>1, <1>2
<1>9. ReadsBraces(src, Tree("struct_init", s, <<>>), s, c)
  BY <1>6, <1>7, <1>8, StructReads
<1> QED
  BY <1>1, <1>9 DEF Built

(* The elements of an array,                                                *)
LEMMA ElementItems ==
  ASSUME NEW src, IsSource(src), NEW f, f.node = "arr_init", NEW s, NEW o, NEW tree, NEW c,
         Answered(src, f, s, o, tree, c)
  PROVE  /\ f.pos = s /\ src[s] = "{" /\ src[s + 1] \in Starts
         /\ ItemsTo(src, Append(f.parts, tree), s + 1, c - 1, 0)
<1>1. /\ Waits(src, f, s, o) /\ s \in Nat \ {0} /\ o \in Nat \ {0} /\ c - 1 \in Nat
      /\ Fits(src, o, c - 1, PartMin(src, f)) /\ tree = Meaning(src, o, c - 1)
      /\ o <= c - 1 /\ IsWithin(src, c - 1)
  BY AnsweredIs
<1>2. /\ f.pos = s /\ src[s] = "{"
      /\ NextAt(src, f.parts, s + 1, o, 0)
      /\ f.parts # <<>> => src[s + 1] \in Starts
  BY <1>1 DEF Waits, WaitsArray
<1>3. src[o] \in Starts /\ Even(src, o, c - 1) /\ Commaless(src, o, c - 1)
  BY <1>1, FitsIs
<1>4. src[s + 1] \in Starts
  <2>1. CASE f.parts = <<>>
    <3>1. o = s + 1
      BY <1>2, <2>1, NextIsFirst
    <3> QED
      BY <1>3, <3>1
  <2>2. CASE f.parts # <<>>
    BY <1>2, <2>2
  <2> QED
    BY <2>1, <2>2
<1>5. PICK b : b = s + 1
  OBVIOUS
<1>6. PICK j : j = c - 1
  OBVIOUS
<1>7. PICK parts : parts = f.parts
  OBVIOUS
<1>8. NextAt(src, parts, b, o, 0)
  BY <1>2, <1>5, <1>7
<1>9. /\ b \in Nat \ {0} /\ j \in Nat /\ 0 \in Nat /\ o + 0 <= j /\ o + 0 = o
      /\ IsWithin(src, j) /\ Even(src, o, j) /\ Commaless(src, o, j)
      /\ tree = Meaning(src, o, j)
  <2>1. b \in Nat \ {0}
    BY <1>1, <1>5, Nearby
  <2>2. o + 0 <= j /\ o + 0 = o
    BY <1>1, <1>6
  <2> QED
    BY <1>1, <1>3, <1>6, <2>1, <2>2
<1>10. ItemsTo(src, Append(parts, Meaning(src, o + 0, j)), b, j, 0)
  BY <1>8, <1>9, ItemRead
<1>11. ItemsTo(src, Append(parts, tree), b, j, 0)
  BY <1>9, <1>10
<1> QED
  BY <1>2, <1>4, <1>5, <1>6, <1>7, <1>11

(* ... and waits for another,                                               *)
LEMMA ElementMore ==
  ASSUME NEW src, IsSource(src), NEW f, f.node = "arr_init", NEW s, NEW o, NEW tree, NEW c,
         AnsweredBy(src, f, s, o, tree, c, ","), NEW g, IsFilled(g, f, tree)
  PROVE  WaitsArray(src, g, s, c + 1)
<1>1. Answered(src, f, s, o, tree, c)
  BY DEF AnsweredBy
<1>2. src[c] = ","
  BY DEF AnsweredBy
<1>3. c \in Nat \ {0} /\ s \in Nat \ {0}
  BY <1>1, AnsweredIs
<1>4. /\ f.pos = s /\ src[s] = "{" /\ src[s + 1] \in Starts
      /\ ItemsTo(src, Append(f.parts, tree), s + 1, c - 1, 0)
  BY <1>1, ElementItems
<1>5. g.pos = s /\ g.parts = Append(f.parts, tree)
  BY <1>4 DEF IsFilled
<1>6. c - 1 \in Nat /\ (c - 1) + 1 = c /\ (c - 1) + 2 = c + 1 /\ s + 1 \in Nat \ {0}
  BY <1>3, Nearby
<1>7. NextAt(src, g.parts, s + 1, (c - 1) + 2, 0)
  <2>1. src[(c - 1) + 1] = ","
    BY <1>2, <1>6
  <2>2. ItemsTo(src, g.parts, s + 1, c - 1, 0)
    BY <1>4, <1>5
  <2> QED
    BY <1>6, <2>1, <2>2, CommaRead
<1>8. src[s + 1] # "{"
  BY <1>4, PlainTokens
<1> QED
  BY <1>4, <1>5, <1>6, <1>7, <1>8 DEF WaitsArray

(* ... or is the last and the list means what it says.                      *)
LEMMA ElementMade ==
  ASSUME NEW src, IsSource(src), NEW f, f.node = "arr_init", NEW s, NEW o, NEW tree, NEW c,
         AnsweredBy(src, f, s, o, tree, c, "}")
  PROVE  ReadsBraces(src, Made(f, tree), s, c)
<1>1. Answered(src, f, s, o, tree, c) /\ IsWithin(src, c)
  BY DEF AnsweredBy
<1>2. src[c] = "}"
  BY DEF AnsweredBy
<1>3. c \in Nat \ {0} /\ s \in Nat \ {0}
  BY <1>1, AnsweredIs
<1>4. /\ f.pos = s /\ src[s] = "{" /\ src[s + 1] \in Starts
      /\ ItemsTo(src, Append(f.parts, tree), s + 1, c - 1, 0)
  BY <1>1, ElementItems
<1>5. PICK parts : parts = Append(f.parts, tree)
  OBVIOUS
<1>6. BraceList(src, s, c, parts, 0)
  BY <1>1, <1>2, <1>3, <1>4, <1>5 DEF BraceList
<1>7. /\ BraceSpan(src, s, c)
      /\ TreesRead(src, parts, Items(src, s + 1, c - 1, 0), s + 1, c - 1)
  BY <1>6, BraceListIs
<1>8. ReadsBraces(src, Tree("arr_init", s, parts), s, c)
  BY <1>4, <1>7, ArrayReads
<1> QED
  BY <1>4, <1>5, <1>8 DEF Made

----------------------------------------------------------------------------
(* ... of arrays.                                                           *)
BracesAnswered(src, f, s, o, tree, c) ==
  /\ Waits(src, f, s, o) /\ s \in Nat \ {0} /\ o \in Nat \ {0} /\ c \in Nat \ {0}
  /\ ReadsBraces(src, tree, o, c - 1)

(* The token that comes after an initializer.                               *)
BracesBy(src, f, s, o, tree, c, tok) ==
  BracesAnswered(src, f, s, o, tree, c) /\ IsWithin(src, c) /\ src[c] = tok

(* It is the next item of the list,                                         *)
LEMMA NestedItems ==
  ASSUME NEW src, IsSource(src), NEW f, f.node = "nested_arr_init", NEW s, NEW o, NEW tree,
         NEW c, BracesAnswered(src, f, s, o, tree, c)
  PROVE  /\ f.pos = s /\ src[s] = "{" /\ src[s + 1] = "{"
         /\ ItemsTo(src, Append(f.parts, tree), s + 1, c - 1, 0)
<1>1. /\ Waits(src, f, s, o) /\ s \in Nat \ {0} /\ o \in Nat \ {0} /\ c \in Nat \ {0}
      /\ ReadsBraces(src, tree, o, c - 1)
  BY DEF BracesAnswered
<1>2. /\ f.pos = s /\ src[s] = "{" /\ src[s + 1] = "{"
      /\ NextAt(src, f.parts, s + 1, o, 0)
  BY <1>1 DEF Waits, WaitsNested
<1>3. PICK b : b = s + 1
  OBVIOUS
<1>4. PICK j : j = c - 1
  OBVIOUS
<1>5. PICK parts : parts = f.parts
  OBVIOUS
<1>6. j \in Nat /\ IsWithin(src, j) /\ Group(src, o, j) /\ tree = Meaning(src, o, j)
  BY <1>1, <1>4 DEF ReadsBraces
<1>7. src[o] = "{"
  BY <1>1 DEF ReadsBraces
<1>8. o \in Int /\ j \in Int /\ 1 <= o /\ o < j
  BY <1>1, <1>6 DEF Group
<1>9. Even(src, o, j) /\ Outside(src, o, j) = {o}
  BY <1>6, <1>8, GroupIs
<1>10. Commaless(src, o, j)
  BY <1>7, <1>9 DEF Commaless
<1>11. b \in Nat \ {0} /\ 0 \in Nat /\ o + 0 <= j /\ o + 0 = o
  <2>1. b \in Nat \ {0}
    BY <1>1, <1>3, Nearby
  <2>2. o + 0 <= j /\ o + 0 = o
    BY <1>8
  <2> QED
    BY <2>1, <2>2
<1>12. NextAt(src, parts, b, o, 0)
  BY <1>2, <1>3, <1>5
<1>13. ItemsTo(src, Append(parts, Meaning(src, o + 0, j)), b, j, 0)
  BY <1>6, <1>9, <1>10, <1>11, <1>12, ItemRead
<1>14. ItemsTo(src, Append(parts, tree), b, j, 0)
  BY <1>6, <1>11, <1>13
<1> QED
  BY <1>2, <1>3, <1>4, <1>5, <1>14

(* ... waits for another,                                                   *)
LEMMA NestedMore ==
  ASSUME NEW src, IsSource(src), NEW f, f.node = "nested_arr_init", NEW s, NEW o, NEW tree,
         NEW c, BracesBy(src, f, s, o, tree, c, ","), NEW g, IsFilled(g, f, tree)
  PROVE  WaitsNested(src, g, s, c + 1)
<1>1. BracesAnswered(src, f, s, o, tree, c)
  BY DEF BracesBy
<1>2. src[c] = ","
  BY DEF BracesBy
<1>3. c \in Nat \ {0} /\ s \in Nat \ {0}
  BY <1>1 DEF BracesAnswered
<1>4. /\ f.pos = s /\ src[s] = "{" /\ src[s + 1] = "{"
      /\ ItemsTo(src, Append(f.parts, tree), s + 1, c - 1, 0)
  BY <1>1, NestedItems
<1>5. g.pos = s /\ g.parts = Append(f.parts, tree)
  BY <1>4 DEF IsFilled
<1>6. c - 1 \in Nat /\ (c - 1) + 1 = c /\ (c - 1) + 2 = c + 1 /\ s + 1 \in Nat \ {0}
  BY <1>3, Nearby
<1>7. NextAt(src, g.parts, s + 1, (c - 1) + 2, 0)
  <2>1. src[(c - 1) + 1] = ","
    BY <1>2, <1>6
  <2>2. ItemsTo(src, g.parts, s + 1, c - 1, 0)
    BY <1>4, <1>5
  <2> QED
    BY <1>6, <2>1, <2>2, CommaRead
<1> QED
  BY <1>4, <1>5, <1>6, <1>7 DEF WaitsNested

(* ... or is the last and the list means what it says.                      *)
LEMMA NestedMade ==
  ASSUME NEW src, IsSource(src), NEW f, f.node = "nested_arr_init", NEW s, NEW o, NEW tree,
         NEW c, BracesBy(src, f, s, o, tree, c, "}")
  PROVE  ReadsBraces(src, Made(f, tree), s, c)
<1>1. BracesAnswered(src, f, s, o, tree, c) /\ IsWithin(src, c)
  BY DEF BracesBy
<1>2. src[c] = "}"
  BY DEF BracesBy
<1>3. c \in Nat \ {0} /\ s \in Nat \ {0}
  BY <1>1 DEF BracesAnswered
<1>4. /\ f.pos = s /\ src[s] = "{" /\ src[s + 1] = "{"
      /\ ItemsTo(src, Append(f.parts, tree), s + 1, c - 1, 0)
  BY <1>1, NestedItems
<1>5. PICK parts : parts = Append(f.parts, tree)
  OBVIOUS
<1>6. BraceList(src, s, c, parts, 0)
  BY <1>1, <1>2, <1>3, <1>4, <1>5 DEF BraceList
<1>7. /\ BraceSpan(src, s, c)
      /\ TreesRead(src, parts, Items(src, s + 1, c - 1, 0), s + 1, c - 1)
  BY <1>6, BraceListIs
<1>8. ReadsBraces(src, Tree("nested_arr_init", s, parts), s, c)
  BY <1>4, <1>7, NestedReads
<1> QED
  BY <1>4, <1>5, <1>8 DEF Made

(* Where the innermost call stands: in an expression that starts at s, in   *)
(* an initializer in braces, or between two of its parts.                   *)
InExpression(src, frames, min, s) ==
  s \in Nat \ {0} /\ Awaited(src, frames, s) /\ Expects(src, frames, min)

(* An initializer that is parsed,                                           *)
InBraces(src, frames, s) ==
  s \in Nat \ {0} /\ Awaited(src, frames, s) /\ ExpectsBraces(frames)

(* ... and a call that goes on.                                             *)
InList(src, frames, f, s) ==
  /\ s \in Nat \ {0} /\ frames # <<>> /\ frames[Len(frames)] = f /\ Held(src, frames, s)

(* Each of the three is a state of the parser,                              *)
LEMMA ExpressionAt ==
  ASSUME NEW src, NEW point \in ForExpressions, NEW tree, NEW min, NEW frames, NEW c, NEW s,
         InExpression(src, frames, min, s), ExpressionState(src, point, tree, min, s, c)
  PROVE  PState(src, point, tree, min, frames, c)
BY Zenon DEF PState, InExpression

(* ... for braces,                                                          *)
LEMMA BracesAt ==
  ASSUME NEW src, NEW point \in ForBraces, NEW tree, NEW min, NEW frames, NEW c, NEW s,
         InBraces(src, frames, s), BracesState(src, point, tree, s, c)
  PROVE  PState(src, point, tree, min, frames, c)
BY Zenon DEF PState, InBraces

(* ... between two parts,                                                   *)
LEMMA ListAt ==
  ASSUME NEW src, NEW point \in Between, NEW tree, NEW min, NEW frames, NEW c, NEW f, NEW s,
         InList(src, frames, f, s), BetweenState(src, point, f, s, c)
  PROVE  PState(src, point, tree, min, frames, c)
BY Zenon DEF PState, InList

(* ... and they are apart:                                                  *)
LEMMA PointsApart ==
  /\ \A point \in ForExpressions : point # "return" => point \notin ForBraces
  /\ \A point \in ForExpressions \cup ForBraces : point \notin Between
BY DEF ForExpressions, ForBraces, Between

(* ... the point tells which it is,                                         *)
LEMMA AtExpression ==
  ASSUME NEW src, NEW point \in ForExpressions, point # "return",
         NEW tree, NEW min, NEW frames, NEW c, PState(src, point, tree, min, frames, c)
  PROVE  \E s : InExpression(src, frames, min, s) /\ ExpressionState(src, point, tree, min, s, c)
BY PointsApart DEF PState, InExpression

(* ... for braces,                                                          *)
LEMMA AtBraces ==
  ASSUME NEW src, NEW point \in ForBraces, point # "return",
         NEW tree, NEW min, NEW frames, NEW c, PState(src, point, tree, min, frames, c)
  PROVE  \E s : InBraces(src, frames, s) /\ BracesState(src, point, tree, s, c)
BY PointsApart DEF PState, InBraces

(* ... and between two parts.                                               *)
LEMMA AtList ==
  ASSUME NEW src, NEW point \in Between, NEW tree, NEW min, NEW frames, NEW c,
         PState(src, point, tree, min, frames, c)
  PROVE  \E s : /\ InList(src, frames, frames[Len(frames)], s)
                /\ BetweenState(src, point, frames[Len(frames)], s, c)
BY PointsApart DEF PState, InList

----------------------------------------------------------------------------
(* A call begins to wait for a part from o on.                              *)
Enters(src, frames, f, s, o) ==
  IsSeq(frames) /\ o \in Nat \ {0} /\ Waits(src, f, s, o)

(* A call is made,                                                          *)
LEMMA PushInList ==
  ASSUME NEW src, NEW frames, IsSeq(frames), NEW s, NEW f,
         \/ f.node \notin BraceNodes /\ InExpression(src, frames, f.min_prec, s)
         \/ f.node \in BraceNodes /\ InBraces(src, frames, s)
  PROVE  InList(src, Append(frames, f), f, s) /\ IsSeq(Append(frames, f))
<1>1. s \in Nat \ {0} /\ Awaited(src, frames, s)
  BY DEF InExpression, InBraces
<1>2. IF f.node \in BraceNodes THEN ExpectsBraces(frames) ELSE Expects(src, frames, f.min_prec)
  BY DEF InExpression, InBraces
<1>3. /\ Held(src, Append(frames, f), s) /\ Append(frames, f) # <<>>
      /\ Append(frames, f)[Len(Append(frames, f))] = f
  BY <1>1, <1>2, PushHeld
<1>4. IsSeq(Append(frames, f))
  BY AppendSeq
<1> QED
  BY <1>1, <1>3, <1>4 DEF InList

(* ... waits,                                                               *)
LEMMA ListAwaits ==
  ASSUME NEW src, NEW frames, NEW f, NEW s, InList(src, frames, f, s), NEW o,
         Enters(src, frames, f, s, o)
  PROVE  /\ f.node \notin Bracers => InExpression(src, frames, PartMin(src, f), o)
         /\ f.node \in Bracers => InBraces(src, frames, o)
<1>1. /\ IsSeq(frames) /\ o \in Nat \ {0} /\ Waits(src, frames[Len(frames)], s, o)
      /\ frames # <<>> /\ frames[Len(frames)] = f /\ Held(src, frames, s)
  BY DEF InList, Enters
<1>2. Awaited(src, frames, o)
  BY <1>1, HeldAwaits
<1> QED
  BY <1>1, <1>2
  DEF InExpression, InBraces, Expects, ExpectsBraces, AsksExpression, AsksBraces

(* ... returns                                                              *)
LEMMA PopList ==
  ASSUME NEW src, NEW frames, IsSeq(frames), NEW f, NEW s, InList(src, frames, f, s)
  PROVE  LET rest == SubSeq(frames, 1, Len(frames) - 1)
         IN  /\ f.node \notin BraceNodes => InExpression(src, rest, f.min_prec, s)
             /\ f.node \in BraceNodes => InBraces(src, rest, s)
<1>1. s \in Nat \ {0} /\ frames # <<>> /\ frames[Len(frames)] = f /\ Held(src, frames, s)
  BY DEF InList
<1>2. PICK rest : rest = SubSeq(frames, 1, Len(frames) - 1)
  OBVIOUS
<1>3. /\ Awaited(src, rest, s)
      /\ frames[Len(frames)].node \in BraceNodes => ExpectsBraces(rest)
      /\ frames[Len(frames)].node \notin BraceNodes =>
           Expects(src, rest, frames[Len(frames)].min_prec)
  BY <1>1, <1>2, HeldPop
<1> QED
  BY <1>1, <1>2, <1>3 DEF InExpression, InBraces

(* ... or changes.                                                          *)
LEMMA ReplaceInList ==
  ASSUME NEW src, NEW frames, IsSeq(frames), NEW f, NEW s, InList(src, frames, f, s), NEW g,
         g.min_prec = f.min_prec, g.node \in BraceNodes <=> f.node \in BraceNodes
  PROVE  LET changed == [frames EXCEPT ![Len(frames)] = g]
         IN  InList(src, changed, g, s) /\ IsSeq(changed)
<1>1. s \in Nat \ {0} /\ frames # <<>> /\ frames[Len(frames)] = f /\ Held(src, frames, s)
  BY DEF InList
<1> DEFINE changed == [frames EXCEPT ![Len(frames)] = g]
<1>2. /\ Held(src, changed, s) /\ IsSeq(changed) /\ changed # <<>>
      /\ changed[Len(changed)] = g
  BY <1>1, HeldReplace
<1>3. changed = [frames EXCEPT ![Len(frames)] = g]
  OBVIOUS
<1> HIDE DEF changed
<1>4. InList(src, changed, g, s)
  BY <1>1, <1>2 DEF InList
<1> QED
  BY <1>2, <1>3, <1>4

----------------------------------------------------------------------------
(* What a call waits for is returned to it.                                 *)
LEMMA ReturnedAnswers ==
  ASSUME NEW src, NEW tree, NEW min, NEW frames, IsSeq(frames), NEW c \in Nat \ {0}, NEW f,
         frames # <<>>, frames[Len(frames)] = f, f.min_prec \in Nat,
         PState(src, "return", tree, min, frames, c), f.node \notin Bracers
  PROVE  \E s, o : InList(src, frames, f, s) /\ Answered(src, f, s, o, tree, c)
<1>1. "return" \notin Between /\ ~ExpectsBraces(frames)
  BY DEF Between, ExpectsBraces, AsksBraces
<1>2. PICK o \in Nat \ {0} :
        /\ Expects(src, frames, min) /\ Awaited(src, frames, o)
        /\ ExpressionState(src, "return", tree, min, o, c)
  BY <1>1 DEF PState
<1>3. min = PartMin(src, f)
  BY <1>2 DEF Expects, AsksExpression
<1>4. Reads(src, tree, o, c - 1, min) /\ Precedence(src[c]) <= min
  BY <1>2 DEF ExpressionState
<1>5. PICK s \in Nat \ {0} : Held(src, frames, s) /\ Waits(src, frames[Len(frames)], s, o)
  BY <1>2, AwaitedHeld
<1>6. Answered(src, f, s, o, tree, c)
  BY <1>2, <1>3, <1>4, <1>5 DEF Answered
<1>7. InList(src, frames, f, s)
  BY <1>5 DEF InList
<1> QED
  BY <1>6, <1>7

(* An initializer is returned to a call that waits for it.                  *)
LEMMA ReturnedInBraces ==
  ASSUME NEW src, NEW tree, NEW min, NEW frames, IsSeq(frames), NEW c \in Nat \ {0}, NEW f,
         frames # <<>>, frames[Len(frames)] = f,
         PState(src, "return", tree, min, frames, c), f.node \in Bracers
  PROVE  \E s, o : InList(src, frames, f, s) /\ BracesAnswered(src, f, s, o, tree, c)
<1>1. "return" \notin Between /\ ~Expects(src, frames, min)
  BY DEF Between, Expects, AsksExpression
<1>2. PICK o \in Nat \ {0} :
        Awaited(src, frames, o) /\ BracesState(src, "return", tree, o, c)
  BY <1>1 DEF PState
<1>3. ReadsBraces(src, tree, o, c - 1)
  BY <1>2 DEF BracesState
<1>4. PICK s \in Nat \ {0} : Held(src, frames, s) /\ Waits(src, frames[Len(frames)], s, o)
  BY <1>2, AwaitedHeld
<1>5. BracesAnswered(src, f, s, o, tree, c)
  BY <1>2, <1>3, <1>4 DEF BracesAnswered
<1>6. InList(src, frames, f, s)
  BY <1>4 DEF InList
<1> QED
  BY <1>5, <1>6

(* What the parser looks at.                                                *)
Sees(src, c, toks) ==
  IsSource(src) /\ c \in Nat \ {0} /\ IsWithin(src, c) /\ src[c] \in toks

(* The place of a token that is seen.                                       *)
LEMMA SeesIs ==
  ASSUME NEW src, NEW c, NEW toks, Sees(src, c, toks)
  PROVE  /\ IsSource(src) /\ c \in Nat \ {0} /\ IsWithin(src, c) /\ (c + 1) - 1 = c
         /\ (c + 1) - 2 = c - 1 /\ (c - 1) + 1 = c /\ c + 1 \in Nat \ {0} /\ c - 1 \in Nat
         /\ c \in Int
BY Nearby DEF Sees

(* The operand has not begun behind what the parser has just read.          *)
LEMMA OperandAhead ==
  ASSUME NEW src, NEW c, Sees(src, c, {"[", "?", "=", ",", "(", ":"} \cup PrefixOperators
                                         \cup BinaryOperators \cup AssignOperators),
         src[c] \in {"++", "--"} => ~IsAfterOperand(src, c)
  PROVE  ~IsAfterOperand(src, c + 1)
<1>1. c \in Int
  BY SeesIs
<1>2. src[c] \notin {"x", "1", "]", "}", ")"}
  BY DEF Sees, PrefixOperators, BinaryOperators, AssignOperators
<1>3. ~EndsOperand(src, c)
  BY <1>2 DEF EndsOperand
<1> QED
  BY <1>1, <1>3, NotAfter

----------------------------------------------------------------------------
(* An operand is read: a literal,                                           *)
LEMMA LiteralMeans ==
  ASSUME NEW src, NEW c, Sees(src, c, {"1"}), NEW tree, NEW min, NEW frames,
         PState(src, "parse_prefix", tree, min, frames, c)
  PROVE  PState(src, "pratt_parse", Tree("literal", c, <<>>), min, frames, c + 1)
<1>1. PICK s : InExpression(src, frames, min, s)
               /\ ExpressionState(src, "parse_prefix", tree, min, s, c)
  BY AtExpression DEF ForExpressions
<1>2. s = c /\ ~IsAfterOperand(src, c)
  BY <1>1 DEF ExpressionState
<1>3. IsSource(src) /\ c \in Nat \ {0} /\ IsWithin(src, c) /\ (c + 1) - 1 = c
  BY SeesIs
<1>4. Reads(src, Tree("literal", c, <<>>), c, c, min)
  <2>1. src[c] = "1"
    BY DEF Sees
  <2> QED
    BY <1>2, <1>3, <2>1, LiteralReads
<1>5. ExpressionState(src, "pratt_parse", Tree("literal", c, <<>>), min, s, c + 1)
  <2>1. Reads(src, Tree("literal", c, <<>>), s, (c + 1) - 1, min)
    BY <1>2, <1>3, <1>4
  <2> QED
    BY <2>1 DEF ExpressionState
<1> QED
  BY <1>1, <1>5, ExpressionAt DEF ForExpressions

(* a name,                                                                  *)
LEMMA PathBegins ==
  ASSUME NEW src, NEW c, Sees(src, c, {"x"}), ~IsAfterOperand(src, c)
  PROVE  PathTo(src, Tree("ident", c, <<>>), c, 0) /\ c + 1 = c + 2 * 0 + 1
<1>1. IsSource(src) /\ c \in Nat \ {0} /\ IsWithin(src, c)
  BY SeesIs
<1>2. c + 2 * 0 = c /\ 0 \in Nat /\ 1 .. 0 = {} /\ c + 2 * 0 + 1 = c + 1
  BY <1>1
<1>3. [k \in 1 .. 0 |-> c + 2 * k] = <<>>
  BY <1>2
<1>4. src[c] = "x"
  BY DEF Sees
<1>5. \A k \in 1 .. 0 : src[c + 2 * k] = "x" /\ src[c + 2 * k - 1] = "::"
  BY <1>2, Zenon
<1>6. IsWithin(src, c + 2 * 0)
  BY <1>1, <1>2
<1>7. Tree("ident", c, <<>>) = Tree("ident", c, [k \in 1 .. 0 |-> c + 2 * k])
  BY <1>3
<1> QED
  BY <1>1, <1>2, <1>4, <1>5, <1>6, <1>7 DEF PathTo

(* A name is one,                                                           *)
LEMMA IdentMeans ==
  ASSUME NEW src, NEW c, Sees(src, c, {"x"}), NEW tree, NEW min, NEW frames,
         PState(src, "parse_prefix", tree, min, frames, c)
  PROVE  PState(src, "path", Tree("ident", c, <<>>), min, frames, c + 1)
<1>1. PICK s : InExpression(src, frames, min, s)
               /\ ExpressionState(src, "parse_prefix", tree, min, s, c)
  BY AtExpression DEF ForExpressions
<1>2. s = c /\ ~IsAfterOperand(src, c)
  BY <1>1 DEF ExpressionState
<1>3. PathTo(src, Tree("ident", c, <<>>), s, 0) /\ c + 1 = s + 2 * 0 + 1
  BY <1>2, PathBegins
<1>4. \E n \in Nat : c + 1 = s + 2 * n + 1 /\ PathTo(src, Tree("ident", c, <<>>), s, n)
  <2>1. 0 \in Nat
    OBVIOUS
  <2> QED
    BY <1>3, <2>1, Zenon
<1>5. ExpressionState(src, "path", Tree("ident", c, <<>>), min, s, c + 1)
  BY <1>4 DEF ExpressionState
<1> QED
  BY <1>1, <1>5, ExpressionAt DEF ForExpressions

(* ... that may be followed by the next one of a path,                      *)
LEMMA PathColonsMean ==
  ASSUME NEW src, NEW c, Sees(src, c, {"::"}), NEW tree, NEW min, NEW frames,
         PState(src, "path", tree, min, frames, c)
  PROVE  PState(src, "path_name", tree, min, frames, c + 1)
<1>1. PICK s : InExpression(src, frames, min, s)
               /\ ExpressionState(src, "path", tree, min, s, c)
  BY AtExpression DEF ForExpressions
<1>2. PICK n \in Nat : c = s + 2 * n + 1 /\ PathTo(src, tree, s, n)
  BY <1>1 DEF ExpressionState
<1>3. s \in Nat \ {0}
  BY <1>2 DEF PathTo
<1>4. c + 1 = s + 2 * n + 2
  BY <1>2, <1>3
<1>5. src[(c + 1) - 1] = "::"
  <2>1. (c + 1) - 1 = c
    BY SeesIs
  <2> QED
    BY <2>1 DEF Sees
<1>6. \E k \in Nat : c + 1 = s + 2 * k + 2 /\ PathTo(src, tree, s, k) /\ src[(c + 1) - 1] = "::"
  BY <1>2, <1>4, <1>5, Zenon
<1>7. ExpressionState(src, "path_name", tree, min, s, c + 1)
  BY <1>6 DEF ExpressionState
<1> QED
  BY <1>1, <1>7, ExpressionAt DEF ForExpressions

(* A name that is about to grow,                                            *)
Grows(src, tree, s, n, c) ==
  /\ n \in Nat /\ PathTo(src, tree, s, n) /\ c = s + 2 * n + 2
  /\ Sees(src, c, {"x"}) /\ src[c - 1] = "::"

(* ... and the longer one,                                                  *)
Longer(tree, c) == [tree EXCEPT ![3] = Append(@, c)]

(* ... is a path.                                                           *)
LEMMA PathGrows ==
  ASSUME NEW src, NEW tree, NEW s, NEW n, NEW c, Grows(src, tree, s, n, c)
  PROVE  /\ PathTo(src, Longer(tree, c), s, n + 1)
         /\ c + 1 = s + 2 * (n + 1) + 1
<1>0. /\ n \in Nat /\ PathTo(src, tree, s, n) /\ c = s + 2 * n + 2
      /\ Sees(src, c, {"x"}) /\ src[c - 1] = "::"
  BY DEF Grows
<1>1. s \in Nat \ {0} /\ ~IsAfterOperand(src, s)
      /\ tree = Tree("ident", s, [k \in 1 .. n |-> s + 2 * k])
  BY <1>0 DEF PathTo
<1>2. src[s] = "x" /\ \A k \in 1 .. n : src[s + 2 * k] = "x" /\ src[s + 2 * k - 1] = "::"
  BY <1>0 DEF PathTo
<1>3. s + 2 * (n + 1) = c
  <2>1. n \in Nat /\ c = s + 2 * n + 2
    BY <1>0
  <2> QED
    BY <1>1, <2>1
<1>4. /\ n \in Nat /\ n + 1 \in Nat /\ c + 1 = s + 2 * (n + 1) + 1 /\ s + 2 * (n + 1) - 1 = c - 1
      /\ \A k \in 1 .. (n + 1) : k \in 1 .. n \/ k = n + 1
      /\ \A k \in 1 .. n : k \in 1 .. (n + 1) /\ k # n + 1
      /\ \A k \in 1 .. n : s + 2 * k \in Int
      /\ n + 1 \in 1 .. (n + 1)
  <2>1. n \in Nat
    BY <1>0
  <2> QED
    BY <1>1, <1>3, <2>1
<1>5. src[c] = "x" /\ src[c - 1] = "::" /\ IsWithin(src, c)
  BY <1>0 DEF Sees
<1>6. \A k \in 1 .. (n + 1) : src[s + 2 * k] = "x" /\ src[s + 2 * k - 1] = "::"
  <2> TAKE k \in 1 .. (n + 1)
  <2>1. CASE k \in 1 .. n
    BY <1>2, <2>1
  <2>2. CASE k = n + 1
    BY <1>3, <1>4, <1>5, <2>2
  <2> QED
    BY <1>4, <2>1, <2>2
<1>7. PICK names : names = [k \in 1 .. n |-> s + 2 * k]
  OBVIOUS
<1>8. PICK more : more = Append(names, c)
  OBVIOUS
<1>9. PICK all : all = [k \in 1 .. (n + 1) |-> s + 2 * k]
  OBVIOUS
<1>10. names \in Seq(Int) /\ IsSeq(names) /\ Len(names) = n
       /\ \A k \in 1 .. n : names[k] = s + 2 * k
  <2>1. names \in Seq(Int) /\ Len(names) = n /\ \A k \in 1 .. n : names[k] = s + 2 * k
    BY <1>4, <1>7
  <2> QED
    BY <2>1, SeqOfItsOwn
<1>11. all \in Seq(Int) /\ IsSeq(all) /\ Len(all) = n + 1
       /\ \A k \in 1 .. (n + 1) : all[k] = s + 2 * k
  <2>1. \A k \in 1 .. (n + 1) : s + 2 * k \in Int
    BY <1>1
  <2>2. all \in Seq(Int) /\ Len(all) = n + 1 /\ \A k \in 1 .. (n + 1) : all[k] = s + 2 * k
    BY <1>4, <1>9, <2>1
  <2> QED
    BY <2>2, SeqOfItsOwn
<1>12. IsSeq(more) /\ Len(more) = n + 1 /\ (\A k \in 1 .. n : more[k] = names[k])
       /\ more[n + 1] = c
  BY <1>8, <1>10, AppendSeq
<1>13. \A k \in 1 .. (n + 1) : more[k] = all[k]
  <2> TAKE k \in 1 .. (n + 1)
  <2>1. CASE k \in 1 .. n
    BY <1>4, <1>10, <1>11, <1>12, <2>1
  <2>2. CASE k = n + 1
    BY <1>3, <1>4, <1>11, <1>12, <2>2
  <2> QED
    BY <1>4, <2>1, <2>2
<1>14. more = all
  BY <1>11, <1>12, <1>13, SameSeq
<1>15. Longer(tree, c) = Tree("ident", s, all)
  <2>1. tree = <<"ident", s, names>>
    BY <1>1, <1>7 DEF Tree
  <2>2. [<<"ident", s, names>> EXCEPT ![3] = Append(@, c)] = <<"ident", s, Append(names, c)>>
    OBVIOUS
  <2> QED
    BY <1>8, <1>14, <2>1, <2>2 DEF Tree, Longer
<1>16. IsWithin(src, s + 2 * (n + 1))
  BY <1>3, <1>5
<1>17. PathTo(src, Tree("ident", s, all), s, n + 1)
  BY <1>1, <1>2, <1>4, <1>6, <1>9, <1>16 DEF PathTo
<1> QED
  BY <1>4, <1>15, <1>17

(* Another name is in the path.                                             *)
LEMMA PathNameMeans ==
  ASSUME NEW src, NEW c, Sees(src, c, {"x"}), NEW tree, NEW min, NEW frames,
         PState(src, "path_name", tree, min, frames, c)
  PROVE  PState(src, "path", Longer(tree, c), min, frames, c + 1)
<1>1. PICK s : InExpression(src, frames, min, s)
               /\ ExpressionState(src, "path_name", tree, min, s, c)
  BY AtExpression DEF ForExpressions
<1>2. PICK n \in Nat : c = s + 2 * n + 2 /\ PathTo(src, tree, s, n) /\ src[c - 1] = "::"
  BY <1>1 DEF ExpressionState
<1>3. Grows(src, tree, s, n, c)
  BY <1>2 DEF Grows
<1>4. PathTo(src, Longer(tree, c), s, n + 1) /\ c + 1 = s + 2 * (n + 1) + 1
  BY <1>3, PathGrows
<1>5. \E k \in Nat : c + 1 = s + 2 * k + 1 /\ PathTo(src, Longer(tree, c), s, k)
  <2>1. n + 1 \in Nat
    OBVIOUS
  <2> QED
    BY <1>4, <2>1, Zenon
<1>6. ExpressionState(src, "path", Longer(tree, c), min, s, c + 1)
  BY <1>5 DEF ExpressionState
<1> QED
  BY <1>1, <1>6, ExpressionAt DEF ForExpressions

(* ... or by something else.                                                *)
LEMMA PathEndMeans ==
  ASSUME NEW src, IsSource(src), NEW c, NEW tree, NEW min, NEW frames,
         PState(src, "path", tree, min, frames, c)
  PROVE  PState(src, "pratt_parse", tree, min, frames, c)
<1>1. PICK s : InExpression(src, frames, min, s)
               /\ ExpressionState(src, "path", tree, min, s, c)
  BY AtExpression DEF ForExpressions
<1>2. PICK n \in Nat : c = s + 2 * n + 1 /\ PathTo(src, tree, s, n)
  BY <1>1 DEF ExpressionState
<1>3. c - 1 = s + 2 * n
  <2>1. s \in Nat \ {0}
    BY <1>2 DEF PathTo
  <2> QED
    BY <1>2, <2>1
<1>4. Reads(src, tree, s, c - 1, min)
  BY <1>2, <1>3, PathReads
<1>5. ExpressionState(src, "pratt_parse", tree, min, s, c)
  BY <1>4 DEF ExpressionState
<1> QED
  BY <1>1, <1>5, ExpressionAt DEF ForExpressions

(* A call asks for an expression, the next of its parts.                    *)
GoesOn(src, frames, f, s, o) ==
  /\ IsSeq(frames) /\ InList(src, frames, f, s) /\ f.node \notin Bracers
  /\ Waits(src, f, s, o) /\ o \in Nat \ {0} /\ ~IsAfterOperand(src, o)

(* The part a call goes on with begins.                                     *)
LEMMA PartBegins ==
  ASSUME NEW src, NEW frames, NEW f, NEW s, NEW o, GoesOn(src, frames, f, s, o), NEW tree
  PROVE  PState(src, "parse_prefix", tree, PartMin(src, f), frames, o)
<1>1. Enters(src, frames, f, s, o) /\ InList(src, frames, f, s) /\ f.node \notin Bracers
      /\ ~IsAfterOperand(src, o)
  BY DEF GoesOn, Enters
<1>2. InExpression(src, frames, PartMin(src, f), o)
  BY <1>1, ListAwaits
<1>3. ExpressionState(src, "parse_prefix", tree, PartMin(src, f), o, o)
  BY <1>1 DEF ExpressionState
<1> QED
  BY <1>2, <1>3, ExpressionAt DEF ForExpressions

(* A call as it is made,                                                    *)
IsFrame(f, node, pos, parts, min) ==
  f.node = node /\ f.pos = pos /\ f.parts = parts /\ f.min_prec = min

(* ... which asks for its first part,                                       *)
Asks(src, frames, f, min, s, o) ==
  /\ IsSeq(frames) /\ InExpression(src, frames, min, s) /\ f.min_prec = min
  /\ f.node \notin BraceNodes /\ f.node \notin Bracers
  /\ Waits(src, f, s, o) /\ o \in Nat \ {0} /\ ~IsAfterOperand(src, o)

(* ... and that part begins.                                                *)
LEMMA FirstPartBegins ==
  ASSUME NEW src, NEW frames, NEW f, NEW min, NEW s, NEW o, Asks(src, frames, f, min, s, o),
         NEW tree
  PROVE  PState(src, "parse_prefix", tree, PartMin(src, f), Append(frames, f), o)
<1>1. /\ IsSeq(frames) /\ InExpression(src, frames, f.min_prec, s)
      /\ f.node \notin BraceNodes /\ f.node \notin Bracers
      /\ Waits(src, f, s, o) /\ o \in Nat \ {0} /\ ~IsAfterOperand(src, o)
  BY DEF Asks
<1>2. PICK more : more = Append(frames, f)
  OBVIOUS
<1>3. InList(src, more, f, s) /\ IsSeq(more)
  BY <1>1, <1>2, PushInList
<1>4. GoesOn(src, more, f, s, o)
  BY <1>1, <1>3 DEF GoesOn
<1>5. PState(src, "parse_prefix", tree, PartMin(src, f), more, o)
  BY <1>4, PartBegins
<1> QED
  BY <1>2, <1>5

(* The kinds of calls: none of an expression is of braces.                  *)
LEMMA NodeKinds ==
  /\ \A node \in {"unary", "paren", "cast", "infix", "ternary", "call", "subscript"} :
       node \notin BraceNodes /\ node \notin Bracers
  /\ "create" \notin BraceNodes /\ "create" \in Bracers
  /\ \A node \in {"struct_init", "arr_init"} : node \in BraceNodes /\ node \notin Bracers
  /\ "nested_arr_init" \in BraceNodes /\ "nested_arr_init" \in Bracers
BY DEF BraceNodes, Bracers

----------------------------------------------------------------------------
(* A prefix operator,                                                       *)
LEMMA UnaryMeans ==
  ASSUME NEW src, NEW c, Sees(src, c, PrefixOperators), NEW tree, NEW min, NEW frames,
         PState(src, "parse_prefix", tree, min, frames, c), IsSeq(frames),
         NEW f, IsFrame(f, "unary", c, <<>>, min), NEW none
  PROVE  PState(src, "parse_prefix", none, PREFIX_PRECEDENCE, Append(frames, f), c + 1)
<1>1. PICK s : InExpression(src, frames, min, s)
               /\ ExpressionState(src, "parse_prefix", tree, min, s, c)
  BY AtExpression DEF ForExpressions
<1>2. s = c /\ ~IsAfterOperand(src, c)
  BY <1>1 DEF ExpressionState
<1>3. c + 1 \in Nat \ {0}
  BY SeesIs
<1>4. src[c] \in PrefixOperators
  BY DEF Sees
<1>5. f.node = "unary" /\ f.pos = c /\ f.parts = <<>> /\ f.min_prec = min
  BY DEF IsFrame
<1>6. Waits(src, f, s, c + 1)
  BY <1>2, <1>4, <1>5 DEF Waits, BeginsAt
<1>7. ~IsAfterOperand(src, c + 1)
  <2>1. Sees(src, c, {"[", "?", "=", ",", "(", ":"} \cup PrefixOperators
                       \cup BinaryOperators \cup AssignOperators)
    BY DEF Sees
  <2> QED
    BY <1>2, <2>1, OperandAhead
<1>8. Asks(src, frames, f, min, s, c + 1)
  BY <1>1, <1>3, <1>5, <1>6, <1>7, NodeKinds DEF Asks
<1>9. PartMin(src, f) = PREFIX_PRECEDENCE
  BY <1>5 DEF PartMin
<1>10. PState(src, "parse_prefix", none, PartMin(src, f), Append(frames, f), c + 1)
  BY <1>8, FirstPartBegins
<1> QED
  BY <1>9, <1>10

(* a parenthesis,                                                           *)
LEMMA ParenMeans ==
  ASSUME NEW src, NEW c, Sees(src, c, {"("}), NEW tree, NEW min, NEW frames,
         PState(src, "parse_prefix", tree, min, frames, c)
  PROVE  PState(src, "after_lparen", tree, min, frames, c + 1)
<1>1. PICK s : InExpression(src, frames, min, s)
               /\ ExpressionState(src, "parse_prefix", tree, min, s, c)
  BY AtExpression DEF ForExpressions
<1>2. s = c /\ ~IsAfterOperand(src, c)
  BY <1>1 DEF ExpressionState
<1>3. src[c] = "("
  BY DEF Sees
<1>4. ExpressionState(src, "after_lparen", tree, min, s, c + 1)
  BY <1>2, <1>3 DEF ExpressionState
<1> QED
  BY <1>1, <1>4, ExpressionAt DEF ForExpressions

(* ... which are not a cast,                                                *)
LEMMA ParenPartMeans ==
  ASSUME NEW src, IsSource(src), NEW c \in Nat \ {0}, NEW tree, NEW min, NEW frames,
         PState(src, "after_lparen", tree, min, frames, c), IsSeq(frames),
         NEW f, IsFrame(f, "paren", c - 1, <<>>, min), NEW none
  PROVE  PState(src, "parse_prefix", none, 0, Append(frames, f), c)
<1>1. PICK s : InExpression(src, frames, min, s)
               /\ ExpressionState(src, "after_lparen", tree, min, s, c)
  BY AtExpression DEF ForExpressions
<1>2. c = s + 1 /\ ~IsAfterOperand(src, s) /\ s \in Nat \ {0}
  BY <1>1 DEF ExpressionState, InExpression
<1>3. src[s] = "("
  BY <1>1 DEF ExpressionState
<1>4. c - 1 = s
  BY <1>2
<1>5. f.node = "paren" /\ f.pos = s /\ f.parts = <<>> /\ f.min_prec = min
  BY <1>4 DEF IsFrame
<1>6. Waits(src, f, s, c)
  BY <1>2, <1>3, <1>5 DEF Waits, BeginsAt
<1>7. ~IsAfterOperand(src, c)
  <2>1. ~EndsOperand(src, s) /\ src[s] \notin {"++", "--"}
    BY <1>3 DEF EndsOperand
  <2>2. s \in Int
    BY <1>2
  <2> QED
    BY <1>2, <2>1, <2>2, NotAfter
<1>8. Asks(src, frames, f, min, s, c)
  BY <1>1, <1>5, <1>6, <1>7, NodeKinds DEF Asks
<1>9. PartMin(src, f) = 0
  BY <1>5 DEF PartMin
<1>10. PState(src, "parse_prefix", none, PartMin(src, f), Append(frames, f), c)
  BY <1>8, FirstPartBegins
<1> QED
  BY <1>9, <1>10

(* a cast.                                                                  *)
LEMMA CastMeans ==
  ASSUME NEW src, NEW c, Sees(src, c, {"#cast<T>"}), NEW tree, NEW min, NEW frames,
         PState(src, "after_lparen", tree, min, frames, c)
  PROVE  PState(src, "cast", tree, min, frames, c + 1)
<1>1. PICK s : InExpression(src, frames, min, s)
               /\ ExpressionState(src, "after_lparen", tree, min, s, c)
  BY AtExpression DEF ForExpressions
<1>2. c = s + 1 /\ ~IsAfterOperand(src, s) /\ s \in Nat \ {0}
  BY <1>1 DEF ExpressionState, InExpression
<1>3. src[s] = "("
  BY <1>1 DEF ExpressionState
<1>4. src[s + 1] = "#cast<T>"
  BY <1>2 DEF Sees
<1>5. c + 1 = s + 2
  BY <1>2
<1>6. ExpressionState(src, "cast", tree, min, s, c + 1)
  BY <1>2, <1>3, <1>4, <1>5 DEF ExpressionState
<1> QED
  BY <1>1, <1>6, ExpressionAt DEF ForExpressions

(* ... and the operand of one that is.                                      *)
LEMMA CastPartMeans ==
  ASSUME NEW src, NEW c, Sees(src, c, {")"}), NEW tree, NEW min, NEW frames,
         PState(src, "cast", tree, min, frames, c), IsSeq(frames),
         NEW f, IsFrame(f, "cast", c - 2, <<>>, min), NEW none
  PROVE  PState(src, "parse_prefix", none, 0, Append(frames, f), c + 1)
<1>1. PICK s : InExpression(src, frames, min, s)
               /\ ExpressionState(src, "cast", tree, min, s, c)
  BY AtExpression DEF ForExpressions
<1>2. c = s + 2 /\ ~IsAfterOperand(src, s) /\ s \in Nat \ {0}
  BY <1>1 DEF ExpressionState, InExpression
<1>3. src[s] = "(" /\ src[s + 1] = "#cast<T>"
  BY <1>1 DEF ExpressionState
<1>4. src[s + 2] = ")"
  BY <1>2 DEF Sees
<1>5. c - 2 = s /\ c + 1 = s + 3 /\ s + 2 \in Int /\ (s + 2) - 1 = s + 1 /\ (s + 2) + 1 = c + 1
      /\ c + 1 \in Nat \ {0}
  BY <1>2
<1>6. f.node = "cast" /\ f.pos = s /\ f.parts = <<>> /\ f.min_prec = min
  BY <1>5 DEF IsFrame
<1>7. Waits(src, f, s, c + 1)
  BY <1>2, <1>3, <1>4, <1>5, <1>6 DEF Waits, BeginsAt
<1>8. ~IsAfterOperand(src, c + 1)
  <2>1. ~EndsOperand(src, s + 2) /\ src[s + 2] \notin {"++", "--"}
    BY <1>3, <1>4, <1>5 DEF EndsOperand
  <2> QED
    BY <1>5, <2>1, NotAfter
<1>9. Asks(src, frames, f, min, s, c + 1)
  BY <1>1, <1>5, <1>6, <1>7, <1>8, NodeKinds DEF Asks
<1>10. PartMin(src, f) = 0
  BY <1>6 DEF PartMin
<1>11. PState(src, "parse_prefix", none, PartMin(src, f), Append(frames, f), c + 1)
  BY <1>9, FirstPartBegins
<1> QED
  BY <1>10, <1>11

(* An operand and what follows it.                                          *)
LEMMA AtPratt ==
  ASSUME NEW src, NEW tree, NEW min, NEW frames, NEW c,
         PState(src, "pratt_parse", tree, min, frames, c)
  PROVE  \E s : InExpression(src, frames, min, s) /\ Reads(src, tree, s, c - 1, min)
<1>1. PICK s : InExpression(src, frames, min, s)
               /\ ExpressionState(src, "pratt_parse", tree, min, s, c)
  BY AtExpression DEF ForExpressions
<1>2. Reads(src, tree, s, c - 1, min)
  BY <1>1 DEF ExpressionState
<1> QED
  BY <1>1, <1>2

(* An operand is read: the loop goes on.                                    *)
LEMMA PrattAt ==
  ASSUME NEW src, NEW tree, NEW min, NEW frames, NEW c, NEW s,
         InExpression(src, frames, min, s), Reads(src, tree, s, c - 1, min)
  PROVE  PState(src, "pratt_parse", tree, min, frames, c)
<1>1. ExpressionState(src, "pratt_parse", tree, min, s, c)
  BY DEF ExpressionState
<1> QED
  BY <1>1, ExpressionAt DEF ForExpressions

(* It ends at what binds no tighter than the least precedence.              *)
LEMMA EndMeans ==
  ASSUME NEW src, NEW tree, NEW min, NEW frames, NEW c,
         PState(src, "pratt_parse", tree, min, frames, c), Precedence(src[c]) <= min
  PROVE  PState(src, "return", tree, min, frames, c)
<1>1. PICK s : InExpression(src, frames, min, s) /\ Reads(src, tree, s, c - 1, min)
  BY AtPratt
<1>2. ExpressionState(src, "return", tree, min, s, c)
  BY <1>1 DEF ExpressionState
<1> QED
  BY <1>1, <1>2, ExpressionAt DEF ForExpressions

(* It takes an increment,                                                   *)
LEMMA PostfixMeans ==
  ASSUME NEW src, NEW c, Sees(src, c, {"++", "--"}), NEW tree, NEW min, NEW frames,
         PState(src, "pratt_parse", tree, min, frames, c)
  PROVE  PState(src, "pratt_parse", Tree("postfix", c, <<tree>>), min, frames, c + 1)
<1>1. PICK s : InExpression(src, frames, min, s) /\ Reads(src, tree, s, c - 1, min)
  BY AtPratt
<1>2. IsSource(src) /\ c \in Nat \ {0} /\ IsWithin(src, c) /\ (c + 1) - 1 = c
  BY SeesIs
<1>3. Fits(src, s, c - 1, min) /\ tree = Meaning(src, s, c - 1)
  BY <1>1 DEF Reads
<1>4. src[c] \in {"++", "--"}
  BY DEF Sees
<1>5. Reads(src, Tree("postfix", c, <<Meaning(src, s, c - 1)>>), s, c, min)
  BY <1>2, <1>3, <1>4, PostfixReads
<1>6. Reads(src, Tree("postfix", c, <<tree>>), s, (c + 1) - 1, min)
  BY <1>2, <1>3, <1>5
<1> QED
  BY <1>1, <1>6, PrattAt

(* ... a dot,                                                               *)
LEMMA MemberMeans ==
  ASSUME NEW src, NEW c, Sees(src, c, {".", "->"}), NEW tree, NEW min, NEW frames,
         PState(src, "pratt_parse", tree, min, frames, c)
  PROVE  PState(src, "member", tree, min, frames, c + 1)
<1>1. PICK s : InExpression(src, frames, min, s) /\ Reads(src, tree, s, c - 1, min)
  BY AtPratt
<1>2. (c + 1) - 1 = c /\ (c + 1) - 2 = c - 1
  BY SeesIs
<1>3. src[c] \in {".", "->"}
  BY DEF Sees
<1>4. ExpressionState(src, "member", tree, min, s, c + 1)
  BY <1>1, <1>2, <1>3 DEF ExpressionState
<1> QED
  BY <1>1, <1>4, ExpressionAt DEF ForExpressions

(* ... and the member after it.                                             *)
LEMMA MemberNameMeans ==
  ASSUME NEW src, NEW c, Sees(src, c, {"x"}), NEW tree, NEW min, NEW frames,
         PState(src, "member", tree, min, frames, c)
  PROVE  PState(src, "pratt_parse", Tree("member", c - 1, <<tree>>), min, frames, c + 1)
<1>1. PICK s : InExpression(src, frames, min, s)
               /\ ExpressionState(src, "member", tree, min, s, c)
  BY AtExpression DEF ForExpressions
<1>2. Reads(src, tree, s, c - 2, min) /\ src[c - 1] \in {".", "->"}
  BY <1>1 DEF ExpressionState
<1>3. Fits(src, s, c - 2, min) /\ tree = Meaning(src, s, c - 2)
  BY <1>2 DEF Reads
<1>4. IsSource(src) /\ c \in Nat \ {0} /\ IsWithin(src, c) /\ (c + 1) - 1 = c /\ c \in Int
  BY SeesIs
<1>5. PICK p : p = c - 1
  OBVIOUS
<1>6. c - 2 \in Nat /\ s \in Nat \ {0} /\ s <= c - 2
  BY <1>3, FitsIs
<1>7. p \in Nat \ {0} /\ p + 1 = c /\ p - 1 = c - 2
  BY <1>4, <1>5, <1>6
<1>8. src[p + 1] = "x"
  BY <1>7 DEF Sees
<1>9. src[p] \in {".", "->"}
  BY <1>2, <1>5
<1>10. IsWithin(src, p + 1) /\ Fits(src, s, p - 1, min)
  BY <1>3, <1>4, <1>7
<1>11. Reads(src, Tree("member", p, <<Meaning(src, s, p - 1)>>), s, p + 1, min)
  BY <1>4, <1>7, <1>8, <1>9, <1>10, MemberReads
<1>12. Reads(src, Tree("member", c - 1, <<tree>>), s, (c + 1) - 1, min)
  BY <1>3, <1>4, <1>5, <1>7, <1>11
<1> QED
  BY <1>1, <1>12, PrattAt

----------------------------------------------------------------------------
(* A call that is given its left operand.                                   *)
GivenLeft(src, f, node, c, tree, min, s) ==
  c \in Nat \ {0} /\ Reads(src, tree, s, c - 1, min) /\ IsFrame(f, node, c, <<tree>>, min)

(* What is read is the left operand                                         *)
LEMMA LeftOperand ==
  ASSUME NEW src, NEW f, NEW node, NEW c, NEW tree, NEW min, NEW s,
         GivenLeft(src, f, node, c, tree, min, s)
  PROVE  /\ Leads(src, f, s) /\ Len(f.parts) = 1 /\ Tail(f.parts) = <<>>
         /\ f.node = node /\ f.pos = c /\ f.min_prec = min
<1>1. f.node = node /\ f.pos = c /\ f.parts = <<tree>> /\ f.min_prec = min
  BY DEF GivenLeft, IsFrame
<1>2. c \in Nat \ {0} /\ Fits(src, s, c - 1, min) /\ tree = Meaning(src, s, c - 1)
  BY DEF GivenLeft, Reads
<1>3. PICK one : one = <<tree>>
  OBVIOUS
<1>4. IsSeq(one) /\ Len(one) = 1 /\ one[1] = tree
  BY <1>3, ShortSeqs
<1>5. one # <<>> /\ Tail(one) = <<>>
  BY <1>3
<1> QED
  BY <1>1, <1>2, <1>3, <1>4, <1>5 DEF Leads

(* ... of an operator,                                                      *)
LEMMA InfixMeans ==
  ASSUME NEW src, NEW c, Sees(src, c, BinaryOperators \cup AssignOperators), NEW tree, NEW min,
         NEW frames, PState(src, "pratt_parse", tree, min, frames, c), IsSeq(frames),
         Precedence(src[c]) > min, NEW f, IsFrame(f, "infix", c, <<tree>>, min), NEW none
  PROVE  PState(src, "parse_prefix", none, MinRhsPrec(src[c]), Append(frames, f), c + 1)
<1>1. PICK s : InExpression(src, frames, min, s) /\ Reads(src, tree, s, c - 1, min)
  BY AtPratt
<1>2. c \in Nat \ {0} /\ c + 1 \in Nat \ {0}
  BY SeesIs
<1>3. /\ Leads(src, f, s) /\ Len(f.parts) = 1 /\ f.node = "infix" /\ f.pos = c
      /\ f.min_prec = min
  <2>1. GivenLeft(src, f, "infix", c, tree, min, s)
    BY <1>1, <1>2 DEF GivenLeft
  <2> QED
    BY <2>1, LeftOperand
<1>4. src[c] \in BinaryOperators \cup AssignOperators
  BY DEF Sees
<1>5. WaitsInfix(src, f, s, c + 1)
  BY <1>3, <1>4 DEF WaitsInfix
<1>6. Waits(src, f, s, c + 1)
  BY <1>3, <1>5 DEF Waits
<1>7. ~IsAfterOperand(src, c + 1)
  <2>1. Sees(src, c, {"[", "?", "=", ",", "(", ":"} \cup PrefixOperators
                       \cup BinaryOperators \cup AssignOperators)
    BY DEF Sees
  <2>2. src[c] \notin {"++", "--"}
    BY <1>4 DEF BinaryOperators, AssignOperators
  <2> QED
    BY <2>1, <2>2, OperandAhead
<1>8. Asks(src, frames, f, min, s, c + 1)
  BY <1>1, <1>2, <1>3, <1>6, <1>7, NodeKinds DEF Asks
<1>9. PartMin(src, f) = MinRhsPrec(src[c])
  BY <1>3 DEF PartMin
<1>10. PState(src, "parse_prefix", none, PartMin(src, f), Append(frames, f), c + 1)
  BY <1>8, FirstPartBegins
<1> QED
  BY <1>9, <1>10

(* ... or of the ternary.                                                   *)
LEMMA TernaryMeans ==
  ASSUME NEW src, NEW c, Sees(src, c, {"?"}), NEW tree, NEW min,
         NEW frames, PState(src, "pratt_parse", tree, min, frames, c), IsSeq(frames),
         Precedence(src[c]) > min, NEW f, IsFrame(f, "ternary", c, <<tree>>, min), NEW none
  PROVE  PState(src, "parse_prefix", none, 0, Append(frames, f), c + 1)
<1>1. PICK s : InExpression(src, frames, min, s) /\ Reads(src, tree, s, c - 1, min)
  BY AtPratt
<1>2. c \in Nat \ {0} /\ c + 1 \in Nat \ {0}
  BY SeesIs
<1>3. /\ Leads(src, f, s) /\ Len(f.parts) = 1 /\ f.node = "ternary" /\ f.pos = c
      /\ f.min_prec = min
  <2>1. GivenLeft(src, f, "ternary", c, tree, min, s)
    BY <1>1, <1>2 DEF GivenLeft
  <2> QED
    BY <2>1, LeftOperand
<1>4. src[c] = "?"
  BY DEF Sees
<1>5. WaitsTernary(src, f, s, c + 1)
  BY <1>3, <1>4 DEF WaitsTernary
<1>6. Waits(src, f, s, c + 1)
  BY <1>3, <1>5 DEF Waits
<1>7. ~IsAfterOperand(src, c + 1)
  <2>1. Sees(src, c, {"[", "?", "=", ",", "(", ":"} \cup PrefixOperators
                       \cup BinaryOperators \cup AssignOperators)
    BY DEF Sees
  <2>2. src[c] \notin {"++", "--"}
    BY <1>4
  <2> QED
    BY <2>1, <2>2, OperandAhead
<1>8. Asks(src, frames, f, min, s, c + 1)
  BY <1>1, <1>2, <1>3, <1>6, <1>7, NodeKinds DEF Asks
<1>9. PartMin(src, f) = 0
  <2>1. Len(f.parts) # 2
    BY <1>3
  <2> QED
    BY <1>3, <2>1, Zenon DEF PartMin
<1>10. PState(src, "parse_prefix", none, PartMin(src, f), Append(frames, f), c + 1)
  BY <1>8, FirstPartBegins
<1> QED
  BY <1>9, <1>10

(* A struct is created of it.                                               *)
LEMMA CreateMeans ==
  ASSUME NEW src, NEW c, Sees(src, c, {"{"}), NEW tree, NEW min,
         NEW frames, PState(src, "pratt_parse", tree, min, frames, c), IsSeq(frames),
         NEW f, IsFrame(f, "create", c, <<tree>>, min)
  PROVE  PState(src, "parse_struct_init", tree, min, Append(frames, f), c)
<1>1. PICK s : InExpression(src, frames, min, s) /\ Reads(src, tree, s, c - 1, min)
  BY AtPratt
<1>2. c \in Nat \ {0}
  BY SeesIs
<1>3. /\ Leads(src, f, s) /\ Len(f.parts) = 1 /\ f.node = "create" /\ f.pos = c
      /\ f.min_prec = min
  <2>1. GivenLeft(src, f, "create", c, tree, min, s)
    BY <1>1, <1>2 DEF GivenLeft
  <2> QED
    BY <2>1, LeftOperand, ZenonT(60)
<1>4. src[c] = "{"
  BY DEF Sees
<1>5. WaitsCreate(src, f, s, c)
  BY <1>3, <1>4 DEF WaitsCreate
<1>6. Waits(src, f, s, c)
  BY <1>3, <1>5 DEF Waits
<1>7. PICK more : more = Append(frames, f)
  OBVIOUS
<1>8. InList(src, more, f, s) /\ IsSeq(more)
  BY <1>1, <1>3, <1>7, NodeKinds, PushInList
<1>9. Enters(src, more, f, s, c)
  BY <1>2, <1>6, <1>8 DEF Enters
<1>10. InBraces(src, more, c)
  BY <1>3, <1>8, <1>9, NodeKinds, ListAwaits
<1>11. BracesState(src, "parse_struct_init", tree, c, c)
  BY DEF BracesState
<1>12. PState(src, "parse_struct_init", tree, min, more, c)
  BY <1>10, <1>11, BracesAt DEF ForBraces
<1> QED
  BY <1>7, <1>12

(* A call with its node made.                                               *)
LEMMA MadeMeans ==
  ASSUME NEW src, NEW frames, IsSeq(frames), NEW f, NEW s, InList(src, frames, f, s),
         f.node \notin BraceNodes, NEW c, NEW tree, Reads(src, tree, s, c - 1, f.min_prec)
  PROVE  PState(src, "pratt_parse", tree, f.min_prec, SubSeq(frames, 1, Len(frames) - 1), c)
<1>1. PICK rest : rest = SubSeq(frames, 1, Len(frames) - 1)
  OBVIOUS
<1>2. InExpression(src, rest, f.min_prec, s)
  BY <1>1, PopList
<1>3. PState(src, "pratt_parse", tree, f.min_prec, rest, c)
  BY <1>2, PrattAt
<1> QED
  BY <1>1, <1>3

----------------------------------------------------------------------------
(* A call of a function,                                                    *)
LEMMA CallMeans ==
  ASSUME NEW src, NEW c, Sees(src, c, {"("}), NEW tree, NEW min,
         NEW frames, PState(src, "pratt_parse", tree, min, frames, c), IsSeq(frames),
         NEW f, IsFrame(f, "call", c, <<tree>>, min)
  PROVE  PState(src, "args", tree, min, Append(frames, f), c + 1)
<1>1. PICK s : InExpression(src, frames, min, s) /\ Reads(src, tree, s, c - 1, min)
  BY AtPratt
<1>2. c \in Nat \ {0} /\ c + 1 \in Nat \ {0}
  BY SeesIs
<1>3. GivenLeft(src, f, "call", c, tree, min, s)
  BY <1>1, <1>2 DEF GivenLeft
<1>4. /\ Leads(src, f, s) /\ Len(f.parts) = 1 /\ Tail(f.parts) = <<>>
      /\ f.node = "call" /\ f.pos = c /\ f.min_prec = min
  BY <1>3, LeftOperand
<1>5. src[c] = "("
  BY DEF Sees
<1>6. NextAt(src, <<>>, c + 1, c + 1, 0)
  BY DEF NextAt
<1>7. NextAt(src, Tail(f.parts), f.pos + 1, c + 1, 0)
  BY <1>4, <1>6
<1>8. WaitsCall(src, f, s, c + 1)
  BY <1>4, <1>5, <1>7 DEF WaitsCall
<1>9. BetweenState(src, "args", f, s, c + 1)
  BY <1>4, <1>8 DEF BetweenState
<1>10. InList(src, Append(frames, f), f, s)
  BY <1>1, <1>4, NodeKinds, PushInList
<1> QED
  BY <1>9, <1>10, ListAt DEF Between

(* A call without arguments is an operand.                                  *)
LEMMA EmptyCallMeans ==
  ASSUME NEW src, NEW c, Sees(src, c, {")"}), NEW tree, NEW min,
         NEW frames, PState(src, "args", tree, min, frames, c), IsSeq(frames),
         NEW f, f = frames[Len(frames)], f.node = "call"
  PROVE  PState(src, "pratt_parse", Built(f), f.min_prec,
                SubSeq(frames, 1, Len(frames) - 1), c + 1)
<1>1. PICK s : /\ InList(src, frames, frames[Len(frames)], s)
               /\ BetweenState(src, "args", frames[Len(frames)], s, c)
  BY AtList DEF Between
<1>2. InList(src, frames, f, s) /\ BetweenState(src, "args", f, s, c)
  BY <1>1
<1>3. WaitsCall(src, f, s, c) /\ Len(f.parts) = 1 /\ c = f.pos + 1
  BY <1>2 DEF BetweenState
<1>4. Leads(src, f, s) /\ src[f.pos] = "("
  BY <1>3 DEF WaitsCall
<1>5. src[c] = ")"
  BY DEF Sees
<1>6. IsSource(src) /\ IsWithin(src, c) /\ (c + 1) - 1 = c
  BY SeesIs
<1>7. EmptyCall(src, f, s, c)
  BY <1>3, <1>4, <1>5, <1>6 DEF EmptyCall
<1>8. Reads(src, Built(f), s, c, f.min_prec)
  BY <1>6, <1>7, CallEmpty
<1>9. Reads(src, Built(f), s, (c + 1) - 1, f.min_prec)
  BY <1>6, <1>8
<1>10. f.node \notin BraceNodes
  BY NodeKinds
<1> QED
  BY <1>2, <1>9, <1>10, MadeMeans

(* ... its first argument,                                                  *)
LEMMA FirstArgMeans ==
  ASSUME NEW src, NEW c \in Nat \ {0}, NEW tree, NEW min,
         NEW frames, PState(src, "args", tree, min, frames, c), IsSeq(frames),
         NEW f, f = frames[Len(frames)], f.node = "call", NEW none
  PROVE  PState(src, "parse_prefix", none, 0, frames, c)
<1>1. PICK s : /\ InList(src, frames, frames[Len(frames)], s)
               /\ BetweenState(src, "args", frames[Len(frames)], s, c)
  BY AtList DEF Between
<1>2. InList(src, frames, f, s) /\ BetweenState(src, "args", f, s, c)
  BY <1>1
<1>3. WaitsCall(src, f, s, c) /\ Len(f.parts) = 1 /\ c = f.pos + 1
  BY <1>2 DEF BetweenState
<1>4. Leads(src, f, s) /\ src[f.pos] = "("
  BY <1>3 DEF WaitsCall
<1>5. Waits(src, f, s, c)
  BY <1>3 DEF Waits
<1>6. ~IsAfterOperand(src, c)
  <2>1. f.pos \in Int
    BY <1>4 DEF Leads
  <2>2. ~EndsOperand(src, f.pos) /\ src[f.pos] \notin {"++", "--"}
    BY <1>4 DEF EndsOperand
  <2> QED
    BY <1>3, <2>1, <2>2, NotAfter
<1>7. GoesOn(src, frames, f, s, c)
  BY <1>2, <1>5, <1>6, NodeKinds DEF GoesOn
<1>8. PartMin(src, f) = 0
  BY DEF PartMin
<1>9. PState(src, "parse_prefix", none, PartMin(src, f), frames, c)
  BY <1>7, PartBegins
<1> QED
  BY <1>8, <1>9

(* ... and the next.                                                        *)
LEMMA NextArgMeans ==
  ASSUME NEW src, NEW c \in Nat \ {0}, NEW tree, NEW min,
         NEW frames, PState(src, "after_comma", tree, min, frames, c), IsSeq(frames),
         NEW f, f = frames[Len(frames)], f.node = "call", NEW none
  PROVE  PState(src, "parse_prefix", none, 0, frames, c)
<1>1. PICK s : /\ InList(src, frames, frames[Len(frames)], s)
               /\ BetweenState(src, "after_comma", frames[Len(frames)], s, c)
  BY AtList DEF Between
<1>2. InList(src, frames, f, s) /\ BetweenState(src, "after_comma", f, s, c)
  BY <1>1
<1>3. WaitsCall(src, f, s, c) /\ src[c - 1] = ","
  BY <1>2 DEF BetweenState
<1>4. Waits(src, f, s, c)
  BY <1>3 DEF Waits
<1>5. ~IsAfterOperand(src, c)
  <2>1. PICK k : k = c - 1
    OBVIOUS
  <2>2. k \in Int /\ k + 1 = c
    BY <2>1
  <2>3. ~EndsOperand(src, k) /\ src[k] \notin {"++", "--"}
    BY <1>3, <2>1 DEF EndsOperand
  <2>4. ~IsAfterOperand(src, k + 1)
    BY <2>2, <2>3, NotAfter
  <2> QED
    BY <2>2, <2>4
<1>6. GoesOn(src, frames, f, s, c)
  BY <1>2, <1>4, <1>5, NodeKinds DEF GoesOn
<1>7. PartMin(src, f) = 0
  BY DEF PartMin
<1>8. PState(src, "parse_prefix", none, PartMin(src, f), frames, c)
  BY <1>6, PartBegins
<1> QED
  BY <1>7, <1>8

(* An argument is returned.                                                 *)
LEMMA ArgMeans ==
  ASSUME NEW src, NEW c, Sees(src, c, {","}), NEW tree, NEW min, NEW frames, IsSeq(frames),
         NEW f, f = frames[Len(frames)], frames # <<>>, f.min_prec \in Nat, f.node = "call",
         PState(src, "return", tree, min, frames, c), NEW g, IsFilled(g, f, tree)
  PROVE  PState(src, "after_comma", tree, min, [frames EXCEPT ![Len(frames)] = g], c + 1)
<1>1. c \in Nat \ {0} /\ IsSource(src) /\ IsWithin(src, c) /\ (c + 1) - 1 = c
  BY SeesIs
<1>2. PICK s, o : InList(src, frames, f, s) /\ Answered(src, f, s, o, tree, c)
  BY <1>1, NodeKinds, ReturnedAnswers
<1>3. src[c] = ","
  BY DEF Sees
<1>4. AnsweredBy(src, f, s, o, tree, c, ",")
  BY <1>1, <1>2, <1>3 DEF AnsweredBy
<1>5. WaitsCall(src, g, s, c + 1)
  BY <1>1, <1>4, CallMore
<1>6. g.node = "call" /\ g.min_prec = f.min_prec
  BY DEF IsFilled
<1>7. BetweenState(src, "after_comma", g, s, c + 1)
  BY <1>1, <1>3, <1>5, <1>6 DEF BetweenState
<1>8. InList(src, [frames EXCEPT ![Len(frames)] = g], g, s)
  BY <1>2, <1>6, ReplaceInList
<1> QED
  BY <1>7, <1>8, ListAt DEF Between

(* The last argument makes the call.                                        *)
LEMMA LastArgMeans ==
  ASSUME NEW src, NEW c, Sees(src, c, {")"}), NEW tree, NEW min, NEW frames, IsSeq(frames),
         NEW f, f = frames[Len(frames)], frames # <<>>, f.min_prec \in Nat, f.node = "call",
         PState(src, "return", tree, min, frames, c)
  PROVE  PState(src, "pratt_parse", Made(f, tree), f.min_prec,
                SubSeq(frames, 1, Len(frames) - 1), c + 1)
<1>1. c \in Nat \ {0} /\ IsSource(src) /\ IsWithin(src, c) /\ (c + 1) - 1 = c
  BY SeesIs
<1>2. PICK s, o : InList(src, frames, f, s) /\ Answered(src, f, s, o, tree, c)
  BY <1>1, NodeKinds, ReturnedAnswers
<1>3. src[c] = ")"
  BY DEF Sees
<1>4. AnsweredBy(src, f, s, o, tree, c, ")")
  BY <1>1, <1>2, <1>3 DEF AnsweredBy
<1>5. Reads(src, Made(f, tree), s, c, f.min_prec)
  BY <1>1, <1>4, CallMade
<1>6. Reads(src, Made(f, tree), s, (c + 1) - 1, f.min_prec)
  BY <1>1, <1>5
<1>7. f.node \notin BraceNodes
  BY NodeKinds
<1> QED
  BY <1>2, <1>6, <1>7, MadeMeans

----------------------------------------------------------------------------
(* A subscript,                                                             *)
LEMMA SubscriptMeans ==
  ASSUME NEW src, NEW c, Sees(src, c, {"["}), NEW tree, NEW min,
         NEW frames, PState(src, "pratt_parse", tree, min, frames, c), IsSeq(frames),
         NEW f, IsFrame(f, "subscript", c, <<tree>>, min), NEW none
  PROVE  PState(src, "parse_prefix", none, 0, Append(frames, f), c + 1)
<1>1. PICK s : InExpression(src, frames, min, s) /\ Reads(src, tree, s, c - 1, min)
  BY AtPratt
<1>2. /\ c \in Nat \ {0} /\ c + 1 \in Nat \ {0} /\ (c + 1) - 1 = c /\ (c + 1) - 2 = c - 1
      /\ c <= c
  <2>1. c \in Int
    BY SeesIs
  <2> QED
    BY <2>1, SeesIs
<1>3. GivenLeft(src, f, "subscript", c, tree, min, s)
  BY <1>1, <1>2 DEF GivenLeft
<1>4. /\ Leads(src, f, s) /\ Len(f.parts) = 1 /\ Tail(f.parts) = <<>>
      /\ f.node = "subscript" /\ f.pos = c /\ f.min_prec = min
  BY <1>3, LeftOperand
<1>5. src[c] = "["
  BY DEF Sees
<1>6. RunTo(src, <<>>, c, c - 1)
  BY <1>2, NoRun
<1>7. RunTo(src, Tail(f.parts), f.pos, (c + 1) - 2)
  BY <1>2, <1>4, <1>6
<1>8. WaitsSubscript(src, f, s, c + 1)
  BY <1>2, <1>4, <1>5, <1>7 DEF WaitsSubscript
<1>9. Waits(src, f, s, c + 1)
  BY <1>4, <1>8 DEF Waits
<1>10. ~IsAfterOperand(src, c + 1)
  <2>1. Sees(src, c, {"[", "?", "=", ",", "(", ":"} \cup PrefixOperators
                       \cup BinaryOperators \cup AssignOperators)
    BY DEF Sees
  <2>2. src[c] \notin {"++", "--"}
    BY <1>5
  <2> QED
    BY <2>1, <2>2, OperandAhead
<1>11. Asks(src, frames, f, min, s, c + 1)
  BY <1>1, <1>2, <1>4, <1>9, <1>10, NodeKinds DEF Asks
<1>12. PartMin(src, f) = 0
  BY <1>4 DEF PartMin
<1>13. PState(src, "parse_prefix", none, PartMin(src, f), Append(frames, f), c + 1)
  BY <1>11, FirstPartBegins
<1> QED
  BY <1>12, <1>13

(* ... the next,                                                            *)
LEMMA NextSubscriptMeans ==
  ASSUME NEW src, NEW c, Sees(src, c, {"["}), NEW tree, NEW min,
         NEW frames, PState(src, "subscripts", tree, min, frames, c), IsSeq(frames),
         NEW f, f = frames[Len(frames)], f.node = "subscript", NEW none
  PROVE  PState(src, "parse_prefix", none, 0, frames, c + 1)
<1>1. PICK s : /\ InList(src, frames, frames[Len(frames)], s)
               /\ BetweenState(src, "subscripts", frames[Len(frames)], s, c)
  BY AtList DEF Between
<1>2. InList(src, frames, f, s) /\ BetweenState(src, "subscripts", f, s, c)
  BY <1>1
<1>3. Leads(src, f, s) /\ f.pos <= c - 1 /\ RunTo(src, Tail(f.parts), f.pos, c - 1)
  BY <1>2 DEF BetweenState
<1>4. src[f.pos] = "["
  BY <1>2 DEF BetweenState
<1>5. src[c] = "["
  BY DEF Sees
<1>6. c \in Nat \ {0} /\ c + 1 \in Nat \ {0} /\ (c + 1) - 1 = c /\ (c + 1) - 2 = c - 1
  BY SeesIs
<1>7. f.pos <= (c + 1) - 1
  <2>1. f.pos \in Int /\ c \in Int
    BY <1>3, <1>6 DEF Leads
  <2> QED
    BY <1>3, <2>1
<1>8. RunTo(src, Tail(f.parts), f.pos, (c + 1) - 2)
  BY <1>3, <1>6
<1>9. src[(c + 1) - 1] = "["
  BY <1>5, <1>6
<1>10. WaitsSubscript(src, f, s, c + 1)
  BY <1>3, <1>4, <1>7, <1>8, <1>9 DEF WaitsSubscript
<1>11. Waits(src, f, s, c + 1)
  BY <1>10 DEF Waits
<1>12. ~IsAfterOperand(src, c + 1)
  <2>1. Sees(src, c, {"[", "?", "=", ",", "(", ":"} \cup PrefixOperators
                       \cup BinaryOperators \cup AssignOperators)
    BY DEF Sees
  <2>2. src[c] \notin {"++", "--"}
    BY <1>5
  <2> QED
    BY <2>1, <2>2, OperandAhead
<1>13. GoesOn(src, frames, f, s, c + 1)
  BY <1>2, <1>6, <1>11, <1>12, NodeKinds DEF GoesOn
<1>14. PartMin(src, f) = 0
  BY DEF PartMin
<1>15. PState(src, "parse_prefix", none, PartMin(src, f), frames, c + 1)
  BY <1>13, PartBegins
<1> QED
  BY <1>14, <1>15

(* ... or the end of the run.                                               *)
LEMMA RunEndMeans ==
  ASSUME NEW src, IsSource(src), NEW c \in Nat \ {0}, src[c] # "[", NEW tree, NEW min,
         NEW frames, PState(src, "subscripts", tree, min, frames, c), IsSeq(frames),
         NEW f, f = frames[Len(frames)], f.node = "subscript"
  PROVE  PState(src, "pratt_parse", Built(f), f.min_prec,
                SubSeq(frames, 1, Len(frames) - 1), c)
<1>1. PICK s : /\ InList(src, frames, frames[Len(frames)], s)
               /\ BetweenState(src, "subscripts", frames[Len(frames)], s, c)
  BY AtList DEF Between
<1>2. InList(src, frames, f, s) /\ BetweenState(src, "subscripts", f, s, c)
  BY <1>1
<1>3. /\ Leads(src, f, s) /\ f.pos <= c - 1 /\ RunTo(src, Tail(f.parts), f.pos, c - 1)
      /\ IsWithin(src, c - 1)
  BY <1>2 DEF BetweenState
<1>4. src[f.pos] = "[" /\ src[c - 1] = "]"
  BY <1>2 DEF BetweenState
<1>5. RunEnds(src, f, s, c)
  BY <1>3, <1>4 DEF RunEnds
<1>6. Reads(src, Built(f), s, c - 1, f.min_prec)
  BY <1>5, RunMade
<1>7. f.node \notin BraceNodes
  BY NodeKinds
<1> QED
  BY <1>2, <1>6, <1>7, MadeMeans

(* A subscript is returned.                                                 *)
LEMMA SubscriptEndMeans ==
  ASSUME NEW src, NEW c, Sees(src, c, {"]"}), NEW tree, NEW min, NEW frames, IsSeq(frames),
         NEW f, f = frames[Len(frames)], frames # <<>>, f.min_prec \in Nat,
         f.node = "subscript",
         PState(src, "return", tree, min, frames, c), NEW g, IsFilled(g, f, tree)
  PROVE  PState(src, "subscripts", tree, min, [frames EXCEPT ![Len(frames)] = g], c + 1)
<1>1. c \in Nat \ {0} /\ IsSource(src) /\ IsWithin(src, c) /\ (c + 1) - 1 = c
  BY SeesIs
<1>2. PICK s, o : InList(src, frames, f, s) /\ Answered(src, f, s, o, tree, c)
  BY <1>1, NodeKinds, ReturnedAnswers
<1>3. src[c] = "]"
  BY DEF Sees
<1>4. AnsweredBy(src, f, s, o, tree, c, "]")
  BY <1>1, <1>2, <1>3 DEF AnsweredBy
<1>5. /\ Leads(src, g, s) /\ src[g.pos] = "[" /\ g.pos <= c
      /\ RunTo(src, Tail(g.parts), g.pos, c)
  BY <1>1, <1>4, SubscriptMore
<1>6. g.node = "subscript" /\ g.min_prec = f.min_prec
  BY DEF IsFilled
<1>7. BetweenState(src, "subscripts", g, s, c + 1)
  BY <1>1, <1>3, <1>5 DEF BetweenState
<1>8. InList(src, [frames EXCEPT ![Len(frames)] = g], g, s)
  BY <1>2, <1>6, ReplaceInList
<1> QED
  BY <1>7, <1>8, ListAt DEF Between

(* What a parenthesis, an operator or a cast waits for is returned.         *)
LEMMA ParenEndMeans ==
  ASSUME NEW src, NEW c, Sees(src, c, {")"}), NEW tree, NEW min, NEW frames, IsSeq(frames),
         NEW f, f = frames[Len(frames)], frames # <<>>, f.min_prec \in Nat, f.node = "paren",
         PState(src, "return", tree, min, frames, c)
  PROVE  PState(src, "pratt_parse", tree, f.min_prec,
                SubSeq(frames, 1, Len(frames) - 1), c + 1)
<1>1. c \in Nat \ {0} /\ IsSource(src) /\ IsWithin(src, c) /\ (c + 1) - 1 = c
  BY SeesIs
<1>2. PICK s, o : InList(src, frames, f, s) /\ Answered(src, f, s, o, tree, c)
  BY <1>1, NodeKinds, ReturnedAnswers
<1>3. src[c] = ")"
  BY DEF Sees
<1>4. AnsweredBy(src, f, s, o, tree, c, ")")
  BY <1>1, <1>2, <1>3 DEF AnsweredBy
<1>5. Reads(src, tree, s, c, f.min_prec)
  BY <1>1, <1>4, ParenMade
<1>6. Reads(src, tree, s, (c + 1) - 1, f.min_prec)
  BY <1>1, <1>5
<1>7. f.node \notin BraceNodes
  BY NodeKinds
<1> QED
  BY <1>2, <1>6, <1>7, MadeMeans

(* An operand makes its operator,                                           *)
LEMMA OperandMeans ==
  ASSUME NEW src, IsSource(src), NEW c \in Nat \ {0}, NEW tree, NEW min, NEW frames,
         IsSeq(frames), NEW f, f = frames[Len(frames)], frames # <<>>, f.min_prec \in Nat,
         f.node \in {"unary", "cast", "infix"},
         PState(src, "return", tree, min, frames, c)
  PROVE  PState(src, "pratt_parse", Made(f, tree), f.min_prec,
                SubSeq(frames, 1, Len(frames) - 1), c)
<1>1. f.node \notin BraceNodes /\ f.node \notin Bracers
  BY NodeKinds
<1>2. PICK s, o : InList(src, frames, f, s) /\ Answered(src, f, s, o, tree, c)
  BY <1>1, ReturnedAnswers
<1>3. Reads(src, Made(f, tree), s, c - 1, f.min_prec)
  <2>1. CASE f.node = "unary"
    BY <1>2, <2>1, UnaryMade
  <2>2. CASE f.node = "cast"
    BY <1>2, <2>2, CastMade
  <2>3. CASE f.node = "infix"
    BY <1>2, <2>3, InfixMade
  <2> QED
    BY <2>1, <2>2, <2>3
<1> QED
  BY <1>1, <1>2, <1>3, MadeMeans

(* ... and the braces what they initialize.                                 *)
LEMMA CreateEndMeans ==
  ASSUME NEW src, IsSource(src), NEW c \in Nat \ {0}, NEW tree, NEW min, NEW frames,
         IsSeq(frames), NEW f, f = frames[Len(frames)], frames # <<>>, f.node = "create",
         PState(src, "return", tree, min, frames, c)
  PROVE  PState(src, "pratt_parse", Made(f, tree), f.min_prec,
                SubSeq(frames, 1, Len(frames) - 1), c)
<1>1. f.node \notin BraceNodes /\ f.node \in Bracers
  BY NodeKinds
<1>2. PICK s, o : InList(src, frames, f, s) /\ BracesAnswered(src, f, s, o, tree, c)
  BY <1>1, ReturnedInBraces
<1>3. Waits(src, f, s, o) /\ ReadsBraces(src, tree, o, c - 1)
  BY <1>2 DEF BracesAnswered
<1>4. Reads(src, Made(f, tree), s, c - 1, f.min_prec)
  BY <1>3, CreateMade
<1> QED
  BY <1>1, <1>2, <1>4, MadeMeans

(* A ternary is given its middle,                                           *)
LEMMA MiddleMeans ==
  ASSUME NEW src, NEW c, Sees(src, c, {":"}), NEW tree, NEW min, NEW frames, IsSeq(frames),
         NEW f, f = frames[Len(frames)], frames # <<>>, f.min_prec \in Nat,
         f.node = "ternary", Len(f.parts) = 1,
         PState(src, "return", tree, min, frames, c), NEW g, IsFilled(g, f, tree), NEW none
  PROVE  PState(src, "parse_prefix", none, Precedence("?") - 1,
                [frames EXCEPT ![Len(frames)] = g], c + 1)
<1>1. c \in Nat \ {0} /\ IsSource(src) /\ IsWithin(src, c) /\ c + 1 \in Nat \ {0}
  BY SeesIs
<1>2. PICK s, o : InList(src, frames, f, s) /\ Answered(src, f, s, o, tree, c)
  BY <1>1, NodeKinds, ReturnedAnswers
<1>3. src[c] = ":"
  BY DEF Sees
<1>4. AnsweredBy(src, f, s, o, tree, c, ":")
  BY <1>1, <1>2, <1>3 DEF AnsweredBy
<1>5. Waits(src, g, s, c + 1) /\ Len(g.parts) = 2
  BY <1>1, <1>4, TernaryHalf
<1>6. g.node = "ternary" /\ g.min_prec = f.min_prec
  BY DEF IsFilled
<1> DEFINE changed == [frames EXCEPT ![Len(frames)] = g]
<1>7. InList(src, changed, g, s) /\ IsSeq(changed)
  BY <1>2, <1>6, ReplaceInList
<1> HIDE DEF changed
<1>8. ~IsAfterOperand(src, c + 1)
  <2>1. Sees(src, c, {"[", "?", "=", ",", "(", ":"} \cup PrefixOperators
                       \cup BinaryOperators \cup AssignOperators)
    BY DEF Sees
  <2>2. src[c] \notin {"++", "--"}
    BY <1>3
  <2> QED
    BY <2>1, <2>2, OperandAhead
<1>9. GoesOn(src, changed, g, s, c + 1)
  BY <1>1, <1>5, <1>6, <1>7, <1>8, NodeKinds DEF GoesOn
<1>10. PartMin(src, g) = Precedence("?") - 1
  BY <1>5, <1>6, Zenon DEF PartMin
<1>11. PState(src, "parse_prefix", none, PartMin(src, g), changed, c + 1)
  BY <1>9, PartBegins
<1>12. PState(src, "parse_prefix", none, Precedence("?") - 1, changed, c + 1)
  BY <1>10, <1>11, Zenon
<1> QED
  BY <1>12 DEF changed

(* ... and its last part.                                                   *)
LEMMA TernaryEndMeans ==
  ASSUME NEW src, IsSource(src), NEW c \in Nat \ {0}, NEW tree, NEW min, NEW frames,
         IsSeq(frames), NEW f, f = frames[Len(frames)], frames # <<>>, f.min_prec \in Nat,
         f.node = "ternary", Len(f.parts) = 2,
         PState(src, "return", tree, min, frames, c)
  PROVE  PState(src, "pratt_parse", Made(f, tree), f.min_prec,
                SubSeq(frames, 1, Len(frames) - 1), c)
<1>1. f.node \notin BraceNodes /\ f.node \notin Bracers
  BY NodeKinds
<1>2. PICK s, o : InList(src, frames, f, s) /\ Answered(src, f, s, o, tree, c)
  BY <1>1, ReturnedAnswers
<1>3. Reads(src, Made(f, tree), s, c - 1, f.min_prec)
  BY <1>2, TernaryMade
<1> QED
  BY <1>1, <1>2, <1>3, MadeMeans

(* An initializer in braces begins,                                         *)
LEMMA BracesBegin ==
  ASSUME NEW src, NEW point \in {"parse_struct_init", "parse_arr_init"}, NEW tree, NEW min,
         NEW frames, NEW c, PState(src, point, tree, min, frames, c), IsSeq(frames),
         NEW f, f.node \in BraceNodes
  PROVE  /\ InList(src, Append(frames, f), f, c) /\ c \in Nat \ {0}
         /\ IsSeq(Append(frames, f))
<1>1. point \in ForBraces /\ point # "return"
  BY DEF ForBraces
<1>2. PICK s : InBraces(src, frames, s) /\ BracesState(src, point, tree, s, c)
  BY <1>1, AtBraces
<1>3. s = c
  BY <1>1, <1>2 DEF BracesState
<1>4. InBraces(src, frames, c) /\ c \in Nat \ {0}
  BY <1>2, <1>3 DEF InBraces
<1> QED
  BY <1>4, PushInList

(* ... of a struct,                                                         *)
LEMMA StructMeans ==
  ASSUME NEW src, NEW c, Sees(src, c, {"{"}), NEW tree, NEW min, NEW frames,
         PState(src, "parse_struct_init", tree, min, frames, c), IsSeq(frames),
         NEW f, IsFrame(f, "struct_init", c, <<>>, min)
  PROVE  PState(src, "member_inits", tree, min, Append(frames, f), c + 1)
<1>1. f.node = "struct_init" /\ f.pos = c /\ f.parts = <<>>
  BY DEF IsFrame
<1>2. f.node \in BraceNodes
  BY <1>1, NodeKinds
<1>3. InList(src, Append(frames, f), f, c)
  BY <1>2, BracesBegin
<1>4. src[c] = "{"
  BY DEF Sees
<1>5. NextAt(src, f.parts, c + 1, c + 1, 3)
  BY <1>1 DEF NextAt
<1>6. MembersTo(src, f, c, c + 1)
  BY <1>1, <1>4, <1>5 DEF MembersTo
<1>7. BetweenState(src, "member_inits", f, c, c + 1)
  BY <1>1, <1>6 DEF BetweenState
<1> QED
  BY <1>3, <1>7, ListAt DEF Between

(* A member is named,                                                       *)
LEMMA MemberDotMeans ==
  ASSUME NEW src, NEW c, Sees(src, c, {"."}), NEW tree, NEW min, NEW frames,
         PState(src, "member_inits", tree, min, frames, c)
  PROVE  PState(src, "member_name", tree, min, frames, c + 1)
<1>1. PICK s : /\ InList(src, frames, frames[Len(frames)], s)
               /\ BetweenState(src, "member_inits", frames[Len(frames)], s, c)
  BY AtList DEF Between
<1>2. PICK f : f = frames[Len(frames)]
  OBVIOUS
<1>3. InList(src, frames, f, s) /\ BetweenState(src, "member_inits", f, s, c)
  BY <1>1, <1>2
<1>4. src[c] = "."
  BY DEF Sees
<1>5. (c + 1) - 1 = c
  BY SeesIs
<1>6. MembersTo(src, f, s, c)
  BY <1>3, <1>4 DEF BetweenState
<1>7. BetweenState(src, "member_name", f, s, c + 1)
  BY <1>4, <1>5, <1>6 DEF BetweenState
<1> QED
  BY <1>3, <1>7, ListAt DEF Between

(* ... has a name                                                           *)
LEMMA InitNameMeans ==
  ASSUME NEW src, NEW c, Sees(src, c, {"x"}), NEW tree, NEW min, NEW frames,
         PState(src, "member_name", tree, min, frames, c)
  PROVE  PState(src, "member_assign", tree, min, frames, c + 1)
<1>1. PICK s : /\ InList(src, frames, frames[Len(frames)], s)
               /\ BetweenState(src, "member_name", frames[Len(frames)], s, c)
  BY AtList DEF Between
<1>2. PICK f : f = frames[Len(frames)]
  OBVIOUS
<1>3. InList(src, frames, f, s) /\ BetweenState(src, "member_name", f, s, c)
  BY <1>1, <1>2
<1>4. src[c] = "x"
  BY DEF Sees
<1>5. (c + 1) - 1 = c /\ (c + 1) - 2 = c - 1
  BY SeesIs
<1>6. MembersTo(src, f, s, c - 1) /\ src[c - 1] = "."
  BY <1>3 DEF BetweenState
<1>7. BetweenState(src, "member_assign", f, s, c + 1)
  BY <1>4, <1>5, <1>6 DEF BetweenState
<1> QED
  BY <1>3, <1>7, ListAt DEF Between

(* ... and its value begins.                                                *)
LEMMA InitAssignMeans ==
  ASSUME NEW src, NEW c, Sees(src, c, {"="}), NEW tree, NEW min, NEW frames,
         PState(src, "member_assign", tree, min, frames, c), IsSeq(frames),
         NEW f, f = frames[Len(frames)], f.node = "struct_init", NEW none
  PROVE  PState(src, "parse_prefix", none, 0, frames, c + 1)
<1>1. PICK s : /\ InList(src, frames, frames[Len(frames)], s)
               /\ BetweenState(src, "member_assign", frames[Len(frames)], s, c)
  BY AtList DEF Between
<1>2. InList(src, frames, f, s) /\ BetweenState(src, "member_assign", f, s, c)
  BY <1>1
<1>3. MembersTo(src, f, s, c - 2)
  BY <1>2 DEF BetweenState
<1>4. src[c - 2] = "." /\ src[c - 1] = "x"
  BY <1>2 DEF BetweenState
<1>5. src[c] = "="
  BY DEF Sees
<1>6. s \in Nat \ {0} /\ s + 1 \in Nat \ {0}
  BY <1>2, Nearby DEF InList
<1>7. c - 2 \in Nat
  <2>1. NextAt(src, f.parts, s + 1, c - 2, 3)
    BY <1>3 DEF MembersTo
  <2>2. c - 2 \in Nat \ {0}
    BY <1>6, <2>1, NextAtIs
  <2> QED
    BY <2>2
<1>8. /\ c \in Nat \ {0} /\ c + 1 \in Nat \ {0} /\ (c + 1) - 1 = c /\ (c + 1) - 2 = c - 1
      /\ (c + 1) - 3 = c - 2
  <2>1. c \in Nat \ {0} /\ c + 1 \in Nat \ {0} /\ (c + 1) - 1 = c /\ (c + 1) - 2 = c - 1
    BY SeesIs
  <2>2. (c + 1) - 3 = c - 2
    BY <2>1
  <2> QED
    BY <2>1, <2>2
<1>9. WaitsStruct(src, f, s, c + 1)
  BY <1>3, <1>4, <1>5, <1>7, <1>8 DEF WaitsStruct
<1>10. Waits(src, f, s, c + 1)
  BY <1>9 DEF Waits
<1>11. ~IsAfterOperand(src, c + 1)
  <2>1. Sees(src, c, {"[", "?", "=", ",", "(", ":"} \cup PrefixOperators
                       \cup BinaryOperators \cup AssignOperators)
    BY DEF Sees
  <2>2. src[c] \notin {"++", "--"}
    BY <1>5
  <2> QED
    BY <2>1, <2>2, OperandAhead
<1>12. GoesOn(src, frames, f, s, c + 1)
  BY <1>2, <1>8, <1>10, <1>11, NodeKinds DEF GoesOn
<1>13. PartMin(src, f) = 0
  BY DEF PartMin
<1>14. PState(src, "parse_prefix", none, PartMin(src, f), frames, c + 1)
  BY <1>12, PartBegins
<1> QED
  BY <1>13, <1>14

(* ... that ends with its brace.                                            *)
LEMMA BracesEnd ==
  ASSUME NEW src, NEW frames, IsSeq(frames), NEW f, NEW s, InList(src, frames, f, s),
         f.node \in BraceNodes, NEW c, NEW tree, ReadsBraces(src, tree, s, c - 1), NEW min
  PROVE  PState(src, "return", tree, min, SubSeq(frames, 1, Len(frames) - 1), c)
<1>1. PICK rest : rest = SubSeq(frames, 1, Len(frames) - 1)
  OBVIOUS
<1>2. InBraces(src, rest, s)
  BY <1>1, PopList
<1>3. BracesState(src, "return", tree, s, c)
  BY DEF BracesState
<1>4. PState(src, "return", tree, min, rest, c)
  BY <1>2, <1>3, BracesAt DEF ForBraces
<1> QED
  BY <1>1, <1>4

(* The braces of a struct end.                                              *)
LEMMA StructEndMeans ==
  ASSUME NEW src, NEW c, Sees(src, c, {"}"}), NEW tree, NEW min, NEW frames,
         PState(src, "member_inits", tree, min, frames, c), IsSeq(frames),
         NEW f, f = frames[Len(frames)], f.node = "struct_init"
  PROVE  PState(src, "return", Built(f), min, SubSeq(frames, 1, Len(frames) - 1), c + 1)
<1>1. PICK s : /\ InList(src, frames, frames[Len(frames)], s)
               /\ BetweenState(src, "member_inits", frames[Len(frames)], s, c)
  BY AtList DEF Between
<1>2. InList(src, frames, f, s) /\ BetweenState(src, "member_inits", f, s, c)
  BY <1>1
<1>3. src[c] = "}"
  BY DEF Sees
<1>4. IsSource(src) /\ c \in Nat \ {0} /\ IsWithin(src, c) /\ (c + 1) - 1 = c
  BY SeesIs
<1>5. s \in Nat \ {0}
  BY <1>2 DEF InList
<1>6. ReadsBraces(src, Built(f), s, c)
  <2>1. CASE MembersTo(src, f, s, c) /\ f.parts = <<>>
    <3>1. f.pos = s /\ NextAt(src, f.parts, s + 1, c, 3)
      BY <2>1 DEF MembersTo
    <3>2. src[s] = "{"
      BY <2>1 DEF MembersTo
    <3>3. c = s + 1
      BY <2>1, <3>1, NextIsFirst
    <3>4. EmptyStruct(src, f, s, c)
      BY <1>3, <1>4, <1>5, <2>1, <3>1, <3>2, <3>3 DEF EmptyStruct
    <3> QED
      BY <1>4, <3>4, StructEmpty
  <2>2. CASE /\ f.pos = s /\ src[s] = "{" /\ src[s + 1] = "."
             /\ ItemsTo(src, f.parts, s + 1, c - 1, 3)
    <3>1. BraceList(src, s, c, f.parts, 3)
      BY <1>3, <1>4, <1>5, <2>2 DEF BraceList
    <3> QED
      BY <1>4, <2>2, <3>1, StructMade
  <2> QED
    BY <1>2, <1>3, <2>1, <2>2 DEF BetweenState
<1>7. ReadsBraces(src, Built(f), s, (c + 1) - 1)
  BY <1>4, <1>6
<1>8. f.node \in BraceNodes
  BY NodeKinds
<1> QED
  BY <1>2, <1>7, <1>8, BracesEnd

(* What a member is initialized to is returned,                             *)
LEMMA MemberInitMeans ==
  ASSUME NEW src, NEW c, Sees(src, c, {","}), NEW tree, NEW min, NEW frames, IsSeq(frames),
         NEW f, f = frames[Len(frames)], frames # <<>>, f.min_prec \in Nat,
         f.node = "struct_init",
         PState(src, "return", tree, min, frames, c), NEW g, IsFilled(g, f, tree)
  PROVE  PState(src, "after_comma", tree, min, [frames EXCEPT ![Len(frames)] = g], c + 1)
<1>1. c \in Nat \ {0} /\ IsSource(src) /\ IsWithin(src, c)
  BY SeesIs
<1>2. PICK s, o : InList(src, frames, f, s) /\ Answered(src, f, s, o, tree, c)
  BY <1>1, NodeKinds, ReturnedAnswers
<1>3. src[c] = ","
  BY DEF Sees
<1>4. AnsweredBy(src, f, s, o, tree, c, ",")
  BY <1>1, <1>2, <1>3 DEF AnsweredBy
<1>5. MembersTo(src, g, s, c + 1) /\ g.parts # <<>>
  BY <1>1, <1>4, MemberMore
<1>6. g.node = "struct_init" /\ g.min_prec = f.min_prec
  BY DEF IsFilled
<1>7. BetweenState(src, "after_comma", g, s, c + 1)
  BY <1>5, <1>6 DEF BetweenState
<1>8. InList(src, [frames EXCEPT ![Len(frames)] = g], g, s)
  BY <1>2, <1>6, ReplaceInList
<1> QED
  BY <1>7, <1>8, ListAt DEF Between

(* The last value comes before the end.                                     *)
LEMMA LastInitMeans ==
  ASSUME NEW src, IsSource(src), NEW c \in Nat \ {0}, NEW tree, NEW min, NEW frames,
         IsSeq(frames), NEW f, f = frames[Len(frames)], frames # <<>>, f.min_prec \in Nat,
         f.node = "struct_init",
         PState(src, "return", tree, min, frames, c), NEW g, IsFilled(g, f, tree)
  PROVE  PState(src, "member_inits", tree, min, [frames EXCEPT ![Len(frames)] = g], c)
<1>1. PICK s, o : InList(src, frames, f, s) /\ Answered(src, f, s, o, tree, c)
  BY NodeKinds, ReturnedAnswers
<1>2. /\ g.pos = s /\ src[s] = "{" /\ src[s + 1] = "." /\ src[c] # "."
      /\ ItemsTo(src, g.parts, s + 1, c - 1, 3)
  BY <1>1, MemberLast
<1>3. g.node = "struct_init" /\ g.min_prec = f.min_prec
  BY DEF IsFilled
<1>4. BetweenState(src, "member_inits", g, s, c)
  BY <1>2 DEF BetweenState
<1>5. InList(src, [frames EXCEPT ![Len(frames)] = g], g, s)
  BY <1>1, <1>3, ReplaceInList
<1> QED
  BY <1>4, <1>5, ListAt DEF Between

(* ... and the comma is followed by another member.                         *)
LEMMA NextMemberMeans ==
  ASSUME NEW src, NEW c, src[c] # "}", NEW tree, NEW min, NEW frames,
         PState(src, "after_comma", tree, min, frames, c),
         NEW f, f = frames[Len(frames)], f.node = "struct_init"
  PROVE  PState(src, "member_inits", tree, min, frames, c)
<1>1. PICK s : /\ InList(src, frames, frames[Len(frames)], s)
               /\ BetweenState(src, "after_comma", frames[Len(frames)], s, c)
  BY AtList DEF Between
<1>2. InList(src, frames, f, s) /\ BetweenState(src, "after_comma", f, s, c)
  BY <1>1
<1>3. MembersTo(src, f, s, c)
  BY <1>2 DEF BetweenState
<1>4. BetweenState(src, "member_inits", f, s, c)
  BY <1>3 DEF BetweenState
<1> QED
  BY <1>2, <1>4, ListAt DEF Between

(* An array,                                                                *)
LEMMA ArrayMeans ==
  ASSUME NEW src, NEW c, Sees(src, c, {"{"}), NEW tree, NEW min, NEW frames,
         PState(src, "parse_arr_init", tree, min, frames, c), IsSeq(frames),
         NEW f, IsFrame(f, "arr_init", c, <<>>, min)
  PROVE  PState(src, "first_element", tree, min, Append(frames, f), c + 1)
<1>1. f.node = "arr_init" /\ f.pos = c /\ f.parts = <<>>
  BY DEF IsFrame
<1>2. f.node \in BraceNodes
  BY <1>1, NodeKinds
<1>3. InList(src, Append(frames, f), f, c)
  BY <1>2, BracesBegin
<1>4. src[c] = "{"
  BY DEF Sees
<1>5. BetweenState(src, "first_element", f, c, c + 1)
  BY <1>1, <1>4 DEF BetweenState
<1> QED
  BY <1>3, <1>5, ListAt DEF Between

(* Nothing is in the braces of an array yet.                                *)
BeforeFirst(src, frames, f, s, c) ==
  /\ InList(src, frames, f, s) /\ s \in Nat \ {0}
  /\ f.pos = s /\ src[s] = "{" /\ f.parts = <<>> /\ c = s + 1

(* The first element decides what they are lists of.                        *)
LEMMA FirstElementIs ==
  ASSUME NEW src, NEW tree, NEW min, NEW frames, NEW c,
         PState(src, "first_element", tree, min, frames, c)
  PROVE  \E s : BeforeFirst(src, frames, frames[Len(frames)], s, c)
<1>1. PICK s : /\ InList(src, frames, frames[Len(frames)], s)
               /\ BetweenState(src, "first_element", frames[Len(frames)], s, c)
  BY AtList DEF Between
<1>2. PICK f : f = frames[Len(frames)]
  OBVIOUS
<1>3. InList(src, frames, f, s) /\ BetweenState(src, "first_element", f, s, c)
  BY <1>1, <1>2
<1>4. f.pos = s /\ src[s] = "{" /\ f.parts = <<>> /\ c = s + 1
  BY <1>3 DEF BetweenState
<1>5. s \in Nat \ {0}
  BY <1>3 DEF InList
<1>6. BeforeFirst(src, frames, f, s, c)
  BY <1>3, <1>4, <1>5 DEF BeforeFirst
<1> QED
  BY <1>2, <1>6

(* ... of arrays,                                                           *)
LEMMA NestedMeans ==
  ASSUME NEW src, NEW c, Sees(src, c, {"{"}), NEW tree, NEW min, NEW frames,
         PState(src, "first_element", tree, min, frames, c), IsSeq(frames),
         NEW f, f = frames[Len(frames)], f.node = "arr_init",
         NEW g, IsFrame(g, "nested_arr_init", f.pos, f.parts, f.min_prec)
  PROVE  PState(src, "parse_arr_init", tree, min, [frames EXCEPT ![Len(frames)] = g], c)
<1>0. PICK s : BeforeFirst(src, frames, f, s, c)
  <2>1. PICK s : BeforeFirst(src, frames, frames[Len(frames)], s, c)
    BY FirstElementIs
  <2> QED
    BY <2>1
<1>1. /\ InList(src, frames, f, s) /\ s \in Nat \ {0}
      /\ f.pos = s /\ src[s] = "{" /\ f.parts = <<>> /\ c = s + 1
  BY <1>0 DEF BeforeFirst
<1>2. c \in Nat \ {0}
  BY SeesIs
<1>3. src[s + 1] = "{"
  BY <1>1 DEF Sees
<1>4. g.node = "nested_arr_init" /\ g.pos = s /\ g.parts = <<>> /\ g.min_prec = f.min_prec
  BY <1>1 DEF IsFrame
<1>5. NextAt(src, g.parts, s + 1, c, 0)
  BY <1>1, <1>4 DEF NextAt
<1>6. WaitsNested(src, g, s, c)
  BY <1>1, <1>3, <1>4, <1>5 DEF WaitsNested
<1>7. Waits(src, g, s, c)
  BY <1>4, <1>6 DEF Waits
<1> DEFINE changed == [frames EXCEPT ![Len(frames)] = g]
<1>8. InList(src, changed, g, s) /\ IsSeq(changed)
  <2>1. g.node \in BraceNodes <=> f.node \in BraceNodes
    BY <1>4, NodeKinds
  <2> QED
    BY <1>1, <1>4, <2>1, ReplaceInList
<1> HIDE DEF changed
<1>9. Enters(src, changed, g, s, c)
  BY <1>2, <1>7, <1>8 DEF Enters
<1>10. InBraces(src, changed, c)
  BY <1>4, <1>8, <1>9, NodeKinds, ListAwaits
<1>11. BracesState(src, "parse_arr_init", tree, c, c)
  BY DEF BracesState
<1>12. PState(src, "parse_arr_init", tree, min, changed, c)
  BY <1>10, <1>11, BracesAt DEF ForBraces
<1> QED
  BY <1>12 DEF changed

(* ... or of other elements.                                                *)
LEMMA FirstElementMeans ==
  ASSUME NEW src, NEW c \in Nat \ {0}, src[c] # "{", NEW tree, NEW min, NEW frames,
         PState(src, "first_element", tree, min, frames, c), IsSeq(frames),
         NEW f, f = frames[Len(frames)], f.node = "arr_init", NEW none
  PROVE  PState(src, "parse_prefix", none, 0, frames, c)
<1>0. PICK s : BeforeFirst(src, frames, f, s, c)
  <2>1. PICK s : BeforeFirst(src, frames, frames[Len(frames)], s, c)
    BY FirstElementIs
  <2> QED
    BY <2>1
<1>1. /\ InList(src, frames, f, s) /\ s \in Nat \ {0}
      /\ f.pos = s /\ src[s] = "{" /\ f.parts = <<>> /\ c = s + 1
  BY <1>0 DEF BeforeFirst
<1>2. NextAt(src, f.parts, s + 1, c, 0)
  BY <1>1 DEF NextAt
<1>3. src[s + 1] # "{"
  BY <1>1
<1>4. WaitsArray(src, f, s, c)
  BY <1>1, <1>2, <1>3 DEF WaitsArray
<1>5. Waits(src, f, s, c)
  BY <1>4 DEF Waits
<1>5a. s \in Nat \ {0} /\ c = s + 1
  BY <1>0 DEF BeforeFirst
<1>6. ~IsAfterOperand(src, c)
  <2>1. s \in Int /\ c = s + 1
    <3>1. s \in Int
      BY <1>5a, Nearby
    <3> QED
      BY <3>1, <1>5a
  <2>2. ~EndsOperand(src, s) /\ src[s] \notin {"++", "--"}
    BY <1>1 DEF EndsOperand
  <2>3. ~IsAfterOperand(src, s + 1)
    BY <2>1, <2>2, NotAfter
  <2> QED
    BY <2>1, <2>3
<1>7. GoesOn(src, frames, f, s, c)
  BY <1>1, <1>5, <1>6, NodeKinds DEF GoesOn
<1>8. PartMin(src, f) = 0
  BY DEF PartMin
<1>9. PState(src, "parse_prefix", none, PartMin(src, f), frames, c)
  BY <1>7, PartBegins
<1> QED
  BY <1>8, <1>9

(* An element is returned,                                                  *)
LEMMA ElementMeans ==
  ASSUME NEW src, NEW c, Sees(src, c, {","}), NEW tree, NEW min, NEW frames, IsSeq(frames),
         NEW f, f = frames[Len(frames)], frames # <<>>, f.min_prec \in Nat,
         f.node = "arr_init",
         PState(src, "return", tree, min, frames, c), NEW g, IsFilled(g, f, tree), NEW none
  PROVE  PState(src, "parse_prefix", none, 0, [frames EXCEPT ![Len(frames)] = g], c + 1)
<1>1. c \in Nat \ {0} /\ IsSource(src) /\ IsWithin(src, c) /\ c + 1 \in Nat \ {0}
  BY SeesIs
<1>2. PICK s, o : InList(src, frames, f, s) /\ Answered(src, f, s, o, tree, c)
  BY <1>1, NodeKinds, ReturnedAnswers
<1>3. src[c] = ","
  BY DEF Sees
<1>4. AnsweredBy(src, f, s, o, tree, c, ",")
  BY <1>1, <1>2, <1>3 DEF AnsweredBy
<1>5. WaitsArray(src, g, s, c + 1)
  BY <1>1, <1>4, ElementMore
<1>6. g.node = "arr_init" /\ g.min_prec = f.min_prec
  BY DEF IsFilled
<1>7. Waits(src, g, s, c + 1)
  BY <1>5, <1>6 DEF Waits
<1> DEFINE changed == [frames EXCEPT ![Len(frames)] = g]
<1>8. InList(src, changed, g, s) /\ IsSeq(changed)
  BY <1>2, <1>6, ReplaceInList
<1> HIDE DEF changed
<1>9. ~IsAfterOperand(src, c + 1)
  <2>1. Sees(src, c, {"[", "?", "=", ",", "(", ":"} \cup PrefixOperators
                       \cup BinaryOperators \cup AssignOperators)
    BY DEF Sees
  <2>2. src[c] \notin {"++", "--"}
    BY <1>3
  <2> QED
    BY <2>1, <2>2, OperandAhead
<1>10. GoesOn(src, changed, g, s, c + 1)
  BY <1>1, <1>6, <1>7, <1>8, <1>9, NodeKinds DEF GoesOn
<1>11. PartMin(src, g) = 0
  BY <1>6 DEF PartMin
<1>12. PState(src, "parse_prefix", none, PartMin(src, g), changed, c + 1)
  BY <1>10, PartBegins
<1>13. PState(src, "parse_prefix", none, 0, changed, c + 1)
  BY <1>11, <1>12, Zenon
<1> QED
  BY <1>13 DEF changed

(* The last element makes the list,                                         *)
LEMMA LastElementMeans ==
  ASSUME NEW src, NEW c, Sees(src, c, {"}"}), NEW tree, NEW min, NEW frames, IsSeq(frames),
         NEW f, f = frames[Len(frames)], frames # <<>>, f.min_prec \in Nat,
         f.node = "arr_init", PState(src, "return", tree, min, frames, c)
  PROVE  PState(src, "return", Made(f, tree), min, SubSeq(frames, 1, Len(frames) - 1), c + 1)
<1>1. c \in Nat \ {0} /\ IsSource(src) /\ IsWithin(src, c) /\ (c + 1) - 1 = c
  BY SeesIs
<1>2. PICK s, o : InList(src, frames, f, s) /\ Answered(src, f, s, o, tree, c)
  BY <1>1, NodeKinds, ReturnedAnswers
<1>3. src[c] = "}"
  BY DEF Sees
<1>4. AnsweredBy(src, f, s, o, tree, c, "}")
  BY <1>1, <1>2, <1>3 DEF AnsweredBy
<1>5. ReadsBraces(src, Made(f, tree), s, c)
  BY <1>1, <1>4, ElementMade
<1>6. ReadsBraces(src, Made(f, tree), s, (c + 1) - 1)
  BY <1>1, <1>5
<1>7. f.node \in BraceNodes
  BY NodeKinds
<1> QED
  BY <1>2, <1>6, <1>7, BracesEnd

(* ... also one in braces.                                                  *)
LEMMA NestedElementMeans ==
  ASSUME NEW src, NEW c, Sees(src, c, {","}), NEW tree, NEW min, NEW frames, IsSeq(frames),
         NEW f, f = frames[Len(frames)], frames # <<>>, f.node = "nested_arr_init",
         PState(src, "return", tree, min, frames, c), NEW g, IsFilled(g, f, tree)
  PROVE  PState(src, "parse_arr_init", tree, min, [frames EXCEPT ![Len(frames)] = g], c + 1)
<1>1. c \in Nat \ {0} /\ IsSource(src) /\ IsWithin(src, c) /\ c + 1 \in Nat \ {0}
  BY SeesIs
<1>2. PICK s, o : InList(src, frames, f, s) /\ BracesAnswered(src, f, s, o, tree, c)
  BY <1>1, NodeKinds, ReturnedInBraces
<1>3. src[c] = ","
  BY DEF Sees
<1>4. BracesBy(src, f, s, o, tree, c, ",")
  BY <1>1, <1>2, <1>3 DEF BracesBy
<1>5. WaitsNested(src, g, s, c + 1)
  BY <1>1, <1>4, NestedMore
<1>6. g.node = "nested_arr_init" /\ g.min_prec = f.min_prec
  BY DEF IsFilled
<1>7. Waits(src, g, s, c + 1)
  BY <1>5, <1>6 DEF Waits
<1> DEFINE changed == [frames EXCEPT ![Len(frames)] = g]
<1>8. InList(src, changed, g, s) /\ IsSeq(changed)
  BY <1>2, <1>6, ReplaceInList
<1> HIDE DEF changed
<1>9. Enters(src, changed, g, s, c + 1)
  BY <1>1, <1>7, <1>8 DEF Enters
<1>10. InBraces(src, changed, c + 1)
  BY <1>6, <1>8, <1>9, NodeKinds, ListAwaits
<1>11. BracesState(src, "parse_arr_init", tree, c + 1, c + 1)
  BY DEF BracesState
<1>12. PState(src, "parse_arr_init", tree, min, changed, c + 1)
  BY <1>10, <1>11, BracesAt DEF ForBraces
<1> QED
  BY <1>12 DEF changed

(* ... as the last initializer does.                                        *)
LEMMA LastNestedMeans ==
  ASSUME NEW src, NEW c, Sees(src, c, {"}"}), NEW tree, NEW min, NEW frames, IsSeq(frames),
         NEW f, f = frames[Len(frames)], frames # <<>>, f.node = "nested_arr_init",
         PState(src, "return", tree, min, frames, c)
  PROVE  PState(src, "return", Made(f, tree), min, SubSeq(frames, 1, Len(frames) - 1), c + 1)
<1>1. c \in Nat \ {0} /\ IsSource(src) /\ IsWithin(src, c) /\ (c + 1) - 1 = c
  BY SeesIs
<1>2. PICK s, o : InList(src, frames, f, s) /\ BracesAnswered(src, f, s, o, tree, c)
  BY <1>1, NodeKinds, ReturnedInBraces
<1>3. src[c] = "}"
  BY DEF Sees
<1>4. BracesBy(src, f, s, o, tree, c, "}")
  BY <1>1, <1>2, <1>3 DEF BracesBy
<1>5. ReadsBraces(src, Made(f, tree), s, c)
  BY <1>1, <1>4, NestedMade
<1>6. ReadsBraces(src, Made(f, tree), s, (c + 1) - 1)
  BY <1>1, <1>5
<1>7. f.node \in BraceNodes
  BY NodeKinds
<1> QED
  BY <1>2, <1>6, <1>7, BracesEnd

----------------------------------------------------------------------------
(* The parser is where the source may mean what it has parsed.              *)
Parsed(src) == PState(src, at, lhs, min_prec, stack, current_token_idx)

(* Where the parser stands in the source,                                   *)
LEMMA Standing ==
  ASSUME EInv, NEW src, Extends(src)
  PROVE  /\ IsSource(src) /\ current_token_idx \in Nat \ {0}
         /\ IsSeq(stack) /\ IsSeq(tokens)
<1>1. current_token_idx \in Nat /\ current_token_idx >= 1 /\ IsSeq(stack) /\ IsSeq(tokens)
  BY Here
<1>2. current_token_idx # 0
  BY <1>1
<1> QED
  BY <1>1, <1>2 DEF Extends

(* ... what it looks at,                                                    *)
LEMMA Looks ==
  ASSUME EInv, NEW src, Extends(src), Peeking
  PROVE  Peek = src[current_token_idx] /\ IsWithin(src, current_token_idx)
<1>1. Len(tokens) \in Nat /\ current_token_idx \in Nat \ {0} /\ current_token_idx <= Len(tokens)
  BY Here, Standing DEF Peeking
<1>2. current_token_idx \in 1 .. Len(tokens)
  BY <1>1
<1>3. Peek = src[current_token_idx]
  BY <1>2 DEF Extends, Peek
<1>4. \A n \in Nat : Len(tokens) <= n => current_token_idx <= n
  BY <1>1
<1>5. Len(src) \in Nat /\ Len(tokens) <= Len(src)
  BY DEF Extends, IsSource
<1> QED
  BY <1>3, <1>4, <1>5 DEF IsWithin

(* ... which is of a kind it knows,                                         *)
LEMMA SeesPeek ==
  ASSUME EInv, NEW src, Extends(src), Peeking, NEW toks, Peek \in toks
  PROVE  Sees(src, current_token_idx, toks)
BY Looks, Standing DEF Sees

(* ... a call that is made,                                                 *)
LEMMA FrameMade ==
  ASSUME NEW node, NEW pos, NEW parts
  PROVE  IsFrame(Frame(node, pos, parts), node, pos, parts, min_prec)
BY DEF IsFrame, Frame

(* ... and the innermost that waits.                                        *)
LEMMA TopIs ==
  ASSUME EInv, stack # <<>>
  PROVE  /\ Top = stack[Len(stack)] /\ Top.min_prec \in Nat
         /\ Made(Top, lhs) = Built(Filled) /\ IsFilled(Filled, Top, lhs)
         /\ IsFrame([Top EXCEPT !.node = "nested_arr_init"], "nested_arr_init",
                    Top.pos, Top.parts, Top.min_prec)
<1>1. FrameFits(Top, current_token_idx) /\ Top.min_prec \in 0 .. 90
  BY TopFits
<1>2. PICK f : f = Top
  OBVIOUS
<1>3. f = [node |-> f.node, pos |-> f.pos, parts |-> f.parts, min_prec |-> f.min_prec]
  BY <1>1, <1>2 DEF FrameFits
<1>4. PICK parts : parts = Append(f.parts, lhs)
  OBVIOUS
<1>5. PICK g : g = [f EXCEPT !.parts = parts]
  OBVIOUS
<1>6. g.node = f.node /\ g.pos = f.pos /\ g.min_prec = f.min_prec /\ g.parts = parts
  BY <1>3, <1>5
<1>7. Filled = g
  BY <1>2, <1>4, <1>5 DEF Filled
<1>8. IsFilled(g, f, lhs)
  BY <1>4, <1>6 DEF IsFilled
<1>9. Made(f, lhs) = Built(g)
  BY <1>4, <1>6 DEF Made, Built
<1>10. IsFrame([f EXCEPT !.node = "nested_arr_init"], "nested_arr_init",
               f.pos, f.parts, f.min_prec)
  <2> DEFINE h == [f EXCEPT !.node = "nested_arr_init"]
  <2>2. /\ h.node = "nested_arr_init" /\ h.pos = f.pos /\ h.parts = f.parts
        /\ h.min_prec = f.min_prec
    BY <1>3
  <2> HIDE DEF h
  <2>3. IsFrame(h, "nested_arr_init", f.pos, f.parts, f.min_prec)
    BY <2>2 DEF IsFrame
  <2> QED
    BY <2>3 DEF h
<1>11. Top.min_prec \in Nat
  <2>1. \A n \in 0 .. 90 : n \in Nat
    OBVIOUS
  <2> QED
    BY <1>1, <2>1
<1>12. Top = stack[Len(stack)]
  BY DEF Top
<1>13. IsFilled(Filled, Top, lhs) /\ Made(Top, lhs) = Built(Filled)
  BY <1>2, <1>7, <1>8, <1>9
<1>14. IsFrame([Top EXCEPT !.node = "nested_arr_init"], "nested_arr_init",
               Top.pos, Top.parts, Top.min_prec)
  BY <1>2, <1>10
<1> QED
  BY <1>11, <1>12, <1>13, <1>14

(* An error leaves all as it was.                                           *)
LEMMA ExitMeans ==
  ASSUME NEW src, Parsed(src), Exit
  PROVE  Parsed(src)'
BY DEF Exit, control, Parsed

----------------------------------------------------------------------------
(* The list a point is in.                                                  *)
LEMMA CallOnTop ==
  ASSUME EInv, at = "args"
  PROVE  stack # <<>> /\ Top.node = "call"
BY DEF EInv, PointFits, IsTop, Top

(* ... or a run of subscripts,                                              *)
LEMMA SubscriptOnTop ==
  ASSUME EInv, at = "subscripts"
  PROVE  stack # <<>> /\ Top.node = "subscript"
BY DEF EInv, PointFits, IsTop, Top

(* ... the braces of a struct                                               *)
LEMMA StructOnTop ==
  ASSUME EInv, at \in {"member_inits", "member_name", "member_assign"}
  PROVE  stack # <<>> /\ Top.node = "struct_init"
BY DEF EInv, PointFits, IsTop, Top

(* ... or those of an array.                                                *)
LEMMA ArrayOnTop ==
  ASSUME EInv, at = "first_element"
  PROVE  stack # <<>> /\ Top.node = "arr_init"
BY DEF EInv, PointFits, IsTop, Top

(* An operand: a literal,                                                   *)
LEMMA LiteralParsed ==
  ASSUME EInv, NEW src, Extends(src), Parsed(src), ParseLiteral
  PROVE  Parsed(src)'
<1>1. /\ at = "parse_prefix" /\ Peeking /\ Peek \in {"1"}
      /\ current_token_idx' = current_token_idx + 1 /\ at' = "pratt_parse"
      /\ lhs' = Tree("literal", current_token_idx, <<>>) /\ min_prec' = min_prec
      /\ stack' = stack
  BY DEF ParseLiteral, At, Advance, PrattParse
<1>2. PState(src, "parse_prefix", lhs, min_prec, stack, current_token_idx)
  BY <1>1 DEF Parsed
<1>3. Sees(src, current_token_idx, {"1"})
  BY <1>1, SeesPeek
<1>4. PState(src, "pratt_parse", Tree("literal", current_token_idx, <<>>), min_prec,
              stack, current_token_idx + 1)
  BY <1>2, <1>3, Standing, LiteralMeans
<1> QED
  BY <1>1, <1>4 DEF Parsed

(* ... a name,                                                              *)
LEMMA IdentParsed ==
  ASSUME EInv, NEW src, Extends(src), Parsed(src), ParseIdent
  PROVE  Parsed(src)'
<1>1. /\ at = "parse_prefix" /\ Peeking /\ Peek \in {"x"}
      /\ current_token_idx' = current_token_idx + 1 /\ at' = "path"
      /\ lhs' = Tree("ident", current_token_idx, <<>>) /\ min_prec' = min_prec /\ stack' = stack
  BY DEF ParseIdent, At, Advance
<1>2. PState(src, "parse_prefix", lhs, min_prec, stack, current_token_idx)
  BY <1>1 DEF Parsed
<1>3. Sees(src, current_token_idx, {"x"})
  BY <1>1, SeesPeek
<1>4. PState(src, "path", Tree("ident", current_token_idx, <<>>), min_prec,
              stack, current_token_idx + 1)
  BY <1>2, <1>3, Standing, IdentMeans
<1> QED
  BY <1>1, <1>4 DEF Parsed

(* ... which may be a path,                                                 *)
LEMMA PathParsed ==
  ASSUME EInv, NEW src, Extends(src), Parsed(src), ParsePath
  PROVE  Parsed(src)'
<1>1. CASE At("path") /\ Peek = "::" /\ Advance /\ Goto("path_name")
  <2>1. /\ at = "path" /\ Peeking /\ Peek \in {"::"}
        /\ current_token_idx' = current_token_idx + 1 /\ at' = "path_name" /\ lhs' = lhs
        /\ min_prec' = min_prec /\ stack' = stack
    BY <1>1 DEF At, Advance, Goto
  <2>2. PState(src, "path", lhs, min_prec, stack, current_token_idx)
    BY <2>1 DEF Parsed
  <2>3. Sees(src, current_token_idx, {"::"})
    BY <2>1, SeesPeek
  <2>4. PState(src, "path_name", lhs, min_prec, stack, current_token_idx + 1)
    BY <2>2, <2>3, Standing, PathColonsMean
  <2> QED
    BY <2>1, <2>4 DEF Parsed
<1>2. CASE At("path") /\ Peek # "::" /\ Stay /\ Goto("pratt_parse")
  <2>1. /\ at = "path" /\ Peeking /\ current_token_idx' = current_token_idx
        /\ at' = "pratt_parse" /\ lhs' = lhs /\ min_prec' = min_prec /\ stack' = stack
    BY <1>2 DEF At, Stay, Goto
  <2>2. PState(src, "path", lhs, min_prec, stack, current_token_idx)
    BY <2>1 DEF Parsed
  <2>3. PState(src, "pratt_parse", lhs, min_prec, stack, current_token_idx)
    BY <2>2, Standing, PathEndMeans
  <2> QED
    BY <2>1, <2>3 DEF Parsed
<1>3. CASE At("path_name") /\ Peek = "x" /\ ParsePath
  <2>1. /\ at = "path_name" /\ Peeking /\ Peek \in {"x"}
        /\ current_token_idx' = current_token_idx + 1 /\ at' = "path"
        /\ lhs' = Longer(lhs, current_token_idx) /\ min_prec' = min_prec /\ stack' = stack
    BY <1>3 DEF ParsePath, Expect, At, Advance, Longer
  <2>2. PState(src, "path_name", lhs, min_prec, stack, current_token_idx)
    BY <2>1 DEF Parsed
  <2>3. Sees(src, current_token_idx, {"x"})
    BY <2>1, SeesPeek
  <2>4. PState(src, "path", Longer(lhs, current_token_idx), min_prec,
                stack, current_token_idx + 1)
    BY <2>2, <2>3, Standing, PathNameMeans
  <2> QED
    BY <2>1, <2>4 DEF Parsed
<1>4. CASE Exit
  BY <1>4, ExitMeans
<1> QED
  BY <1>1, <1>2, <1>3, <1>4 DEF ParsePath, Expect

(* ... the operand of a prefix operator,                                    *)
LEMMA UnaryParsed ==
  ASSUME EInv, NEW src, Extends(src), Parsed(src), ParseUnary
  PROVE  Parsed(src)'
<1>1. /\ at = "parse_prefix" /\ Peeking /\ Peek \in PrefixOperators
      /\ current_token_idx' = current_token_idx + 1 /\ at' = "parse_prefix" /\ lhs' = NoTree
      /\ min_prec' = PREFIX_PRECEDENCE /\ stack' = Push(Frame("unary", current_token_idx, <<>>))
  BY DEF ParseUnary, At, Advance, ParseExpression
<1>2. PState(src, "parse_prefix", lhs, min_prec, stack, current_token_idx)
  BY <1>1 DEF Parsed
<1>3. Sees(src, current_token_idx, PrefixOperators)
  BY <1>1, SeesPeek
<1>4. IsFrame(Frame("unary", current_token_idx, <<>>), "unary", current_token_idx, <<>>,
              min_prec)
  BY FrameMade
<1>5. PState(src, "parse_prefix", NoTree, PREFIX_PRECEDENCE,
              Append(stack, Frame("unary", current_token_idx, <<>>)), current_token_idx + 1)
  BY <1>2, <1>3, <1>4, Standing, UnaryMeans
<1> QED
  BY <1>1, <1>5 DEF Parsed, Push

(* ... an expression in parentheses,                                        *)
LEMMA ParenParsed ==
  ASSUME EInv, NEW src, Extends(src), Parsed(src), ParseParen
  PROVE  Parsed(src)'
<1>1. CASE At("parse_prefix") /\ Peek = "(" /\ Advance /\ Goto("after_lparen")
  <2>1. /\ at = "parse_prefix" /\ Peeking /\ Peek \in {"("}
        /\ current_token_idx' = current_token_idx + 1 /\ at' = "after_lparen" /\ lhs' = lhs
        /\ min_prec' = min_prec /\ stack' = stack
    BY <1>1 DEF At, Advance, Goto
  <2>2. PState(src, "parse_prefix", lhs, min_prec, stack, current_token_idx)
    BY <2>1 DEF Parsed
  <2>3. Sees(src, current_token_idx, {"("})
    BY <2>1, SeesPeek
  <2>4. PState(src, "after_lparen", lhs, min_prec, stack, current_token_idx + 1)
    BY <2>2, <2>3, Standing, ParenMeans
  <2> QED
    BY <2>1, <2>4 DEF Parsed
<1>2. CASE At("after_lparen") /\ Peek # "#cast<T>" /\ ParseParen
  <2>1. /\ at = "after_lparen" /\ Peeking /\ current_token_idx' = current_token_idx
        /\ at' = "parse_prefix" /\ lhs' = NoTree /\ min_prec' = 0
        /\ stack' = Push(Frame("paren", current_token_idx - 1, <<>>))
    BY <1>2 DEF ParseParen, At, Stay, ParseExpression
  <2>2. PState(src, "after_lparen", lhs, min_prec, stack, current_token_idx)
    BY <2>1 DEF Parsed
  <2>3. IsFrame(Frame("paren", current_token_idx - 1, <<>>), "paren", current_token_idx - 1, <<>>,
                min_prec)
    BY FrameMade
  <2>4. PState(src, "parse_prefix", NoTree, 0,
                Append(stack, Frame("paren", current_token_idx - 1, <<>>)), current_token_idx)
    BY <2>2, <2>3, Standing, ParenPartMeans
  <2> QED
    BY <2>1, <2>4 DEF Parsed, Push
<1> QED
  BY <1>1, <1>2 DEF ParseParen

(* ... or one that is cast.                                                 *)
LEMMA CastParsed ==
  ASSUME EInv, NEW src, Extends(src), Parsed(src), ParseCast
  PROVE  Parsed(src)'
<1>1. CASE At("after_lparen") /\ Peek = "#cast<T>" /\ Advance /\ Goto("cast")
  <2>1. /\ at = "after_lparen" /\ Peeking /\ Peek \in {"#cast<T>"}
        /\ current_token_idx' = current_token_idx + 1 /\ at' = "cast" /\ lhs' = lhs
        /\ min_prec' = min_prec /\ stack' = stack
    BY <1>1 DEF At, Advance, Goto
  <2>2. PState(src, "after_lparen", lhs, min_prec, stack, current_token_idx)
    BY <2>1 DEF Parsed
  <2>3. Sees(src, current_token_idx, {"#cast<T>"})
    BY <2>1, SeesPeek
  <2>4. PState(src, "cast", lhs, min_prec, stack, current_token_idx + 1)
    BY <2>2, <2>3, Standing, CastMeans
  <2> QED
    BY <2>1, <2>4 DEF Parsed
<1>2. CASE At("cast") /\ Peek = ")" /\ ParseCast
  <2>1. /\ at = "cast" /\ Peeking /\ Peek \in {")"}
        /\ current_token_idx' = current_token_idx + 1 /\ at' = "parse_prefix" /\ lhs' = NoTree
        /\ min_prec' = 0 /\ stack' = Push(Frame("cast", current_token_idx - 2, <<>>))
    BY <1>2 DEF ParseCast, Expect, At, Advance, ParseExpression
  <2>2. PState(src, "cast", lhs, min_prec, stack, current_token_idx)
    BY <2>1 DEF Parsed
  <2>3. Sees(src, current_token_idx, {")"})
    BY <2>1, SeesPeek
  <2>4. IsFrame(Frame("cast", current_token_idx - 2, <<>>), "cast", current_token_idx - 2, <<>>,
                min_prec)
    BY FrameMade
  <2>5. PState(src, "parse_prefix", NoTree, 0,
                Append(stack, Frame("cast", current_token_idx - 2, <<>>)), current_token_idx + 1)
    BY <2>2, <2>3, <2>4, Standing, CastPartMeans
  <2> QED
    BY <2>1, <2>5 DEF Parsed, Push
<1>3. CASE Exit
  BY <1>3, ExitMeans
<1> QED
  BY <1>1, <1>2, <1>3 DEF ParseCast, Expect

----------------------------------------------------------------------------

(* What follows binds no tighter: the expression ends.                      *)
LEMMA EndParsed ==
  ASSUME EInv, NEW src, Extends(src), Parsed(src), EndOfExpression
  PROVE  Parsed(src)'
<1>1. /\ at = "pratt_parse" /\ Peeking /\ Precedence(Peek) <= min_prec
      /\ current_token_idx' = current_token_idx /\ at' = "return" /\ lhs' = lhs
      /\ min_prec' = min_prec /\ stack' = stack
  BY DEF EndOfExpression, At, Stay, ReturnTree
<1>2. PState(src, "pratt_parse", lhs, min_prec, stack, current_token_idx)
  BY <1>1 DEF Parsed
<1>3. Precedence(src[current_token_idx]) <= min_prec
  BY <1>1, Looks
<1>4. PState(src, "return", lhs, min_prec, stack, current_token_idx)
  BY <1>2, <1>3, Standing, EndMeans
<1> QED
  BY <1>1, <1>4 DEF Parsed

(* A call,                                                                  *)
LEMMA FuncCallParsed ==
  ASSUME EInv, NEW src, Extends(src), Parsed(src), ParseFuncCall
  PROVE  Parsed(src)'
<1>1. CASE Follows({"("}) /\ ParseFuncCall
  <2>1. /\ at = "pratt_parse" /\ Peeking /\ Peek \in {"("}
        /\ current_token_idx' = current_token_idx + 1 /\ at' = "args" /\ lhs' = lhs
        /\ min_prec' = min_prec /\ stack' = Push(Frame("call", current_token_idx, <<lhs>>))
    BY <1>1 DEF ParseFuncCall, Follows, At, Advance, GotoIn
  <2>2. PState(src, "pratt_parse", lhs, min_prec, stack, current_token_idx)
    BY <2>1 DEF Parsed
  <2>3. Sees(src, current_token_idx, {"("})
    BY <2>1, SeesPeek
  <2>4. IsFrame(Frame("call", current_token_idx, <<lhs>>), "call", current_token_idx, <<lhs>>,
                min_prec)
    BY FrameMade
  <2>5. PState(src, "args", lhs, min_prec,
                Append(stack, Frame("call", current_token_idx, <<lhs>>)), current_token_idx + 1)
    BY <2>2, <2>3, <2>4, Standing, CallMeans
  <2> QED
    BY <2>1, <2>5 DEF Parsed, Push
<1>2. CASE At("args") /\ Peek = ")" /\ ParseFuncCall
  <2>1. /\ at = "args" /\ Peeking /\ Peek \in {")"}
        /\ current_token_idx' = current_token_idx + 1 /\ at' = "pratt_parse"
        /\ lhs' = Built(Top) /\ min_prec' = Top.min_prec /\ stack' = Pop
    BY <1>2 DEF ParseFuncCall, Follows, At, Advance, PrattParse
  <2>2. PState(src, "args", lhs, min_prec, stack, current_token_idx)
    BY <2>1 DEF Parsed
  <2>3. Sees(src, current_token_idx, {")"})
    BY <2>1, SeesPeek
  <2>4. stack # <<>> /\ Top.node = "call"
    BY <2>1, CallOnTop
  <2>5. PState(src, "pratt_parse", Built(Top), Top.min_prec,
                SubSeq(stack, 1, Len(stack) - 1), current_token_idx + 1)
    BY <2>2, <2>3, <2>4, TopIs, Standing, EmptyCallMeans
  <2> QED
    BY <2>1, <2>5 DEF Parsed, Pop
<1>3. CASE At("args") /\ Peek # ")" /\ ParseFuncCall
  <2>1. /\ at = "args" /\ Peeking /\ current_token_idx' = current_token_idx
        /\ at' = "parse_prefix" /\ lhs' = NoTree /\ min_prec' = 0 /\ stack' = stack
    BY <1>3 DEF ParseFuncCall, Follows, At, Stay, ParseExpression
  <2>2. PState(src, "args", lhs, min_prec, stack, current_token_idx)
    BY <2>1 DEF Parsed
  <2>3. stack # <<>> /\ Top.node = "call"
    BY <2>1, CallOnTop
  <2>4. PState(src, "parse_prefix", NoTree, 0, stack, current_token_idx)
    BY <2>2, <2>3, TopIs, Standing, FirstArgMeans
  <2> QED
    BY <2>1, <2>4 DEF Parsed
<1> QED
  BY <1>1, <1>2, <1>3 DEF ParseFuncCall, Follows

(* ... a run of subscripts,                                                 *)
LEMMA ArrSubParsed ==
  ASSUME EInv, NEW src, Extends(src), Parsed(src), ParseArrSub
  PROVE  Parsed(src)'
<1>1. CASE Follows({"["}) /\ ParseArrSub
  <2>1. /\ at = "pratt_parse" /\ Peeking /\ Peek \in {"["}
        /\ current_token_idx' = current_token_idx + 1 /\ at' = "parse_prefix" /\ lhs' = NoTree
        /\ min_prec' = 0 /\ stack' = Push(Frame("subscript", current_token_idx, <<lhs>>))
    BY <1>1 DEF ParseArrSub, Follows, At, Advance, ParseExpression
  <2>2. PState(src, "pratt_parse", lhs, min_prec, stack, current_token_idx)
    BY <2>1 DEF Parsed
  <2>3. Sees(src, current_token_idx, {"["})
    BY <2>1, SeesPeek
  <2>4. IsFrame(Frame("subscript", current_token_idx, <<lhs>>),
                "subscript", current_token_idx, <<lhs>>, min_prec)
    BY FrameMade
  <2>5. PState(src, "parse_prefix", NoTree, 0,
                Append(stack, Frame("subscript",
                current_token_idx, <<lhs>>)),
                current_token_idx + 1)
    BY <2>2, <2>3, <2>4, Standing, SubscriptMeans
  <2> QED
    BY <2>1, <2>5 DEF Parsed, Push
<1>2. CASE At("subscripts") /\ Peek = "[" /\ ParseArrSub
  <2>1. /\ at = "subscripts" /\ Peeking /\ Peek \in {"["}
        /\ current_token_idx' = current_token_idx + 1 /\ at' = "parse_prefix" /\ lhs' = NoTree
        /\ min_prec' = 0 /\ stack' = stack
    BY <1>2 DEF ParseArrSub, Follows, At, Advance, ParseExpression
  <2>2. PState(src, "subscripts", lhs, min_prec, stack, current_token_idx)
    BY <2>1 DEF Parsed
  <2>3. Sees(src, current_token_idx, {"["})
    BY <2>1, SeesPeek
  <2>4. stack # <<>> /\ Top.node = "subscript"
    BY <2>1, SubscriptOnTop
  <2>5. PState(src, "parse_prefix", NoTree, 0, stack, current_token_idx + 1)
    BY <2>2, <2>3, <2>4, TopIs, Standing, NextSubscriptMeans
  <2> QED
    BY <2>1, <2>5 DEF Parsed
<1>3. CASE At("subscripts") /\ Peek # "[" /\ ParseArrSub
  <2>1. /\ at = "subscripts" /\ Peeking /\ Peek # "[" /\ current_token_idx' = current_token_idx
        /\ at' = "pratt_parse" /\ lhs' = Built(Top) /\ min_prec' = Top.min_prec /\ stack' = Pop
    BY <1>3 DEF ParseArrSub, Follows, At, Stay, PrattParse
  <2>2. PState(src, "subscripts", lhs, min_prec, stack, current_token_idx)
    BY <2>1 DEF Parsed
  <2>3. src[current_token_idx] # "["
    BY <2>1, Looks
  <2>4. stack # <<>> /\ Top.node = "subscript"
    BY <2>1, SubscriptOnTop
  <2>5. PState(src, "pratt_parse", Built(Top), Top.min_prec,
                SubSeq(stack, 1, Len(stack) - 1), current_token_idx)
    BY <2>2, <2>3, <2>4, TopIs, Standing, RunEndMeans
  <2> QED
    BY <2>1, <2>5 DEF Parsed, Pop
<1> QED
  BY <1>1, <1>2, <1>3 DEF ParseArrSub, Follows

(* ... a member,                                                            *)
LEMMA MemberParsed ==
  ASSUME EInv, NEW src, Extends(src), Parsed(src), ParseMemberAccess
  PROVE  Parsed(src)'
<1>1. CASE Follows({".", "->"}) /\ Advance /\ Goto("member")
  <2>1. /\ at = "pratt_parse" /\ Peeking /\ Peek \in {".", "->"}
        /\ current_token_idx' = current_token_idx + 1 /\ at' = "member" /\ lhs' = lhs
        /\ min_prec' = min_prec /\ stack' = stack
    BY <1>1 DEF Follows, At, Advance, Goto
  <2>2. PState(src, "pratt_parse", lhs, min_prec, stack, current_token_idx)
    BY <2>1 DEF Parsed
  <2>3. Sees(src, current_token_idx, {".", "->"})
    BY <2>1, SeesPeek
  <2>4. PState(src, "member", lhs, min_prec, stack, current_token_idx + 1)
    BY <2>2, <2>3, Standing, MemberMeans
  <2> QED
    BY <2>1, <2>4 DEF Parsed
<1>2. CASE At("member") /\ Peek = "x" /\ ParseMemberAccess
  <2>1. /\ at = "member" /\ Peeking /\ Peek \in {"x"}
        /\ current_token_idx' = current_token_idx + 1 /\ at' = "pratt_parse"
        /\ lhs' = Tree("member", current_token_idx - 1, <<lhs>>) /\ min_prec' = min_prec
        /\ stack' = stack
    BY <1>2 DEF ParseMemberAccess, Follows, Expect, At, Advance, PrattParse
  <2>2. PState(src, "member", lhs, min_prec, stack, current_token_idx)
    BY <2>1 DEF Parsed
  <2>3. Sees(src, current_token_idx, {"x"})
    BY <2>1, SeesPeek
  <2>4. PState(src, "pratt_parse", Tree("member", current_token_idx - 1, <<lhs>>), min_prec,
                stack, current_token_idx + 1)
    BY <2>2, <2>3, Standing, MemberNameMeans
  <2> QED
    BY <2>1, <2>4 DEF Parsed
<1>3. CASE Exit
  BY <1>3, ExitMeans
<1> QED
  BY <1>1, <1>2, <1>3 DEF ParseMemberAccess, Expect

(* ... a postfix operator,                                                  *)
LEMMA PostIncDecParsed ==
  ASSUME EInv, NEW src, Extends(src), Parsed(src), ParsePostIncDec
  PROVE  Parsed(src)'
<1>1. /\ at = "pratt_parse" /\ Peeking /\ Peek \in {"++", "--"}
      /\ current_token_idx' = current_token_idx + 1 /\ at' = "pratt_parse"
      /\ lhs' = Tree("postfix", current_token_idx, <<lhs>>) /\ min_prec' = min_prec
      /\ stack' = stack
  BY DEF ParsePostIncDec, Follows, At, Advance, PrattParse
<1>2. PState(src, "pratt_parse", lhs, min_prec, stack, current_token_idx)
  BY <1>1 DEF Parsed
<1>3. Sees(src, current_token_idx, {"++", "--"})
  BY <1>1, SeesPeek
<1>4. PState(src, "pratt_parse", Tree("postfix", current_token_idx, <<lhs>>), min_prec,
              stack, current_token_idx + 1)
  BY <1>2, <1>3, Standing, PostfixMeans
<1> QED
  BY <1>1, <1>4 DEF Parsed

(* ... an initializer of what was named,                                    *)
LEMMA StructCreateParsed ==
  ASSUME EInv, NEW src, Extends(src), Parsed(src), ParseStructCreate
  PROVE  Parsed(src)'
<1>1. /\ at = "pratt_parse" /\ Peeking /\ Peek \in {"{"}
      /\ current_token_idx' = current_token_idx /\ at' = "parse_struct_init" /\ lhs' = lhs
      /\ min_prec' = min_prec /\ stack' = Push(Frame("create", current_token_idx, <<lhs>>))
  BY DEF ParseStructCreate, Follows, At, Stay, GotoIn
<1>2. PState(src, "pratt_parse", lhs, min_prec, stack, current_token_idx)
  BY <1>1 DEF Parsed
<1>3. Sees(src, current_token_idx, {"{"})
  BY <1>1, SeesPeek
<1>4. IsFrame(Frame("create", current_token_idx, <<lhs>>), "create", current_token_idx, <<lhs>>,
              min_prec)
  BY FrameMade
<1>5. PState(src, "parse_struct_init", lhs, min_prec,
              Append(stack, Frame("create", current_token_idx, <<lhs>>)), current_token_idx)
  BY <1>2, <1>3, <1>4, Standing, CreateMeans
<1> QED
  BY <1>1, <1>5 DEF Parsed, Push

(* ... an operator between operands,                                        *)
LEMMA InfixParsed ==
  ASSUME EInv, NEW src, Extends(src), Parsed(src), ParseInfix
  PROVE  Parsed(src)'
<1>1. /\ at = "pratt_parse" /\ Peeking /\ Peek \in BinaryOperators \cup AssignOperators
      /\ Precedence(Peek) > min_prec /\ current_token_idx' = current_token_idx + 1
      /\ at' = "parse_prefix" /\ lhs' = NoTree /\ min_prec' = MinRhsPrec(Peek)
      /\ stack' = Push(Frame("infix", current_token_idx, <<lhs>>))
  BY DEF ParseInfix, Follows, At, Advance, ParseExpression
<1>2. PState(src, "pratt_parse", lhs, min_prec, stack, current_token_idx)
  BY <1>1 DEF Parsed
<1>3. Sees(src, current_token_idx, BinaryOperators \cup AssignOperators)
  BY <1>1, SeesPeek
<1>4. Precedence(src[current_token_idx]) > min_prec
  BY <1>1, Looks
<1>5. Peek = src[current_token_idx]
  BY <1>1, Looks
<1>6. IsFrame(Frame("infix", current_token_idx, <<lhs>>), "infix", current_token_idx, <<lhs>>,
              min_prec)
  BY FrameMade
<1>7. PState(src, "parse_prefix", NoTree, MinRhsPrec(src[current_token_idx]),
              Append(stack, Frame("infix", current_token_idx, <<lhs>>)), current_token_idx + 1)
  BY <1>2, <1>3, <1>4, <1>6, Standing, InfixMeans
<1> QED
  BY <1>1, <1>7, <1>5 DEF Parsed, Push

(* ... or the ternary.                                                      *)
LEMMA TernaryParsed ==
  ASSUME EInv, NEW src, Extends(src), Parsed(src), ParseTernary
  PROVE  Parsed(src)'
<1>1. /\ at = "pratt_parse" /\ Peeking /\ Peek \in {"?"} /\ Precedence(Peek) > min_prec
      /\ current_token_idx' = current_token_idx + 1 /\ at' = "parse_prefix" /\ lhs' = NoTree
      /\ min_prec' = 0 /\ stack' = Push(Frame("ternary", current_token_idx, <<lhs>>))
  BY DEF ParseTernary, Follows, At, Advance, ParseExpression
<1>2. PState(src, "pratt_parse", lhs, min_prec, stack, current_token_idx)
  BY <1>1 DEF Parsed
<1>3. Sees(src, current_token_idx, {"?"})
  BY <1>1, SeesPeek
<1>4. Precedence(src[current_token_idx]) > min_prec
  BY <1>1, Looks
<1>5. Peek = src[current_token_idx]
  BY <1>1, Looks
<1>6. IsFrame(Frame("ternary", current_token_idx, <<lhs>>), "ternary", current_token_idx, <<lhs>>,
              min_prec)
  BY FrameMade
<1>7. PState(src, "parse_prefix", NoTree, 0,
              Append(stack, Frame("ternary", current_token_idx, <<lhs>>)), current_token_idx + 1)
  BY <1>2, <1>3, <1>4, <1>6, Standing, TernaryMeans
<1> QED
  BY <1>1, <1>7 DEF Parsed, Push

----------------------------------------------------------------------------
(* A comma is in a list.                                                    *)
LEMMA ListOnTop ==
  ASSUME EInv, at = "after_comma"
  PROVE  stack # <<>>
BY DEF EInv, PointFits, IsTop, Top

(* The initializer of a struct,                                             *)
LEMMA StructInitParsed ==
  ASSUME EInv, NEW src, Extends(src), Parsed(src), ParseStructInit
  PROVE  Parsed(src)'
<1>1. CASE At("parse_struct_init") /\ Peek = "{" /\ ParseStructInit
  <2>1. /\ at = "parse_struct_init" /\ Peeking /\ Peek \in {"{"}
        /\ current_token_idx' = current_token_idx + 1 /\ at' = "member_inits" /\ lhs' = lhs
        /\ min_prec' = min_prec /\ stack' = Push(Frame("struct_init", current_token_idx, <<>>))
    BY <1>1 DEF ParseStructInit, Expect, At, Advance, GotoIn
  <2>2. PState(src, "parse_struct_init", lhs, min_prec, stack, current_token_idx)
    BY <2>1 DEF Parsed
  <2>3. Sees(src, current_token_idx, {"{"})
    BY <2>1, SeesPeek
  <2>4. IsFrame(Frame("struct_init", current_token_idx, <<>>),
                "struct_init", current_token_idx, <<>>, min_prec)
    BY FrameMade
  <2>5. PState(src, "member_inits", lhs, min_prec,
                Append(stack, Frame("struct_init",
                current_token_idx, <<>>)),
                current_token_idx + 1)
    BY <2>2, <2>3, <2>4, Standing, StructMeans
  <2> QED
    BY <2>1, <2>5 DEF Parsed, Push
<1>2. CASE At("member_inits") /\ Peek = "." /\ ParseStructInit
  <2>1. /\ at = "member_inits" /\ Peeking /\ Peek \in {"."}
        /\ current_token_idx' = current_token_idx + 1 /\ at' = "member_name" /\ lhs' = lhs
        /\ min_prec' = min_prec /\ stack' = stack
    BY <1>2 DEF ParseStructInit, Expect, At, Advance, Goto
  <2>2. PState(src, "member_inits", lhs, min_prec, stack, current_token_idx)
    BY <2>1 DEF Parsed
  <2>3. Sees(src, current_token_idx, {"."})
    BY <2>1, SeesPeek
  <2>4. PState(src, "member_name", lhs, min_prec, stack, current_token_idx + 1)
    BY <2>2, <2>3, Standing, MemberDotMeans
  <2> QED
    BY <2>1, <2>4 DEF Parsed
<1>3. CASE At("member_inits") /\ Peek = "}" /\ ParseStructInit
  <2>1. /\ at = "member_inits" /\ Peeking /\ Peek \in {"}"}
        /\ current_token_idx' = current_token_idx + 1 /\ at' = "return" /\ lhs' = Built(Top)
        /\ min_prec' = min_prec /\ stack' = Pop
    BY <1>3 DEF ParseStructInit, Expect, At, Advance, ReturnTree
  <2>2. PState(src, "member_inits", lhs, min_prec, stack, current_token_idx)
    BY <2>1 DEF Parsed
  <2>3. Sees(src, current_token_idx, {"}"})
    BY <2>1, SeesPeek
  <2>4. stack # <<>> /\ Top.node = "struct_init"
    BY <2>1, StructOnTop
  <2>5. PState(src, "return", Built(Top), min_prec,
                SubSeq(stack, 1, Len(stack) - 1), current_token_idx + 1)
    BY <2>2, <2>3, <2>4, TopIs, Standing, StructEndMeans
  <2> QED
    BY <2>1, <2>5 DEF Parsed, Pop
<1>4. CASE At("member_name") /\ Peek = "x" /\ ParseStructInit
  <2>1. /\ at = "member_name" /\ Peeking /\ Peek \in {"x"}
        /\ current_token_idx' = current_token_idx + 1 /\ at' = "member_assign" /\ lhs' = lhs
        /\ min_prec' = min_prec /\ stack' = stack
    BY <1>4 DEF ParseStructInit, Expect, At, Advance, Goto
  <2>2. PState(src, "member_name", lhs, min_prec, stack, current_token_idx)
    BY <2>1 DEF Parsed
  <2>3. Sees(src, current_token_idx, {"x"})
    BY <2>1, SeesPeek
  <2>4. PState(src, "member_assign", lhs, min_prec, stack, current_token_idx + 1)
    BY <2>2, <2>3, Standing, InitNameMeans
  <2> QED
    BY <2>1, <2>4 DEF Parsed
<1>5. CASE At("member_assign") /\ Peek = "=" /\ ParseStructInit
  <2>1. /\ at = "member_assign" /\ Peeking /\ Peek \in {"="}
        /\ current_token_idx' = current_token_idx + 1 /\ at' = "parse_prefix" /\ lhs' = NoTree
        /\ min_prec' = 0 /\ stack' = stack
    BY <1>5 DEF ParseStructInit, Expect, At, Advance, ParseExpression
  <2>2. PState(src, "member_assign", lhs, min_prec, stack, current_token_idx)
    BY <2>1 DEF Parsed
  <2>3. Sees(src, current_token_idx, {"="})
    BY <2>1, SeesPeek
  <2>4. stack # <<>> /\ Top.node = "struct_init"
    BY <2>1, StructOnTop
  <2>5. PState(src, "parse_prefix", NoTree, 0, stack, current_token_idx + 1)
    BY <2>2, <2>3, <2>4, TopIs, Standing, InitAssignMeans
  <2> QED
    BY <2>1, <2>5 DEF Parsed
<1>6. CASE Exit
  BY <1>6, ExitMeans
<1> QED
  BY <1>1, <1>2, <1>3, <1>4, <1>5, <1>6 DEF ParseStructInit, Expect

(* ... and of an array.                                                     *)
LEMMA ArrInitParsed ==
  ASSUME EInv, NEW src, Extends(src), Parsed(src), ParseArrInit
  PROVE  Parsed(src)'
<1>1. CASE At("parse_arr_init") /\ Peek = "{" /\ ParseArrInit
  <2>1. /\ at = "parse_arr_init" /\ Peeking /\ Peek \in {"{"}
        /\ current_token_idx' = current_token_idx + 1 /\ at' = "first_element" /\ lhs' = lhs
        /\ min_prec' = min_prec /\ stack' = Push(Frame("arr_init", current_token_idx, <<>>))
    BY <1>1 DEF ParseArrInit, Expect, At, Advance, GotoIn
  <2>2. PState(src, "parse_arr_init", lhs, min_prec, stack, current_token_idx)
    BY <2>1 DEF Parsed
  <2>3. Sees(src, current_token_idx, {"{"})
    BY <2>1, SeesPeek
  <2>4. IsFrame(Frame("arr_init", current_token_idx, <<>>), "arr_init", current_token_idx, <<>>,
                min_prec)
    BY FrameMade
  <2>5. PState(src, "first_element", lhs, min_prec,
                Append(stack, Frame("arr_init", current_token_idx, <<>>)), current_token_idx + 1)
    BY <2>2, <2>3, <2>4, Standing, ArrayMeans
  <2> QED
    BY <2>1, <2>5 DEF Parsed, Push
<1>2. CASE At("first_element") /\ Peek = "{" /\ ParseArrInit
  <2>1. /\ at = "first_element" /\ Peeking /\ Peek \in {"{"}
        /\ current_token_idx' = current_token_idx /\ at' = "parse_arr_init" /\ lhs' = lhs
        /\ min_prec' = min_prec /\ stack' = ReplaceTop([Top EXCEPT !.node = "nested_arr_init"])
    BY <1>2 DEF ParseArrInit, At, Stay, GotoIn
  <2>2. PState(src, "first_element", lhs, min_prec, stack, current_token_idx)
    BY <2>1 DEF Parsed
  <2>3. Sees(src, current_token_idx, {"{"})
    BY <2>1, SeesPeek
  <2>4. stack # <<>> /\ Top.node = "arr_init"
    BY <2>1, ArrayOnTop
  <2>5. PState(src, "parse_arr_init", lhs, min_prec,
                [stack EXCEPT ![Len(stack)] = [Top EXCEPT !.node = "nested_arr_init"]],
                current_token_idx)
    BY <2>2, <2>3, <2>4, TopIs, Standing, NestedMeans
  <2> QED
    BY <2>1, <2>5 DEF Parsed, ReplaceTop
<1>3. CASE At("first_element") /\ Peek # "{" /\ ParseArrInit
  <2>1. /\ at = "first_element" /\ Peeking /\ Peek # "{"
        /\ current_token_idx' = current_token_idx /\ at' = "parse_prefix" /\ lhs' = NoTree
        /\ min_prec' = 0 /\ stack' = stack
    BY <1>3 DEF ParseArrInit, At, Stay, ParseExpression
  <2>2. PState(src, "first_element", lhs, min_prec, stack, current_token_idx)
    BY <2>1 DEF Parsed
  <2>3. src[current_token_idx] # "{"
    BY <2>1, Looks
  <2>4. stack # <<>> /\ Top.node = "arr_init"
    BY <2>1, ArrayOnTop
  <2>5. PState(src, "parse_prefix", NoTree, 0, stack, current_token_idx)
    BY <2>2, <2>3, <2>4, TopIs, Standing, FirstElementMeans
  <2> QED
    BY <2>1, <2>5 DEF Parsed
<1>4. CASE Exit
  BY <1>4, ExitMeans
<1> QED
  BY <1>1, <1>2, <1>3, <1>4 DEF ParseArrInit, Expect

(* After a comma comes the next of a list.                                  *)
LEMMA CommaParsed ==
  ASSUME EInv, NEW src, Extends(src), Parsed(src), AfterComma
  PROVE  Parsed(src)'
<1>1. CASE At("after_comma") /\ Top.node = "call" /\ Peek # ")" /\ AfterComma
  <2>1. /\ at = "after_comma" /\ Peeking /\ Top.node = "call"
        /\ current_token_idx' = current_token_idx /\ at' = "parse_prefix" /\ lhs' = NoTree
        /\ min_prec' = 0 /\ stack' = stack
    BY <1>1 DEF AfterComma, At, Stay, ParseExpression
  <2>2. PState(src, "after_comma", lhs, min_prec, stack, current_token_idx)
    BY <2>1 DEF Parsed
  <2>3. stack # <<>> /\ Top.node = "call"
    BY <2>1, ListOnTop
  <2>4. PState(src, "parse_prefix", NoTree, 0, stack, current_token_idx)
    BY <2>2, <2>3, TopIs, Standing, NextArgMeans
  <2> QED
    BY <2>1, <2>4 DEF Parsed
<1>2. CASE At("after_comma") /\ Top.node = "struct_init" /\ Peek # "}" /\ AfterComma
  <2>1. /\ at = "after_comma" /\ Peeking /\ Peek # "}" /\ Top.node = "struct_init"
        /\ current_token_idx' = current_token_idx /\ at' = "member_inits" /\ lhs' = lhs
        /\ min_prec' = min_prec /\ stack' = stack
    BY <1>2 DEF AfterComma, At, Stay, Goto
  <2>2. PState(src, "after_comma", lhs, min_prec, stack, current_token_idx)
    BY <2>1 DEF Parsed
  <2>3. src[current_token_idx] # "}"
    BY <2>1, Looks
  <2>4. stack # <<>> /\ Top.node = "struct_init"
    BY <2>1, ListOnTop
  <2>5. PState(src, "member_inits", lhs, min_prec, stack, current_token_idx)
    BY <2>2, <2>3, <2>4, TopIs, Standing, NextMemberMeans
  <2> QED
    BY <2>1, <2>5 DEF Parsed
<1>3. CASE Exit
  BY <1>3, ExitMeans
<1> QED
  BY <1>1, <1>2, <1>3 DEF AfterComma

----------------------------------------------------------------------------

(* What a call waits for is returned: what was in parentheses,              *)
LEMMA ParenReturned ==
  ASSUME EInv, NEW src, Extends(src), Parsed(src), EndParen
  PROVE  Parsed(src)'
<1>1. CASE Peek = ")" /\ EndParen
  <2>1. /\ at = "return" /\ Peeking /\ Peek \in {")"} /\ stack # <<>> /\ Top.node = "paren"
        /\ current_token_idx' = current_token_idx + 1 /\ at' = "pratt_parse" /\ lhs' = lhs
        /\ min_prec' = Top.min_prec /\ stack' = Pop
    BY <1>1 DEF EndParen, ReturningTo, Expect, Advance, PrattParse
  <2>2. PState(src, "return", lhs, min_prec, stack, current_token_idx)
    BY <2>1 DEF Parsed
  <2>3. Sees(src, current_token_idx, {")"})
    BY <2>1, SeesPeek
  <2>4. /\ stack # <<>> /\ Top.node = "paren" /\ IsFilled(Filled, Top, lhs)
        /\ Top.min_prec \in Nat /\ Top = stack[Len(stack)]
    BY <2>1, TopIs
  <2>5. PState(src, "pratt_parse", lhs, Top.min_prec,
                SubSeq(stack, 1, Len(stack) - 1), current_token_idx + 1)
    BY <2>2, <2>3, <2>4, Standing, ParenEndMeans
  <2> QED
    BY <2>1, <2>5 DEF Parsed, Pop
<1>2. CASE Exit
  BY <1>2, ExitMeans
<1> QED
  BY <1>1, <1>2 DEF EndParen, Expect

(* ... an operand,                                                          *)
LEMMA OperandReturned ==
  ASSUME EInv, NEW src, Extends(src), Parsed(src), EndOperand
  PROVE  Parsed(src)'
<1>1. CASE Top.node \in {"unary", "cast", "infix"} /\ EndOperand
  <2>1. /\ at = "return" /\ stack # <<>> /\ Top.node \in {"unary", "cast", "infix"}
        /\ current_token_idx' = current_token_idx /\ at' = "pratt_parse" /\ lhs' = Built(Filled)
        /\ min_prec' = Top.min_prec /\ stack' = Pop
    BY <1>1 DEF EndOperand, ReturningTo, Stay, PrattParse
  <2>2. PState(src, "return", lhs, min_prec, stack, current_token_idx)
    BY <2>1 DEF Parsed
  <2>3. /\ stack # <<>> /\ Top.node \in {"unary", "cast", "infix"} /\ IsFilled(Filled, Top, lhs)
        /\ Top.min_prec \in Nat /\ Top = stack[Len(stack)]
    BY <2>1, TopIs
  <2>4. PState(src, "pratt_parse", Made(Top, lhs), Top.min_prec,
                SubSeq(stack, 1, Len(stack) - 1), current_token_idx)
    BY <2>2, <2>3, Standing, OperandMeans
  <2> QED
    BY <2>1, <2>4, TopIs DEF Parsed, Pop
<1>2. CASE Top.node = "create" /\ EndOperand
  <2>1. /\ at = "return" /\ stack # <<>> /\ Top.node = "create"
        /\ current_token_idx' = current_token_idx /\ at' = "pratt_parse" /\ lhs' = Built(Filled)
        /\ min_prec' = Top.min_prec /\ stack' = Pop
    BY <1>2 DEF EndOperand, ReturningTo, Stay, PrattParse
  <2>2. PState(src, "return", lhs, min_prec, stack, current_token_idx)
    BY <2>1 DEF Parsed
  <2>3. /\ stack # <<>> /\ Top.node = "create" /\ IsFilled(Filled, Top, lhs)
        /\ Top.min_prec \in Nat /\ Top = stack[Len(stack)]
    BY <2>1, TopIs
  <2>4. PState(src, "pratt_parse", Made(Top, lhs), Top.min_prec,
                SubSeq(stack, 1, Len(stack) - 1), current_token_idx)
    BY <2>2, <2>3, Standing, CreateEndMeans
  <2> QED
    BY <2>1, <2>4, TopIs DEF Parsed, Pop
<1> QED
  BY <1>1, <1>2 DEF EndOperand, ReturningTo

(* ... a part of the ternary,                                               *)
LEMMA TernaryReturned ==
  ASSUME EInv, NEW src, Extends(src), Parsed(src), EndTernaryPart
  PROVE  Parsed(src)'
<1>1. CASE Len(Top.parts) = 1 /\ Peeking /\ Peek = ":" /\ EndTernaryPart
  <2>1. /\ at = "return" /\ Peeking /\ Peek \in {":"} /\ stack # <<>> /\ Top.node = "ternary"
        /\ Len(Top.parts) = 1 /\ current_token_idx' = current_token_idx + 1
        /\ at' = "parse_prefix" /\ lhs' = NoTree /\ min_prec' = Precedence("?") - 1
        /\ stack' = ReplaceTop(Filled)
    BY <1>1 DEF EndTernaryPart, ReturningTo, Expect, Advance, ParseExpression
  <2>2. PState(src, "return", lhs, min_prec, stack, current_token_idx)
    BY <2>1 DEF Parsed
  <2>3. Sees(src, current_token_idx, {":"})
    BY <2>1, SeesPeek
  <2>4. /\ stack # <<>> /\ Top.node = "ternary" /\ Len(Top.parts) = 1
        /\ IsFilled(Filled, Top, lhs) /\ Top.min_prec \in Nat /\ Top = stack[Len(stack)]
    BY <2>1, TopIs
  <2>5. PState(src, "parse_prefix", NoTree, Precedence("?") - 1,
                [stack EXCEPT ![Len(stack)] = Filled], current_token_idx + 1)
    BY <2>2, <2>3, <2>4, Standing, MiddleMeans
  <2> QED
    BY <2>1, <2>5 DEF Parsed, ReplaceTop
<1>2. CASE Len(Top.parts) = 2 /\ EndTernaryPart
  <2>1. /\ at = "return" /\ stack # <<>> /\ Top.node = "ternary" /\ Len(Top.parts) = 2
        /\ current_token_idx' = current_token_idx /\ at' = "pratt_parse" /\ lhs' = Built(Filled)
        /\ min_prec' = Top.min_prec /\ stack' = Pop
    BY <1>2 DEF EndTernaryPart, ReturningTo, Stay, PrattParse
  <2>2. PState(src, "return", lhs, min_prec, stack, current_token_idx)
    BY <2>1 DEF Parsed
  <2>3. /\ stack # <<>> /\ Top.node = "ternary" /\ Len(Top.parts) = 2
        /\ IsFilled(Filled, Top, lhs) /\ Top.min_prec \in Nat /\ Top = stack[Len(stack)]
    BY <2>1, TopIs
  <2>4. PState(src, "pratt_parse", Made(Top, lhs), Top.min_prec,
                SubSeq(stack, 1, Len(stack) - 1), current_token_idx)
    BY <2>2, <2>3, Standing, TernaryEndMeans
  <2> QED
    BY <2>1, <2>4, TopIs DEF Parsed, Pop
<1>3. CASE Exit
  BY <1>3, ExitMeans
<1> QED
  BY <1>1, <1>2, <1>3 DEF EndTernaryPart, Expect

(* ... an argument,                                                         *)
LEMMA ArgReturned ==
  ASSUME EInv, NEW src, Extends(src), Parsed(src), EndArg
  PROVE  Parsed(src)'
<1>1. CASE Peek = "," /\ EndArg
  <2>1. /\ at = "return" /\ Peeking /\ Peek \in {","} /\ stack # <<>> /\ Top.node = "call"
        /\ current_token_idx' = current_token_idx + 1 /\ at' = "after_comma" /\ lhs' = lhs
        /\ min_prec' = min_prec /\ stack' = ReplaceTop(Filled)
    BY <1>1 DEF EndArg, ReturningTo, Advance, GotoIn
  <2>2. PState(src, "return", lhs, min_prec, stack, current_token_idx)
    BY <2>1 DEF Parsed
  <2>3. Sees(src, current_token_idx, {","})
    BY <2>1, SeesPeek
  <2>4. /\ stack # <<>> /\ Top.node = "call" /\ IsFilled(Filled, Top, lhs)
        /\ Top.min_prec \in Nat /\ Top = stack[Len(stack)]
    BY <2>1, TopIs
  <2>5. PState(src, "after_comma", lhs, min_prec,
                [stack EXCEPT ![Len(stack)] = Filled], current_token_idx + 1)
    BY <2>2, <2>3, <2>4, Standing, ArgMeans
  <2> QED
    BY <2>1, <2>5 DEF Parsed, ReplaceTop
<1>2. CASE Peek = ")" /\ EndArg
  <2>1. /\ at = "return" /\ Peeking /\ Peek \in {")"} /\ stack # <<>> /\ Top.node = "call"
        /\ current_token_idx' = current_token_idx + 1 /\ at' = "pratt_parse"
        /\ lhs' = Built(Filled) /\ min_prec' = Top.min_prec /\ stack' = Pop
    BY <1>2 DEF EndArg, ReturningTo, Expect, Advance, PrattParse
  <2>2. PState(src, "return", lhs, min_prec, stack, current_token_idx)
    BY <2>1 DEF Parsed
  <2>3. Sees(src, current_token_idx, {")"})
    BY <2>1, SeesPeek
  <2>4. /\ stack # <<>> /\ Top.node = "call" /\ IsFilled(Filled, Top, lhs)
        /\ Top.min_prec \in Nat /\ Top = stack[Len(stack)]
    BY <2>1, TopIs
  <2>5. PState(src, "pratt_parse", Made(Top, lhs), Top.min_prec,
                SubSeq(stack, 1, Len(stack) - 1), current_token_idx + 1)
    BY <2>2, <2>3, <2>4, Standing, LastArgMeans
  <2> QED
    BY <2>1, <2>5, TopIs DEF Parsed, Pop
<1>3. CASE Exit
  BY <1>3, ExitMeans
<1> QED
  BY <1>1, <1>2, <1>3 DEF EndArg, Expect

(* ... a subscript,                                                         *)
LEMMA SubscriptReturned ==
  ASSUME EInv, NEW src, Extends(src), Parsed(src), EndSubscript
  PROVE  Parsed(src)'
<1>1. CASE Peek = "]" /\ EndSubscript
  <2>1. /\ at = "return" /\ Peeking /\ Peek \in {"]"} /\ stack # <<>> /\ Top.node = "subscript"
        /\ current_token_idx' = current_token_idx + 1 /\ at' = "subscripts" /\ lhs' = lhs
        /\ min_prec' = min_prec /\ stack' = ReplaceTop(Filled)
    BY <1>1 DEF EndSubscript, ReturningTo, Expect, Advance, GotoIn
  <2>2. PState(src, "return", lhs, min_prec, stack, current_token_idx)
    BY <2>1 DEF Parsed
  <2>3. Sees(src, current_token_idx, {"]"})
    BY <2>1, SeesPeek
  <2>4. /\ stack # <<>> /\ Top.node = "subscript" /\ IsFilled(Filled, Top, lhs)
        /\ Top.min_prec \in Nat /\ Top = stack[Len(stack)]
    BY <2>1, TopIs
  <2>5. PState(src, "subscripts", lhs, min_prec,
                [stack EXCEPT ![Len(stack)] = Filled], current_token_idx + 1)
    BY <2>2, <2>3, <2>4, Standing, SubscriptEndMeans
  <2> QED
    BY <2>1, <2>5 DEF Parsed, ReplaceTop
<1>2. CASE Exit
  BY <1>2, ExitMeans
<1> QED
  BY <1>1, <1>2 DEF EndSubscript, Expect

(* ... the value of a member,                                               *)
LEMMA MemberInitReturned ==
  ASSUME EInv, NEW src, Extends(src), Parsed(src), EndMemberInit
  PROVE  Parsed(src)'
<1>1. CASE Peek = "," /\ EndMemberInit
  <2>1. /\ at = "return" /\ Peeking /\ Peek \in {","} /\ stack # <<>>
        /\ Top.node = "struct_init" /\ current_token_idx' = current_token_idx + 1
        /\ at' = "after_comma" /\ lhs' = lhs /\ min_prec' = min_prec
        /\ stack' = ReplaceTop(Filled)
    BY <1>1 DEF EndMemberInit, ReturningTo, Advance, GotoIn
  <2>2. PState(src, "return", lhs, min_prec, stack, current_token_idx)
    BY <2>1 DEF Parsed
  <2>3. Sees(src, current_token_idx, {","})
    BY <2>1, SeesPeek
  <2>4. /\ stack # <<>> /\ Top.node = "struct_init" /\ IsFilled(Filled, Top, lhs)
        /\ Top.min_prec \in Nat /\ Top = stack[Len(stack)]
    BY <2>1, TopIs
  <2>5. PState(src, "after_comma", lhs, min_prec,
                [stack EXCEPT ![Len(stack)] = Filled], current_token_idx + 1)
    BY <2>2, <2>3, <2>4, Standing, MemberInitMeans
  <2> QED
    BY <2>1, <2>5 DEF Parsed, ReplaceTop
<1>2. CASE Peek # "," /\ EndMemberInit
  <2>1. /\ at = "return" /\ Peeking /\ stack # <<>> /\ Top.node = "struct_init"
        /\ current_token_idx' = current_token_idx /\ at' = "member_inits" /\ lhs' = lhs
        /\ min_prec' = min_prec /\ stack' = ReplaceTop(Filled)
    BY <1>2 DEF EndMemberInit, ReturningTo, Stay, GotoIn
  <2>2. PState(src, "return", lhs, min_prec, stack, current_token_idx)
    BY <2>1 DEF Parsed
  <2>3. /\ stack # <<>> /\ Top.node = "struct_init" /\ IsFilled(Filled, Top, lhs)
        /\ Top.min_prec \in Nat /\ Top = stack[Len(stack)]
    BY <2>1, TopIs
  <2>4. PState(src, "member_inits", lhs, min_prec,
                [stack EXCEPT ![Len(stack)] = Filled], current_token_idx)
    BY <2>2, <2>3, Standing, LastInitMeans
  <2> QED
    BY <2>1, <2>4 DEF Parsed, ReplaceTop
<1> QED
  BY <1>1, <1>2 DEF EndMemberInit

(* ... or an element.                                                       *)
LEMMA ElementReturned ==
  ASSUME EInv, NEW src, Extends(src), Parsed(src), EndElement
  PROVE  Parsed(src)'
<1>1. CASE Peek = "," /\ Top.node = "arr_init" /\ EndElement
  <2>1. /\ at = "return" /\ Peeking /\ Peek \in {","} /\ stack # <<>> /\ Top.node = "arr_init"
        /\ current_token_idx' = current_token_idx + 1 /\ at' = "parse_prefix" /\ lhs' = NoTree
        /\ min_prec' = 0 /\ stack' = ReplaceTop(Filled)
    BY <1>1 DEF EndElement, ReturningTo, Advance, ParseExpression
  <2>2. PState(src, "return", lhs, min_prec, stack, current_token_idx)
    BY <2>1 DEF Parsed
  <2>3. Sees(src, current_token_idx, {","})
    BY <2>1, SeesPeek
  <2>4. /\ stack # <<>> /\ Top.node = "arr_init" /\ IsFilled(Filled, Top, lhs)
        /\ Top.min_prec \in Nat /\ Top = stack[Len(stack)]
    BY <2>1, TopIs
  <2>5. PState(src, "parse_prefix", NoTree, 0,
                [stack EXCEPT ![Len(stack)] = Filled], current_token_idx + 1)
    BY <2>2, <2>3, <2>4, Standing, ElementMeans
  <2> QED
    BY <2>1, <2>5 DEF Parsed, ReplaceTop
<1>2. CASE Peek = "," /\ Top.node = "nested_arr_init" /\ EndElement
  <2>1. /\ at = "return" /\ Peeking /\ Peek \in {","} /\ stack # <<>>
        /\ Top.node = "nested_arr_init" /\ current_token_idx' = current_token_idx + 1
        /\ at' = "parse_arr_init" /\ lhs' = lhs /\ min_prec' = min_prec
        /\ stack' = ReplaceTop(Filled)
    BY <1>2 DEF EndElement, ReturningTo, Advance, GotoIn
  <2>2. PState(src, "return", lhs, min_prec, stack, current_token_idx)
    BY <2>1 DEF Parsed
  <2>3. Sees(src, current_token_idx, {","})
    BY <2>1, SeesPeek
  <2>4. /\ stack # <<>> /\ Top.node = "nested_arr_init" /\ IsFilled(Filled, Top, lhs)
        /\ Top.min_prec \in Nat /\ Top = stack[Len(stack)]
    BY <2>1, TopIs
  <2>5. PState(src, "parse_arr_init", lhs, min_prec,
                [stack EXCEPT ![Len(stack)] = Filled], current_token_idx + 1)
    BY <2>2, <2>3, <2>4, Standing, NestedElementMeans
  <2> QED
    BY <2>1, <2>5 DEF Parsed, ReplaceTop
<1>3. CASE Peek = "}" /\ Top.node = "arr_init" /\ EndElement
  <2>1. /\ at = "return" /\ Peeking /\ Peek \in {"}"} /\ stack # <<>> /\ Top.node = "arr_init"
        /\ current_token_idx' = current_token_idx + 1 /\ at' = "return" /\ lhs' = Built(Filled)
        /\ min_prec' = min_prec /\ stack' = Pop
    BY <1>3 DEF EndElement, ReturningTo, Expect, Advance, ReturnTree
  <2>2. PState(src, "return", lhs, min_prec, stack, current_token_idx)
    BY <2>1 DEF Parsed
  <2>3. Sees(src, current_token_idx, {"}"})
    BY <2>1, SeesPeek
  <2>4. /\ stack # <<>> /\ Top.node = "arr_init" /\ IsFilled(Filled, Top, lhs)
        /\ Top.min_prec \in Nat /\ Top = stack[Len(stack)]
    BY <2>1, TopIs
  <2>5. PState(src, "return", Made(Top, lhs), min_prec,
                SubSeq(stack, 1, Len(stack) - 1), current_token_idx + 1)
    BY <2>2, <2>3, <2>4, Standing, LastElementMeans
  <2> QED
    BY <2>1, <2>5, TopIs DEF Parsed, Pop
<1>4. CASE Peek = "}" /\ Top.node = "nested_arr_init" /\ EndElement
  <2>1. /\ at = "return" /\ Peeking /\ Peek \in {"}"} /\ stack # <<>>
        /\ Top.node = "nested_arr_init" /\ current_token_idx' = current_token_idx + 1
        /\ at' = "return" /\ lhs' = Built(Filled) /\ min_prec' = min_prec /\ stack' = Pop
    BY <1>4 DEF EndElement, ReturningTo, Expect, Advance, ReturnTree
  <2>2. PState(src, "return", lhs, min_prec, stack, current_token_idx)
    BY <2>1 DEF Parsed
  <2>3. Sees(src, current_token_idx, {"}"})
    BY <2>1, SeesPeek
  <2>4. /\ stack # <<>> /\ Top.node = "nested_arr_init" /\ IsFilled(Filled, Top, lhs)
        /\ Top.min_prec \in Nat /\ Top = stack[Len(stack)]
    BY <2>1, TopIs
  <2>5. PState(src, "return", Made(Top, lhs), min_prec,
                SubSeq(stack, 1, Len(stack) - 1), current_token_idx + 1)
    BY <2>2, <2>3, <2>4, Standing, LastNestedMeans
  <2> QED
    BY <2>1, <2>5, TopIs DEF Parsed, Pop
<1>5. CASE Exit
  BY <1>5, ExitMeans
<1> QED
  BY <1>1, <1>2, <1>3, <1>4, <1>5 DEF EndElement, Expect, ReturningTo

----------------------------------------------------------------------------
(* What a step reads: only the parser's looking at it makes a token.        *)
LEMMA StepReads ==
  ASSUME Step
  PROVE  status = "parsing" /\ (NextToken \/ ReturnToCaller \/ Exit \/ Stay \/ Advance)
<1>1. CASE NextToken \/ ReturnToCaller
  BY <1>1 DEF NextToken, ReturnToCaller
<1>2. CASE ParseLiteral \/ ParseIdent \/ ParsePath \/ ParseUnary \/ ParseParen \/ ParseCast
           \/ NoExpression \/ EndOfExpression
  BY <1>2 DEF ParseLiteral, ParseIdent, ParsePath, ParseUnary, ParseParen, ParseCast,
              NoExpression, EndOfExpression, Expect, At, Peeking
<1>3. CASE ParseFuncCall \/ ParseArrSub \/ ParseMemberAccess \/ ParsePostIncDec
           \/ ParseStructCreate \/ ParseInfix \/ ParseTernary
  BY <1>3 DEF ParseFuncCall, ParseArrSub, ParseMemberAccess, ParsePostIncDec,
              ParseStructCreate, ParseInfix, ParseTernary, Follows, Expect, At, Peeking
<1>4. CASE ParseStructInit \/ ParseArrInit \/ AfterComma
  BY <1>4 DEF ParseStructInit, ParseArrInit, AfterComma, Expect, At, Peeking
<1>5. CASE EndParen \/ EndOperand \/ EndTernaryPart \/ EndArg \/ EndSubscript
           \/ EndMemberInit \/ EndElement
  BY <1>5 DEF EndParen, EndOperand, EndTernaryPart, EndArg, EndSubscript, EndMemberInit,
              EndElement, ReturningTo, Expect
<1> QED
  BY <1>1, <1>2, <1>3, <1>4, <1>5 DEF Step

(* A source that goes on as the tokens do went on so before.                *)
LEMMA ExtendedBefore ==
  ASSUME EInv, Step, NEW src, Extends(src)'
  PROVE  Extends(src)
<1>1. CASE tokens' = tokens
  BY <1>1 DEF Extends
<1>2. CASE NextToken
  <2>1. PICK tok : tokens' = Append(tokens, tok)
    BY <1>2 DEF NextToken
  <2>2. PICK more : more = Append(tokens, tok)
    OBVIOUS
  <2>3. IsSeq(tokens) /\ Len(tokens) \in Nat
    BY Here
  <2>4. Len(more) = Len(tokens) + 1 /\ \A k \in 1 .. Len(tokens) : more[k] = tokens[k]
    BY <2>2, <2>3, AppendSeq
  <2>5. IsSource(src) /\ Len(more) <= Len(src) /\ \A k \in 1 .. Len(more) : more[k] = src[k]
    BY <2>1, <2>2 DEF Extends
  <2>6. \A k \in 1 .. Len(tokens) : k \in 1 .. Len(more)
    BY <2>3, <2>4
  <2>7. \A n \in Nat : Len(more) <= n => Len(tokens) <= n
    BY <2>3, <2>4
  <2>8. Len(src) \in Nat
    BY <2>5 DEF IsSource
  <2>9. Len(tokens) <= Len(src)
    BY <2>5, <2>7, <2>8
  <2> QED
    BY <2>4, <2>5, <2>6, <2>9 DEF Extends
<1> QED
  BY <1>1, <1>2, StepReads DEF ReturnToCaller, Exit, Stay, Advance

(* What has been parsed still means what was read.                          *)
LEMMA StepMeans ==
  ASSUME EInv, Step, NEW src, Extends(src), Parsed(src)
  PROVE  Parsed(src)'
<1>1. CASE NoExpression
  BY <1>1, ExitMeans DEF NoExpression
<1>2. CASE NextToken \/ ReturnToCaller
  BY <1>2 DEF NextToken, ReturnToCaller, control, Parsed
<1> QED
  BY <1>1, <1>2, LiteralParsed, IdentParsed, PathParsed, UnaryParsed, ParenParsed,
     CastParsed, EndParsed, FuncCallParsed, ArrSubParsed, MemberParsed,
     PostIncDecParsed, StructCreateParsed, InfixParsed, TernaryParsed, StructInitParsed,
     ArrInitParsed, CommaParsed, ParenReturned, OperandReturned, TernaryReturned,
     ArgReturned, SubscriptReturned, MemberInitReturned, ElementReturned
  DEF Step

(* ... whatever follows.                                                    *)
LEMMA MeaningKept ==
  ASSUME EInv, MInv, [Next]_vars
  PROVE  MInv'
<1>1. CASE Step
  <2>1. \A src : Extends(src)' => Parsed(src)'
    <3> SUFFICES ASSUME NEW src, Extends(src)' PROVE Parsed(src)'
      OBVIOUS
    <3>1. Extends(src)
      BY <1>1, ExtendedBefore
    <3>2. Parsed(src)
      BY <3>1 DEF MInv, Parsed
    <3> QED
      BY <1>1, <3>1, <3>2, StepMeans
  <2>2. status' = "done" => at' = "return" /\ stack' = <<>>
    BY <1>1, StepReads DEF NextToken, ReturnToCaller, Exit, Stay, Advance, control
  <2> QED
    BY <2>1, <2>2 DEF MInv, Parsed
<1>2. CASE UNCHANGED vars
  BY <1>2 DEF vars, control, MInv, Extends
<1> QED
  BY <1>1, <1>2 DEF Next, Ended

(* Nothing has been parsed at first.                                        *)
LEMMA NothingMeant ==
  ASSUME Init
  PROVE  MInv
<1>1. status # "done"
  BY DEF Init
<1>2. \A src : Parsed(src)
  <2> SUFFICES ASSUME NEW src PROVE Parsed(src)
    OBVIOUS
  <2>1. /\ current_token_idx = 1 /\ lhs = NoTree /\ stack = <<>> /\ min_prec = 0
        /\ at \in {"parse_prefix", "parse_struct_init", "parse_arr_init"}
    BY DEF Init
  <2>2. PICK none : none = <<>>
    OBVIOUS
  <2>3. Awaited(src, none, 1) /\ Expects(src, none, 0) /\ ExpectsBraces(none)
    BY <2>2, AwaitedNone DEF Expects, ExpectsBraces
  <2>4. 1 \in Nat \ {0}
    OBVIOUS
  <2>5. CASE at = "parse_prefix"
    <3>1. ExpressionState(src, "parse_prefix", NoTree, 0, 1, 1)
      BY NotAfterFirst DEF ExpressionState
    <3>2. PState(src, "parse_prefix", NoTree, 0, none, 1)
      BY <2>3, <2>4, <3>1 DEF PState, ForExpressions
    <3> QED
      BY <2>1, <2>2, <2>5, <3>2 DEF Parsed
  <2>6. CASE at \in {"parse_struct_init", "parse_arr_init"}
    <3>1. at \in ForBraces /\ BracesState(src, at, NoTree, 1, 1)
      BY <2>6 DEF BracesState, ForBraces
    <3>2. PState(src, at, NoTree, 0, none, 1)
      BY <2>3, <2>4, <3>1 DEF PState
    <3> QED
      BY <2>1, <2>2, <3>2 DEF Parsed
  <2> QED
    BY <2>1, <2>5, <2>6
<1> QED
  BY <1>1, <1>2 DEF MInv, Parsed

(* The invariant: at every point, what has been parsed is what was read, and*)
(* every call that waits has read what it holds and asked for what is being *)
(* parsed.  It does not depend on what the source has yet to bring.         *)
THEOREM SourceIsMeant == Spec => [](EInv /\ MInv)
<1>1. Init => EInv /\ MInv
  BY InitFits, NothingMeant
<1>2. EInv /\ MInv /\ [Next]_vars => (EInv /\ MInv)'
  BY NextKeeps, MeaningKept
<1> QED
  BY <1>1, <1>2, PTL DEF Spec

(* The tree that is returned is the one the precedences give the tokens that*)
(* were consumed, whatever the source: the loop of pratt_parse, its         *)
(* recursion with a least precedence, and the calls it makes for brackets   *)
(* never regroup, drop or duplicate an operand.                             *)
THEOREM TreeIsMeant == Spec => []TreeIsMeaning
<1>1. EInv /\ MInv => TreeIsMeaning
  <2> SUFFICES ASSUME EInv, MInv, status = "done"
               PROVE  lhs = Meaning(tokens, 1, current_token_idx - 1)
    BY DEF TreeIsMeaning
  <2>1. at = "return" /\ stack = <<>>
    BY DEF MInv
  <2>2. Extends(tokens)
    BY Here DEF Extends, IsSource
  <2>3. PState(tokens, "return", lhs, min_prec, stack, current_token_idx)
    BY <2>1, <2>2 DEF MInv
  <2>4. \A s : Awaited(tokens, stack, s) => s = 1
    BY <2>1, AwaitedNone
  <2>5. \/ Reads(tokens, lhs, 1, current_token_idx - 1, min_prec)
        \/ ReadsBraces(tokens, lhs, 1, current_token_idx - 1)
    BY <2>3, <2>4 DEF PState, ExpressionState, BracesState, Between
  <2> QED
    BY <2>5 DEF Reads, ReadsBraces
<1> QED
  BY <1>1, SourceIsMeant, PTL
=============================================================================
