-------------------- MODULE DeclarationNestingProofs ----------------------
(***************************************************************************)
(* The proof that every node of the parse tree is in the node whose body   *)
(* it is written in (NestingIsTrue), for every source.                     *)
(*                                                                         *)
(* The property looks for the body by the brackets of the tokens that were *)
(* read.  The parser never counts them: it goes by the calls it is in.     *)
(* The invariant therefore says, of every call that is left, in which      *)
(* bracket it will be met, and that the node it adds to is the one that    *)
(* the bracket is the body of.  Calls are counted from the bottom, so that *)
(* what is said of a call stays true of it while others are made above it. *)
(***************************************************************************)
EXTENDS DeclarationParserProofs, WellFoundedInduction, NaturalsInduction
(* The brackets of the source, read from the left as the property reads    *)
(* them, but of any tokens, nodes and places: so they can be compared      *)
(* before and after a step.                                                *)

(* The tokens a type is read after.                                        *)
TypeLeads == {":", "::", "->", "*", "ref", "mut", "val", "["}

(* The token before place p.                                               *)
BeforeIn(toks, p) == IF p > 1 THEN toks[p - 1] ELSE "{"
(* A parenthesis of the type of a function: it opens no bracket of its     *)
(* own.                                                                    *)
OpensTypeIn(toks, o) ==
  \E i \in 2 .. (o - 1) : /\ toks[i] = "fn" /\ BeforeIn(toks, i) \in TypeLeads
                         /\ \A j \in (i + 1) .. o : toks[j] = "("
(* The token at o opens a bracket.                                         *)
OpensIn(toks, o) == toks[o] = "{" \/ (toks[o] = "(" /\ ~OpensTypeIn(toks, o))
(* The token at c closes one.                                              *)
ClosesIn(toks, c) == toks[c] \in {"}", ")"}

(* For each place up to cur, the places of the brackets open there, the    *)
(* outermost first; 0 is the whole source.                                 *)
IsStacks(toks, cur, st) ==
  /\ st[1] = <<0>>
  /\ \A p \in 1 .. (cur - 1) :
       st[p + 1] = CASE OpensIn(toks, p) -> Append(st[p], p)
                     [] ClosesIn(toks, p) -> SubSeq(st[p], 1, Len(st[p]) - 1)
                     [] OTHER -> st[p]

(* The last bracket opened.                                                *)
InnermostOf(s) == s[Len(s)]

(* The items that make nodes in the bracket they are met in.               *)
Inner == {"top_level", "declaration", "module", "function", "field", "container", "struct",
          "module_body", "component_body", "struct_body", "member", "statements", "statement",
          "var_decl", "for_init"}
(* Items that read an opening bracket.                                     *)
Openers == {"{", "("}
(* Items that are left inside a bracket and read the bracket that closes   *)
(* it: a list of parameters ends in its parenthesis.                       *)
Closers == {"}", ")", "params", "more_params"}
(* Items at which a body begins: the one of the node made last.            *)
Beginners == Openers \cup {"scope"}
(* Items that go on with the if made last.                                 *)
Elses == {"else_branch", "else_body"}
(* Items whose node is the one made last in their bracket: no other may be *)
(* made there before they are met.                                         *)
Bound == Beginners \cup Elses
(* Items that may make a node.                                             *)
Makers == Inner \cup Elses \cup {"chain", "chain_module"}

(* The r-th call, counted from the bottom: its place stays the same        *)
(* however many calls are made above it.                                   *)
Up(td, r) == td[(Len(td) + 1) - r]
(* How many more brackets are open below an item than at it, once its      *)
(* tokens are read.                                                        *)
Effect(item) == IF item \in Openers THEN 1 ELSE IF item \in Closers THEN 0 - 1 ELSE 0
(* The bracket an item is in is still to be opened.                        *)
Pending(td, r) == r < Len(td) /\ Up(td, r + 1) \in Openers
(* An item whose depth bounds that of every item above it.                 *)
Known(td, r) == Up(td, r) \in Bound \/ (Up(td, r) \in Inner \cup {"file"} /\ ~Pending(td, r))

(* How many of the open nodes each call is inside.                         *)
LevelsUp(td, op, lv) ==
  /\ lv[1] = 0 /\ lv[Len(td)] = Len(op)
  /\ \A r \in 1 .. (Len(td) - 1) : lv[r + 1] = IF Up(td, r + 1) = "end" THEN lv[r] + 1 ELSE lv[r]
  /\ \A r \in 1 .. Len(td) : lv[r] \in 0 .. Len(op)
  /\ \A s, r \in 1 .. Len(td) : s <= r => lv[s] <= lv[r]
(* How many brackets will be open when each call is come back to. Whatever *)
(* can make a node is deeper than what is bound to a node made before it,  *)
(* the modules of a chain apart.                                           *)
DepthsFit(td, bl) ==
  /\ bl[1] = 1
  /\ \A r \in 1 .. (Len(td) - 1) : bl[r] = bl[r + 1] + Effect(Up(td, r + 1))
  /\ \A r \in 1 .. Len(td) : bl[r] \in Nat \ {0}
  /\ \A s, r \in 1 .. Len(td) : s <= r /\ Known(td, s) => bl[s] <= bl[r]
  /\ \A s, r \in 1 .. Len(td) :
       s < r /\ Up(td, r) \in Makers /\ Up(td, s) \in Bound
         => bl[s] < bl[r] \/ Up(td, s + 1) = "chain"

(* The last node of a set; 0, the whole source, if there is none.          *)
LastOf(S) == Greatest({0} \cup S)
(* A module whose name is read after "::".                                 *)
IsChainedIn(toks, nodes, j) == nodes[j].node = "MODULE" /\ BeforeIn(toks, nodes[j].pos) = "::"
(* The node that what is written in the body of node j is put in: in a     *)
(* chain of modules, the first one.                                        *)
FilledIn(toks, nodes, j) ==
  IF j = 0 \/ ~IsChainedIn(toks, nodes, j) THEN j
  ELSE Greatest({i \in 1 .. j : nodes[i].node = "MODULE" /\ ~IsChainedIn(toks, nodes, i)})
(* The nodes in bracket b.                                                  *)
In(nodes, st, b) == {j \in 1 .. Len(nodes) : InnermostOf(st[nodes[j].pos]) = b}
(* Those that begin at q or before.                                        *)
UpTo(nodes, q, S) == {j \in S : nodes[j].pos <= q}
(* The ifs among them.                                                     *)
Ifs(nodes, S) == {j \in S : nodes[j].node = "IF"}
(* Those made before node k.                                               *)
Earlier(k, S) == {j \in S : j < k}
(* The node that node k is written in the body of.                         *)
ParentOf(toks, nodes, st, k) ==
  LET p == nodes[k].pos
      b == InnermostOf(st[p]) IN
  CASE BeforeIn(toks, p) = "::" ->
         LastOf(Earlier(k, {j \in 1 .. Len(nodes) : nodes[j].pos = p - 2}))
    [] BeforeIn(toks, p) = "else" ->
         LastOf(Earlier(k, Ifs(nodes, UpTo(nodes, p - 1, In(nodes, st, InnermostOf(st[p - 1]))))))
    [] OTHER -> IF b = 0 THEN 0
                ELSE LastOf(Earlier(k, UpTo(nodes, b, In(nodes, st, InnermostOf(st[b])))))
(* Node k is in the node it is written in the body of.                     *)
NodeNests(toks, nodes, st, k) ==
  nodes[k].into = IF IsChainedIn(toks, nodes, k) THEN ParentOf(toks, nodes, st, k)
                  ELSE FilledIn(toks, nodes, ParentOf(toks, nodes, st, k))
(* So is every node made so far.                                           *)
NodesNest(toks, cur, nodes, st) ==
  \A k \in 1 .. Len(nodes) : /\ nodes[k].pos \in 1 .. cur
                             /\ InnermostOf(st[nodes[k].pos]) \in 0 .. (nodes[k].pos - 1)
                             /\ NodeNests(toks, nodes, st, k)

(* The node that the body in bracket b is the body of.                     *)
Holder(toks, nodes, st, b) ==
  IF b = 0 THEN 0 ELSE FilledIn(toks, nodes,
    LastOf(UpTo(nodes, b, In(nodes, st, InnermostOf(st[b])))))
(* The node made last in bracket b.                                        *)
Latest(nodes, st, b) == LastOf(In(nodes, st, b))
(* The if made last in bracket b.                                          *)
LatestIf(nodes, st, b) == LastOf(Ifs(nodes, In(nodes, st, b)))

(* A stack of brackets: each is opened after those below it.               *)
Brackets(s, cur) ==
  /\ IsSeq(s) /\ s # <<>> /\ s[1] = 0
  /\ \A i \in 1 .. Len(s) : s[i] \in 0 .. (cur - 1)
  /\ \A i, j \in 1 .. Len(s) : i < j => s[i] < s[j]

(* The r-th call is the statement of an else, which is an if.              *)
AfterElse(toks, cur, td, r) == r = Len(td) /\ td[1] = "statement" /\ BeforeIn(toks, cur) = "else"
(* The r-th call, inside node n and bracket b: a body adds to the node it  *)
(* is the body of, what begins a body belongs to the node made last in the *)
(* bracket, and an else to the if made last there.                         *)
Placed(toks, cur, td, op, nodes, st, lv, bl, r) ==
  LET n == NodeAt(op, lv[r])
      b == st[cur][bl[r]] IN
  /\ Up(td, r) \in Inner \cup {"file"} /\ ~Pending(td, r) /\ ~AfterElse(toks, cur, td, r)
       => n = Holder(toks, nodes, st, b)
  /\ Up(td, r) \in Beginners => n # 0 /\ n = FilledIn(toks, nodes, Latest(nodes, st, b))
  /\ Up(td, r) \in Elses \/ AfterElse(toks, cur, td, r) => n # 0 /\ n = LatestIf(nodes, st, b)

(* Every call is inside the node and the bracket that the tokens say it is *)
(* in.                                                                     *)
CallsNest(toks, cur, td, op, nodes, st, lv, bl) ==
  /\ Brackets(st[cur], cur)
  /\ LevelsUp(td, op, lv) /\ DepthsFit(td, bl) /\ bl[Len(td)] = Len(st[cur])
  /\ \A r \in 1 .. Len(td) : Placed(toks, cur, td, op, nodes, st, lv, bl, r)

(* Items that are met where a type begins.                                 *)
Leads == {"type_decl", "::?", "type_kind", "val?", "not_ref"}
(* Items that read a type, or what is left of one.                         *)
TypeItems == {"type_decl", "type_kind", "type_path", "fn_ptr", "fn_ptr_params", "fn_ptr_more",
              "fn_ptr_arrow", "end_ptr", "end_ref", "array_sizes"}
(* What may be left to do after a type.                                    *)
AfterTypes == {"field_init", "scope", ")", "more_params", "var_init", "end_ptr", "end_ref", "]",
               "fn_ptr_more"}
(* Items that are met between declarations or statements.                  *)
Resting == Inner \cup {"end", "else_branch", "file"}
(* Items that one of those may be left after.                              *)
BeforeRest == Resting \cup {"}", ";", "{", "(", "scope", "else_body"}
(* Items that are done at once: they are never left below another.         *)
HeadsOnly == {"::?", "not_ref", "mut?", "fn_ptr", "fn_ptr_params", "fn_ptr_arrow", "receiver",
  "else_body", "chain_module", "statement"}

(* An item a may be left above an item b.                                  *)
Pair(a, b) ==
  /\ b \notin HeadsOnly
  /\ b = "(" => a = "name"
  /\ b \in Resting => a \in BeforeRest
  /\ b = "type_decl" => a \in {":", "->", "mut?", "val?", "not_ref"}
  /\ b = "val?" => a = ":"
  /\ b = "type_kind" => a = "::?"
  /\ b = "chain" => a = "name"
  /\ a \in Openers => b \in {"module_body", "struct_body", "component_body", "statements",
       "params", "expression", "for_init"}
  /\ a \in TypeItems => b \in AfterTypes
  /\ a = "chain_module" => b = "name"
  /\ a = "for_init" => b = "for_condition"
  /\ a = "param" => b \in {"more_params", "fn_ptr_more"}
  /\ a \in {"field_init", "var_init"} => b = ";"
  /\ a = "mut?" => b \in {"name", "type_decl"}
  /\ a = "::?" => b = "type_kind"
  /\ a \in {"val?", "not_ref"} => b = "type_decl"

(* So it is all the way down the calls.                                    *)
Pairs(td) == \A i \in 1 .. (Len(td) - 1) : Pair(td[i], td[i + 1])

(* What the tokens just read say of the next item, a, and of b below it.   *)
HeadNests(toks, cur, a, b, nodes) ==
  LET before == BeforeIn(toks, cur) IN
  /\ a = "(" => before \notin {"fn", "("}
  /\ a = "receiver" => before = "fn" /\ BeforeIn(toks, cur - 1) \notin TypeLeads
  /\ a \in Resting => before \notin TypeLeads /\ (before = "else" => a = "statement")
  /\ a = "statement" /\ before = "else" => cur <= Len(toks) /\ toks[cur] = "if"
  /\ a \in Leads \/ (a = "mut?" /\ b = "type_decl") => before \in TypeLeads
  /\ a = "fn_ptr" => before = "fn" /\ BeforeIn(toks, cur - 1) \in TypeLeads
  /\ a = "fn_ptr_params" => /\ before = "(" /\ BeforeIn(toks, cur - 1) = "fn"
                                /\ BeforeIn(toks, cur - 2) \in TypeLeads
  /\ a = "else_body" => before = "else"
  /\ a \in {"else_body", "statement"} /\ before = "else" =>
       \A k \in 1 .. Len(nodes) : nodes[k].pos < cur
  /\ a \in {"chain", "chain_module"} \/ (a = "name" /\ b = "chain") =>
       LET gap == CASE a = "chain" -> 1 [] a = "chain_module" -> 2 [] OTHER -> 0 IN
       /\ nodes # <<>> /\ nodes[Len(nodes)].pos + gap = cur
       /\ \A p \in nodes[Len(nodes)].pos .. (cur - 1) : toks[p] \notin {"{", "(", "}", ")"}

(* The calls can make no other node before they fail: a type of a function *)
(* is followed by an arrow, which nothing left to do accepts, or lacks the *)
(* one it must have.                                                       *)
Doomed(toks, cur, td) ==
  \/ td[1] = "fn_ptr_arrow"
  \/ cur <= Len(toks) /\ toks[cur] = "->" /\ td[1] \in AfterTypes \cup {";", "{"}

-----------------------------------------------------------------------------
(* The order of the items that are left, and the tokens that lead to the   *)
(* next one: the lemmas HPush to HNode are about the shapes of the steps,  *)
(* one lemma for each action follows.                                      *)

(* The calls that are left follow each other as the parser makes them, and *)
(* the tokens before the next one are those that lead to it.               *)
HInv == Pairs(todo) /\ HeadNests(tokens, current_token_idx, todo[1], todo[2], ast)

(* Items put in the place of a call are well paired with those below.      *)
LEMMA PairsThen ==
  ASSUME NEW td, IsSeq(td), td # <<>>, Pairs(td), NEW items, IsSeq(items), Pairs(items),
         items # <<>> /\ Len(td) > 1 => Pair(items[Len(items)], td[2])
  PROVE  Pairs(items \o Tail(td))
<1> DEFINE n == Len(td)
           m == Len(items)
           u == items \o Tail(td)
<1>1. /\ Len(u) = m + (n - 1)
      /\ \A i \in 1 .. m : u[i] = items[i]
      /\ \A i \in 1 .. (n - 1) : u[m + i] = td[i + 1]
  BY ThenSeq
<1>2. n \in Nat /\ n >= 1 /\ m \in Nat /\ (items # <<>> <=> m > 0)
  BY SeqFacts
<1>3. \A i \in 1 .. (m - 1) : Pair(items[i], items[i + 1])
  BY DEF Pairs
<1>4. \A i \in 1 .. (n - 1) : Pair(td[i], td[i + 1])
  BY DEF Pairs
<1>5. m > 0 /\ n > 1 => Pair(items[m], td[2])
  BY <1>2
<1> SUFFICES ASSUME NEW i \in 1 .. (Len(u) - 1) PROVE Pair(u[i], u[i + 1])
  BY DEF Pairs
<1> HIDE DEF n, m, u
<1>6. CASE i \in 1 .. (m - 1)
  <2>1. i \in 1 .. m /\ i + 1 \in 1 .. m
    BY <1>2, <1>6
  <2> QED
    BY <2>1, <1>1, <1>3, <1>6
<1>7. CASE i = m
  <2>1. m \in 1 .. m /\ m > 0 /\ n > 1 /\ 1 \in 1 .. (n - 1)
    BY <1>1, <1>2, <1>7
  <2>2. u[m] = items[m] /\ u[m + 1] = td[1 + 1]
    BY <1>1, <2>1
  <2> QED
    BY <2>1, <2>2, <1>5, <1>7
<1>8. CASE i \notin 1 .. m
  <2>1. i - m \in 1 .. (n - 1) /\ (i + 1) - m \in 1 .. (n - 1) /\ m + (i - m) = i
        /\ m + ((i + 1) - m) = i + 1 /\ (i - m) + 1 \in 1 .. (n - 1)
             /\ ((i + 1) - m) + 1 = ((i - m) + 1) + 1
    BY <1>1, <1>2, <1>8
  <2>2. u[m + (i - m)] = td[(i - m) + 1] /\ u[m + ((i + 1) - m)] = td[((i + 1) - m) + 1]
    BY <1>1, <2>1
  <2>3. Pair(td[(i - m) + 1], td[((i - m) + 1) + 1])
    BY <1>4, <2>1
  <2> QED
    BY <2>1, <2>2, <2>3
<1> QED
  BY <1>1, <1>2, <1>6, <1>7, <1>8

(* Items whose coming first asks nothing of the tokens.                     *)
Touchy == {"(", "receiver", "mut?", "fn_ptr", "fn_ptr_params", "else_body", "statement", "chain",
           "chain_module", "name"} \cup Resting \cup Leads

(* Every other item may come first after any token.                        *)
LEMMA CalmHead ==
  ASSUME NEW toks, NEW cur, NEW a, a \notin Touchy, NEW b, NEW nodes
  PROVE  HeadNests(toks, cur, a, b, nodes)
  BY DEF Touchy, HeadNests

(* What comes between declarations and statements may come first after any *)
(* token but those before a type and "else".                               *)
LEMMA RestHead ==
  ASSUME NEW toks, NEW cur, NEW a \in Resting, NEW b, NEW nodes,
         BeforeIn(toks, cur) \notin TypeLeads \cup {"else"}
  PROVE  HeadNests(toks, cur, a, b, nodes)
<1>1. a \notin {"(", "receiver", "mut?", "fn_ptr", "fn_ptr_params", "else_body", "chain",
        "chain_module", "name"} \cup Leads
  BY DEF Resting, Inner, Leads
<1> QED
  BY <1>1 DEF HeadNests

(* What begins a type may come first after a token that leads to one.      *)
LEMMA LeadHead ==
  ASSUME NEW toks, NEW cur, NEW a \in Leads \cup {"mut?"}, NEW b, NEW nodes,
         BeforeIn(toks, cur) \in TypeLeads
  PROVE  HeadNests(toks, cur, a, b, nodes)
<1>1. a \notin {"(", "receiver", "fn_ptr", "fn_ptr_params", "else_body", "statement", "chain",
        "chain_module", "name"} \cup Resting
  BY DEF Resting, Inner, Leads
<1> QED
  BY <1>1 DEF HeadNests

(* A name may come first after any token, unless a chain of modules goes   *)
(* on with it.                                                             *)
LEMMA NameHead ==
  ASSUME NEW toks, NEW cur, NEW a \in {"name", "mut?"}, NEW b, b \notin {"chain", "type_decl"},
         NEW nodes
  PROVE  HeadNests(toks, cur, a, b, nodes)
<1>1. a \notin {"(", "receiver", "fn_ptr", "fn_ptr_params", "else_body", "statement", "chain",
        "chain_module"} \cup Resting \cup Leads
  BY DEF Resting, Inner, Leads
<1> QED
  BY <1>1 DEF HeadNests

(* The token before the next one, before and after a step.                 *)
LEMMA BeforeNow ==
  ASSUME DInv
  PROVE  /\ Stay => BeforeIn(tokens, current_token_idx)' = BeforeIn(tokens, current_token_idx)
         /\ Advance => /\ BeforeIn(tokens, current_token_idx)' = Peek
                       /\ BeforeIn(tokens', current_token_idx' - 1)
                            = BeforeIn(tokens, current_token_idx)
                       /\ BeforeIn(tokens', current_token_idx' - 2)
                            = BeforeIn(tokens, current_token_idx - 1)
         /\ current_token_idx \in Nat /\ current_token_idx >= 1 /\ Len(tokens) \in Nat
         /\ current_token_idx <= Len(tokens) + 1
<1>1. current_token_idx \in 1 .. (Len(tokens) + 1) /\ Len(tokens) \in Nat
  BY SeqFacts DEF DInv, TokensFit
<1>2. CASE Advance
  <2>1. tokens' = tokens /\ current_token_idx' = current_token_idx + 1
    BY <1>2 DEF Advance, source
  <2>2. current_token_idx' > 1 /\ current_token_idx' - 1 = current_token_idx
        /\ current_token_idx' - 2 = current_token_idx - 1
    BY <1>1, <2>1
  <2>3. BeforeIn(tokens', current_token_idx') = tokens'[current_token_idx' - 1]
    BY <2>2 DEF BeforeIn
  <2> QED
    BY <1>1, <2>1, <2>2, <2>3 DEF Peek, Stay
<1> QED
  BY <1>1, <1>2 DEF Stay, source

(* A step that puts items in the place of the next keeps HInv.             *)
LEMMA HPush ==
  ASSUME DInv, HInv, NEW items, IsSeq(items), items # <<>>, Pairs(items), Then(items),
         \A x : Pair(Next1, x) => Pair(items[Len(items)], x),
         \A b : (Len(items) > 1 => b = items[2]) =>
                 HeadNests(tokens', current_token_idx', items[1], b, ast')
  PROVE  HInv'
<1>1. IsSeq(todo) /\ todo # <<>> /\ Pairs(todo) /\ todo' = items \o Tail(todo)
  BY DEF DInv, CallsFit, HInv, Then
<1>2. Len(items) \in Nat /\ Len(items) > 0 /\ Len(todo) \in Nat
  BY <1>1, SeqFacts
<1>3. Len(todo) > 1 => Pair(todo[1], todo[2])
  <2> HAVE Len(todo) > 1
  <2>1. 1 \in 1 .. (Len(todo) - 1) /\ 1 + 1 = 2
    BY <1>2
  <2> QED
    BY <1>1, <2>1 DEF Pairs
<1>4. Pairs(todo')
  BY <1>1, <1>3, PairsThen DEF Next1
<1>5. \A i \in 1 .. Len(items) : todo'[i] = items[i]
  BY <1>1, ThenSeq
<1>6. todo'[1] = items[1] /\ (Len(items) > 1 => todo'[2] = items[2])
  BY <1>2, <1>5
<1> QED
  BY <1>4, <1>6 DEF HInv

(* A step that is done with the next item keeps HInv.                      *)
LEMMA HPop ==
  ASSUME DInv, HInv, Then(<<>>), ast' = ast, NEW h, Next1 = h, h \notin {"file", "chain_module"},
         NEW before, before = BeforeIn(tokens, current_token_idx)',
         h \in BeforeRest => before \notin TypeLeads \cup {"else"},
         h \in {":", "->", "val?", "not_ref", "::?"} => before \in TypeLeads,
         h = "mut?" /\ todo[2] = "type_decl" => before \in TypeLeads,
         h = "name" => Advance /\ Peek \in Identifiers
  PROVE  HInv'
<1>1. IsSeq(todo) /\ todo # <<>> /\ Pairs(todo) /\ todo' = <<>> \o Tail(todo)
      /\ CallsFit(todo, open, ast) /\ todo[1] = h
  BY DEF DInv, CallsFit, HInv, Then, Next1
<1>2. Len(todo) \in Nat /\ Len(todo) >= 2
  BY <1>1, MoreToDo
<1>3. /\ Len(todo') = Len(todo) - 1
      /\ \A i \in 1 .. (Len(todo) - 1) : todo'[i] = todo[i + 1]
  BY <1>1, <1>2, ShortSeqs, ThenSeq
<1>4. todo'[1] = todo[2] /\ (Len(todo) > 2 => todo'[2] = todo[3])
  <2>1. 1 \in 1 .. (Len(todo) - 1) /\ (Len(todo) > 2 => 2 \in 1 .. (Len(todo) - 1))
    BY <1>2
  <2> QED
    BY <1>3, <2>1
<1>5. Pairs(todo')
  <2>1. Pairs(<<>>)
    BY ShortSeqs DEF Pairs
  <2> QED
    BY <1>1, <2>1, ShortSeqs, PairsThen
<1> DEFINE a == todo[2]
<1>6. Pair(h, a)
  <2>1. 1 \in 1 .. (Len(todo) - 1)
    BY <1>2
  <2> QED
    BY <1>1, <2>1 DEF Pairs
<1> HIDE DEF a
<1>7. HeadNests(tokens', current_token_idx', a, todo'[2], ast)
  <2>1. CASE a \in Resting
    <3>1. h \in BeforeRest
      BY <1>6, <2>1 DEF Pair
    <3> QED
      BY <3>1, <2>1, RestHead
  <2>2. CASE a \in Leads
    <3>1. h \in {":", "->", "val?", "not_ref", "::?"} \/ (h = "mut?" /\ a = "type_decl")
      BY <1>6, <2>2 DEF Pair, Leads, HeadsOnly
    <3>2. before \in TypeLeads
      BY <3>1 DEF a
    <3> QED
      BY <3>2, <2>2, LeadHead
  <2>3. CASE a = "("
    <3>1. h = "name"
      BY <1>6, <2>3 DEF Pair
    <3>2. before \in Identifiers
      BY <3>1, BeforeNow
    <3>3. before \notin {"fn", "("}
      BY <3>2 DEF Identifiers, Builtins
    <3>4. a \notin {"receiver", "mut?", "fn_ptr", "fn_ptr_params", "else_body", "statement",
            "chain", "chain_module", "name"} \cup Resting \cup Leads
      BY <2>3 DEF Resting, Inner, Leads
    <3> QED
      BY <2>3, <3>3, <3>4 DEF HeadNests
  <2>4. CASE a = "chain"
    <3>1. h = "name"
      BY <1>6, <2>4 DEF Pair
    <3>2. Advance /\ Peek \in Identifiers
      BY <3>1
    <3>3. /\ ast # <<>> /\ ast[Len(ast)].pos = current_token_idx
      <4>1. HeadNests(tokens, current_token_idx, "name", "chain", ast)
        BY <3>1, <2>4, <1>1 DEF HInv, a
      <4>2. ast[Len(ast)].pos + 0 = current_token_idx /\ ast # <<>>
        BY <4>1 DEF HeadNests
      <4>3. ast[Len(ast)].pos \in Nat
        <5>1. IsSeq(ast) /\ \A k \in 1 .. Len(ast) : ast[k].pos \in 1 .. current_token_idx
          BY DEF DInv, CallsFit, NodesFit, NodeFits
        <5>2. Len(ast) \in 1 .. Len(ast)
          BY <5>1, <4>2, SeqFacts
        <5> QED
          BY <5>1, <5>2, BeforeNow
      <4> QED
        BY <4>2, <4>3
    <3>4. tokens' = tokens /\ current_token_idx' = current_token_idx + 1
      BY <3>2 DEF Advance, source
    <3>5. tokens[current_token_idx] \notin {"{", "(", "}", ")"}
      BY <3>2 DEF Peek, Identifiers, Builtins
    <3>6. \A p \in ast[Len(ast)].pos .. (current_token_idx' - 1) : p = current_token_idx
      BY <3>3, <3>4, BeforeNow
    <3>7. a \notin {"receiver", "mut?", "fn_ptr", "fn_ptr_params", "else_body", "statement", "(",
            "chain_module", "name"} \cup Resting \cup Leads
      BY <2>4 DEF Resting, Inner, Leads
    <3> QED
      BY <2>4, <3>3, <3>4, <3>5, <3>6, <3>7 DEF HeadNests
  <2>5. CASE a = "name"
    <3>1. todo'[2] # "chain" \/ Len(todo) = 2
      <4>1. ChainFits(todo, ast)
        BY DEF DInv
      <4>2. Len(todo) > 2 => (todo[3] = "chain" => h = "chain_module")
        <5> SUFFICES ASSUME Len(todo) > 2, todo[3] = "chain" PROVE h = "chain_module"
          OBVIOUS
        <5>1. 3 \in 1 .. Len(todo) /\ 3 # 1 /\ 3 # 2
          BY <1>2
        <5>2. todo[1] = "chain_module"
          BY <4>1, <5>1 DEF ChainFits
        <5> QED
          BY <5>2, <1>1
      <4>3. Len(todo) = 2 \/ Len(todo) > 2
        <5> SUFFICES ASSUME NEW n \in Nat, n >= 2 PROVE n = 2 \/ n > 2
          BY <1>2
        <5> QED
          OBVIOUS
      <4>4. todo[3] = "chain" => ~(Len(todo) > 2)
        BY <4>2
      <4> QED
        BY <4>3, <4>4, <1>4
    <3>2. Len(todo) # 2
      <4>1. todo[Len(todo)] = "file"
        BY <1>1, MoreToDo
      <4> QED
        BY <4>1, <2>5 DEF a
    <3>3. a \notin {"receiver", "mut?", "fn_ptr", "fn_ptr_params", "else_body", "statement", "(",
            "chain_module", "chain"} \cup Resting \cup Leads
      BY <2>5 DEF Resting, Inner, Leads
    <3> QED
      BY <3>1, <3>2, <3>3 DEF HeadNests
  <2>6. CASE a \in HeadsOnly
    BY <2>6, <1>6 DEF Pair
  <2>7. CASE a \notin Resting \cup Leads \cup HeadsOnly \cup {"(", "chain", "name"}
    <3>1. a \notin Touchy
      BY <2>7 DEF Touchy, HeadsOnly
    <3> QED
      BY <3>1, CalmHead
  <2> QED
    BY <2>1, <2>2, <2>3, <2>4, <2>5, <2>6, <2>7
<1> QED
  BY <1>4, <1>5, <1>7 DEF HInv, a

(* Items that may not be left above some of what others may be.             *)
Choosy == {"param", "field_init", "var_init", "mut?", "::?", "val?", "not_ref", "chain_module",
           "for_init"} \cup TypeItems \cup Openers

(* What follows an item may follow the last of those it is replaced by.    *)
LEMMA Follow ==
  ASSUME NEW h, h \notin {"name", ":", "->", "mut?", "val?", "not_ref", "::?"},
         NEW l, l \notin Choosy, l \in BeforeRest \/ h \notin BeforeRest
  PROVE  \A x : Pair(h, x) => Pair(l, x)
  BY DEF Pair, Choosy

(* Nor do the items of a type ask for more than the item they replace.     *)
LEMMA FollowType ==
  ASSUME NEW h \in TypeItems \cup {"param"}, NEW l \in TypeItems
  PROVE  \A x : Pair(h, x) => Pair(l, x)
<1> SUFFICES ASSUME NEW x, Pair(h, x) PROVE Pair(l, x)
  OBVIOUS
<1>1. x \in AfterTypes
  BY DEF Pair, AfterTypes
<1>2. x \notin HeadsOnly \cup Resting \cup {"(", "type_decl", "val?", "type_kind", "chain"}
  BY <1>1 DEF AfterTypes, HeadsOnly, Resting, Inner
<1>3. l \notin {"param", "field_init", "var_init", "mut?", "::?", "val?", "not_ref",
        "chain_module", "for_init"}
      \cup Openers
  BY DEF TypeItems, Openers
<1> QED
  BY <1>1, <1>2, <1>3 DEF Pair

(* An item that reads no token is done with.                               *)
LEMMA HPopStay ==
  ASSUME DInv, HInv, Stay, Then(<<>>), ast' = ast,
         Next1 \notin {"file", "chain_module", "statement", "}", ";", "{", "(", "scope",
           "else_body", ":", "->", "name"}
  PROVE  HInv'
<1> DEFINE before == BeforeIn(tokens, current_token_idx)'
<1>1. before = BeforeIn(tokens, current_token_idx)
  BY BeforeNow
<1> HIDE DEF before
<1>2. HeadNests(tokens, current_token_idx, Next1, todo[2], ast)
  BY DEF HInv, Next1
<1>3. Next1 \in BeforeRest => before \notin TypeLeads \cup {"else"}
  <2> HAVE Next1 \in BeforeRest
  <2>1. Next1 \in Resting /\ Next1 # "statement"
    BY DEF BeforeRest
  <2> QED
    BY <1>1, <1>2, <2>1 DEF HeadNests
<1>4. Next1 \in {":", "->", "val?", "not_ref", "::?"} => before \in TypeLeads
  <2> HAVE Next1 \in {":", "->", "val?", "not_ref", "::?"}
  <2>1. Next1 \in Leads
    BY DEF Leads
  <2> QED
    BY <1>1, <1>2, <2>1 DEF HeadNests
<1>5. Next1 = "mut?" /\ todo[2] = "type_decl" => before \in TypeLeads
  BY <1>1, <1>2 DEF HeadNests
<1> QED
  BY <1>3, <1>4, <1>5, HPop DEF before

(* An item that reads one token is done with.                              *)
LEMMA HPopPast ==
  ASSUME DInv, HInv, Advance, Then(<<>>), ast' = ast, Next1 \notin {"file", "chain_module"},
         Next1 \in BeforeRest => Peek \notin TypeLeads \cup {"else"},
         Next1 \in {":", "->", "val?", "not_ref", "::?", "mut?"} => Peek \in TypeLeads,
         Next1 = "name" => Peek \in Identifiers
  PROVE  HInv'
<1>1. BeforeIn(tokens, current_token_idx)' = Peek
  BY BeforeNow
<1> QED
  BY <1>1, HPop

(* One item in the place of the next.                                      *)
LEMMA Push1 ==
  ASSUME DInv, HInv, NEW a, Then(<<a>>), \A x : Pair(Next1, x) => Pair(a, x),
         \A x : HeadNests(tokens', current_token_idx', a, x, ast')
  PROVE  HInv'
<1> DEFINE items == <<a>>
<1>1. IsSeq(items) /\ Len(items) = 1 /\ items # <<>> /\ items[1] = a
  <2>1. items \in Seq({a}) /\ Len(items) = 1 /\ items # <<>> /\ items[1] = a
    OBVIOUS
  <2> QED
    BY <2>1, SeqOfItsOwn
<1> HIDE DEF items
<1>2. Pairs(items)
  BY <1>1 DEF Pairs
<1>3. Then(items)
  BY DEF items
<1> QED
  BY <1>1, <1>2, <1>3, HPush

(* Two items in the place of the next.                                     *)
LEMMA Push2 ==
  ASSUME DInv, HInv, NEW a, NEW b, Then(<<a, b>>), Pair(a, b),
         \A x : Pair(Next1, x) => Pair(b, x),
         HeadNests(tokens', current_token_idx', a, b, ast')
  PROVE  HInv'
<1> DEFINE items == <<a, b>>
<1>1. IsSeq(items) /\ Len(items) = 2 /\ items # <<>> /\ items[1] = a /\ items[2] = b
  <2>1. items \in Seq({a, b}) /\ Len(items) = 2 /\ items # <<>> /\ items[1] = a /\ items[2] = b
    OBVIOUS
  <2> QED
    BY <2>1, SeqOfItsOwn
<1> HIDE DEF items
<1>2. Pairs(items)
  <2>1. \A i \in 1 .. (2 - 1) : i = 1 /\ i + 1 = 2
    OBVIOUS
  <2> QED
    BY <1>1, <2>1 DEF Pairs
<1>3. Then(items)
  BY DEF items
<1> QED
  BY <1>1, <1>2, <1>3, HPush

(* Three items in the place of the next.                                   *)
LEMMA Push3 ==
  ASSUME DInv, HInv, NEW a, NEW b, NEW c, Then(<<a, b, c>>), Pair(a, b), Pair(b, c),
         \A x : Pair(Next1, x) => Pair(c, x),
         HeadNests(tokens', current_token_idx', a, b, ast')
  PROVE  HInv'
<1> DEFINE items == <<a, b, c>>
<1>1. IsSeq(items) /\ Len(items) = 3 /\ items # <<>> /\ items[1] = a /\ items[2] = b
        /\ items[3] = c
  <2>1. items \in Seq({a, b, c}) /\ Len(items) = 3 /\ items # <<>> /\ items[1] = a
          /\ items[2] = b /\ items[3] = c
    OBVIOUS
  <2> QED
    BY <2>1, SeqOfItsOwn
<1> HIDE DEF items
<1>2. Pairs(items)
  <2>1. \A i \in 1 .. (3 - 1) : (i = 1 /\ i + 1 = 2) \/ (i = 2 /\ i + 1 = 3)
    OBVIOUS
  <2> QED
    BY <1>1, <2>1 DEF Pairs
<1>3. Then(items)
  BY DEF items
<1> QED
  BY <1>1, <1>2, <1>3, HPush

(* Any number of them, two at least.                                       *)
LEMMA PushN ==
  ASSUME DInv, HInv, NEW S, NEW items \in Seq(S), NEW m \in Nat, m > 1, Len(items) = m,
         Then(items),
         \A i \in 1 .. (m - 1) : Pair(items[i], items[i + 1]),
         NEW l, items[m] = l, \A x : Pair(Next1, x) => Pair(l, x),
         NEW a, items[1] = a, NEW b, items[2] = b,
         HeadNests(tokens', current_token_idx', a, b, ast')
  PROVE  HInv'
<1>1. IsSeq(items) /\ (items # <<>> <=> Len(items) > 0)
  BY SeqOfItsOwn, SeqFacts
<1>2. Pairs(items)
  BY DEF Pairs
<1> QED
  BY <1>1, <1>2, HPush

(* HInv says nothing of the other variables.                               *)
LEMMA HSame ==
  ASSUME HInv, UNCHANGED <<source, current_token_idx, locals>>
  PROVE  HInv'
<1>1. UNCHANGED <<tokens, current_token_idx, todo, ast>>
  BY DEF source, locals
<1> QED
  BY <1>1 DEF HInv

(* HInv is kept by a token that must come.                                 *)
LEMMA HExpect ==
  ASSUME DInv, HInv, Expect
  PROVE  HInv'
<1>1. CASE Exit
  BY <1>1, HSame DEF Exit
<1>2. CASE Advance /\ Do(<<>>) /\ Peek \in Expected(Next1)
  <2>1. Next1 \in Punctuation \cup {"name", "expression"}
    BY DEF Expect, At
  <2>2. Next1 = "name" => Peek \in Identifiers
    BY <1>2 DEF Expected
  <2>3. Next1 \in Punctuation => Peek = Next1
    BY <1>2 DEF Expected, Punctuation
  <2>4. Next1 \in BeforeRest => Peek \notin TypeLeads \cup {"else"}
    <3> HAVE Next1 \in BeforeRest
    <3>1. Next1 \in {"}", ";", "{", "("}
      BY <2>1 DEF BeforeRest, Resting, Inner, Punctuation
    <3> QED
      BY <3>1, <2>3 DEF Punctuation, TypeLeads
  <2>5. Next1 \in {":", "->", "val?", "not_ref", "::?", "mut?"} => Peek \in TypeLeads
    BY <2>1, <2>3 DEF Punctuation, TypeLeads
  <2>6. Next1 \notin {"file", "chain_module"} /\ Then(<<>>) /\ ast' = ast
    BY <2>1, <1>2 DEF Punctuation, Do
  <2> QED
    BY <1>2, <2>2, <2>4, <2>5, <2>6, HPopPast
<1> QED
  BY <1>1, <1>2 DEF Expect

(* HInv is kept by a token that may come.                                  *)
LEMMA HConsumeIf ==
  ASSUME DInv, HInv, ConsumeIf
  PROVE  HInv'
<1>1. PICK item \in {"mut?", "::?", ";?"} : At(item)
  BY DEF ConsumeIf, OptionalToken
<1>2. Next1 = item /\ Then(<<>>) /\ ast' = ast
  BY <1>1 DEF At, ConsumeIf, Do
<1>3. CASE Peek = OptionalToken[Next1] /\ Advance
  <2>1. Next1 = "mut?" => Peek = "mut"
    BY <1>3, <1>2 DEF OptionalToken
  <2>2. Next1 = "::?" => Peek = "::"
    BY <1>3, <1>2 DEF OptionalToken
  <2>3. Next1 \notin BeforeRest
    BY <1>2 DEF BeforeRest, Resting, Inner
  <2> QED
    BY <1>1, <1>2, <1>3, <2>1, <2>2, <2>3, HPopPast DEF TypeLeads
<1>4. CASE Stay
  BY <1>1, <1>2, <1>4, HPopStay
<1> QED
  BY <1>3, <1>4 DEF ConsumeIf

(* HInv is kept by the end of a node.                                      *)
LEMMA HEndNode ==
  ASSUME DInv, HInv, EndNode
  PROVE  HInv'
<1>1. Stay /\ Then(<<>>) /\ ast' = ast /\ Next1 = "end"
  BY DEF EndNode, Stay
<1> QED
  BY <1>1, HPopStay

(* A step that makes a node, whose items are followed by its end, keeps    *)
(* HInv.                                                                   *)
LEMMA HNode ==
  ASSUME DInv, HInv, NEW kind, NEW public, NEW S, NEW items \in Seq(S),
         DoNode(kind, public, items),
         NEW m \in Nat, m > 0, Len(items) = m,
         \A i \in 1 .. (m - 1) : Pair(items[i], items[i + 1]),
         NEW l, items[m] = l, Pair(l, "end"), \A x : Pair(Next1, x) => Pair("end", x),
         NEW a, items[1] = a, NEW b, m > 1 => items[2] = b, m = 1 => b = "end",
         HeadNests(tokens', current_token_idx', a, b, ast')
  PROVE  HInv'
<1> DEFINE all == Append(items, "end")
<1>1. IsSeq(items)
  BY SeqOfItsOwn
<1>2. /\ IsSeq(all) /\ all # <<>> /\ Len(all) = m + 1
      /\ \A i \in 1 .. m : all[i] = items[i]
      /\ all[m + 1] = "end"
  BY <1>1, AppendSeq
<1>3. Then(all)
  BY DEF DoNode
<1> HIDE DEF all
<1>4. Pairs(all)
  <2> SUFFICES ASSUME NEW i \in 1 .. (Len(all) - 1) PROVE Pair(all[i], all[i + 1])
    BY DEF Pairs
  <2>1. i \in 1 .. m /\ (i # m => i \in 1 .. (m - 1) /\ i + 1 \in 1 .. m)
    BY <1>2
  <2>2. CASE i = m
    BY <2>1, <2>2, <1>2
  <2>3. CASE i # m
    BY <2>1, <2>3, <1>2
  <2> QED
    BY <2>2, <2>3
<1>5. all[1] = a /\ all[2] = b
  <2>1. 1 \in 1 .. m /\ (m > 1 => 2 \in 1 .. m) /\ (~(m > 1) => m + 1 = 2)
    OBVIOUS
  <2> QED
    BY <1>2, <2>1
<1>6. Len(all) > 1 /\ all[Len(all)] = "end"
  BY <1>2
<1> QED
  BY <1>2, <1>3, <1>4, <1>5, <1>6, HPush

(* The node made last begins no later than here.                           *)
LEMMA LastPos ==
  ASSUME DInv, ast # <<>>
  PROVE  Len(ast) \in 1 .. Len(ast) /\ ast[Len(ast)].pos \in Nat
         /\ ast[Len(ast)].pos <= current_token_idx
<1>1. IsSeq(ast) /\ \A k \in 1 .. Len(ast) : ast[k].pos \in 1 .. current_token_idx
  BY DEF DInv, CallsFit, NodesFit, NodeFits
<1>2. Len(ast) \in 1 .. Len(ast)
  BY <1>1, SeqFacts
<1> DEFINE q == ast[Len(ast)].pos
<1>3. q \in 1 .. current_token_idx
  BY <1>1, <1>2
<1> HIDE DEF q
<1>4. q \in Nat /\ q <= current_token_idx
  BY <1>3, BeforeNow
<1> QED
  BY <1>2, <1>4 DEF q

(* The name of the node that is just made may come first.                  *)
LEMMA ChainNameHead ==
  ASSUME NEW toks, NEW cur \in Nat, NEW nodes, nodes # <<>>, nodes[Len(nodes)].pos = cur, NEW b
  PROVE  HeadNests(toks, cur, "name", b, nodes)
<1>1. "name" \notin {"(", "receiver", "mut?", "fn_ptr", "fn_ptr_params", "else_body",
        "statement", "chain_module", "chain"}
      \cup Resting \cup Leads
  BY DEF Resting, Inner, Leads
<1>2. cur + 0 = cur /\ cur .. (cur - 1) = {}
  OBVIOUS
<1>3. \A p \in cur .. (cur - 1) : toks[p] \notin {"{", "(", "}", ")"}
  BY <1>2
<1> QED
  BY <1>1, <1>2, <1>3 DEF HeadNests

(* HInv is kept by a module.                                               *)
LEMMA HParseModule ==
  ASSUME DInv, HInv, ParseModule
  PROVE  HInv'
<1> DEFINE items == <<"name", "chain", "{", "module_body", "}">>
<1>1. /\ items \in Seq({"name", "chain", "{", "module_body", "}"}) /\ Len(items) = 5
      /\ items[1] = "name" /\ items[2] = "chain" /\ items[3] = "{" /\ items[4] = "module_body"
           /\ items[5] = "}"
  OBVIOUS
<1>2. Next1 = "module" /\ Stay /\ DoNode("MODULE", FALSE, items)
  BY DEF ParseModule, At
<1> HIDE DEF items
<1>3. Pair("name", "chain") /\ Pair("chain", "{") /\ Pair("{", "module_body")
        /\ Pair("module_body", "}")
      /\ Pair("}", "end")
  BY DEF Pair, HeadsOnly, Resting, Inner, BeforeRest, Openers, TypeItems
<1>4. \A i \in 1 .. (5 - 1) : Pair(items[i], items[i + 1])
  <2>1. \A i \in 1 .. (5 - 1) : i = 1 \/ i = 2 \/ i = 3 \/ i = 4
    OBVIOUS
  <2>2. 1 + 1 = 2 /\ 2 + 1 = 3 /\ 3 + 1 = 4 /\ 4 + 1 = 5
    OBVIOUS
  <2> QED
    BY <1>1, <1>3, <2>1, <2>2
<1>5. \A x : Pair(Next1, x) => Pair("end", x)
  BY <1>2, Follow DEF Choosy, TypeItems, Openers, BeforeRest, Resting
<1>6. HeadNests(tokens', current_token_idx', "name", "chain", ast')
  <2>1. IsSeq(ast) /\ ast' = Append(ast, Node("MODULE", Innermost, FALSE))
    BY <1>2 DEF DInv, CallsFit, DoNode
  <2>2. ast' # <<>> /\ ast'[Len(ast')].pos = current_token_idx
    BY <2>1, AppendSeq DEF Node
  <2>3. current_token_idx' = current_token_idx
    BY <1>2 DEF Stay
  <2>4. current_token_idx' \in Nat /\ ast' # <<>> /\ ast'[Len(ast')].pos = current_token_idx'
    BY <2>2, <2>3, BeforeNow
  <2> QED
    BY <2>4, ChainNameHead
<1>7. items[2] = "chain"
  BY <1>1
<1>8. 5 \in Nat /\ 5 > 0 /\ (5 > 1 => items[2] = "chain")
  BY <1>7
<1> QED
  BY <1>1, <1>2, <1>4, <1>5, <1>3, <1>6, <1>7, <1>8, HNode

(* HInv is kept by a chain of modules.                                     *)
LEMMA HChain ==
  ASSUME DInv, HInv, ParseChain
  PROVE  HInv'
<1>1. CASE Peek = "::"
  <2>1. Next1 = "chain" /\ Advance /\ Then(<<"chain_module", "name", "chain">>) /\ ast' = ast
    BY <1>1 DEF ParseChain, At, Do
  <2>2. Pair("chain_module", "name") /\ Pair("name", "chain")
    BY DEF Pair, HeadsOnly, Resting, Inner, BeforeRest, Openers, TypeItems
  <2>3. HeadNests(tokens', current_token_idx', "chain_module", "name", ast')
    <3>1. HeadNests(tokens, current_token_idx, "chain", todo[2], ast)
      BY <2>1 DEF HInv, Next1
    <3> DEFINE q == ast[Len(ast)].pos
    <3>2. /\ ast # <<>> /\ q + 1 = current_token_idx
          /\ \A p \in q .. (current_token_idx - 1) : tokens[p] \notin {"{", "(", "}", ")"}
      BY <3>1 DEF HeadNests
    <3>3. q \in Nat /\ current_token_idx \in Nat
      BY <3>2, LastPos, BeforeNow
    <3>4. tokens' = tokens /\ current_token_idx' = current_token_idx + 1
      BY <2>1 DEF Advance, source
    <3>5. tokens[current_token_idx] = "::"
      BY <1>1 DEF Peek
    <3> HIDE DEF q
    <3>6. q + 2 = current_token_idx' /\ \A p \in q .. (current_token_idx' - 1) :
             p = current_token_idx \/ p \in q .. (current_token_idx - 1)
      <4>1. ASSUME NEW x \in Nat, NEW c \in Nat, NEW d, x + 1 = c, d = c + 1
            PROVE  x + 2 = d /\ \A p \in x .. (d - 1) : p = c \/ p \in x .. (c - 1)
        BY <4>1
      <4> QED
        BY <3>2, <3>3, <3>4, <4>1
    <3>7. \A p \in q .. (current_token_idx' - 1) : tokens'[p] \notin {"{", "(", "}", ")"}
      BY <3>2, <3>4, <3>5, <3>6
    <3>8. "chain_module" \notin {"(", "receiver", "mut?", "fn_ptr", "fn_ptr_params", "else_body",
            "statement", "chain", "name"}
        \cup Resting \cup Leads
      BY DEF Resting, Inner, Leads
    <3> QED
      BY <2>1, <3>2, <3>6, <3>7, <3>8 DEF HeadNests, q
  <2>4. \A x : Pair(Next1, x) => Pair("chain", x)
    BY <2>1
  <2> QED
    BY <2>1, <2>2, <2>3, <2>4, Push3
<1>2. CASE Peek # "::"
  <2>1. Next1 = "chain" /\ Stay /\ Then(<<>>) /\ ast' = ast
    BY <1>2 DEF ParseChain, At, Do
  <2> QED
    BY <2>1, HPopStay
<1> QED
  BY <1>1, <1>2

(* HInv is kept by the next module of a chain.                             *)
LEMMA HChainModule ==
  ASSUME DInv, HInv, ChainModule
  PROVE  HInv'
<1>1. /\ Next1 = "chain_module" /\ Stay /\ Then(<<>>) /\ tokens' = tokens
           /\ current_token_idx' = current_token_idx
      /\ ast' = Append(ast, Node("MODULE", Len(ast), FALSE))
  BY DEF ChainModule, At, Stay, source
<1>2. IsSeq(todo) /\ todo # <<>> /\ Pairs(todo) /\ todo' = <<>> \o Tail(todo)
      /\ CallsFit(todo, open, ast) /\ todo[1] = "chain_module" /\ IsSeq(ast)
  BY <1>1 DEF DInv, CallsFit, HInv, Then, Next1
<1>3. Len(todo) \in Nat /\ Len(todo) >= 2
  BY <1>2, MoreToDo
<1>4. /\ Len(todo') = Len(todo) - 1
      /\ \A i \in 1 .. (Len(todo) - 1) : todo'[i] = todo[i + 1]
  BY <1>2, <1>3, ShortSeqs, ThenSeq
<1>5. Pairs(todo')
  <2>1. Pairs(<<>>)
    BY ShortSeqs DEF Pairs
  <2> QED
    BY <1>2, <2>1, ShortSeqs, PairsThen
<1>6. todo[2] = "name"
  <2>1. 1 \in 1 .. (Len(todo) - 1)
    BY <1>3
  <2>2. Pair(todo[1], todo[2])
    BY <1>2, <2>1 DEF Pairs
  <2> QED
    BY <1>2, <2>2 DEF Pair
<1>7. todo'[1] = "name"
  <2>1. 1 \in 1 .. (Len(todo) - 1)
    BY <1>3
  <2> QED
    BY <1>4, <1>6, <2>1
<1>8. ast' # <<>> /\ ast'[Len(ast')].pos = current_token_idx
  BY <1>1, <1>2, AppendSeq DEF Node
<1>9. HeadNests(tokens', current_token_idx', "name", todo'[2], ast')
  BY <1>1, <1>8, ChainNameHead, BeforeNow
<1> QED
  BY <1>5, <1>7, <1>9 DEF HInv

(* HInv is kept by the whole file.                                         *)
LEMMA HFile ==
  ASSUME DInv, HInv, File
  PROVE  HInv'
<1>1. Next1 = "file" /\ Stay /\ Then(<<"top_level", "file">>) /\ ast' = ast
  BY DEF File, At, Do
<1>2. Pair("top_level", "file")
  BY DEF Pair, HeadsOnly, Resting, Inner, BeforeRest, Openers, TypeItems
<1>3. HeadNests(tokens', current_token_idx', "top_level", "file", ast')
  <2>1. HeadNests(tokens, current_token_idx, "file", todo[2], ast)
    BY <1>1 DEF HInv, Next1
  <2>2. BeforeIn(tokens, current_token_idx)' \notin TypeLeads \cup {"else"}
    BY <1>1, <2>1, BeforeNow DEF HeadNests, Resting
  <2> QED
    BY <2>2, RestHead DEF Resting, Inner
<1> QED
  BY <1>1, <1>2, <1>3, Push2

(* An item that another makes way for, where nothing is before it that is   *)
(* before a type.                                                           *)
LEMMA RestStays ==
  ASSUME DInv, HInv, Next1 \in Resting \ {"statement"}, Stay
  PROVE  BeforeIn(tokens, current_token_idx)' \notin TypeLeads \cup {"else"}
<1>1. HeadNests(tokens, current_token_idx, Next1, todo[2], ast)
  BY DEF HInv, Next1
<1> QED
  BY <1>1, BeforeNow DEF HeadNests

(* From one item between declarations and statements to another.           *)
LEMMA RestTo ==
  ASSUME DInv, HInv, NEW h \in Resting, Next1 = h, NEW a \in Inner \ {"for_init"}, Then(<<a>>),
         (Stay /\ h # "statement") \/ (Advance /\ Peek \notin TypeLeads \cup {"else"})
  PROVE  HInv'
<1>1. BeforeIn(tokens, current_token_idx)' \notin TypeLeads \cup {"else"}
  BY RestStays, BeforeNow
<1>2. \A x : HeadNests(tokens', current_token_idx', a, x, ast')
  BY <1>1, RestHead DEF Resting
<1>3. \A x : Pair(h, x) => Pair(a, x)
  BY Follow DEF Choosy, TypeItems, Openers, BeforeRest, Resting, Inner
<1> QED
  BY <1>2, <1>3, Push1

(* The same, with an item left to do after it.                             *)
LEMMA RestTo2 ==
  ASSUME DInv, HInv, NEW h, Next1 = h, NEW a \in Inner \ {"for_init"}, NEW b, Then(<<a, b>>),
         h \notin {"name", ":", "->", "mut?", "val?", "not_ref", "::?"},
         b \notin HeadsOnly \cup Choosy \cup {"(", "type_decl", "val?", "type_kind", "chain"},
         b \in BeforeRest \/ h \notin BeforeRest,
         \/ h \in {"module_body", "struct_body", "component_body", "statements"} /\ Stay
            /\ BeforeIn(tokens, current_token_idx) \notin TypeLeads \cup {"else"}
         \/ Advance /\ Peek \notin TypeLeads \cup {"else"}
  PROVE  HInv'
<1>1. BeforeIn(tokens, current_token_idx)' \notin TypeLeads \cup {"else"}
  BY BeforeNow
<1>2. HeadNests(tokens', current_token_idx', a, b, ast')
  BY <1>1, RestHead DEF Resting
<1>3. \A x : Pair(h, x) => Pair(b, x)
  BY Follow
<1>4. Pair(a, b)
  <2>1. a \in BeforeRest /\ a \notin Choosy
    BY DEF BeforeRest, Resting, Choosy, TypeItems, Openers, Inner
  <2> QED
    BY <2>1 DEF Pair, Choosy
<1> QED
  BY <1>2, <1>3, <1>4, Push2

(* HInv is kept by the top level.                                          *)
LEMMA HTopLevel ==
  ASSUME DInv, HInv, ParseTopLevel
  PROVE  HInv'
<1>1. Next1 = "top_level" /\ Then(<<"declaration">>)
  BY DEF ParseTopLevel, At, DoPublic
<1>2. (Peek = "pub" /\ Advance) \/ Stay
  BY DEF ParseTopLevel
<1> QED
  BY <1>1, <1>2, RestTo DEF Resting, Inner, TypeLeads

(* HInv is kept by a declaration.                                          *)
LEMMA HDeclaration ==
  ASSUME DInv, HInv, ParseDeclaration
  PROVE  HInv'
<1>1. CASE Exit
  BY <1>1, HSame DEF Exit
<1>2. CASE Next1 = "declaration" /\ Peek = "module" /\ Advance /\ Then(<<"module">>)
  BY <1>2, RestTo DEF Resting, Inner, TypeLeads
<1>3. CASE Next1 = "declaration" /\ Stay /\ Then(<<"function">>)
  BY <1>3, RestTo DEF Resting, Inner, TypeLeads
<1>4. CASE Next1 = "declaration" /\ Peek = "type" /\ Advance /\ Then(<<"container">>)
  BY <1>4, RestTo DEF Resting, Inner, TypeLeads
<1>5. CASE Next1 = "declaration" /\ Stay /\ Then(<<"field">>)
  BY <1>5, RestTo DEF Resting, Inner, TypeLeads
<1> QED
  BY <1>1, <1>2, <1>3, <1>4, <1>5 DEF ParseDeclaration, At, Do

(* HInv is kept by the body of a module.                                   *)
LEMMA HModuleBody ==
  ASSUME DInv, HInv, ParseModuleBody
  PROVE  HInv'
<1>1. Next1 = "module_body" /\ Stay /\ ast' = ast
      /\ (Then(<<>>) \/ Then(<<"top_level", "module_body">>))
  BY DEF ParseModuleBody, At, Do
<1>2. BeforeIn(tokens, current_token_idx) \notin TypeLeads \cup {"else"}
  BY <1>1, RestStays, BeforeNow DEF Resting, Inner
<1>3. CASE Then(<<>>)
  BY <1>1, <1>3, HPopStay
<1>4. CASE Then(<<"top_level", "module_body">>)
  <2>1. "module_body" \notin HeadsOnly \cup Choosy
          \cup {"(", "type_decl", "val?", "type_kind", "chain"}
        /\ "module_body" \in BeforeRest /\ "top_level" \in Inner \ {"for_init"}
    BY DEF Resting, Inner, BeforeRest, Choosy, HeadsOnly, TypeItems, Openers
  <2> QED
    BY <1>1, <1>2, <1>4, <2>1, RestTo2
<1> QED
  BY <1>1, <1>3, <1>4

(* HInv is kept by a function.                                             *)
LEMMA HFunction ==
  ASSUME DInv, HInv, ParseFunction
  PROVE  HInv'
<1> DEFINE items == <<"receiver", "name", "(", "params", "->", "type_decl", "scope">>
<1>1. /\ items \in Seq({"receiver", "name", "(", "params", "->", "type_decl", "scope"})
      /\ Len(items) = 7
      /\ items[1] = "receiver" /\ items[2] = "name" /\ items[3] = "(" /\ items[4] = "params"
           /\ items[5] = "->" /\ items[6] = "type_decl" /\ items[7] = "scope"
  OBVIOUS
<1>2. Next1 = "function" /\ DoNode("FUNCTION", is_pub, items)
  BY DEF ParseFunction, At
<1> HIDE DEF items
<1>3. Pair("receiver", "name") /\ Pair("name", "(") /\ Pair("(", "params")
        /\ Pair("params", "->") /\ Pair("->", "type_decl") /\ Pair("type_decl", "scope")
             /\ Pair("scope", "end")
  BY DEF Pair, AfterTypes, HeadsOnly, Resting, Inner, BeforeRest, Openers, TypeItems
<1>4. \A i \in 1 .. (7 - 1) : Pair(items[i], items[i + 1])
  <2>1. \A i \in 1 .. (7 - 1) : i = 1 \/ i = 2 \/ i = 3 \/ i = 4 \/ i = 5 \/ i = 6
    OBVIOUS
  <2>2. 1 + 1 = 2 /\ 2 + 1 = 3 /\ 3 + 1 = 4 /\ 4 + 1 = 5 /\ 5 + 1 = 6 /\ 6 + 1 = 7
    OBVIOUS
  <2> QED
    BY <1>1, <1>3, <2>1, <2>2
<1>5. \A x : Pair(Next1, x) => Pair("end", x)
  BY <1>2, Follow DEF Choosy, TypeItems, Openers, BeforeRest, Resting
<1>6. HeadNests(tokens', current_token_idx', "receiver", "name", ast')
  <2>1. Advance /\ Peek = "fn"
    BY <1>2 DEF ParseFunction, DInv, TokenFits
  <2>2. HeadNests(tokens, current_token_idx, "function", todo[2], ast)
    BY <1>2 DEF HInv, Next1
  <2>3. BeforeIn(tokens, current_token_idx) \notin TypeLeads
    BY <2>2 DEF HeadNests, Resting, Inner
  <2>4. BeforeIn(tokens', current_token_idx') = "fn"
          /\ BeforeIn(tokens', current_token_idx' - 1) \notin TypeLeads
    BY <2>1, <2>3, BeforeNow
  <2>5. "receiver" \notin {"(", "mut?", "fn_ptr", "fn_ptr_params", "else_body", "statement",
          "chain", "chain_module", "name"}
        \cup Resting \cup Leads
    BY DEF Resting, Inner, Leads
  <2> QED
    BY <2>4, <2>5 DEF HeadNests
<1>7. items[2] = "name"
  BY <1>1
<1>8. 7 \in Nat /\ 7 > 0 /\ 7 # 1
  OBVIOUS
<1> QED
  BY <1>1, <1>2, <1>3, <1>4, <1>5, <1>6, <1>7, <1>8, HNode

(* HInv is kept by the receiver of a function.                             *)
LEMMA HReceiver ==
  ASSUME DInv, HInv, ParseReceiver
  PROVE  HInv'
<1>1. CASE Next1 = "receiver" /\ Advance /\ Then(<<"name", ":", "type_decl", ")">>) /\ ast' = ast
  <2> DEFINE items == <<"name", ":", "type_decl", ")">>
  <2>1. /\ items \in Seq({"name", ":", "type_decl", ")"})
        /\ Len(items) = 4
        /\ items[1] = "name" /\ items[2] = ":" /\ items[3] = "type_decl" /\ items[4] = ")"
    OBVIOUS
  <2>2. Next1 = "receiver" /\ Then(items)
    BY <1>1
  <2> HIDE DEF items
  <2>3. Pair("name", ":") /\ Pair(":", "type_decl") /\ Pair("type_decl", ")")
    BY DEF Pair, AfterTypes, HeadsOnly, Resting, Inner, BeforeRest, Openers, TypeItems
  <2>4. \A i \in 1 .. (4 - 1) : Pair(items[i], items[i + 1])
    <3>1. \A i \in 1 .. (4 - 1) : i = 1 \/ i = 2 \/ i = 3
      OBVIOUS
    <3>2. 1 + 1 = 2 /\ 2 + 1 = 3 /\ 3 + 1 = 4
      OBVIOUS
    <3> QED
      BY <2>1, <2>3, <3>1, <3>2
  <2>5. \A x : Pair(Next1, x) => Pair(")", x)
    BY <2>2, Follow DEF Choosy, TypeItems, Openers, BeforeRest, Resting, Inner
  <2>6. HeadNests(tokens', current_token_idx', "name", ":", ast')
    BY NameHead
  <2>7. 4 \in Nat /\ 4 > 1
    OBVIOUS
  <2> QED
    BY <2>1, <2>2, <2>4, <2>5, <2>6, <2>7, PushN
<1>2. CASE Next1 = "receiver" /\ Stay /\ Then(<<>>) /\ ast' = ast
  BY <1>2, HPopStay
<1> QED
  BY <1>1, <1>2 DEF ParseReceiver, At, Do

(* HInv is kept by a list of parameters.                                   *)
LEMMA HParams ==
  ASSUME DInv, HInv, ParseParams
  PROVE  HInv'
<1>1. CASE Next1 = "params" /\ Advance /\ Then(<<>>) /\ ast' = ast
  BY <1>1, HPopPast DEF BeforeRest, Resting, Inner
<1>2. CASE Next1 = "params" /\ Then(<<"param", "more_params">>)
  <2>1. Pair("param", "more_params")
    BY DEF Pair, HeadsOnly, Resting, Inner, BeforeRest, Openers, TypeItems
  <2>2. \A x : Pair(Next1, x) => Pair("more_params", x)
    BY <1>2, Follow DEF Choosy, TypeItems, Openers, BeforeRest, Resting, Inner
  <2>3. HeadNests(tokens', current_token_idx', "param", "more_params", ast')
    BY CalmHead DEF Touchy, Resting, Inner, Leads
  <2> QED
    BY <1>2, <2>1, <2>2, <2>3, Push2
<1>3. CASE Next1 = "more_params" /\ Then(<<"not_last", "params">>)
  <2>1. Pair("not_last", "params")
    BY DEF Pair, HeadsOnly, Resting, Inner, BeforeRest, Openers, TypeItems
  <2>2. \A x : Pair(Next1, x) => Pair("params", x)
    BY <1>3, Follow DEF Choosy, TypeItems, Openers, BeforeRest, Resting, Inner
  <2>3. HeadNests(tokens', current_token_idx', "not_last", "params", ast')
    BY CalmHead DEF Touchy, Resting, Inner, Leads
  <2> QED
    BY <1>3, <2>1, <2>2, <2>3, Push2
<1>4. CASE Next1 = "more_params" /\ Then(<<")">>)
  <2>1. \A x : Pair(Next1, x) => Pair(")", x)
    BY <1>4, Follow DEF Choosy, TypeItems, Openers, BeforeRest, Resting, Inner
  <2>2. \A x : HeadNests(tokens', current_token_idx', ")", x, ast')
    BY CalmHead DEF Touchy, Resting, Inner, Leads
  <2> QED
    BY <1>4, <2>1, <2>2, Push1
<1>5. CASE Exit
  BY <1>5, HSame DEF Exit
<1>6. CASE Next1 = "not_last" /\ Stay /\ Then(<<>>) /\ ast' = ast
  BY <1>6, HPopStay
<1> QED
  BY <1>1, <1>2, <1>3, <1>4, <1>5, <1>6 DEF ParseParams, At, Do

(* HInv is kept by a parameter.                                            *)
LEMMA HParam ==
  ASSUME DInv, HInv, ParseParam
  PROVE  HInv'
<1>1. CASE Next1 = "param" /\ Stay /\ Then(<<"mut?", "name", ":", "val?", "type_decl">>)
             /\ ast' = ast
  <2> DEFINE items == <<"mut?", "name", ":", "val?", "type_decl">>
  <2>1. /\ items \in Seq({"mut?", "name", ":", "val?", "type_decl"})
        /\ Len(items) = 5
        /\ items[1] = "mut?" /\ items[2] = "name" /\ items[3] = ":" /\ items[4] = "val?"
             /\ items[5] = "type_decl"
    OBVIOUS
  <2>2. Next1 = "param" /\ Then(items)
    BY <1>1
  <2> HIDE DEF items
  <2>3. Pair("mut?", "name") /\ Pair("name", ":") /\ Pair(":", "val?")
          /\ Pair("val?", "type_decl")
    BY DEF Pair, AfterTypes, HeadsOnly, Resting, Inner, BeforeRest, Openers, TypeItems
  <2>4. \A i \in 1 .. (5 - 1) : Pair(items[i], items[i + 1])
    <3>1. \A i \in 1 .. (5 - 1) : i = 1 \/ i = 2 \/ i = 3 \/ i = 4
      OBVIOUS
    <3>2. 1 + 1 = 2 /\ 2 + 1 = 3 /\ 3 + 1 = 4 /\ 4 + 1 = 5
      OBVIOUS
    <3> QED
      BY <2>1, <2>3, <3>1, <3>2
  <2>5. \A x : Pair(Next1, x) => Pair("type_decl", x)
    BY <2>2, FollowType DEF TypeItems
  <2>6. HeadNests(tokens', current_token_idx', "mut?", "name", ast')
    BY NameHead
  <2>7. 5 \in Nat /\ 5 > 1
    OBVIOUS
  <2> QED
    BY <2>1, <2>2, <2>4, <2>5, <2>6, <2>7, PushN
<1>2. CASE Next1 = "val?" /\ Peek = "val" /\ Advance /\ Then(<<"not_ref">>)
  <2>1. \A x : Pair(Next1, x) => Pair("not_ref", x)
    BY <1>2 DEF Pair, HeadsOnly, Resting, Inner, BeforeRest, Openers, TypeItems
  <2>2. BeforeIn(tokens', current_token_idx') \in TypeLeads
    BY <1>2, BeforeNow DEF TypeLeads
  <2>3. \A x : HeadNests(tokens', current_token_idx', "not_ref", x, ast')
    BY <2>2, LeadHead DEF Leads
  <2> QED
    BY <1>2, <2>1, <2>3, Push1
<1>3. CASE Next1 \in {"val?", "not_ref"} /\ Stay /\ Then(<<>>) /\ ast' = ast
  BY <1>3, HPopStay
<1>4. CASE Exit
  BY <1>4, HSame DEF Exit
<1> QED
  BY <1>1, <1>2, <1>3, <1>4 DEF ParseParam, At, Do

(* HInv is kept by a struct or component.                                  *)
LEMMA HContainer ==
  ASSUME DInv, HInv, ParseContainer
  PROVE  HInv'
<1>1. CASE Exit
  BY <1>1, HSame DEF Exit
<1>2. ASSUME NEW h \in {"struct", "container"}, Next1 = h,
             DoNode("STRUCT", is_pub, <<"type_name", "{", "struct_body", "}">>)
      PROVE  HInv'
  <2> DEFINE items == <<"type_name", "{", "struct_body", "}">>
  <2>1. /\ items \in Seq({"type_name", "{", "struct_body", "}"})
        /\ Len(items) = 4
        /\ items[1] = "type_name" /\ items[2] = "{" /\ items[3] = "struct_body" /\ items[4] = "}"
    OBVIOUS
  <2>2. Next1 = h /\ DoNode("STRUCT", is_pub, items)
    BY <1>2
  <2> HIDE DEF items
  <2>3. Pair("type_name", "{") /\ Pair("{", "struct_body") /\ Pair("struct_body", "}")
          /\ Pair("}", "end")
    BY DEF Pair, AfterTypes, HeadsOnly, Resting, Inner, BeforeRest, Openers, TypeItems
  <2>4. \A i \in 1 .. (4 - 1) : Pair(items[i], items[i + 1])
    <3>1. \A i \in 1 .. (4 - 1) : i = 1 \/ i = 2 \/ i = 3
      OBVIOUS
    <3>2. 1 + 1 = 2 /\ 2 + 1 = 3 /\ 3 + 1 = 4
      OBVIOUS
    <3> QED
      BY <2>1, <2>3, <3>1, <3>2
  <2>5. \A x : Pair(Next1, x) => Pair("end", x)
    BY <2>2, Follow DEF Choosy, TypeItems, Openers, BeforeRest, Resting
  <2>6. HeadNests(tokens', current_token_idx', "type_name", "{", ast')
    BY CalmHead DEF Touchy, Resting, Inner, Leads
  <2>7. items[2] = "{"
    BY <2>1
  <2>8. 4 \in Nat /\ 4 > 0 /\ 4 # 1
    OBVIOUS
  <2> QED
    BY <2>1, <2>2, <2>3, <2>4, <2>5, <2>6, <2>7, <2>8, HNode
<1>3. CASE Next1 = "container"
             /\ DoNode("COMPONENT", is_pub, <<"type_name", "{", "component_body", "}">>)
  <2> DEFINE items == <<"type_name", "{", "component_body", "}">>
  <2>1. /\ items \in Seq({"type_name", "{", "component_body", "}"})
        /\ Len(items) = 4
        /\ items[1] = "type_name" /\ items[2] = "{" /\ items[3] = "component_body"
             /\ items[4] = "}"
    OBVIOUS
  <2>2. Next1 = "container" /\ DoNode("COMPONENT", is_pub, items)
    BY <1>3
  <2> HIDE DEF items
  <2>3. Pair("type_name", "{") /\ Pair("{", "component_body") /\ Pair("component_body", "}")
          /\ Pair("}", "end")
    BY DEF Pair, AfterTypes, HeadsOnly, Resting, Inner, BeforeRest, Openers, TypeItems
  <2>4. \A i \in 1 .. (4 - 1) : Pair(items[i], items[i + 1])
    <3>1. \A i \in 1 .. (4 - 1) : i = 1 \/ i = 2 \/ i = 3
      OBVIOUS
    <3>2. 1 + 1 = 2 /\ 2 + 1 = 3 /\ 3 + 1 = 4
      OBVIOUS
    <3> QED
      BY <2>1, <2>3, <3>1, <3>2
  <2>5. \A x : Pair(Next1, x) => Pair("end", x)
    BY <2>2, Follow DEF Choosy, TypeItems, Openers, BeforeRest, Resting
  <2>6. HeadNests(tokens', current_token_idx', "type_name", "{", ast')
    BY CalmHead DEF Touchy, Resting, Inner, Leads
  <2>7. items[2] = "{"
    BY <2>1
  <2>8. 4 \in Nat /\ 4 > 0 /\ 4 # 1
    OBVIOUS
  <2> QED
    BY <2>1, <2>2, <2>3, <2>4, <2>5, <2>6, <2>7, <2>8, HNode
<1> QED
  BY <1>1, <1>2, <1>3 DEF ParseContainer, At

(* HInv is kept by the name of a type.                                     *)
LEMMA HRegisterType ==
  ASSUME DInv, HInv, RegisterType
  PROVE  HInv'
<1>1. CASE Exit
  BY <1>1, HSame DEF Exit
<1>2. CASE Next1 = "type_name" /\ Advance /\ Then(<<>>) /\ ast' = ast
  BY <1>2, HPopPast DEF BeforeRest, Resting, Inner
<1> QED
  BY <1>1, <1>2 DEF RegisterType, At

(* A body goes on with one of its items.                                   *)
LEMMA HBody ==
  ASSUME DInv, HInv, NEW h \in {"struct_body", "component_body", "statements", "module_body"},
         Next1 = h,
         NEW a \in Inner \ {"for_init"}, Then(<<a, h>>),
         Stay \/ (Advance /\ Peek \notin TypeLeads \cup {"else"})
  PROVE  HInv'
<1>1. Stay => BeforeIn(tokens, current_token_idx) \notin TypeLeads \cup {"else"}
  <2>1. h \in Resting \ {"statement"}
    BY DEF Resting, Inner
  <2> QED
    BY <2>1, RestStays, BeforeNow
<1>2. /\ h \notin HeadsOnly \cup Choosy \cup {"(", "type_decl", "val?", "type_kind", "chain"}
      /\ h \in BeforeRest
      /\ h \notin {"name", ":", "->", "mut?", "val?", "not_ref", "::?"}
  BY DEF Resting, Inner, BeforeRest, Choosy, HeadsOnly, TypeItems, Openers
<1>3. \/ h \in {"module_body", "struct_body", "component_body", "statements"} /\ Stay
         /\ BeforeIn(tokens, current_token_idx) \notin TypeLeads \cup {"else"}
      \/ Advance /\ Peek \notin TypeLeads \cup {"else"}
  BY <1>1
<1> QED
  BY <1>2, <1>3, RestTo2

(* HInv is kept by the body of a struct.                                   *)
LEMMA HStructBody ==
  ASSUME DInv, HInv, ParseStructBody
  PROVE  HInv'
<1>1. CASE Next1 = "struct_body" /\ Stay /\ Then(<<>>) /\ ast' = ast
  BY <1>1, HPopStay
<1>2. CASE Exit
  BY <1>2, HSame DEF Exit
<1>3. CASE Next1 = "struct_body" /\ Peek = "type" /\ Advance /\ Then(<<"struct", "struct_body">>)
  BY <1>3, HBody DEF Inner, TypeLeads
<1>4. CASE Next1 = "struct_body" /\ Stay /\ Then(<<"field", "struct_body">>)
  BY <1>4, HBody DEF Inner, TypeLeads
<1> QED
  BY <1>1, <1>2, <1>3, <1>4 DEF ParseStructBody, At, Do, DoPublic

(* HInv is kept by the body of a component.                                *)
LEMMA HComponentBody ==
  ASSUME DInv, HInv, ParseComponentBody
  PROVE  HInv'
<1>1. CASE Next1 = "component_body" /\ Stay /\ Then(<<>>) /\ ast' = ast
  BY <1>1, HPopStay
<1>2. CASE Next1 = "component_body" /\ Then(<<"member", "component_body">>)
           /\ (Stay \/ (Advance /\ Peek = "pub"))
  BY <1>2, HBody DEF Inner, TypeLeads
<1> QED
  BY <1>1, <1>2 DEF ParseComponentBody, At, Do, DoPublic

(* HInv is kept by a member of a component.                                *)
LEMMA HMember ==
  ASSUME DInv, HInv, ParseMember
  PROVE  HInv'
<1>1. CASE Next1 = "member" /\ Peek = "type" /\ Advance /\ Then(<<"container">>)
  BY <1>1, RestTo DEF Resting, Inner, TypeLeads
<1>2. CASE Next1 = "member" /\ Stay /\ Then(<<"function">>)
  BY <1>2, RestTo DEF Resting, Inner, TypeLeads
<1>3. CASE Next1 = "member" /\ Stay /\ Then(<<"field">>)
  BY <1>3, RestTo DEF Resting, Inner, TypeLeads
<1> QED
  BY <1>1, <1>2, <1>3 DEF ParseMember, At, Do

(* The start of a value is replaced by the kind of value it is.            *)
LEMMA HInitTo ==
  ASSUME DInv, HInv, Next1 \in {"field_init", "var_init", "init_expr", "ret_expr",
         "for_increment"},
         NEW a \in {"expression", "init_expr", "s{}", "a{}"}, Then(<<a>>)
  PROVE  HInv'
<1>1. \A x : Pair(Next1, x) => Pair(a, x)
  BY Follow DEF Choosy, TypeItems, Openers, BeforeRest, Resting, Inner
<1>2. \A x : HeadNests(tokens', current_token_idx', a, x, ast')
  BY CalmHead DEF Touchy, Resting, Inner, Leads
<1> QED
  BY <1>1, <1>2, Push1

(* HInv is kept by a field.                                                *)
LEMMA HField ==
  ASSUME DInv, HInv, ParseField
  PROVE  HInv'
<1>1. CASE Next1 = "field" /\ DoNode("FIELD", is_pub,
             <<"mut?", "name", ":", "type_decl", "field_init", ";">>)
  <2> DEFINE items == <<"mut?", "name", ":", "type_decl", "field_init", ";">>
  <2>1. /\ items \in Seq({"mut?", "name", ":", "type_decl", "field_init", ";"})
        /\ Len(items) = 6
        /\ items[1] = "mut?" /\ items[2] = "name" /\ items[3] = ":" /\ items[4] = "type_decl"
             /\ items[5] = "field_init" /\ items[6] = ";"
    OBVIOUS
  <2>2. Next1 = "field" /\ DoNode("FIELD", is_pub, items)
    BY <1>1
  <2> HIDE DEF items
  <2>3. Pair("mut?", "name") /\ Pair("name", ":") /\ Pair(":", "type_decl")
          /\ Pair("type_decl", "field_init") /\ Pair("field_init", ";") /\ Pair(";", "end")
    BY DEF Pair, AfterTypes, HeadsOnly, Resting, Inner, BeforeRest, Openers, TypeItems
  <2>4. \A i \in 1 .. (6 - 1) : Pair(items[i], items[i + 1])
    <3>1. \A i \in 1 .. (6 - 1) : i = 1 \/ i = 2 \/ i = 3 \/ i = 4 \/ i = 5
      OBVIOUS
    <3>2. 1 + 1 = 2 /\ 2 + 1 = 3 /\ 3 + 1 = 4 /\ 4 + 1 = 5 /\ 5 + 1 = 6
      OBVIOUS
    <3> QED
      BY <2>1, <2>3, <3>1, <3>2
  <2>5. \A x : Pair(Next1, x) => Pair("end", x)
    BY <2>2, Follow DEF Choosy, TypeItems, Openers, BeforeRest, Resting
  <2>6. HeadNests(tokens', current_token_idx', "mut?", "name", ast')
    BY NameHead
  <2>7. items[2] = "name"
    BY <2>1
  <2>8. 6 \in Nat /\ 6 > 0 /\ 6 # 1
    OBVIOUS
  <2> QED
    BY <2>1, <2>2, <2>3, <2>4, <2>5, <2>6, <2>7, <2>8, HNode
<1>2. CASE Next1 = "field_init" /\ Then(<<"expression">>)
  BY <1>2, HInitTo
<1>3. CASE Next1 = "field_init" /\ Stay /\ Then(<<>>) /\ ast' = ast
  BY <1>3, HPopStay
<1> QED
  BY <1>1, <1>2, <1>3 DEF ParseField, At, Do

(* A parenthesis comes first where no type of a function is read.          *)
LEMMA OpenHead ==
  ASSUME NEW toks, NEW cur, NEW b, NEW nodes, BeforeIn(toks, cur) \notin {"fn", "("}
  PROVE  HeadNests(toks, cur, "(", b, nodes)
<1>1. "(" \notin {"receiver", "mut?", "fn_ptr", "fn_ptr_params", "else_body", "statement",
        "chain", "chain_module", "name"}
      \cup Resting \cup Leads
  BY DEF Resting, Inner, Leads
<1> QED
  BY <1>1 DEF HeadNests

(* HInv is kept by a block.                                                *)
LEMMA HScope ==
  ASSUME DInv, HInv, ParseScope
  PROVE  HInv'
<1>1. CASE Next1 = "scope" /\ Then(<<"{", "statements", "}">>)
  <2>1. Pair("{", "statements") /\ Pair("statements", "}")
    BY DEF Pair, HeadsOnly, Resting, Inner, BeforeRest, Openers, TypeItems
  <2>2. \A x : Pair(Next1, x) => Pair("}", x)
    BY <1>1, Follow DEF Choosy, TypeItems, Openers, BeforeRest, Resting, Inner
  <2>3. HeadNests(tokens', current_token_idx', "{", "statements", ast')
    BY CalmHead DEF Touchy, Resting, Inner, Leads
  <2> QED
    BY <1>1, <2>1, <2>2, <2>3, Push3
<1>2. CASE Next1 = "statements" /\ Stay /\ Then(<<>>) /\ ast' = ast
  BY <1>2, HPopStay
<1>3. CASE Exit
  BY <1>3, HSame DEF Exit
<1>4. CASE Next1 = "statements" /\ Stay /\ Then(<<"statement", "statements">>)
  BY <1>4, HBody DEF Inner
<1> QED
  BY <1>1, <1>2, <1>3, <1>4 DEF ParseScope, At, Do

(* HInv is kept by a statement.                                            *)
LEMMA HStatement ==
  ASSUME DInv, HInv, ParseStatement
  PROVE  HInv'
<1>1. CASE Next1 = "statement" /\ Peek = "type" /\ Advance /\ Then(<<"container">>)
  BY <1>1, RestTo DEF Resting, Inner, TypeLeads
<1>2. CASE Next1 = "statement" /\ DoNode("RET", FALSE, <<"ret_expr", ";">>)
  <2> DEFINE items == <<"ret_expr", ";">>
  <2>1. /\ items \in Seq({"ret_expr", ";"})
        /\ Len(items) = 2
        /\ items[1] = "ret_expr" /\ items[2] = ";"
    OBVIOUS
  <2>2. Next1 = "statement" /\ DoNode("RET", FALSE, items)
    BY <1>2
  <2> HIDE DEF items
  <2>3. Pair("ret_expr", ";") /\ Pair(";", "end")
    BY DEF Pair, AfterTypes, HeadsOnly, Resting, Inner, BeforeRest, Openers, TypeItems
  <2>4. \A i \in 1 .. (2 - 1) : Pair(items[i], items[i + 1])
    <3>1. \A i \in 1 .. (2 - 1) : i = 1
      OBVIOUS
    <3>2. 1 + 1 = 2
      OBVIOUS
    <3> QED
      BY <2>1, <2>3, <3>1, <3>2
  <2>5. \A x : Pair(Next1, x) => Pair("end", x)
    BY <2>2, Follow DEF Choosy, TypeItems, Openers, BeforeRest, Resting
  <2>6. HeadNests(tokens', current_token_idx', "ret_expr", ";", ast')
    BY CalmHead DEF Touchy, Resting, Inner, Leads
  <2>7. items[2] = ";"
    BY <2>1
  <2>8. 2 \in Nat /\ 2 > 0 /\ 2 # 1
    OBVIOUS
  <2> QED
    BY <2>1, <2>2, <2>3, <2>4, <2>5, <2>6, <2>7, <2>8, HNode
<1>3. CASE Next1 = "statement" /\ Peek = "if" /\ Advance
             /\ DoNode("IF", FALSE, <<"(", "expression", ")", "scope", "else_branch">>)
  <2> DEFINE items == <<"(", "expression", ")", "scope", "else_branch">>
  <2>1. /\ items \in Seq({"(", "expression", ")", "scope", "else_branch"})
        /\ Len(items) = 5
        /\ items[1] = "(" /\ items[2] = "expression" /\ items[3] = ")" /\ items[4] = "scope"
             /\ items[5] = "else_branch"
    OBVIOUS
  <2>2. Next1 = "statement" /\ DoNode("IF", FALSE, items)
    BY <1>3
  <2> HIDE DEF items
  <2>3. Pair("(", "expression") /\ Pair("expression", ")") /\ Pair(")", "scope")
          /\ Pair("scope", "else_branch") /\ Pair("else_branch", "end")
    BY DEF Pair, AfterTypes, HeadsOnly, Resting, Inner, BeforeRest, Openers, TypeItems
  <2>4. \A i \in 1 .. (5 - 1) : Pair(items[i], items[i + 1])
    <3>1. \A i \in 1 .. (5 - 1) : i = 1 \/ i = 2 \/ i = 3 \/ i = 4
      OBVIOUS
    <3>2. 1 + 1 = 2 /\ 2 + 1 = 3 /\ 3 + 1 = 4 /\ 4 + 1 = 5
      OBVIOUS
    <3> QED
      BY <2>1, <2>3, <3>1, <3>2
  <2>5. \A x : Pair(Next1, x) => Pair("end", x)
    BY <2>2, Follow DEF Choosy, TypeItems, Openers, BeforeRest, Resting
  <2>6. HeadNests(tokens', current_token_idx', "(", "expression", ast')
    <3>1. BeforeIn(tokens', current_token_idx') \notin {"fn", "("}
      BY <1>3, BeforeNow
    <3> QED
      BY <3>1, OpenHead
  <2>7. items[2] = "expression"
    BY <2>1
  <2>8. 5 \in Nat /\ 5 > 0 /\ 5 # 1
    OBVIOUS
  <2> QED
    BY <2>1, <2>2, <2>3, <2>4, <2>5, <2>6, <2>7, <2>8, HNode
<1>4. CASE Next1 = "statement" /\ Peek = "while" /\ Advance
             /\ DoNode("WHILE", FALSE, <<"(", "expression", ")", "scope">>)
  <2> DEFINE items == <<"(", "expression", ")", "scope">>
  <2>1. /\ items \in Seq({"(", "expression", ")", "scope"})
        /\ Len(items) = 4
        /\ items[1] = "(" /\ items[2] = "expression" /\ items[3] = ")" /\ items[4] = "scope"
    OBVIOUS
  <2>2. Next1 = "statement" /\ DoNode("WHILE", FALSE, items)
    BY <1>4
  <2> HIDE DEF items
  <2>3. Pair("(", "expression") /\ Pair("expression", ")") /\ Pair(")", "scope")
          /\ Pair("scope", "end")
    BY DEF Pair, AfterTypes, HeadsOnly, Resting, Inner, BeforeRest, Openers, TypeItems
  <2>4. \A i \in 1 .. (4 - 1) : Pair(items[i], items[i + 1])
    <3>1. \A i \in 1 .. (4 - 1) : i = 1 \/ i = 2 \/ i = 3
      OBVIOUS
    <3>2. 1 + 1 = 2 /\ 2 + 1 = 3 /\ 3 + 1 = 4
      OBVIOUS
    <3> QED
      BY <2>1, <2>3, <3>1, <3>2
  <2>5. \A x : Pair(Next1, x) => Pair("end", x)
    BY <2>2, Follow DEF Choosy, TypeItems, Openers, BeforeRest, Resting
  <2>6. HeadNests(tokens', current_token_idx', "(", "expression", ast')
    <3>1. BeforeIn(tokens', current_token_idx') \notin {"fn", "("}
      BY <1>4, BeforeNow
    <3> QED
      BY <3>1, OpenHead
  <2>7. items[2] = "expression"
    BY <2>1
  <2>8. 4 \in Nat /\ 4 > 0 /\ 4 # 1
    OBVIOUS
  <2> QED
    BY <2>1, <2>2, <2>3, <2>4, <2>5, <2>6, <2>7, <2>8, HNode
<1>5. CASE Next1 = "statement" /\ Peek = "for" /\ Advance
             /\ DoNode("FOR", FALSE, <<"(", "for_init", "for_condition", "for_increment", ")",
                  "scope">>)
  <2> DEFINE items == <<"(", "for_init", "for_condition", "for_increment", ")", "scope">>
  <2>1. /\ items \in Seq({"(", "for_init", "for_condition", "for_increment", ")", "scope"})
        /\ Len(items) = 6
        /\ items[1] = "(" /\ items[2] = "for_init" /\ items[3] = "for_condition"
             /\ items[4] = "for_increment" /\ items[5] = ")" /\ items[6] = "scope"
    OBVIOUS
  <2>2. Next1 = "statement" /\ DoNode("FOR", FALSE, items)
    BY <1>5
  <2> HIDE DEF items
  <2>3. Pair("(", "for_init") /\ Pair("for_init", "for_condition")
          /\ Pair("for_condition", "for_increment") /\ Pair("for_increment", ")")
               /\ Pair(")", "scope") /\ Pair("scope", "end")
    BY DEF Pair, AfterTypes, HeadsOnly, Resting, Inner, BeforeRest, Openers, TypeItems
  <2>4. \A i \in 1 .. (6 - 1) : Pair(items[i], items[i + 1])
    <3>1. \A i \in 1 .. (6 - 1) : i = 1 \/ i = 2 \/ i = 3 \/ i = 4 \/ i = 5
      OBVIOUS
    <3>2. 1 + 1 = 2 /\ 2 + 1 = 3 /\ 3 + 1 = 4 /\ 4 + 1 = 5 /\ 5 + 1 = 6
      OBVIOUS
    <3> QED
      BY <2>1, <2>3, <3>1, <3>2
  <2>5. \A x : Pair(Next1, x) => Pair("end", x)
    BY <2>2, Follow DEF Choosy, TypeItems, Openers, BeforeRest, Resting
  <2>6. HeadNests(tokens', current_token_idx', "(", "for_init", ast')
    <3>1. BeforeIn(tokens', current_token_idx') \notin {"fn", "("}
      BY <1>5, BeforeNow
    <3> QED
      BY <3>1, OpenHead
  <2>7. items[2] = "for_init"
    BY <2>1
  <2>8. 6 \in Nat /\ 6 > 0 /\ 6 # 1
    OBVIOUS
  <2> QED
    BY <2>1, <2>2, <2>3, <2>4, <2>5, <2>6, <2>7, <2>8, HNode
<1>6. CASE Next1 = "statement" /\ DoNode("BLOCK", FALSE, <<"scope">>)
  <2> DEFINE items == <<"scope">>
  <2>1. /\ items \in Seq({"scope"})
        /\ Len(items) = 1
        /\ items[1] = "scope"
    OBVIOUS
  <2>2. Next1 = "statement" /\ DoNode("BLOCK", FALSE, items)
    BY <1>6
  <2> HIDE DEF items
  <2>3. Pair("scope", "end")
    BY DEF Pair, AfterTypes, HeadsOnly, Resting, Inner, BeforeRest, Openers, TypeItems
  <2>4. \A i \in 1 .. (1 - 1) : Pair(items[i], items[i + 1])
    OBVIOUS
  <2>5. \A x : Pair(Next1, x) => Pair("end", x)
    BY <2>2, Follow DEF Choosy, TypeItems, Openers, BeforeRest, Resting
  <2>6. HeadNests(tokens', current_token_idx', "scope", "end", ast')
    BY CalmHead DEF Touchy, Resting, Inner, Leads
  <2>7. "end" = "end"
    BY <2>1
  <2>8. 1 \in Nat /\ 1 > 0 /\ ~(1 > 1)
    OBVIOUS
  <2> QED
    BY <2>1, <2>2, <2>3, <2>4, <2>5, <2>6, <2>7, <2>8, HNode
<1>7. CASE Next1 = "statement" /\ DoNode("EXPR", FALSE, <<"expression", ";">>)
  <2> DEFINE items == <<"expression", ";">>
  <2>1. /\ items \in Seq({"expression", ";"})
        /\ Len(items) = 2
        /\ items[1] = "expression" /\ items[2] = ";"
    OBVIOUS
  <2>2. Next1 = "statement" /\ DoNode("EXPR", FALSE, items)
    BY <1>7
  <2> HIDE DEF items
  <2>3. Pair("expression", ";") /\ Pair(";", "end")
    BY DEF Pair, AfterTypes, HeadsOnly, Resting, Inner, BeforeRest, Openers, TypeItems
  <2>4. \A i \in 1 .. (2 - 1) : Pair(items[i], items[i + 1])
    <3>1. \A i \in 1 .. (2 - 1) : i = 1
      OBVIOUS
    <3>2. 1 + 1 = 2
      OBVIOUS
    <3> QED
      BY <2>1, <2>3, <3>1, <3>2
  <2>5. \A x : Pair(Next1, x) => Pair("end", x)
    BY <2>2, Follow DEF Choosy, TypeItems, Openers, BeforeRest, Resting
  <2>6. HeadNests(tokens', current_token_idx', "expression", ";", ast')
    BY CalmHead DEF Touchy, Resting, Inner, Leads
  <2>7. items[2] = ";"
    BY <2>1
  <2>8. 2 \in Nat /\ 2 > 0 /\ 2 # 1
    OBVIOUS
  <2> QED
    BY <2>1, <2>2, <2>3, <2>4, <2>5, <2>6, <2>7, <2>8, HNode
<1>8. CASE Exit
  BY <1>8, HSame DEF Exit
<1> QED
  BY <1>1, <1>2, <1>3, <1>4, <1>5, <1>6, <1>7, <1>8 DEF ParseStatement, At, DoPublic

(* HInv is kept by a return.                                               *)
LEMMA HReturn ==
  ASSUME DInv, HInv, ReturnExpression
  PROVE  HInv'
<1>1. Next1 = "ret_expr" /\ Stay /\ ast' = ast /\ (Then(<<>>) \/ Then(<<"expression">>))
  BY DEF ReturnExpression, At, Do
<1>2. CASE Then(<<>>)
  BY <1>1, <1>2, HPopStay
<1>3. CASE Then(<<"expression">>)
  BY <1>1, <1>3, HInitTo
<1> QED
  BY <1>1, <1>2, <1>3

(* HInv is kept by an else.                                                *)
LEMMA HElse ==
  ASSUME DInv, HInv, ElseBranch
  PROVE  HInv'
<1>0. /\ \A k \in 1 .. Len(ast) : ast[k].pos \in 1 .. current_token_idx
      /\ current_token_idx \in Nat
  BY BeforeNow DEF DInv, NodesFit, NodeFits
<1>1. CASE Next1 = "else_branch" /\ Peek = "else" /\ Advance /\ Then(<<"else_body">>)
             /\ ast' = ast
  <2>1. \A x : Pair(Next1, x) => Pair("else_body", x)
    BY <1>1, Follow DEF Choosy, TypeItems, Openers, BeforeRest, Resting, Inner
  <2>2. BeforeIn(tokens', current_token_idx') = "else"
          /\ current_token_idx' = current_token_idx + 1
    BY <1>1, BeforeNow DEF Advance
  <2>3. \A k \in 1 .. Len(ast) : ast[k].pos < current_token_idx'
    BY <1>0, <2>2
  <2>4. "else_body" \notin {"(", "receiver", "mut?", "fn_ptr", "fn_ptr_params", "statement",
          "chain", "chain_module", "name"}
      \cup Resting \cup Leads
    BY DEF Resting, Inner, Leads
  <2>5. \A x : HeadNests(tokens', current_token_idx', "else_body", x, ast')
    BY <1>1, <2>2, <2>3, <2>4 DEF HeadNests
  <2> QED
    BY <1>1, <2>1, <2>5, Push1
<1>2. CASE Next1 = "else_branch" /\ Stay /\ Then(<<>>) /\ ast' = ast
  BY <1>2, HPopStay
<1>3. CASE At("else_body") /\ Peek = "if" /\ Stay /\ Then(<<"statement">>) /\ ast' = ast
  <2>1. Next1 = "else_body" /\ current_token_idx <= Len(tokens)
    BY <1>3 DEF At
  <2>2. \A x : Pair(Next1, x) => Pair("statement", x)
    BY <2>1, Follow DEF Choosy, TypeItems, Openers, BeforeRest, Resting, Inner
  <2>3. HeadNests(tokens, current_token_idx, "else_body", todo[2], ast)
    BY <2>1 DEF HInv, Next1
  <2>4. /\ BeforeIn(tokens, current_token_idx) = "else"
        /\ \A k \in 1 .. Len(ast) : ast[k].pos < current_token_idx
    BY <2>3 DEF HeadNests
  <2>5. tokens' = tokens /\ current_token_idx' = current_token_idx
    BY <1>3 DEF Stay, source
  <2>6. "statement" \notin {"(", "receiver", "mut?", "fn_ptr", "fn_ptr_params", "else_body",
          "chain", "chain_module", "name"}
      \cup Leads
    BY DEF Leads
  <2>7. tokens[current_token_idx] = "if"
    BY <1>3 DEF Peek
  <2>8. \A x : HeadNests(tokens', current_token_idx', "statement", x, ast')
    BY <1>3, <2>1, <2>4, <2>5, <2>6, <2>7 DEF HeadNests, TypeLeads
  <2> QED
    BY <1>3, <2>2, <2>8, Push1
<1>4. CASE Next1 = "else_body" /\ DoNode("BLOCK", FALSE, <<"scope">>)
  <2> DEFINE items == <<"scope">>
  <2>1. /\ items \in Seq({"scope"})
        /\ Len(items) = 1
        /\ items[1] = "scope"
    OBVIOUS
  <2>2. Next1 = "else_body" /\ DoNode("BLOCK", FALSE, items)
    BY <1>4
  <2> HIDE DEF items
  <2>3. Pair("scope", "end")
    BY DEF Pair, AfterTypes, HeadsOnly, Resting, Inner, BeforeRest, Openers, TypeItems
  <2>4. \A i \in 1 .. (1 - 1) : Pair(items[i], items[i + 1])
    OBVIOUS
  <2>5. \A x : Pair(Next1, x) => Pair("end", x)
    BY <2>2, Follow DEF Choosy, TypeItems, Openers, BeforeRest, Resting
  <2>6. HeadNests(tokens', current_token_idx', "scope", "end", ast')
    BY CalmHead DEF Touchy, Resting, Inner, Leads
  <2>7. "end" = "end"
    BY <2>1
  <2>8. 1 \in Nat /\ 1 > 0 /\ ~(1 > 1)
    OBVIOUS
  <2> QED
    BY <2>1, <2>2, <2>3, <2>4, <2>5, <2>6, <2>7, <2>8, HNode
<1> QED
  BY <1>1, <1>2, <1>3, <1>4 DEF ElseBranch, At, Do

(* HInv is kept by the parts of a for statement.                           *)
LEMMA HFor ==
  ASSUME DInv, HInv, ForParts
  PROVE  HInv'
<1>1. CASE Next1 = "for_init" /\ Then(<<";?">>)
  <2>1. \A x : Pair(Next1, x) => Pair(";?", x)
    BY <1>1 DEF Pair, HeadsOnly, Resting, Inner, BeforeRest, Openers, TypeItems
  <2>2. \A x : HeadNests(tokens', current_token_idx', ";?", x, ast')
    BY CalmHead DEF Touchy, Resting, Inner, Leads
  <2> QED
    BY <1>1, <2>1, <2>2, Push1
<1>2. CASE Next1 = "for_init" /\ Stay /\ Then(<<"statement", ";?">>)
  <2>1. \A x : Pair(Next1, x) => Pair(";?", x)
    BY <1>2 DEF Pair, HeadsOnly, Resting, Inner, BeforeRest, Openers, TypeItems
  <2>2. BeforeIn(tokens', current_token_idx') \notin TypeLeads \cup {"else"}
    BY <1>2, RestStays DEF Resting, Inner
  <2>3. HeadNests(tokens', current_token_idx', "statement", ";?", ast')
    BY <2>2, RestHead DEF Resting, Inner
  <2>4. Pair("statement", ";?")
    BY DEF Pair, HeadsOnly, Resting, Inner, BeforeRest, Openers, TypeItems
  <2> QED
    BY <1>2, <2>1, <2>3, <2>4, Push2
<1>3. CASE Next1 = "for_condition" /\ Then(<<";">>)
  <2>1. \A x : Pair(Next1, x) => Pair(";", x)
    BY <1>3, Follow DEF Choosy, TypeItems, Openers, BeforeRest, Resting, Inner
  <2>2. \A x : HeadNests(tokens', current_token_idx', ";", x, ast')
    BY CalmHead DEF Touchy, Resting, Inner, Leads
  <2> QED
    BY <1>3, <2>1, <2>2, Push1
<1>4. CASE Next1 = "for_condition" /\ Then(<<"expression", ";">>)
  <2>1. \A x : Pair(Next1, x) => Pair(";", x)
    BY <1>4, Follow DEF Choosy, TypeItems, Openers, BeforeRest, Resting, Inner
  <2>2. HeadNests(tokens', current_token_idx', "expression", ";", ast')
    BY CalmHead DEF Touchy, Resting, Inner, Leads
  <2>3. Pair("expression", ";")
    BY DEF Pair, HeadsOnly, Resting, Inner, BeforeRest, Openers, TypeItems
  <2> QED
    BY <1>4, <2>1, <2>2, <2>3, Push2
<1>5. CASE Next1 = "for_increment" /\ Then(<<"expression">>)
  BY <1>5, HInitTo
<1>6. CASE Next1 = "for_increment" /\ Stay /\ Then(<<>>) /\ ast' = ast
  BY <1>6, HPopStay
<1> QED
  BY <1>1, <1>2, <1>3, <1>4, <1>5, <1>6 DEF ForParts, At, Do

(* HInv is kept by a variable declaration.                                 *)
LEMMA HVarDecl ==
  ASSUME DInv, HInv, ParseVarDecl
  PROVE  HInv'
<1>1. CASE Next1 = "statement" /\ Peek = "let" /\ Advance /\ Then(<<"var_decl">>)
  BY <1>1, RestTo DEF Resting, Inner, TypeLeads
<1>2. CASE Next1 = "var_decl" /\ DoNode("LET", FALSE,
             <<"mut?", "name", ":", "type_decl", "var_init", ";">>)
  <2> DEFINE items == <<"mut?", "name", ":", "type_decl", "var_init", ";">>
  <2>1. /\ items \in Seq({"mut?", "name", ":", "type_decl", "var_init", ";"})
        /\ Len(items) = 6
        /\ items[1] = "mut?" /\ items[2] = "name" /\ items[3] = ":" /\ items[4] = "type_decl"
             /\ items[5] = "var_init" /\ items[6] = ";"
    OBVIOUS
  <2>2. Next1 = "var_decl" /\ DoNode("LET", FALSE, items)
    BY <1>2
  <2> HIDE DEF items
  <2>3. Pair("mut?", "name") /\ Pair("name", ":") /\ Pair(":", "type_decl")
          /\ Pair("type_decl", "var_init") /\ Pair("var_init", ";") /\ Pair(";", "end")
    BY DEF Pair, AfterTypes, HeadsOnly, Resting, Inner, BeforeRest, Openers, TypeItems
  <2>4. \A i \in 1 .. (6 - 1) : Pair(items[i], items[i + 1])
    <3>1. \A i \in 1 .. (6 - 1) : i = 1 \/ i = 2 \/ i = 3 \/ i = 4 \/ i = 5
      OBVIOUS
    <3>2. 1 + 1 = 2 /\ 2 + 1 = 3 /\ 3 + 1 = 4 /\ 4 + 1 = 5 /\ 5 + 1 = 6
      OBVIOUS
    <3> QED
      BY <2>1, <2>3, <3>1, <3>2
  <2>5. \A x : Pair(Next1, x) => Pair("end", x)
    BY <2>2, Follow DEF Choosy, TypeItems, Openers, BeforeRest, Resting
  <2>6. HeadNests(tokens', current_token_idx', "mut?", "name", ast')
    BY NameHead
  <2>7. items[2] = "name"
    BY <2>1
  <2>8. 6 \in Nat /\ 6 > 0 /\ 6 # 1
    OBVIOUS
  <2> QED
    BY <2>1, <2>2, <2>3, <2>4, <2>5, <2>6, <2>7, <2>8, HNode
<1>3. CASE Next1 = "var_init" /\ Then(<<"init_expr">>)
  BY <1>3, HInitTo
<1>4. CASE Next1 = "var_init" /\ Stay /\ Then(<<>>) /\ ast' = ast
  BY <1>4, HPopStay
<1>5. ASSUME NEW a \in {"expression", "s{}", "a{}"}, Next1 = "init_expr", Then(<<a>>)
      PROVE  HInv'
  BY <1>5, HInitTo
<1>6. CASE UNCHANGED <<source, current_token_idx, locals>>
  BY <1>6, HSame
<1> QED
  BY <1>1, <1>2, <1>3, <1>4, <1>5, <1>6 DEF ParseVarDecl, At, Do

(* Where a type begins, the token before leads to one.                     *)
LEMMA TypeLead ==
  ASSUME DInv, HInv, Next1 \in Leads
  PROVE  BeforeIn(tokens, current_token_idx) \in TypeLeads
<1>1. HeadNests(tokens, current_token_idx, Next1, todo[2], ast)
  BY DEF HInv, Next1
<1> QED
  BY <1>1 DEF HeadNests

(* HInv is kept by the type of a declaration.                              *)
LEMMA HTypeDecl ==
  ASSUME DInv, HInv, ParseTypeDecl
  PROVE  HInv'
<1>1. Next1 = "type_decl" /\ Stay /\ Then(<<"::?", "type_kind">>)
  BY DEF ParseTypeDecl, At, Do
<1>2. Pair("::?", "type_kind")
  BY DEF Pair, HeadsOnly, Resting, Inner, BeforeRest, Openers, TypeItems
<1>3. \A x : Pair(Next1, x) => Pair("type_kind", x)
  BY <1>1, FollowType DEF TypeItems
<1>4. BeforeIn(tokens', current_token_idx') \in TypeLeads
  BY <1>1, TypeLead, BeforeNow DEF Leads
<1>5. HeadNests(tokens', current_token_idx', "::?", "type_kind", ast')
  BY <1>4, LeadHead DEF Leads
<1> QED
  BY <1>1, <1>2, <1>3, <1>5, Push2

(* HInv is kept by the kinds of types.                                     *)
LEMMA HTypeKind ==
  ASSUME DInv, HInv, ParseTypeKind
  PROVE  HInv'
<1>1. CASE Next1 = "type_kind" /\ Advance /\ Then(<<>>) /\ ast' = ast
  BY <1>1, HPopPast DEF BeforeRest, Resting, Inner
<1>2. CASE Next1 = "type_kind" /\ Then(<<"type_path">>)
  <2>1. \A x : Pair(Next1, x) => Pair("type_path", x)
    BY <1>2, FollowType DEF TypeItems
  <2>2. \A x : HeadNests(tokens', current_token_idx', "type_path", x, ast')
    BY CalmHead DEF Touchy, Resting, Inner, Leads
  <2> QED
    BY <1>2, <2>1, <2>2, Push1
<1>3. ASSUME NEW l \in {"end_ptr", "end_ref"}, Next1 = "type_kind", Peek \in TypeLeads, Advance,
             Then(<<"mut?", "type_decl", l>>)
      PROVE  HInv'
  <2>1. Pair("mut?", "type_decl") /\ Pair("type_decl", l)
    BY DEF Pair, HeadsOnly, Resting, Inner, BeforeRest, Openers, TypeItems, AfterTypes
  <2>2. \A x : Pair(Next1, x) => Pair(l, x)
    BY <1>3, FollowType DEF TypeItems
  <2>3. BeforeIn(tokens', current_token_idx') \in TypeLeads
    BY <1>3, BeforeNow
  <2>4. HeadNests(tokens', current_token_idx', "mut?", "type_decl", ast')
    BY <2>3, LeadHead
  <2> QED
    BY <1>3, <2>1, <2>2, <2>4, Push3
<1>4. CASE Next1 = "type_kind" /\ Peek = "fn" /\ Advance /\ Then(<<"fn_ptr">>)
  <2>1. \A x : Pair(Next1, x) => Pair("fn_ptr", x)
    BY <1>4, FollowType DEF TypeItems
  <2>2. BeforeIn(tokens, current_token_idx) \in TypeLeads
    BY <1>4, TypeLead DEF Leads
  <2>3. BeforeIn(tokens', current_token_idx') = "fn"
          /\ BeforeIn(tokens', current_token_idx' - 1) \in TypeLeads
    BY <1>4, <2>2, BeforeNow
  <2>4. "fn_ptr" \notin {"(", "receiver", "mut?", "fn_ptr_params", "else_body", "statement",
          "chain", "chain_module", "name"}
        \cup Resting \cup Leads
    BY DEF Resting, Inner, Leads
  <2>5. \A x : HeadNests(tokens', current_token_idx', "fn_ptr", x, ast')
    BY <2>3, <2>4 DEF HeadNests
  <2> QED
    BY <1>4, <2>1, <2>5, Push1
<1>5. CASE Next1 = "type_kind" /\ Peek = "[" /\ Advance
             /\ Then(<<"type_decl", "]", "array_sizes">>)
  <2>1. Pair("type_decl", "]") /\ Pair("]", "array_sizes")
    BY DEF Pair, HeadsOnly, Resting, Inner, BeforeRest, Openers, TypeItems, AfterTypes
  <2>2. \A x : Pair(Next1, x) => Pair("array_sizes", x)
    BY <1>5, FollowType DEF TypeItems
  <2>3. BeforeIn(tokens', current_token_idx') \in TypeLeads
    BY <1>5, BeforeNow DEF TypeLeads
  <2>4. HeadNests(tokens', current_token_idx', "type_decl", "]", ast')
    BY <2>3, LeadHead DEF Leads
  <2> QED
    BY <1>5, <2>1, <2>2, <2>4, Push3
<1>6. CASE Exit
  BY <1>6, HSame DEF Exit
<1> QED
  BY <1>1, <1>2, <1>3, <1>4, <1>5, <1>6 DEF ParseTypeKind, At, Do, DoType, TypeLeads

(* HInv is kept by the path to a type.                                     *)
LEMMA HTypePath ==
  ASSUME DInv, HInv, ParseTypePath
  PROVE  HInv'
<1>1. CASE Next1 = "type_path" /\ Then(<<"name", "type_path">>)
  <2>1. Pair("name", "type_path")
    BY DEF Pair, HeadsOnly, Resting, Inner, BeforeRest, Openers, TypeItems
  <2>2. \A x : Pair(Next1, x) => Pair("type_path", x)
    BY <1>1
  <2>3. HeadNests(tokens', current_token_idx', "name", "type_path", ast')
    BY NameHead
  <2> QED
    BY <1>1, <2>1, <2>2, <2>3, Push2
<1>2. CASE Next1 = "type_path" /\ Stay /\ Then(<<>>) /\ ast' = ast
  BY <1>2, HPopStay
<1> QED
  BY <1>1, <1>2 DEF ParseTypePath, At, Do

(* HInv is kept by pointers and references.                                *)
LEMMA HPointers ==
  ASSUME DInv, HInv, EndPointer \/ EndReference
  PROVE  HInv'
<1>1. CASE Next1 \in {"end_ptr", "end_ref"} /\ Stay /\ Then(<<>>) /\ ast' = ast
  BY <1>1, HPopStay
<1>2. CASE Exit
  BY <1>2, HSame DEF Exit
<1> QED
  BY <1>1, <1>2 DEF EndPointer, EndReference, At, DoType

(* HInv is kept by the type of a function.                                 *)
LEMMA HFunctionPointer ==
  ASSUME DInv, HInv, ParseFunctionPointer
  PROVE  HInv'
<1>1. CASE Next1 = "fn_ptr" /\ Peek = "(" /\ Advance /\ Then(<<"fn_ptr_params">>)
  <2>1. \A x : Pair(Next1, x) => Pair("fn_ptr_params", x)
    BY <1>1, FollowType DEF TypeItems
  <2>2. HeadNests(tokens, current_token_idx, "fn_ptr", todo[2], ast)
    BY <1>1 DEF HInv, Next1
  <2>3. BeforeIn(tokens, current_token_idx) = "fn"
          /\ BeforeIn(tokens, current_token_idx - 1) \in TypeLeads
    BY <2>2 DEF HeadNests
  <2>4. /\ BeforeIn(tokens', current_token_idx') = "("
             /\ BeforeIn(tokens', current_token_idx' - 1) = "fn"
        /\ BeforeIn(tokens', current_token_idx' - 2) \in TypeLeads
    BY <1>1, <2>3, BeforeNow
  <2>5. "fn_ptr_params" \notin {"(", "receiver", "mut?", "fn_ptr", "else_body", "statement",
          "chain", "chain_module", "name"}
        \cup Resting \cup Leads
    BY DEF Resting, Inner, Leads
  <2>6. \A x : HeadNests(tokens', current_token_idx', "fn_ptr_params", x, ast')
    BY <2>4, <2>5 DEF HeadNests
  <2> QED
    BY <1>1, <2>1, <2>6, Push1
<1>2. CASE Next1 \in {"fn_ptr_params", "fn_ptr_more"} /\ Then(<<"param", "fn_ptr_more">>)
  <2>1. Pair("param", "fn_ptr_more")
    BY DEF Pair, HeadsOnly, Resting, Inner, BeforeRest, Openers, TypeItems
  <2>2. \A x : Pair(Next1, x) => Pair("fn_ptr_more", x)
    BY <1>2, FollowType DEF TypeItems
  <2>3. HeadNests(tokens', current_token_idx', "param", "fn_ptr_more", ast')
    BY CalmHead DEF Touchy, Resting, Inner, Leads
  <2> QED
    BY <1>2, <2>1, <2>2, <2>3, Push2
<1>3. CASE Next1 = "fn_ptr_more" /\ Then(<<"fn_ptr_arrow">>)
  <2>1. \A x : Pair(Next1, x) => Pair("fn_ptr_arrow", x)
    BY <1>3, FollowType DEF TypeItems
  <2>2. \A x : HeadNests(tokens', current_token_idx', "fn_ptr_arrow", x, ast')
    BY CalmHead DEF Touchy, Resting, Inner, Leads
  <2> QED
    BY <1>3, <2>1, <2>2, Push1
<1>4. CASE Next1 \in {"fn_ptr", "fn_ptr_params", "fn_ptr_more", "fn_ptr_arrow"} /\ Stay
             /\ Then(<<>>) /\ ast' = ast
  BY <1>4, HPopStay
<1>5. CASE Exit
  BY <1>5, HSame DEF Exit
<1> QED
  BY <1>1, <1>2, <1>3, <1>4, <1>5 DEF ParseFunctionPointer, At, Do, DoType

(* HInv is kept by the sizes of an array.                                  *)
LEMMA HArraySizes ==
  ASSUME DInv, HInv, ParseArraySizes
  PROVE  HInv'
<1>1. CASE Next1 = "array_sizes" /\ Then(<<"array_size", "]", "array_sizes">>)
  <2>1. Pair("array_size", "]") /\ Pair("]", "array_sizes")
    BY DEF Pair, HeadsOnly, Resting, Inner, BeforeRest, Openers, TypeItems, AfterTypes
  <2>2. \A x : Pair(Next1, x) => Pair("array_sizes", x)
    BY <1>1
  <2>3. HeadNests(tokens', current_token_idx', "array_size", "]", ast')
    BY CalmHead DEF Touchy, Resting, Inner, Leads
  <2> QED
    BY <1>1, <2>1, <2>2, <2>3, Push3
<1>2. CASE Next1 = "array_sizes" /\ Stay /\ Then(<<>>) /\ ast' = ast
  BY <1>2, HPopStay
<1>3. CASE Next1 = "array_size" /\ Advance /\ Then(<<>>) /\ ast' = ast
  BY <1>3, HPopPast DEF BeforeRest, Resting, Inner
<1>4. CASE UNCHANGED <<source, current_token_idx, locals>>
  BY <1>4, HSame
<1> QED
  BY <1>1, <1>2, <1>3, <1>4 DEF ParseArraySizes, At, Do, DoType, Exit

(* A source with a token more is the same up to there.                     *)
LEMMA SameTokens ==
  ASSUME DInv, NextToken
  PROVE  /\ IsSeq(tokens) /\ IsSeq(tokens') /\ Len(tokens') = Len(tokens) + 1
         /\ \A i \in 1 .. Len(tokens) : tokens'[i] = tokens[i]
         /\ current_token_idx = Len(tokens) + 1 /\ current_token_idx' = current_token_idx
         /\ Len(tokens) \in Nat /\ UNCHANGED <<todo, ast, open>>
<1>1. IsSeq(tokens) /\ current_token_idx \in 1 .. (Len(tokens) + 1)
        /\ current_token_idx > Len(tokens)
      /\ Len(tokens) \in Nat
  BY SeqFacts DEF DInv, TokensFit, NextToken
<1>2. current_token_idx' = current_token_idx /\ UNCHANGED <<todo, ast, open>>
        /\ \E tok : tokens' = Append(tokens, tok)
  BY DEF NextToken, locals
<1>3. current_token_idx = Len(tokens) + 1
  <2> SUFFICES ASSUME NEW n \in Nat, NEW c \in 1 .. (n + 1), c > n PROVE c = n + 1
    BY <1>1
  <2> QED
    OBVIOUS
<1> QED
  BY <1>1, <1>2, <1>3, AppendSeq

(* HInv is kept by a token more in the source.                             *)
LEMMA HNextToken ==
  ASSUME DInv, HInv, NextToken
  PROVE  HInv'
<1>1. /\ IsSeq(tokens) /\ IsSeq(tokens') /\ Len(tokens') = Len(tokens) + 1
      /\ \A i \in 1 .. Len(tokens) : tokens'[i] = tokens[i]
      /\ current_token_idx = Len(tokens) + 1 /\ current_token_idx' = current_token_idx
      /\ Len(tokens) \in Nat /\ UNCHANGED <<todo, ast, open>>
  BY SameTokens
<1> DEFINE a == todo[1]
           b == todo[2]
           c == current_token_idx
           n == Len(tokens)
<1>2. HeadNests(tokens, c, a, b, ast)
  BY DEF HInv
<1>3. n \in Nat /\ c = n + 1 /\ Len(tokens') = n + 1 /\ \A i \in 1 .. n : tokens'[i] = tokens[i]
  BY <1>1
<1> SUFFICES HeadNests(tokens', c, a, b, ast)
  BY <1>1 DEF HInv
<1>4. ~(c <= Len(tokens))
  BY <1>3
<1>9. IsSeq(ast) /\ \A k \in 1 .. Len(ast) : ast[k].pos \in 1 .. c
  BY DEF DInv, CallsFit, NodesFit, NodeFits
<1> HIDE DEF a, b, c, n
<1>5. BeforeIn(tokens', c) = BeforeIn(tokens, c)
        /\ BeforeIn(tokens', c - 1) = BeforeIn(tokens, c - 1)
      /\ BeforeIn(tokens', c - 2) = BeforeIn(tokens, c - 2)
  <2>1. /\ c > 1 => c - 1 \in 1 .. n
        /\ c - 1 > 1 => (c - 1) - 1 \in 1 .. n
        /\ c - 2 > 1 => (c - 2) - 1 \in 1 .. n
    BY <1>3
  <2> QED
    BY <2>1, <1>3 DEF BeforeIn
<1>6. ~(a = "statement" /\ BeforeIn(tokens, c) = "else")
  BY <1>2, <1>4 DEF HeadNests
<1>7. ast # <<>> => \A p \in ast[Len(ast)].pos .. (c - 1) : tokens'[p] = tokens[p]
  <2> SUFFICES ASSUME ast # <<>>, NEW p \in ast[Len(ast)].pos .. (c - 1)
                      PROVE tokens'[p] = tokens[p]
    OBVIOUS
  <2>1. ast[Len(ast)].pos \in 1 .. c
    BY <1>9, SeqFacts
  <2> DEFINE q == ast[Len(ast)].pos
  <2>2. q \in 1 .. c /\ p \in q .. (c - 1)
    BY <2>1
  <2> HIDE DEF q
  <2>3. p \in 1 .. n
    BY <2>2, <1>3
  <2> QED
    BY <2>3, <1>3
<1> QED
  BY <1>2, <1>5, <1>6, <1>7 DEF HeadNests

(* HInv at the start.                                                      *)
LEMMA HInit ==
  ASSUME Init
  PROVE  HInv
<1>1. todo = <<"file">> /\ tokens = <<>> /\ current_token_idx = 1 /\ ast = <<>>
  BY DEF Init
<1>2. Len(todo) = 1 /\ todo[1] = "file"
  BY <1>1
<1>3. Pairs(todo)
  BY <1>2 DEF Pairs
<1>4. BeforeIn(tokens, current_token_idx) = "{"
  BY <1>1 DEF BeforeIn
<1>5. HeadNests(tokens, current_token_idx, "file", todo[2], ast)
  BY <1>4, RestHead DEF Resting, TypeLeads
<1> QED
  BY <1>2, <1>3, <1>5 DEF HInv

(* Every step keeps HInv.                                                  *)
LEMMA HStep ==
  ASSUME DInv, HInv, Step
  PROVE  HInv'
<1>1. CASE EndOfFile
  BY <1>1, HSame DEF EndOfFile
<1> QED
  BY <1>1, HNextToken, HExpect, HConsumeIf, HEndNode, HFile, HTopLevel, HDeclaration,
           HParseModule, HChain, HChainModule, HModuleBody, HFunction, HReceiver, HParams,
             HParam, HContainer, HRegisterType, HStructBody, HComponentBody, HMember, HField,
               HScope, HStatement, HReturn, HElse, HFor, HVarDecl, HTypeDecl, HTypeKind,
     HTypePath, HPointers, HFunctionPointer, HArraySizes DEF Step

-----------------------------------------------------------------------------
(* The nodes in a bracket, when tokens and nodes are added.                *)

(* The greatest number of a set is the one no other exceeds.               *)
LEMMA GreatestIs ==
  ASSUME NEW S, S \subseteq Nat, NEW x \in S, \A k \in S : k <= x
  PROVE  Greatest(S) = x
<1>1. Greatest(S) \in S /\ \A l \in S : l <= Greatest(S)
  BY DEF Greatest
<1> DEFINE g == Greatest(S)
<1>2. g \in Nat /\ x \in Nat /\ x <= g /\ g <= x
  BY <1>1
<1> HIDE DEF g
<1>3. g = x
  BY <1>2
<1> QED
  BY <1>3 DEF g

(* A bounded set that is not empty has a greatest number.                  *)
LEMMA LastIn ==
  ASSUME NEW n \in Nat, NEW S, S \subseteq 0 .. n, S # {}
  PROVE  Greatest(S) \in S /\ \A k \in S : k <= Greatest(S)
<1> DEFINE T == {n - x : x \in S}
<1>1. T \in SUBSET Nat /\ T # {}
  <2>1. \A x \in 0 .. n : n - x \in Nat
    OBVIOUS
  <2> QED
    BY <2>1
<1>2. IsWellFoundedOn(OpToRel(<, Nat), Nat)
  BY NatLessThanWellFounded
<1>3. PICK m \in T : \A k \in T : ~(<<k, m>> \in OpToRel(<, Nat))
  BY <1>1, <1>2, WFMin
<1>4. \A k \in T : ~(k < m)
  BY <1>1, <1>3 DEF OpToRel
<1>5. PICK x \in S : m = n - x
  OBVIOUS
<1>6. \A k \in S : k <= x
  <2> SUFFICES ASSUME NEW k \in S PROVE k <= x
    OBVIOUS
  <2>1. ~((n - k) < (n - x))
    BY <1>4, <1>5
  <2>2. k \in 0 .. n /\ x \in 0 .. n
    OBVIOUS
  <2> QED
    BY <2>1, <2>2
<1>7. S \subseteq Nat
  OBVIOUS
<1>8. Greatest(S) = x
  BY <1>6, <1>7, GreatestIs
<1> QED
  BY <1>6, <1>8

(* The last node of a set is 0 or in the set.                              *)
LEMMA LastFacts ==
  ASSUME NEW n \in Nat, NEW S, S \subseteq 1 .. n
  PROVE  LastOf(S) \in 0 .. n /\ LastOf(S) \in {0} \cup S
<1>1. {0} \cup S \subseteq 0 .. n /\ {0} \cup S # {}
  OBVIOUS
<1> QED
  BY <1>1, LastIn DEF LastOf

(* It is the one that no other is after.                                   *)
LEMMA LastIs ==
  ASSUME NEW S, S \subseteq Nat, NEW x \in S, \A k \in S : k <= x
  PROVE  LastOf(S) = x
<1>1. {0} \cup S \subseteq Nat /\ x \in {0} \cup S /\ \A k \in {0} \cup S : k <= x
  OBVIOUS
<1> QED
  BY <1>1, GreatestIs DEF LastOf

(* What was there stays, and what is new begins here.                       *)
Grows(t, c, nodes, st, t2, nodes2, st2) ==
  /\ c \in Nat \ {0} /\ Len(nodes) \in Nat /\ Len(nodes2) \in Nat
  /\ \A i \in 1 .. (c - 1) : t2[i] = t[i]
  /\ \A i \in 1 .. c : st2[i] = st[i]
  /\ Len(nodes) <= Len(nodes2)
  /\ \A k \in 1 .. Len(nodes) : nodes2[k] = nodes[k]
  /\ \A k \in 1 .. Len(nodes2) : k > Len(nodes) => nodes2[k].pos = c
  /\ \A k \in 1 .. Len(nodes) : nodes[k].pos \in 1 .. c

(* The tokens before each place stay.                                      *)
LEMMA GrownBefore ==
  ASSUME NEW t, NEW c, NEW nodes, NEW st, NEW t2, NEW nodes2, NEW st2,
         Grows(t, c, nodes, st, t2, nodes2, st2)
  PROVE  \A p \in 1 .. c : BeforeIn(t2, p) = BeforeIn(t, p)
<1> SUFFICES ASSUME NEW p \in 1 .. c PROVE BeforeIn(t2, p) = BeforeIn(t, p)
  OBVIOUS
<1>1. p > 1 => p - 1 \in 1 .. (c - 1)
  BY DEF Grows
<1> QED
  BY <1>1 DEF Grows, BeforeIn

(* So does what each node is filled for.                                   *)
LEMMA GrownFilled ==
  ASSUME NEW t, NEW c, NEW nodes, NEW st, NEW t2, NEW nodes2, NEW st2,
         Grows(t, c, nodes, st, t2, nodes2, st2)
  PROVE  /\ \A j \in 1 .. Len(nodes) : IsChainedIn(t2, nodes2, j) <=> IsChainedIn(t, nodes, j)
         /\ \A j \in 0 .. Len(nodes) : FilledIn(t2, nodes2, j) = FilledIn(t, nodes, j)
<1>1. \A j \in 1 .. Len(nodes) : nodes2[j] = nodes[j]
        /\ BeforeIn(t2, nodes[j].pos) = BeforeIn(t, nodes[j].pos)
  <2>1. \A j \in 1 .. Len(nodes) : nodes2[j] = nodes[j] /\ nodes[j].pos \in 1 .. c
    BY DEF Grows
  <2> QED
    BY <2>1, GrownBefore
<1>2. \A j \in 1 .. Len(nodes) : IsChainedIn(t2, nodes2, j) <=> IsChainedIn(t, nodes, j)
  BY <1>1 DEF IsChainedIn
<1>3. ASSUME NEW j \in 0 .. Len(nodes)
      PROVE  FilledIn(t2, nodes2, j) = FilledIn(t, nodes, j)
  <2>1. \A i \in 1 .. j : i \in 1 .. Len(nodes)
    BY DEF Grows
  <2>2. {i \in 1 .. j : nodes2[i].node = "MODULE" /\ ~IsChainedIn(t2, nodes2, i)}
        = {i \in 1 .. j : nodes[i].node = "MODULE" /\ ~IsChainedIn(t, nodes, i)}
    BY <2>1, <1>1, <1>2
  <2>3. j # 0 => j \in 1 .. Len(nodes)
    BY DEF Grows
  <2> QED
    BY <2>2, <2>3, <1>2 DEF FilledIn
<1> QED
  BY <1>2, <1>3

(* So do the nodes that begin before here.                                 *)
LEMMA GrownUpTo ==
  ASSUME NEW t, NEW c, NEW nodes, NEW st, NEW t2, NEW nodes2, NEW st2,
         Grows(t, c, nodes, st, t2, nodes2, st2),
         NEW b \in 0 .. (c - 1), NEW x
  PROVE  UpTo(nodes2, b, In(nodes2, st2, x)) = UpTo(nodes, b, In(nodes, st, x))
<1>1. \A j \in 1 .. Len(nodes) : j \in 1 .. Len(nodes2) /\ nodes2[j] = nodes[j]
                                 /\ st2[nodes[j].pos] = st[nodes[j].pos]
  BY DEF Grows
<1>2. \A j \in 1 .. Len(nodes2) : j \in 1 .. Len(nodes) \/ nodes2[j].pos = c
  BY DEF Grows
<1>3. ~(c <= b)
  BY DEF Grows
<1> QED
  BY <1>1, <1>2, <1>3 DEF UpTo, In

(* The nodes that were in a bracket stay there, and only the innermost     *)
(* bracket gets others.                                                    *)
LEMMA GrownIn ==
  ASSUME NEW t, NEW c, NEW nodes, NEW st, NEW t2, NEW nodes2, NEW st2,
         Grows(t, c, nodes, st, t2, nodes2, st2),
         NEW x
  PROVE  /\ In(nodes, st2, x) = In(nodes, st, x)
         /\ InnermostOf(st[c]) # x => In(nodes2, st2, x) = In(nodes, st, x)
<1>1. \A j \in 1 .. Len(nodes) : j \in 1 .. Len(nodes2) /\ nodes2[j] = nodes[j]
                                 /\ st2[nodes[j].pos] = st[nodes[j].pos]
  BY DEF Grows
<1>2. \A j \in 1 .. Len(nodes2) : j \in 1 .. Len(nodes) \/ nodes2[j].pos = c
  BY DEF Grows
<1>3. st2[c] = st[c]
  BY DEF Grows
<1> QED
  BY <1>1, <1>2, <1>3 DEF In

(* The node a body belongs to stays the same.                              *)
LEMMA GrownHolder ==
  ASSUME NEW t, NEW c, NEW nodes, NEW st, NEW t2, NEW nodes2, NEW st2,
         Grows(t, c, nodes, st, t2, nodes2, st2),
         NEW b \in 0 .. (c - 1)
  PROVE  Holder(t2, nodes2, st2, b) = Holder(t, nodes, st, b)
<1>1. CASE b = 0
  BY <1>1 DEF Holder
<1>2. CASE b # 0
  <2>1. st2[b] = st[b]
    BY <1>2 DEF Grows
  <2> DEFINE S == UpTo(nodes, b, In(nodes, st, InnermostOf(st[b])))
  <2>2. UpTo(nodes2, b, In(nodes2, st2, InnermostOf(st2[b]))) = S
    BY <2>1, GrownUpTo
  <2>3. S \subseteq 1 .. Len(nodes) /\ Len(nodes) \in Nat
    BY DEF UpTo, In, Grows
  <2> HIDE DEF S
  <2>4. LastOf(S) \in 0 .. Len(nodes)
    BY <2>3, LastFacts
  <2>5. FilledIn(t2, nodes2, LastOf(S)) = FilledIn(t, nodes, LastOf(S))
    BY <2>4, GrownFilled
  <2> QED
    BY <1>2, <2>2, <2>5 DEF Holder, S
<1> QED
  BY <1>1, <1>2

(* A node that is in its place stays there.                                *)
LEMMA GrownNode ==
  ASSUME NEW t, NEW c, NEW nodes, NEW st, NEW t2, NEW nodes2, NEW st2,
         Grows(t, c, nodes, st, t2, nodes2, st2),
         NEW k \in 1 .. Len(nodes), NodeNests(t, nodes, st, k),
         InnermostOf(st[nodes[k].pos]) \in 0 .. (nodes[k].pos - 1)
  PROVE  NodeNests(t2, nodes2, st2, k)
<1> DEFINE p == nodes[k].pos
           b == InnermostOf(st[p])
           n == Len(nodes)
<1>1. /\ c \in Nat \ {0} /\ n \in Nat /\ Len(nodes2) \in Nat /\ p \in 1 .. c /\ n <= Len(nodes2)
      /\ \A j \in 1 .. n : nodes2[j] = nodes[j] /\ nodes[j].pos \in 1 .. c
      /\ \A i \in 1 .. c : st2[i] = st[i]
  BY DEF Grows
<1>2. BeforeIn(t2, p) = BeforeIn(t, p) /\ nodes2[k] = nodes[k] /\ st2[p] = st[p]
  BY <1>1, GrownBefore
<1>3. \A j \in 1 .. Len(nodes2) : j < k => j \in 1 .. n
  BY <1>1
<1>4. b \in 0 .. (p - 1)
  OBVIOUS
<1>5. p > 1 <=> BeforeIn(t, p) # "{" \/ p > 1
  BY DEF BeforeIn
<1> HIDE DEF p, b, n
<1>6. p - 1 \in 0 .. (c - 1) /\ b \in 0 .. (c - 1) /\ p \in Nat
  BY <1>1, <1>4
<1> DEFINE A == {j \in 1 .. n : nodes[j].pos = p - 2}
           A2 == {j \in 1 .. Len(nodes2) : nodes2[j].pos = p - 2}
           B(x) == Ifs(nodes, UpTo(nodes, p - 1, In(nodes, st, x)))
           B2(x) == Ifs(nodes2, UpTo(nodes2, p - 1, In(nodes2, st2, x)))
           C(x) == UpTo(nodes, b, In(nodes, st, x))
           C2(x) == UpTo(nodes2, b, In(nodes2, st2, x))
<1>7. Earlier(k, A2) = Earlier(k, A) /\ Earlier(k, A) \subseteq 1 .. n
  <2>1. \A j \in 1 .. n : j \in 1 .. Len(nodes2)
    BY <1>1
  <2> QED
    BY <2>1, <1>1, <1>3 DEF Earlier
<1>8. \A x : B2(x) = B(x) /\ B(x) \subseteq 1 .. n
  <2> SUFFICES ASSUME NEW x PROVE B2(x) = B(x) /\ B(x) \subseteq 1 .. n
    OBVIOUS
  <2>1. UpTo(nodes2, p - 1, In(nodes2, st2, x)) = UpTo(nodes, p - 1, In(nodes, st, x))
    BY <1>6, GrownUpTo
  <2>2. UpTo(nodes, p - 1, In(nodes, st, x)) \subseteq 1 .. n
    BY DEF UpTo, In, n
  <2> QED
    BY <2>1, <2>2, <1>1 DEF Ifs
<1>9. \A x : C2(x) = C(x) /\ C(x) \subseteq 1 .. n
  <2> SUFFICES ASSUME NEW x PROVE C2(x) = C(x) /\ C(x) \subseteq 1 .. n
    OBVIOUS
  <2>1. UpTo(nodes2, b, In(nodes2, st2, x)) = UpTo(nodes, b, In(nodes, st, x))
    BY <1>6, GrownUpTo
  <2>2. UpTo(nodes, b, In(nodes, st, x)) \subseteq 1 .. n
    BY DEF UpTo, In, n
  <2> QED
    BY <2>1, <2>2
<1>10. b # 0 => st2[b] = st[b]
  BY <1>6, <1>1
<1>11. BeforeIn(t, p) = "else" => st2[p - 1] = st[p - 1]
  <2> SUFFICES ASSUME BeforeIn(t, p) = "else" PROVE st2[p - 1] = st[p - 1]
    OBVIOUS
  <2>1. p > 1
    BY DEF BeforeIn
  <2>2. p - 1 \in 1 .. c
    BY <2>1, <1>1
  <2> QED
    BY <2>2, <1>1
<1> HIDE DEF A, A2, B, B2, C, C2
<1>12. ParentOf(t, nodes, st, k) =
             CASE BeforeIn(t, p) = "::" -> LastOf(Earlier(k, A))
               [] BeforeIn(t, p) = "else" -> LastOf(Earlier(k, B(InnermostOf(st[p - 1]))))
               [] OTHER -> IF b = 0 THEN 0 ELSE LastOf(Earlier(k, C(InnermostOf(st[b]))))
  BY Zenon DEF ParentOf, A, B, C, p, b, n
<1>13. ParentOf(t2, nodes2, st2, k) =
             CASE BeforeIn(t, p) = "::" -> LastOf(Earlier(k, A2))
               [] BeforeIn(t, p) = "else" -> LastOf(Earlier(k, B2(InnermostOf(st2[p - 1]))))
               [] OTHER -> IF b = 0 THEN 0 ELSE LastOf(Earlier(k, C2(InnermostOf(st2[b]))))
  <2>1. nodes2[k].pos = p /\ InnermostOf(st2[p]) = b
    BY <1>2 DEF p, b
  <2> QED
    BY <2>1, <1>2, Zenon DEF ParentOf, A2, B2, C2
<1>14. ParentOf(t2, nodes2, st2, k) = ParentOf(t, nodes, st, k)
  BY <1>7, <1>8, <1>9, <1>10, <1>11, <1>12, <1>13
<1>15. ParentOf(t, nodes, st, k) \in 0 .. n
  <2>1. \A S : Earlier(k, S) \subseteq S
    BY DEF Earlier
  <2>2. LastOf(Earlier(k, A)) \in 0 .. n
    BY <1>1, <1>7, LastFacts
  <2>3. \A x : LastOf(Earlier(k, B(x))) \in 0 .. n
    BY <1>1, <1>8, <2>1, LastFacts
  <2>4. \A x : LastOf(Earlier(k, C(x))) \in 0 .. n
    BY <1>1, <1>9, <2>1, LastFacts
  <2>5. 0 \in 0 .. n
    BY <1>1
  <2> QED
    BY <1>12, <2>2, <2>3, <2>4, <2>5
<1>16. k \in 1 .. n
  BY DEF n
<1>17. FilledIn(t2, nodes2, ParentOf(t, nodes, st, k))
         = FilledIn(t, nodes, ParentOf(t, nodes, st, k))
       /\ (IsChainedIn(t2, nodes2, k) <=> IsChainedIn(t, nodes, k))
  BY <1>15, GrownFilled DEF n
<1> QED
  BY <1>2, <1>14, <1>17 DEF NodeNests

-----------------------------------------------------------------------------
(* The calls that are left, with items put in the place of the next one.   *)

(* A call is replaced by items: what is below it stays.                     *)
Replaced(td, td2, items, q, m) ==
  /\ q \in Nat \ {0} /\ m \in Nat
  /\ Len(td) = q + 1 /\ Len(td2) = q + m
  /\ Up(td, q + 1) = td[1]
  /\ \A r \in 1 .. q : Up(td2, r) = Up(td, r)
  /\ \A i \in 1 .. m : Up(td2, (q + m + 1) - i) = items[i]
  /\ td2[1] = IF m > 0 THEN items[1] ELSE Up(td, q)

(* The calls that are left when these items are put in the place of the    *)
(* next one.                                                               *)
LEMMA ReplacedIs ==
  ASSUME NEW td, IsSeq(td), Len(td) >= 2, NEW items, IsSeq(items)
  PROVE  Replaced(td, items \o Tail(td), items, Len(td) - 1, Len(items))
<1> DEFINE td2 == items \o Tail(td)
           q == Len(td) - 1
           m == Len(items)
<1>1. Len(td) \in Nat /\ m \in Nat
  BY SeqFacts
<1>2. td # <<>>
  BY <1>1, SeqFacts
<1>3. /\ Len(td2) = m + (Len(td) - 1)
      /\ \A i \in 1 .. m : td2[i] = items[i]
      /\ \A i \in 1 .. (Len(td) - 1) : td2[m + i] = td[i + 1]
  BY <1>2, ThenSeq
<1> DEFINE n == Len(td)
           n2 == Len(td2)
<1> HIDE DEF n, n2, m, td2
<1>4. n \in Nat /\ n >= 2 /\ m \in Nat /\ n2 = m + (n - 1)
        /\ \A i \in 1 .. (n - 1) : td2[m + i] = td[i + 1]
  BY <1>1, <1>3 DEF n, n2
<1>5. q = n - 1
  BY DEF n
<1> HIDE DEF q
<1>6. q \in Nat \ {0} /\ n = q + 1 /\ n2 = q + m
  <2>1. \A a, b \in Nat : a >= 2
          => a - 1 \in Nat \ {0} /\ a = (a - 1) + 1 /\ b + (a - 1) = (a - 1) + b
    OBVIOUS
  <2> QED
    BY <1>4, <1>5, <2>1
<1>7. Up(td, q + 1) = td[1]
  <2>1. (n + 1) - (q + 1) = 1
    BY <1>6
  <2> QED
    BY <2>1 DEF Up, n
<1>8. ASSUME NEW r \in 1 .. q PROVE Up(td2, r) = Up(td, r)
  <2>1. /\ (n2 + 1) - r = m + ((q + 1) - r) /\ (q + 1) - r \in 1 .. (n - 1)
        /\ (n + 1) - r = ((q + 1) - r) + 1
    BY <1>4, <1>6
  <2>2. td2[m + ((q + 1) - r)] = td[((q + 1) - r) + 1]
    BY <1>4, <2>1
  <2> QED
    BY <2>1, <2>2 DEF Up, n, n2
<1>9. ASSUME NEW i \in 1 .. m PROVE Up(td2, (q + m + 1) - i) = items[i]
  <2>1. (n2 + 1) - ((q + m + 1) - i) = i
    BY <1>6, <1>4
  <2> QED
    BY <2>1, <1>3 DEF Up, n2
<1>10. td2[1] = IF m > 0 THEN items[1] ELSE Up(td, q)
  <2>1. CASE m > 0
    <3>1. 1 \in 1 .. m
      BY <2>1, <1>4
    <3> QED
      BY <3>1, <2>1, <1>3
  <2>2. CASE ~(m > 0)
    <3>1. m + 1 = 1 /\ 1 \in 1 .. (n - 1) /\ (n + 1) - q = 1 + 1
      BY <2>2, <1>4, <1>6
    <3>2. td2[m + 1] = td[1 + 1]
      BY <3>1, <1>4
    <3> QED
      BY <3>1, <3>2, <2>2 DEF Up, n
  <2> QED
    BY <2>1, <2>2
<1> QED
  BY <1>4, <1>6, <1>7, <1>8, <1>9, <1>10 DEF Replaced, n, n2, td2, q, m

(* How much deeper than the call the items are.                             *)
FreshAt(items, i) == i > 1 /\ items[i - 1] \in Openers
(* An item whose depth bounds those of the items before it.                *)
KnownAt(items, i) == items[i] \in Bound
  \/ (items[i] \in Inner \cup {"file"} /\ ~FreshAt(items, i))

(* deep tells how many brackets deeper than the call each item is; what    *)
(* makes nodes there is before nothing that is bound to a node.            *)
Sinks(items, m, deep) ==
  \A i \in 1 .. m :
    /\ deep[i] \in {0, 1}
    /\ (IF i = m THEN 0 ELSE deep[i + 1]) = deep[i] + Effect(items[i])
    /\ KnownAt(items, i) => deep[i] = 0
    /\ items[i] \in Makers /\ deep[i] = 0 =>
         \A j \in (i + 1) .. m : items[j] \notin Bound \/ items[j - 1] = "chain"

(* Nothing below is bound to a node of the bracket that the items are in.  *)
ClearBelow(td2, q, bl) ==
  \A s \in 1 .. q : Up(td2, s) \in Bound => bl[s] < bl[q] \/ Up(td2, s + 1) = "chain"

(* The depths of the calls with the items put in.                          *)
DepthsOf(q, m, bl, deep) == [r \in 1 .. (q + m) |-> IF r <= q THEN bl[r]
  ELSE bl[q] + deep[(q + m + 1) - r]]
(* Their levels.                                                           *)
LevelsOf(q, m, lv, level) == [r \in 1 .. (q + m) |-> IF r <= q THEN lv[r] ELSE level]

(* An item opens one bracket, closes one or does neither.                  *)
LEMMA EffectIs ==
  \A x : Effect(x) \in {0 - 1, 0, 1} /\ (x \in Openers <=> Effect(x) = 1)
<1>1. \A x : x \in Openers => x \notin Closers
  BY DEF Openers, Closers
<1> QED
  BY <1>1 DEF Effect

(* The places of the items, counted from either end.                       *)
LEMMA NewPlaces ==
  ASSUME NEW q \in Nat \ {0}, NEW m \in Nat, NEW r \in 1 .. (q + m), ~(r <= q)
  PROVE  /\ (q + m + 1) - r \in 1 .. m /\ (q + m + 1) - ((q + m + 1) - r) = r
         /\ r < q + m => /\ ((q + m + 1) - r) - 1 \in 1 .. m
                         /\ (q + m + 1) - (r + 1) = ((q + m + 1) - r) - 1
                         /\ (((q + m + 1) - r) - 1) + 1 = (q + m + 1) - r
                         /\ ((q + m + 1) - r) > 1
                         /\ ((q + m + 1) - r) - 1 # m
         /\ ~(r < q + m) => (q + m + 1) - r = 1 /\ ~(((q + m + 1) - r) > 1)
  OBVIOUS

(* Which calls wait for their bracket to be opened, after the items are    *)
(* put in.                                                                 *)
LEMMA PendingKept ==
  ASSUME NEW td, NEW td2, NEW items, NEW q, NEW m, Replaced(td, td2, items, q, m),
         NEW deep, Sinks(items, m, deep)
  PROVE  /\ \A r \in 1 .. q : r # q => (Pending(td2, r) <=> Pending(td, r))
         /\ ~Pending(td2, q) /\ (Pending(td, q) <=> td[1] \in Openers)
         /\ \A r \in 1 .. (q + m) : ~(r <= q)
              => (Pending(td2, r) <=> FreshAt(items, (q + m + 1) - r))
<1>1. q \in Nat \ {0} /\ m \in Nat /\ Len(td) = q + 1 /\ Len(td2) = q + m
  BY DEF Replaced
<1>2. ASSUME NEW r \in 1 .. q, r # q
      PROVE  Pending(td2, r) <=> Pending(td, r)
  <2>1. r + 1 \in 1 .. q /\ r < q + m /\ r < q + 1
    BY <1>1, <1>2
  <2>2. Up(td2, r + 1) = Up(td, r + 1)
    BY <2>1 DEF Replaced
  <2> QED
    BY <1>1, <2>1, <2>2 DEF Pending
<1>3. Pending(td, q) <=> td[1] \in Openers
  <2>1. q < q + 1 /\ Up(td, q + 1) = td[1]
    BY <1>1 DEF Replaced
  <2> QED
    BY <1>1, <2>1 DEF Pending
<1>4. ~Pending(td2, q)
  <2> SUFFICES ASSUME q < q + m, Up(td2, q + 1) \in Openers PROVE FALSE
    BY <1>1 DEF Pending
  <2>1. m \in 1 .. m /\ (q + m + 1) - m = q + 1
    BY <1>1
  <2>2. items[m] \in Openers
    BY <2>1 DEF Replaced
  <2>3. Effect(items[m]) = 1
    BY <2>2, EffectIs
  <2>4. deep[m] \in {0, 1} /\ 0 = deep[m] + Effect(items[m])
    BY <2>1 DEF Sinks
  <2> QED
    BY <2>3, <2>4
<1>5. ASSUME NEW r \in 1 .. (q + m), ~(r <= q)
      PROVE  Pending(td2, r) <=> FreshAt(items, (q + m + 1) - r)
  <2> DEFINE i == (q + m + 1) - r
  <2>1. /\ i \in 1 .. m
        /\ r < q + m => i - 1 \in 1 .. m /\ (q + m + 1) - (i - 1) = r + 1 /\ i > 1
        /\ ~(r < q + m) => ~(i > 1)
    BY <1>1, <1>5, NewPlaces
  <2> HIDE DEF i
  <2>2. r < q + m => Up(td2, r + 1) = items[i - 1]
    BY <2>1 DEF Replaced
  <2> QED
    BY <1>1, <2>1, <2>2 DEF Pending, FreshAt, i
<1> QED
  BY <1>2, <1>3, <1>4, <1>5

(* Which of them bound the depths of those above.                          *)
LEMMA KnownKept ==
  ASSUME NEW td, NEW td2, NEW items, NEW q, NEW m, Replaced(td, td2, items, q, m),
         NEW deep, Sinks(items, m, deep)
  PROVE  /\ \A r \in 1 .. q : r # q => (Known(td2, r) <=> Known(td, r))
         /\ \A r \in 1 .. (q + m) : ~(r <= q)
              => (Known(td2, r) <=> KnownAt(items, (q + m + 1) - r))
         /\ \A r \in 1 .. (q + m) : ~(r <= q) => Up(td2, r) = items[(q + m + 1) - r]
<1>1. \A r \in 1 .. q : Up(td2, r) = Up(td, r)
  BY DEF Replaced
<1>2. \A r \in 1 .. q : r # q => (Known(td2, r) <=> Known(td, r))
  BY <1>1, PendingKept DEF Known
<1>3. ASSUME NEW r \in 1 .. (q + m), ~(r <= q)
      PROVE  Up(td2, r) = items[(q + m + 1) - r]
  <2>1. (q + m + 1) - r \in 1 .. m /\ (q + m + 1) - ((q + m + 1) - r) = r
    BY <1>3, NewPlaces DEF Replaced
  <2>2. Up(td2, (q + m + 1) - ((q + m + 1) - r)) = items[(q + m + 1) - r]
    BY <2>1 DEF Replaced
  <2> QED
    BY <2>1, <2>2
<1>4. ASSUME NEW r \in 1 .. (q + m), ~(r <= q)
      PROVE  Known(td2, r) <=> KnownAt(items, (q + m + 1) - r)
  <2>1. Pending(td2, r) <=> FreshAt(items, (q + m + 1) - r)
    BY <1>4, PendingKept
  <2> QED
    BY <1>3, <1>4, <2>1 DEF Known, KnownAt
<1> QED
  BY <1>2, <1>3, <1>4

(* The depths fit again.                                                   *)
LEMMA DepthsKept ==
  ASSUME NEW td, NEW td2, NEW items, NEW q, NEW m, Replaced(td, td2, items, q, m),
         NEW deep, Sinks(items, m, deep), NEW bl, DepthsFit(td, bl),
         ClearBelow(td2, q, bl) \/ \A i \in 1 .. m : items[i] \in Makers => deep[i] = 1
  PROVE  DepthsFit(td2, DepthsOf(q, m, bl, deep))
<1> DEFINE bl2 == DepthsOf(q, m, bl, deep)
           at(r) == (q + m + 1) - r
<1>1. q \in Nat \ {0} /\ m \in Nat /\ Len(td) = q + 1 /\ Len(td2) = q + m
      /\ \A r \in 1 .. q : Up(td2, r) = Up(td, r)
  BY DEF Replaced
<1>2. /\ bl[1] = 1
      /\ \A r \in 1 .. q : bl[r] = bl[r + 1] + Effect(Up(td, r + 1))
      /\ \A r \in 1 .. (q + 1) : bl[r] \in Nat \ {0}
      /\ \A s, r \in 1 .. (q + 1) : s <= r /\ Known(td, s) => bl[s] <= bl[r]
      /\ \A s, r \in 1 .. (q + 1) :
           s < r /\ Up(td, r) \in Makers /\ Up(td, s) \in Bound
             => bl[s] < bl[r] \/ Up(td, s + 1) = "chain"
  <2>1. (q + 1) - 1 = q
    BY <1>1
  <2> QED
    BY <1>1, <2>1 DEF DepthsFit
<1>3. /\ \A r \in 1 .. q : bl2[r] = bl[r] /\ bl[r] \in Nat \ {0}
      /\ bl[q] \in Nat \ {0}
  <2>1. \A r \in 1 .. q : r \in 1 .. (q + m) /\ r <= q /\ r \in 1 .. (q + 1)
    BY <1>1
  <2>2. q \in 1 .. (q + 1)
    BY <1>1
  <2> QED
    BY <2>1, <2>2, <1>2 DEF DepthsOf
<1>4. ASSUME NEW r \in 1 .. (q + m), ~(r <= q)
      PROVE  /\ at(r) \in 1 .. m /\ bl2[r] = bl[q] + deep[at(r)] /\ deep[at(r)] \in {0, 1}
             /\ Up(td2, r) = items[at(r)]
  <2>1. at(r) \in 1 .. m
    BY <1>1, <1>4, NewPlaces
  <2> QED
    BY <2>1, <1>4, KnownKept DEF DepthsOf, Sinks
<1> HIDE DEF bl2, at
<1>5. \A r \in 1 .. (q + m) : bl2[r] \in Nat \ {0} /\ (~(r <= q) => bl2[r] \in {bl[q], bl[q] + 1})
  <2> SUFFICES ASSUME NEW r \in 1 .. (q + m)
               PROVE  bl2[r] \in Nat \ {0} /\ (~(r <= q) => bl2[r] \in {bl[q], bl[q] + 1})
    OBVIOUS
  <2>1. CASE r <= q
    <3>1. r \in 1 .. q
      BY <2>1, <1>1
    <3> QED
      BY <3>1, <2>1, <1>3
  <2>2. CASE ~(r <= q)
    <3>1. bl2[r] = bl[q] + deep[at(r)] /\ deep[at(r)] \in {0, 1}
      BY <2>2, <1>4
    <3> QED
      BY <3>1, <2>2, <1>3
  <2> QED
    BY <2>1, <2>2
<1>6. bl2[1] = 1
  BY <1>1, <1>2, <1>3
<1>7. ASSUME NEW r \in 1 .. ((q + m) - 1)
      PROVE  bl2[r] = bl2[r + 1] + Effect(Up(td2, r + 1))
  <2>1. CASE r + 1 <= q
    <3>1. r \in 1 .. q /\ r + 1 \in 1 .. q
      BY <2>1, <1>1
    <3> QED
      BY <3>1, <1>1, <1>2, <1>3
  <2>2. CASE ~(r + 1 <= q)
    <3>1. r + 1 \in 1 .. (q + m) /\ r \in 1 .. (q + m) /\ r < q + m
      BY <1>1
    <3>2. /\ at(r + 1) \in 1 .. m /\ bl2[r + 1] = bl[q] + deep[at(r + 1)]
               /\ deep[at(r + 1)] \in {0, 1}
          /\ Up(td2, r + 1) = items[at(r + 1)]
      BY <2>2, <3>1, <1>4
    <3>3. (IF at(r + 1) = m THEN 0 ELSE deep[at(r + 1) + 1])
            = deep[at(r + 1)] + Effect(items[at(r + 1)])
      BY <3>2 DEF Sinks
    <3>4. CASE r = q
      <4>1. at(r + 1) = m /\ r \in 1 .. q
        BY <3>4, <1>1 DEF at
      <4>2. bl2[r] = bl[q]
        BY <3>4, <4>1, <1>3
      <4>3. 0 = deep[at(r + 1)] + Effect(items[at(r + 1)])
        BY <3>3, <4>1
      <4>4. \A x, d, e : x \in Nat /\ d \in {0, 1} /\ e \in {0 - 1, 0, 1} /\ 0 = d + e
              => x = (x + d) + e
        OBVIOUS
      <4> QED
        BY <4>2, <4>3, <4>4, <3>2, <1>3, EffectIs
    <3>5. CASE r # q
      <4>1. ~(r <= q) /\ at(r + 1) # m /\ at(r + 1) + 1 = at(r)
        BY <3>5, <2>2, <1>1 DEF at
      <4>2. bl2[r] = bl[q] + deep[at(r)] /\ deep[at(r)] \in {0, 1}
        BY <4>1, <3>1, <1>4
      <4>3. deep[at(r)] = deep[at(r + 1)] + Effect(items[at(r + 1)])
        BY <3>3, <4>1
      <4>4. \A x, d, e, f : x \in Nat /\ d \in {0, 1} /\ f \in {0, 1} /\ e \in {0 - 1, 0, 1}
              /\ f = d + e
               => x + f = (x + d) + e
        OBVIOUS
      <4> QED
        BY <4>2, <4>3, <4>4, <3>2, <1>3, EffectIs
    <3> QED
      BY <3>4, <3>5
  <2> QED
    BY <2>1, <2>2
<1>8. ASSUME NEW s \in 1 .. (q + m), NEW r \in 1 .. (q + m), s <= r, Known(td2, s)
      PROVE  bl2[s] <= bl2[r]
  <2>1. CASE ~(s <= q)
    <3>1. bl2[s] = bl[q] + deep[at(s)] /\ KnownAt(items, at(s)) /\ at(s) \in 1 .. m
      BY <2>1, <1>4, <1>8, KnownKept DEF at
    <3>2. deep[at(s)] = 0
      BY <3>1 DEF Sinks
    <3>3. ~(r <= q)
      BY <2>1, <1>8, <1>1
    <3>4. bl2[r] \in {bl[q], bl[q] + 1}
      BY <3>3, <1>5
    <3> QED
      BY <3>1, <3>2, <3>4, <1>3
  <2>2. CASE s = q
    <3>1. bl2[s] = bl[q] /\ s \in 1 .. q
      BY <2>2, <1>1, <1>3
    <3>2. CASE r <= q
      <4>1. r = q
        BY <3>2, <2>2, <1>8, <1>1
      <4> QED
        BY <4>1, <2>2, <1>5
    <3>3. CASE ~(r <= q)
      <4>1. bl2[r] \in {bl[q], bl[q] + 1}
        BY <3>3, <1>5
      <4> QED
        BY <3>1, <4>1, <1>3
    <3> QED
      BY <3>2, <3>3
  <2>3. CASE s <= q /\ s # q
    <3>1. s \in 1 .. q /\ s \in 1 .. (q + 1) /\ q \in 1 .. (q + 1) /\ s <= q
      BY <2>3, <1>1
    <3>2. Known(td, s)
      BY <3>1, <2>3, <1>8, KnownKept
    <3>3. bl[s] <= bl[q] /\ bl2[s] = bl[s] /\ bl[s] \in Nat
      BY <3>1, <3>2, <1>2, <1>3
    <3>4. CASE r <= q
      <4>1. r \in 1 .. q /\ r \in 1 .. (q + 1)
        BY <3>4, <1>1
      <4> QED
        BY <4>1, <3>1, <3>2, <1>8, <1>2, <1>3
    <3>5. CASE ~(r <= q)
      <4>1. bl2[r] \in {bl[q], bl[q] + 1}
        BY <3>5, <1>5
      <4> QED
        BY <3>3, <4>1, <1>3
    <3> QED
      BY <3>4, <3>5
  <2> QED
    BY <2>1, <2>2, <2>3
<1>9. ASSUME NEW s \in 1 .. (q + m), NEW r \in 1 .. (q + m), s < r, Up(td2, r) \in Makers,
             Up(td2, s) \in Bound
      PROVE  bl2[s] < bl2[r] \/ Up(td2, s + 1) = "chain"
  <2>1. CASE r <= q
    <3>1. /\ s \in 1 .. q /\ r \in 1 .. q /\ s + 1 \in 1 .. q
          /\ s \in 1 .. (q + 1) /\ r \in 1 .. (q + 1)
      BY <2>1, <1>9, <1>1
    <3> QED
      BY <3>1, <1>9, <1>1, <1>2, <1>3
  <2>2. CASE ~(r <= q)
    <3>1. /\ at(r) \in 1 .. m /\ bl2[r] = bl[q] + deep[at(r)] /\ deep[at(r)] \in {0, 1}
          /\ items[at(r)] \in Makers
      BY <2>2, <1>4, <1>9
    <3>2. CASE deep[at(r)] = 1
      <4>1. Known(td2, s)
        BY <1>9 DEF Known
      <4>2. bl2[s] <= bl[q]
        <5>1. CASE s <= q
          <6>1. s \in 1 .. q /\ q \in 1 .. q /\ q \in 1 .. (q + m)
            BY <5>1, <1>1
          <6>2. bl2[s] <= bl2[q]
            BY <6>1, <5>1, <4>1, <1>8
          <6> QED
            BY <6>1, <6>2, <1>3
        <5>2. CASE ~(s <= q)
          <6>1. bl2[s] = bl[q] + deep[at(s)] /\ KnownAt(items, at(s)) /\ at(s) \in 1 .. m
            BY <5>2, <4>1, <1>4, KnownKept DEF at
          <6>2. deep[at(s)] = 0
            BY <6>1 DEF Sinks
          <6> QED
            BY <6>1, <6>2, <1>3
        <5> QED
          BY <5>1, <5>2
      <4>3. bl2[s] \in Nat
        BY <1>5
      <4> QED
        BY <3>1, <3>2, <4>2, <4>3, <1>3
    <3>3. CASE deep[at(r)] = 0
      <4>1. ClearBelow(td2, q, bl)
        BY <3>1, <3>3
      <4>2. bl2[r] = bl[q]
        BY <3>1, <3>3, <1>3
      <4>3. CASE s <= q
        <5>1. s \in 1 .. q
          BY <4>3, <1>1
        <5> QED
          BY <5>1, <4>1, <4>2, <1>3, <1>9 DEF ClearBelow
      <4>4. CASE ~(s <= q)
        <5>1. at(s) \in 1 .. m /\ Up(td2, s) = items[at(s)]
          BY <4>4, <1>4
        <5>2. at(s) \in (at(r) + 1) .. m /\ at(s) - 1 = at(s + 1) /\ s + 1 \in 1 .. (q + m)
                /\ ~(s + 1 <= q)
          BY <5>1, <1>9, <4>4, <1>1 DEF at
        <5>3. items[at(s)] \notin Bound \/ items[at(s) - 1] = "chain"
          BY <3>1, <3>3, <5>2 DEF Sinks
        <5>4. Up(td2, s + 1) = items[at(s + 1)]
          BY <5>2, <1>4
        <5> QED
          BY <5>1, <5>2, <5>3, <5>4, <1>9
      <4> QED
        BY <4>3, <4>4
    <3> QED
      BY <3>1, <3>2, <3>3
  <2> QED
    BY <2>1, <2>2
<1> QED
  BY <1>1, <1>5, <1>6, <1>7, <1>8, <1>9 DEF DepthsFit, bl2

(* The levels fit again.                                                   *)
LEMMA LevelsKept ==
  ASSUME NEW td, NEW td2, NEW items, NEW q, NEW m, Replaced(td, td2, items, q, m),
         NEW op, NEW lv, LevelsUp(td, op, lv), NEW op2, IsSeq(op), IsSeq(op2),
         \A i \in 1 .. m : i # m => items[i] # "end",
         Len(op2) = lv[q] + (IF m > 0 /\ items[m] = "end" THEN 1 ELSE 0)
  PROVE  LevelsUp(td2, op2, LevelsOf(q, m, lv, Len(op2)))
<1> DEFINE l == Len(op2)
           lv2 == LevelsOf(q, m, lv, l)
<1>1. q \in Nat \ {0} /\ m \in Nat /\ Len(td) = q + 1 /\ Len(td2) = q + m /\ l \in Nat
        /\ Len(op) \in Nat
      /\ \A r \in 1 .. q : Up(td2, r) = Up(td, r)
  BY SeqFacts DEF Replaced
<1>2. /\ lv[1] = 0
      /\ \A r \in 1 .. q : lv[r + 1] = IF Up(td, r + 1) = "end" THEN lv[r] + 1 ELSE lv[r]
      /\ \A r \in 1 .. (q + 1) : lv[r] \in Nat
      /\ \A s, r \in 1 .. (q + 1) : s <= r => lv[s] <= lv[r]
  <2>1. (q + 1) - 1 = q
    BY <1>1
  <2> QED
    BY <1>1, <2>1 DEF LevelsUp
<1>3. lv[q] \in Nat /\ lv[q] <= l /\ (~(m > 0) => l = lv[q])
  <2>1. lv[q] \in Nat
    BY <1>1, <1>2
  <2>2. (IF m > 0 /\ items[m] = "end" THEN 1 ELSE 0) \in {0, 1}
        /\ (~(m > 0) => (IF m > 0 /\ items[m] = "end" THEN 1 ELSE 0) = 0)
    OBVIOUS
  <2>3. \A x \in Nat, d \in {0, 1} : x <= x + d /\ x + 0 = x
    OBVIOUS
  <2> QED
    BY <2>1, <2>2, <2>3
<1>4. \A r \in 1 .. q : lv2[r] = lv[r] /\ lv[r] \in Nat /\ lv[r] <= lv[q]
  <2>1. \A r \in 1 .. q : r \in 1 .. (q + m) /\ r <= q /\ r \in 1 .. (q + 1) /\ q \in 1 .. (q + 1)
    BY <1>1
  <2> QED
    BY <2>1, <1>2 DEF LevelsOf
<1>5. \A r \in 1 .. (q + m) : ~(r <= q) => lv2[r] = l
  BY DEF LevelsOf
<1> HIDE DEF l, lv2
<1>6. \A r \in 1 .. (q + m) : lv2[r] \in 0 .. l
  <2> SUFFICES ASSUME NEW r \in 1 .. (q + m) PROVE lv2[r] \in 0 .. l
    OBVIOUS
  <2>1. CASE r <= q
    <3>1. r \in 1 .. q
      BY <2>1, <1>1
    <3>2. lv2[r] \in Nat /\ lv2[r] <= lv[q]
      BY <3>1, <1>4
    <3> QED
      BY <3>2, <1>1, <1>3
  <2>2. CASE ~(r <= q)
    BY <2>2, <1>1, <1>5
  <2> QED
    BY <2>1, <2>2
<1>7. lv2[1] = 0
  BY <1>1, <1>2, <1>4
<1>8. lv2[q + m] = l
  <2>1. CASE m > 0
    <3>1. q + m \in 1 .. (q + m) /\ ~(q + m <= q)
      BY <2>1, <1>1
    <3> QED
      BY <3>1, <1>5
  <2>2. CASE ~(m > 0)
    <3>1. q + m = q /\ q \in 1 .. q
      BY <2>2, <1>1
    <3> QED
      BY <3>1, <1>4, <1>3, <2>2
  <2> QED
    BY <2>1, <2>2
<1>9. ASSUME NEW s \in 1 .. (q + m), NEW r \in 1 .. (q + m), s <= r
      PROVE  lv2[s] <= lv2[r]
  <2>1. CASE r <= q
    <3>1. s \in 1 .. q /\ r \in 1 .. q /\ s \in 1 .. (q + 1) /\ r \in 1 .. (q + 1)
      BY <2>1, <1>9, <1>1
    <3> QED
      BY <3>1, <1>9, <1>2, <1>4
  <2>2. CASE ~(r <= q)
    <3>1. lv2[r] = l /\ lv2[s] \in 0 .. l
      BY <2>2, <1>5, <1>6
    <3> QED
      BY <3>1, <1>1
  <2> QED
    BY <2>1, <2>2
<1>10. ASSUME NEW r \in 1 .. ((q + m) - 1)
       PROVE  lv2[r + 1] = IF Up(td2, r + 1) = "end" THEN lv2[r] + 1 ELSE lv2[r]
  <2>1. CASE r + 1 <= q
    <3>1. r \in 1 .. q /\ r + 1 \in 1 .. q
      BY <2>1, <1>1
    <3> QED
      BY <3>1, <1>1, <1>2, <1>4
  <2>2. CASE ~(r + 1 <= q)
    <3> DEFINE i == (q + m + 1) - (r + 1)
    <3>1. r + 1 \in 1 .. (q + m) /\ r \in 1 .. (q + m) /\ i \in 1 .. m /\ (q + m + 1) - i = r + 1
      BY <1>1, <2>2
    <3>2. Up(td2, r + 1) = items[i]
      <4>1. Up(td2, (q + m + 1) - i) = items[i]
        BY <3>1 DEF Replaced
      <4> QED
        BY <4>1, <3>1
    <3>3. lv2[r + 1] = l
      BY <2>2, <3>1, <1>5
    <3>4. CASE r = q
      <4>1. i = m /\ m > 0 /\ r \in 1 .. q
        BY <3>4, <3>1, <1>1
      <4>2. lv2[r] = lv[q]
        BY <3>4, <4>1, <1>4
      <4>3. l = IF items[i] = "end" THEN lv[q] + 1 ELSE lv[q]
        <5> HIDE DEF i
        <5>1. CASE items[m] = "end"
          BY <5>1, <4>1, <1>3 DEF l
        <5>2. CASE items[m] # "end"
          <6>1. l = lv[q] + 0
            BY <5>2 DEF l
          <6> QED
            BY <6>1, <5>2, <4>1, <1>3
        <5> QED
          BY <5>1, <5>2
      <4> QED
        BY <3>2, <3>3, <4>2, <4>3
    <3>5. CASE r # q
      <4>1. ~(r <= q) /\ i # m
        BY <3>5, <2>2, <1>1
      <4>2. items[i] # "end"
        BY <4>1, <3>1
      <4>3. lv2[r] = l
        BY <4>1, <3>1, <1>5
      <4> QED
        BY <3>2, <3>3, <4>2, <4>3
    <3> QED
      BY <3>4, <3>5
  <2> QED
    BY <2>1, <2>2
<1> QED
  BY <1>1, <1>6, <1>7, <1>8, <1>9, <1>10 DEF LevelsUp, lv2, l

(* The nodes that the calls below go on with are the same ones.             *)
KeepsLatest(t, nodes, st, t2, nodes2, st2, td, q, bl, s) ==
  \A r \in 1 .. q :
    /\ Up(td, r) \in Beginners =>
         FilledIn(t2, nodes2, Latest(nodes2, st2, s[bl[r]]))
             = FilledIn(t, nodes, Latest(nodes, st, s[bl[r]]))
    /\ Up(td, r) \in Elses => LatestIf(nodes2, st2, s[bl[r]]) = LatestIf(nodes, st, s[bl[r]])

(* The i-th item is the statement of an else.                              *)
ElseAt(t, c, items, i) == i = 1 /\ items[1] = "statement" /\ BeforeIn(t, c) = "else"
(* The items are where they should be: in node k, in bracket b.            *)
ItemsPlaced(t, c, items, m, nodes, st, k, b) ==
  \A i \in 1 .. m :
    /\ items[i] \in Inner \cup {"file"} /\ ~FreshAt(items, i) /\ ~ElseAt(t, c, items, i) =>
         k = Holder(t, nodes, st, b)
    /\ items[i] \in Beginners => k # 0 /\ k = FilledIn(t, nodes, Latest(nodes, st, b))
    /\ items[i] \in Elses \/ ElseAt(t, c, items, i) => k # 0 /\ k = LatestIf(nodes, st, b)

(* A step of the parser replaces the next item by these, m of them, in the  *)
(* calls td; deep says how many brackets deeper than before each of them is.*)
Pushes(t, c, td, op, nodes, st, lv, bl, t2, c2, td2, op2, nodes2, st2, items, q, m, deep) ==
  /\ CallsNest(t, c, td, op, nodes, st, lv, bl)
  /\ c2 \in Nat
  /\ Grows(t, c, nodes, st, t2, nodes2, st2)
  /\ Replaced(td, td2, items, q, m)
  /\ \A r \in 1 .. q : Up(td, r) # "statement"
  /\ IsSeq(op) /\ IsSeq(op2) /\ \A i \in 1 .. m : i # m => items[i] # "end"
  /\ Len(op2) = lv[q] + (IF m > 0 /\ items[m] = "end" THEN 1 ELSE 0)
  /\ \A i \in 1 .. lv[q] : op2[i] = op[i]
  /\ Brackets(st2[c2], c2)
  /\ \A i \in 1 .. bl[q] : i <= Len(st[c]) => st2[c2][i] = st[c][i]
  /\ Sinks(items, m, deep)
  /\ ClearBelow(td2, q, bl) \/ \A i \in 1 .. m : items[i] \in Makers => deep[i] = 1
  /\ bl[q] + (IF m > 0 THEN deep[1] ELSE 0) = Len(st2[c2])
  /\ KeepsLatest(t, nodes, st, t2, nodes2, st2, td, q, bl, st[c])
  /\ td[1] \in Openers => NodeAt(op2, lv[q]) = Holder(t2, nodes2, st2, st2[c2][bl[q]])
  /\ ItemsPlaced(t2, c2, items, m, nodes2, st2, NodeAt(op2, Len(op2)), st2[c2][bl[q]])

(* After such a step every call is inside the node and the bracket that    *)
(* the tokens say.                                                         *)
LEMMA Pushed ==
  ASSUME NEW t, NEW c, NEW td, NEW op, NEW nodes, NEW st, NEW lv, NEW bl,
         NEW t2, NEW c2, NEW td2, NEW op2, NEW nodes2, NEW st2,
         NEW items, NEW q, NEW m, NEW deep,
         Pushes(t, c, td, op, nodes, st, lv, bl, t2, c2, td2, op2, nodes2, st2, items, q, m, deep)
  PROVE  \E lv2, bl2 : CallsNest(t2, c2, td2, op2, nodes2, st2, lv2, bl2)
<1>0. /\ CallsNest(t, c, td, op, nodes, st, lv, bl)
      /\ c2 \in Nat
      /\ Grows(t, c, nodes, st, t2, nodes2, st2)
      /\ Replaced(td, td2, items, q, m)
      /\ \A r \in 1 .. q : Up(td, r) # "statement"
      /\ IsSeq(op) /\ IsSeq(op2) /\ \A i \in 1 .. m : i # m => items[i] # "end"
      /\ Len(op2) = lv[q] + (IF m > 0 /\ items[m] = "end" THEN 1 ELSE 0)
      /\ \A i \in 1 .. lv[q] : op2[i] = op[i]
      /\ Brackets(st2[c2], c2)
      /\ \A i \in 1 .. bl[q] : i <= Len(st[c]) => st2[c2][i] = st[c][i]
      /\ Sinks(items, m, deep)
      /\ ClearBelow(td2, q, bl) \/ \A i \in 1 .. m : items[i] \in Makers => deep[i] = 1
      /\ bl[q] + (IF m > 0 THEN deep[1] ELSE 0) = Len(st2[c2])
      /\ KeepsLatest(t, nodes, st, t2, nodes2, st2, td, q, bl, st[c])
      /\ td[1] \in Openers => NodeAt(op2, lv[q]) = Holder(t2, nodes2, st2, st2[c2][bl[q]])
      /\ ItemsPlaced(t2, c2, items, m, nodes2, st2, NodeAt(op2, Len(op2)), st2[c2][bl[q]])
  BY DEF Pushes
<1> USE <1>0
<1> DEFINE lv2 == LevelsOf(q, m, lv, Len(op2))
           bl2 == DepthsOf(q, m, bl, deep)
           s == st[c]
           s2 == st2[c2]
           at(r) == (q + m + 1) - r
<1>1. /\ Brackets(s, c) /\ LevelsUp(td, op, lv) /\ DepthsFit(td, bl) /\ bl[Len(td)] = Len(s)
      /\ \A r \in 1 .. Len(td) : Placed(t, c, td, op, nodes, st, lv, bl, r)
  BY DEF CallsNest
<1>2. q \in Nat \ {0} /\ m \in Nat /\ Len(td) = q + 1 /\ Len(td2) = q + m
      /\ \A r \in 1 .. q : Up(td2, r) = Up(td, r)
  BY DEF Replaced
<1>3. LevelsUp(td2, op2, lv2)
  BY <1>1, LevelsKept
<1>4. DepthsFit(td2, bl2)
  BY <1>1, DepthsKept
<1>5. /\ \A r \in 1 .. q : lv2[r] = lv[r] /\ bl2[r] = bl[r]
      /\ \A r \in 1 .. (q + m) : ~(r <= q) => lv2[r] = Len(op2) /\ bl2[r] = bl[q] + deep[at(r)]
  <2>1. \A r \in 1 .. q : r \in 1 .. (q + m) /\ r <= q
    BY <1>2
  <2> QED
    BY <2>1 DEF LevelsOf, DepthsOf
<1>6. /\ \A r \in 1 .. (q + 1) : bl[r] \in Nat \ {0} /\ lv[r] \in Nat
      /\ \A x, r \in 1 .. (q + 1) : x <= r => lv[x] <= lv[r]
      /\ \A x, r \in 1 .. (q + 1) : x <= r /\ Known(td, x) => bl[x] <= bl[r]
      /\ bl[q + 1] = Len(s)
  <2>1. /\ \A r \in 1 .. (q + 1) : bl[r] \in Nat \ {0}
        /\ \A x, r \in 1 .. (q + 1) : x <= r /\ Known(td, x) => bl[x] <= bl[r]
    BY <1>1, <1>2 DEF DepthsFit
  <2>2. /\ \A r \in 1 .. (q + 1) : lv[r] \in Nat
        /\ \A x, r \in 1 .. (q + 1) : x <= r => lv[x] <= lv[r]
    BY <1>1, <1>2, SeqFacts DEF LevelsUp
  <2> QED
    BY <1>1, <1>2, <2>1, <2>2
<1> HIDE DEF lv2, bl2, s, s2, at
<1>7. bl2[Len(td2)] = Len(s2)
  <2>1. CASE m > 0
    <3>1. q + m \in 1 .. (q + m) /\ ~(q + m <= q) /\ (q + m + 1) - (q + m) = 1
      <4>1. ASSUME NEW x \in Nat, NEW y \in Nat, x > 0, y > 0
            PROVE  x + y \in 1 .. (x + y) /\ ~(x + y <= x)
        BY <4>1
      <4>2. ASSUME NEW x \in Nat, NEW y \in Nat
            PROVE  (x + y + 1) - (x + y) = 1
        BY <4>2
      <4>3. q > 0
        BY <1>2
      <4> QED
        BY <2>1, <1>2, <4>1, <4>2, <4>3
    <3> QED
      BY <3>1, <2>1, <1>2, <1>5 DEF s2, at
  <2>2. CASE ~(m > 0)
    <3>1. q + m = q /\ q \in 1 .. q /\ q \in 1 .. (q + 1)
      BY <2>2, <1>2
    <3>2. bl[q] \in Nat
      BY <3>1, <1>6
    <3>3. bl[q] = Len(s2)
      BY <3>2, <2>2 DEF s2
    <3> QED
      BY <3>1, <3>3, <1>2, <1>5
  <2> QED
    BY <2>1, <2>2
<1>8. ASSUME NEW r \in 1 .. q, Known(td, r)
      PROVE  /\ s2[bl[r]] = s[bl[r]] /\ s[bl[r]] \in 0 .. (c - 1)
             /\ NodeAt(op2, lv[r]) = NodeAt(op, lv[r])
  <2>1. r \in 1 .. (q + 1) /\ q \in 1 .. (q + 1) /\ q + 1 \in 1 .. (q + 1) /\ r <= q /\ r <= q + 1
    BY <1>2
  <2>2. bl[r] <= bl[q] /\ bl[r] <= bl[q + 1] /\ bl[r] \in Nat \ {0} /\ bl[q] \in Nat
          /\ bl[q + 1] \in Nat
    BY <2>1, <1>6, <1>8
  <2>3. bl[r] \in 1 .. bl[q] /\ bl[r] <= Len(s) /\ bl[r] \in 1 .. Len(s)
    BY <2>2, <1>6
  <2>4. s2[bl[r]] = s[bl[r]] /\ s[bl[r]] \in 0 .. (c - 1)
    BY <2>3, <1>1 DEF s, s2, Brackets
  <2>5. lv[r] \in Nat /\ lv[q] \in Nat /\ lv[r] <= lv[q]
    BY <2>1, <1>6
  <2>6. lv[r] # 0 => lv[r] \in 1 .. lv[q]
    BY <2>5
  <2> QED
    BY <2>4, <2>6 DEF NodeAt
<1>9. ASSUME NEW r \in 1 .. q
      PROVE  Placed(t2, c2, td2, op2, nodes2, st2, lv2, bl2, r)
  <2>1. r \in 1 .. Len(td) /\ Up(td2, r) = Up(td, r) /\ lv2[r] = lv[r] /\ bl2[r] = bl[r]
          /\ r # Len(td)
    BY <1>2, <1>5
  <2>2. Placed(t, c, td, op, nodes, st, lv, bl, r) /\ ~AfterElse(t, c, td, r)
    BY <2>1, <1>1 DEF AfterElse
  <2>3. ~AfterElse(t2, c2, td2, r)
    <3> SUFFICES ASSUME r = Len(td2), td2[1] = "statement" PROVE FALSE
      BY DEF AfterElse
    <3>1. ~(m > 0) /\ r = q
      BY <1>2
    <3>2. td2[1] = Up(td, q)
      BY <3>1 DEF Replaced
    <3> QED
      BY <3>1, <3>2
  <2>4. Up(td, r) \in Bound => Known(td, r)
    BY DEF Known
  <2>5. Up(td, r) \in Beginners =>
          /\ NodeAt(op2, lv[r]) # 0
          /\ NodeAt(op2, lv[r]) = FilledIn(t2, nodes2, Latest(nodes2, st2, s2[bl[r]]))
    <3> HAVE Up(td, r) \in Beginners
    <3>1. NodeAt(op, lv[r]) # 0 /\ NodeAt(op, lv[r])
            = FilledIn(t, nodes, Latest(nodes, st, s[bl[r]]))
      BY <2>2 DEF Placed, s
    <3>2. FilledIn(t2, nodes2, Latest(nodes2, st2, s[bl[r]]))
            = FilledIn(t, nodes, Latest(nodes, st, s[bl[r]]))
      BY DEF KeepsLatest, s
    <3>3. s2[bl[r]] = s[bl[r]] /\ NodeAt(op2, lv[r]) = NodeAt(op, lv[r])
      BY <2>4, <1>8 DEF Bound
    <3> QED
      BY <3>1, <3>2, <3>3
  <2>6. Up(td, r) \in Elses =>
          /\ NodeAt(op2, lv[r]) # 0 /\ NodeAt(op2, lv[r]) = LatestIf(nodes2, st2, s2[bl[r]])
    <3> HAVE Up(td, r) \in Elses
    <3>1. NodeAt(op, lv[r]) # 0 /\ NodeAt(op, lv[r]) = LatestIf(nodes, st, s[bl[r]])
      BY <2>2 DEF Placed, s
    <3>2. LatestIf(nodes2, st2, s[bl[r]]) = LatestIf(nodes, st, s[bl[r]])
      BY DEF KeepsLatest, s
    <3>3. s2[bl[r]] = s[bl[r]] /\ NodeAt(op2, lv[r]) = NodeAt(op, lv[r])
      BY <2>4, <1>8 DEF Bound
    <3> QED
      BY <3>1, <3>2, <3>3
  <2>7. Up(td, r) \in Inner \cup {"file"} /\ ~Pending(td2, r) =>
          NodeAt(op2, lv[r]) = Holder(t2, nodes2, st2, s2[bl[r]])
    <3> HAVE Up(td, r) \in Inner \cup {"file"} /\ ~Pending(td2, r)
    <3>1. CASE Pending(td, r)
      <4>1. r = q /\ td[1] \in Openers
        BY <3>1, PendingKept
      <4> QED
        BY <4>1 DEF s2
    <3>2. CASE ~Pending(td, r)
      <4>1. Known(td, r)
        BY <3>2 DEF Known
      <4>2. NodeAt(op, lv[r]) = Holder(t, nodes, st, s[bl[r]])
        BY <2>2, <3>2 DEF Placed, s
      <4>3. s2[bl[r]] = s[bl[r]] /\ s[bl[r]] \in 0 .. (c - 1)
              /\ NodeAt(op2, lv[r]) = NodeAt(op, lv[r])
        BY <4>1, <1>8
      <4>4. Holder(t2, nodes2, st2, s[bl[r]]) = Holder(t, nodes, st, s[bl[r]])
        BY <4>3, GrownHolder
      <4> QED
        BY <4>2, <4>3, <4>4
    <3> QED
      BY <3>1, <3>2
  <2> QED
    BY <2>1, <2>3, <2>5, <2>6, <2>7 DEF Placed, s2
<1>10. ASSUME NEW r \in 1 .. (q + m), ~(r <= q)
       PROVE  Placed(t2, c2, td2, op2, nodes2, st2, lv2, bl2, r)
  <2> DEFINE i == at(r)
  <2>1. i \in 1 .. m /\ Up(td2, r) = items[i] /\ (Pending(td2, r) <=> FreshAt(items, i))
        /\ (Known(td2, r) <=> KnownAt(items, i))
    <3> HIDE <1>0
    <3>1. Replaced(td, td2, items, q, m) /\ Sinks(items, m, deep)
      BY <1>0
    <3>2. i \in 1 .. m
      BY <1>2, <1>10, NewPlaces DEF at
    <3>3. Pending(td2, r) <=> FreshAt(items, i)
      BY <1>10, <3>1, PendingKept DEF at
    <3>4. Up(td2, r) = items[i] /\ (Known(td2, r) <=> KnownAt(items, i))
      BY <1>10, <3>1, KnownKept DEF at
    <3> QED
      BY <3>2, <3>3, <3>4
  <2>2. lv2[r] = Len(op2) /\ bl2[r] = bl[q] + deep[i]
    BY <1>5, <1>10
  <2>3. r = Len(td2) <=> i = 1
    BY <1>2, <1>10 DEF at
  <2>4. i = 1 => td2[1] = items[1]
    <3> HAVE i = 1
    <3>1. m > 0
      BY <2>1, <1>2
    <3> QED
      BY <3>1 DEF Replaced
  <2>5. AfterElse(t2, c2, td2, r) <=> ElseAt(t2, c2, items, i)
    BY <2>3, <2>4 DEF AfterElse, ElseAt
  <2>6. ElseAt(t2, c2, items, i) => items[i] \in Inner /\ ~FreshAt(items, i)
    <3>1. \A j : j = 1 => ~(j > 1)
      OBVIOUS
    <3> QED
      BY <3>1 DEF ElseAt, FreshAt, Inner
  <2> HIDE DEF i
  <2>7. KnownAt(items, i) => bl2[r] = bl[q]
    <3> HAVE KnownAt(items, i)
    <3>1. deep[i] = 0
      BY <2>1 DEF Sinks
    <3>2. q \in 1 .. (q + 1)
      BY <1>2
    <3>3. bl[q] \in Nat
      BY <3>2, <1>6
    <3> QED
      BY <2>2, <3>1, <3>3
  <2>8. /\ items[i] \in Inner \cup {"file"} /\ ~FreshAt(items, i) => KnownAt(items, i)
        /\ items[i] \in Beginners \cup Elses => KnownAt(items, i)
        /\ ElseAt(t2, c2, items, i) => KnownAt(items, i)
    BY <2>6 DEF KnownAt, Bound
  <2>9. /\ items[i] \in Inner \cup {"file"} /\ ~FreshAt(items, i) /\ ~ElseAt(t2, c2, items, i) =>
             NodeAt(op2, Len(op2)) = Holder(t2, nodes2, st2, st2[c2][bl[q]])
        /\ items[i] \in Beginners => NodeAt(op2, Len(op2)) # 0
             /\ NodeAt(op2, Len(op2)) = FilledIn(t2, nodes2, Latest(nodes2, st2, st2[c2][bl[q]]))
        /\ items[i] \in Elses \/ ElseAt(t2, c2, items, i) => NodeAt(op2, Len(op2)) # 0
             /\ NodeAt(op2, Len(op2)) = LatestIf(nodes2, st2, st2[c2][bl[q]])
    BY <2>1 DEF ItemsPlaced
  <2>10. /\ Up(td2, r) \in Inner \cup {"file"} /\ ~Pending(td2, r)
              /\ ~AfterElse(t2, c2, td2, r) =>
             NodeAt(op2, lv2[r]) = Holder(t2, nodes2, st2, st2[c2][bl2[r]])
    BY <2>1, <2>2, <2>5, <2>7, <2>8, <2>9
  <2>11. Up(td2, r) \in Beginners => NodeAt(op2, lv2[r]) # 0
             /\ NodeAt(op2, lv2[r]) = FilledIn(t2, nodes2, Latest(nodes2, st2, st2[c2][bl2[r]]))
    BY <2>1, <2>2, <2>7, <2>8, <2>9
  <2>12. Up(td2, r) \in Elses \/ AfterElse(t2, c2, td2, r) => NodeAt(op2, lv2[r]) # 0
             /\ NodeAt(op2, lv2[r]) = LatestIf(nodes2, st2, st2[c2][bl2[r]])
    BY <2>1, <2>2, <2>5, <2>7, <2>8, <2>9
  <2> QED
    BY <2>10, <2>11, <2>12 DEF Placed
<1>11. \A r \in 1 .. Len(td2) : Placed(t2, c2, td2, op2, nodes2, st2, lv2, bl2, r)
  <2> SUFFICES ASSUME NEW r \in 1 .. (q + m)
                      PROVE Placed(t2, c2, td2, op2, nodes2, st2, lv2, bl2, r)
    BY <1>2
  <2>1. r <= q => r \in 1 .. q
    BY <1>2
  <2> QED
    BY <2>1, <1>9, <1>10
<1> QED
  BY <1>3, <1>4, <1>7, <1>11 DEF CallsNest, s2

-----------------------------------------------------------------------------
(* The brackets, past one token more.                                      *)

(* The brackets that are open at c2, where the token at c is gone past.     *)
StackAfter(t, c, s) ==
  CASE OpensIn(t, c) -> Append(s, c)
    [] ClosesIn(t, c) -> SubSeq(s, 1, Len(s) - 1)
    [] OTHER -> s
(* The open brackets at each place, with those at c2 added.                *)
StackOn(t, c, st, c2) == [p \in 1 .. c2 |-> IF p <= c THEN st[p] ELSE StackAfter(t, c, st[c])]

(* They are those that IsStacks asks for.                                  *)
LEMMA StackOnIs ==
  ASSUME NEW t, NEW c \in Nat \ {0}, NEW st, IsStacks(t, c, st), NEW c2, c2 = c \/ c2 = c + 1
  PROVE  /\ IsStacks(t, c2, StackOn(t, c, st, c2))
         /\ \A p \in 1 .. c : StackOn(t, c, st, c2)[p] = st[p]
         /\ StackOn(t, c, st, c2)[c2] = IF c2 = c THEN st[c] ELSE StackAfter(t, c, st[c])
<1> DEFINE st2 == StackOn(t, c, st, c2)
<1>1. \A p \in 1 .. c : st2[p] = st[p]
  <2>1. \A p \in 1 .. c : p \in 1 .. c2 /\ p <= c
    OBVIOUS
  <2> QED
    BY <2>1 DEF StackOn
<1>2. c2 = c + 1 => st2[c + 1] = StackAfter(t, c, st[c])
  <2>1. c + 1 \in 1 .. (c + 1) /\ ~(c + 1 <= c)
    OBVIOUS
  <2> QED
    BY <2>1 DEF StackOn
<1>3. 1 \in 1 .. c /\ c \in 1 .. c /\ c + 1 # c
  OBVIOUS
<1> HIDE DEF st2
<1>4. st2[c2] = IF c2 = c THEN st[c] ELSE StackAfter(t, c, st[c])
  BY <1>1, <1>2, <1>3
<1>5. \A p \in 1 .. (c - 1) :
        st[p + 1] = CASE OpensIn(t, p) -> Append(st[p], p)
                      [] ClosesIn(t, p) -> SubSeq(st[p], 1, Len(st[p]) - 1)
                      [] OTHER -> st[p]
  BY Zenon DEF IsStacks
<1>6. ASSUME NEW p \in 1 .. (c2 - 1)
      PROVE  st2[p + 1] = CASE OpensIn(t, p) -> Append(st2[p], p)
                            [] ClosesIn(t, p) -> SubSeq(st2[p], 1, Len(st2[p]) - 1)
                            [] OTHER -> st2[p]
  <2>1. p \in 1 .. c /\ (p \in 1 .. (c - 1) \/ (p = c /\ c2 = c + 1))
    OBVIOUS
  <2>2. CASE p \in 1 .. (c - 1)
    <3>1. p + 1 \in 1 .. c
      BY <2>2
    <3>2. st2[p + 1] = st[p + 1] /\ st2[p] = st[p]
      BY <3>1, <2>1, <1>1
    <3> QED
      BY <3>2, <2>2, <1>5, Zenon
  <2>3. CASE p = c /\ c2 = c + 1
    <3>1. st2[p] = st[p] /\ st2[p + 1] = StackAfter(t, c, st[c])
      BY <2>1, <2>3, <1>1, <1>2
    <3> QED
      BY <3>1, <2>3, Zenon DEF StackAfter
  <2> QED
    BY <2>1, <2>2, <2>3
<1>7. st2[1] = <<0>>
  BY <1>1, <1>3, Zenon DEF IsStacks
<1>8. IsStacks(t, c2, st2)
  BY <1>6, <1>7, Zenon DEF IsStacks
<1> QED
  BY <1>1, <1>4, <1>8 DEF st2

(* A stack of brackets with one more, and with one less.                   *)
LEMMA StackFacts ==
  ASSUME NEW s, NEW c \in Nat, Brackets(s, c)
  PROVE  /\ Brackets(s, c + 1) /\ Len(s) \in Nat \ {0}
         /\ Brackets(Append(s, c), c + 1) /\ Len(Append(s, c)) = Len(s) + 1
         /\ \A i \in 1 .. Len(s) : Append(s, c)[i] = s[i]
         /\ Append(s, c)[Len(s) + 1] = c
         /\ Len(s) > 1 => /\ Brackets(SubSeq(s, 1, Len(s) - 1), c + 1)
                          /\ Len(SubSeq(s, 1, Len(s) - 1)) = Len(s) - 1
                          /\ \A i \in 1 .. (Len(s) - 1) : SubSeq(s, 1, Len(s) - 1)[i] = s[i]
<1>1. /\ IsSeq(s) /\ s # <<>> /\ s[1] = 0
      /\ \A i \in 1 .. Len(s) : s[i] \in 0 .. (c - 1)
      /\ \A i, j \in 1 .. Len(s) : i < j => s[i] < s[j]
  BY DEF Brackets
<1> DEFINE n == Len(s)
           a == Append(s, c)
           f == SubSeq(s, 1, n - 1)
<1>2. n \in Nat /\ n > 0
  BY <1>1, SeqFacts
<1>3. /\ IsSeq(a) /\ a # <<>> /\ Len(a) = n + 1 /\ \A i \in 1 .. n : a[i] = s[i]
      /\ a[n + 1] = c
  BY <1>1, AppendSeq
<1>4. IsSeq(f) /\ Len(f) = n - 1 /\ \A i \in 1 .. (n - 1) : f[i] = s[i]
  BY <1>1, FrontSeq
<1> HIDE DEF n, a, f
<1>5. /\ \A i \in 1 .. n : s[i] \in 0 .. (c - 1)
      /\ \A i, j \in 1 .. n : i < j => s[i] < s[j]
  BY <1>1 DEF n
<1>6. \A i \in 1 .. n : s[i] \in 0 .. ((c + 1) - 1) /\ s[i] < c
  <2>1. \A x \in 0 .. (c - 1) : x \in 0 .. ((c + 1) - 1) /\ x < c
    OBVIOUS
  <2> QED
    BY <1>5, <2>1
<1>7. Brackets(s, c + 1)
  BY <1>1, <1>6 DEF Brackets, n
<1>8. Brackets(a, c + 1)
  <2>1. \A i \in 1 .. (n + 1) : i \in 1 .. n \/ i = n + 1
    BY <1>2
  <2>2. \A i \in 1 .. (n + 1) : a[i] \in 0 .. ((c + 1) - 1)
    <3>1. c \in 0 .. ((c + 1) - 1)
      OBVIOUS
    <3> QED
      BY <2>1, <1>3, <1>6, <3>1
  <2>3. \A i, j \in 1 .. (n + 1) : i < j => a[i] < a[j]
    <3> SUFFICES ASSUME NEW i \in 1 .. (n + 1), NEW j \in 1 .. (n + 1), i < j PROVE a[i] < a[j]
      OBVIOUS
    <3>1. i \in 1 .. n
      BY <1>2
    <3>2. CASE j \in 1 .. n
      BY <3>1, <3>2, <1>3, <1>5
    <3>3. CASE j = n + 1
      BY <3>1, <3>3, <1>3, <1>6
    <3> QED
      BY <2>1, <3>2, <3>3
  <2>4. a[1] = 0
    <3>1. 1 \in 1 .. n
      BY <1>2
    <3> QED
      BY <3>1, <1>1, <1>3
  <2> QED
    BY <1>3, <2>2, <2>3, <2>4 DEF Brackets
<1>9. ASSUME n > 1 PROVE Brackets(f, c + 1)
  <2>1. 1 \in 1 .. (n - 1) /\ n - 1 > 0 /\ \A i \in 1 .. (n - 1) : i \in 1 .. n
    BY <1>2, <1>9
  <2>2. f # <<>>
    BY <1>4, <2>1, SeqFacts
  <2>3. f[1] = 0 /\ \A i \in 1 .. (n - 1) : f[i] \in 0 .. ((c + 1) - 1)
    BY <1>1, <1>4, <1>6, <2>1
  <2>4. \A i, j \in 1 .. (n - 1) : i < j => f[i] < f[j]
    BY <1>4, <1>5, <2>1
  <2> QED
    BY <1>4, <2>2, <2>3, <2>4 DEF Brackets
<1> QED
  BY <1>2, <1>3, <1>4, <1>7, <1>8, <1>9 DEF n, a, f

(* What CallsNest says of the next item and of the calls below it.         *)
LEMMA Here ==
  ASSUME DInv, HInv, NEW st, NEW lv, NEW bl,
         CallsNest(tokens, current_token_idx, todo, open, ast, st, lv, bl), Next1 # "file",
         NEW q, q = Len(todo) - 1, NEW s, s = st[current_token_idx]
  PROVE  /\ q \in Nat \ {0} /\ Len(todo) = q + 1 /\ Len(todo) >= 2
         /\ IsSeq(todo) /\ IsSeq(open) /\ IsSeq(ast) /\ Len(open) \in Nat /\ Len(ast) \in Nat
         /\ current_token_idx \in Nat \ {0} /\ Brackets(s, current_token_idx)
              /\ Len(s) \in Nat \ {0}
         /\ bl[q] = Len(s) + Effect(Next1) /\ bl[q] \in Nat \ {0}
         /\ lv[q] \in Nat /\ Len(open) = IF Next1 = "end" THEN lv[q] + 1 ELSE lv[q]
         /\ \A r \in 1 .. q : Up(todo, r) # "statement"
         /\ Up(todo, q) = todo[2]
         /\ Next1 \in Inner /\ ~(Next1 = "statement"
              /\ BeforeIn(tokens, current_token_idx) = "else") =>
              Innermost = Holder(tokens, ast, st, s[Len(s)])
         /\ Next1 \in Beginners =>
              Innermost # 0 /\ Innermost = FilledIn(tokens, ast, Latest(ast, st, s[Len(s)]))
         /\ Next1 \in Elses \/ (Next1 = "statement"
              /\ BeforeIn(tokens, current_token_idx) = "else") =>
              Innermost # 0 /\ Innermost = LatestIf(ast, st, s[Len(s)])
<1> DEFINE n == Len(todo)
           c == current_token_idx
<1>1. /\ Brackets(s, c) /\ LevelsUp(todo, open, lv) /\ DepthsFit(todo, bl) /\ bl[n] = Len(s)
      /\ \A r \in 1 .. n : Placed(tokens, c, todo, open, ast, st, lv, bl, r)
  BY DEF CallsNest
<1>2. /\ CallsFit(todo, open, ast) /\ IsSeq(todo) /\ todo # <<>> /\ IsSeq(open) /\ IsSeq(ast)
      /\ todo[1] = Next1 /\ Pairs(todo)
  BY DEF DInv, CallsFit, HInv, Next1
<1>3. n \in Nat /\ n >= 2 /\ Len(open) \in Nat /\ Len(ast) \in Nat
  BY <1>2, MoreToDo, SeqFacts
<1>4. q \in Nat \ {0} /\ n = q + 1
  <2> HIDE DEF n
  <2>1. q = n - 1
    BY DEF n
  <2>2. \A a \in Nat : a >= 2 => a - 1 \in Nat \ {0} /\ a = (a - 1) + 1
    OBVIOUS
  <2> QED
    BY <1>3, <2>1, <2>2
<1>5. c \in Nat \ {0}
  BY BeforeNow
<1>6. Len(s) \in Nat \ {0}
  BY <1>1, <1>5, StackFacts
<1>7. Up(todo, n) = Next1 /\ Up(todo, q) = todo[2]
  <2>1. (n + 1) - n = 1 /\ (n + 1) - q = 2
    <3> HIDE DEF n
    <3> QED
      BY <1>3, <1>4
  <2> QED
    BY <2>1, <1>2 DEF Up
<1>8. \A r \in 1 .. q : Up(todo, r) # "statement"
  <2> SUFFICES ASSUME NEW r \in 1 .. q PROVE Up(todo, r) # "statement"
    OBVIOUS
  <2> DEFINE i == n - r
  <2>1. i \in 1 .. (n - 1) /\ (n + 1) - r = i + 1
    <3> HIDE DEF n
    <3> QED
      BY <1>3, <1>4
  <2> HIDE DEF i
  <2>2. Pair(todo[i], todo[i + 1])
    BY <1>2, <2>1 DEF Pairs
  <2>3. todo[i + 1] \notin HeadsOnly
    BY <2>2 DEF Pair
  <2> QED
    BY <2>1, <2>3 DEF Up, HeadsOnly
<1>9. q \in 1 .. (n - 1) /\ q \in 1 .. n /\ n \in 1 .. n /\ q + 1 = n
  <2> HIDE DEF n
  <2> QED
    BY <1>3, <1>4
<1>10. bl[q] = Len(s) + Effect(Next1) /\ bl[q] \in Nat \ {0}
  BY <1>1, <1>7, <1>9 DEF DepthsFit
<1>11. lv[q] \in Nat /\ Len(open) = IF Next1 = "end" THEN lv[q] + 1 ELSE lv[q]
  <2>1. lv[q] \in 0 .. Len(open)
          /\ lv[q + 1] = (IF Up(todo, q + 1) = "end" THEN lv[q] + 1 ELSE lv[q])
        /\ lv[n] = Len(open)
    BY <1>1, <1>9 DEF LevelsUp
  <2> QED
    BY <2>1, <1>3, <1>7, <1>9
<1>12. lv[n] = Len(open) /\ Innermost = NodeAt(open, Len(open))
  BY <1>1, InnermostIs DEF LevelsUp
<1>13. ~Pending(todo, n)
  <2>1. ~(n < n)
    BY <1>3
  <2> QED
    BY <2>1 DEF Pending
<1>14. AfterElse(tokens, c, todo, n) <=> Next1 = "statement" /\ BeforeIn(tokens, c) = "else"
  BY <1>2 DEF AfterElse
<1>15. Placed(tokens, c, todo, open, ast, st, lv, bl, n)
  BY <1>1, <1>9
<1>16. st[c][bl[n]] = s[Len(s)]
  BY <1>1
<1>17. /\ Next1 \in Inner /\ ~AfterElse(tokens, c, todo, n)
            => Innermost = Holder(tokens, ast, st, s[Len(s)])
       /\ Next1 \in Beginners =>
              Innermost # 0 /\ Innermost = FilledIn(tokens, ast, Latest(ast, st, s[Len(s)]))
       /\ Next1 \in Elses \/ AfterElse(tokens, c, todo, n) =>
              Innermost # 0 /\ Innermost = LatestIf(ast, st, s[Len(s)])
  BY <1>7, <1>12, <1>13, <1>15, <1>16 DEF Placed
<1> QED
  BY <1>1, <1>2, <1>3, <1>4, <1>5, <1>6, <1>7, <1>8, <1>10, <1>11, <1>14, <1>17

(* The same of the calls below it, said without those names.               *)
LEMMA HereAt ==
  ASSUME DInv, HInv, NEW st, NEW lv, NEW bl,
         CallsNest(tokens, current_token_idx, todo, open, ast, st, lv, bl),
         Next1 # "file", Next1 # "end"
  PROVE  LET q == Len(todo) - 1
             s == st[current_token_idx] IN
         /\ q \in Nat \ {0} /\ Len(todo) = q + 1 /\ Len(todo) >= 2
         /\ IsSeq(todo) /\ IsSeq(open) /\ IsSeq(ast) /\ Len(open) \in Nat /\ Len(ast) \in Nat
         /\ current_token_idx \in Nat \ {0} /\ Brackets(s, current_token_idx)
         /\ Len(s) \in Nat \ {0}
         /\ bl[q] = Len(s) + Effect(Next1) /\ bl[q] \in Nat \ {0}
         /\ lv[q] \in Nat /\ Len(open) = lv[q]
         /\ \A r \in 1 .. q : Up(todo, r) # "statement"
  BY Here

(* A step reads one token at most and makes one node at most: the nodes    *)
(* that were made stay in their places.                                    *)
LEMMA Moved ==
  ASSUME DInv, NEW st, IsStacks(tokens, current_token_idx, st),
         NodesNest(tokens, current_token_idx, ast, st),
         Stay \/ Advance,
         ast' = ast \/ \E node : ast' = Append(ast, node) /\ node.pos = current_token_idx,
         NEW st2, st2 = StackOn(tokens, current_token_idx, st, current_token_idx')
  PROVE  /\ IsStacks(tokens', current_token_idx', st2)
         /\ Grows(tokens, current_token_idx, ast, st, tokens', ast', st2)
         /\ \A k \in 1 .. Len(ast) : /\ ast'[k].pos \in 1 .. current_token_idx'
                                     /\ InnermostOf(st2[ast'[k].pos]) \in 0 .. (ast'[k].pos - 1)
                                     /\ NodeNests(tokens', ast', st2, k)
         /\ Stay => st2[current_token_idx'] = st[current_token_idx]
         /\ Advance => st2[current_token_idx']
              = StackAfter(tokens, current_token_idx, st[current_token_idx])
         /\ ast' = ast => NodesNest(tokens', current_token_idx', ast', st2)
         /\ current_token_idx \in Nat \ {0} /\ current_token_idx' \in Nat \ {0}
              /\ tokens' = tokens
<1> DEFINE c == current_token_idx
           c2 == current_token_idx'
<1>1. c \in Nat \ {0} /\ tokens' = tokens /\ (c2 = c \/ c2 = c + 1) /\ (Stay => c2 = c)
        /\ (Advance => c2 = c + 1)
  BY BeforeNow DEF Stay, Advance, source
<1> HIDE DEF c2
<1>2. /\ IsStacks(tokens, c2, st2)
      /\ \A p \in 1 .. c : st2[p] = st[p]
      /\ st2[c2] = IF c2 = c THEN st[c] ELSE StackAfter(tokens, c, st[c])
  BY <1>1, StackOnIs DEF c2
<1>3. IsSeq(ast) /\ Len(ast) \in Nat /\ \A k \in 1 .. Len(ast) : ast[k].pos \in 1 .. c
  BY SeqFacts DEF DInv, CallsFit, NodesFit, NodeFits
<1>4. /\ Len(ast') \in Nat /\ Len(ast) <= Len(ast') /\ \A k \in 1 .. Len(ast) : ast'[k] = ast[k]
      /\ \A k \in 1 .. Len(ast') : k > Len(ast) => ast'[k].pos = c
  <2>1. CASE ast' = ast
    <3>1. \A k \in 1 .. Len(ast) : ~(k > Len(ast))
      BY <1>3
    <3> QED
      BY <2>1, <3>1, <1>3
  <2>2. ASSUME NEW node, ast' = Append(ast, node), node.pos = c
        PROVE  /\ Len(ast') \in Nat /\ Len(ast) <= Len(ast')
                    /\ \A k \in 1 .. Len(ast) : ast'[k] = ast[k]
               /\ \A k \in 1 .. Len(ast') : k > Len(ast) => ast'[k].pos = c
    <3>1. Len(ast') = Len(ast) + 1 /\ ast'[Len(ast) + 1] = node
            /\ \A k \in 1 .. Len(ast) : ast'[k] = ast[k]
      BY <2>2, <1>3, AppendSeq
    <3>2. \A k \in 1 .. (Len(ast) + 1) : k > Len(ast) => k = Len(ast) + 1
      BY <1>3
    <3> QED
      BY <2>2, <3>1, <3>2, <1>3
  <2> QED
    BY <2>1, <2>2
<1>5. Grows(tokens, c, ast, st, tokens', ast', st2)
  BY <1>1, <1>2, <1>3, <1>4 DEF Grows
<1>6. \A k \in 1 .. Len(ast) : /\ ast'[k].pos \in 1 .. c2
                               /\ InnermostOf(st2[ast'[k].pos]) \in 0 .. (ast'[k].pos - 1)
                               /\ NodeNests(tokens', ast', st2, k)
  <2> SUFFICES ASSUME NEW k \in 1 .. Len(ast)
               PROVE  /\ ast'[k].pos \in 1 .. c2
                      /\ InnermostOf(st2[ast'[k].pos]) \in 0 .. (ast'[k].pos - 1)
                      /\ NodeNests(tokens', ast', st2, k)
    OBVIOUS
  <2>1. /\ InnermostOf(st[ast[k].pos]) \in 0 .. (ast[k].pos - 1)
        /\ NodeNests(tokens, ast, st, k)
    BY DEF NodesNest
  <2>2. NodeNests(tokens', ast', st2, k)
    BY <2>1, <1>5, GrownNode
  <2>3. ast'[k] = ast[k] /\ ast[k].pos \in 1 .. c
    BY <1>3, <1>4
  <2>4. \A p \in 1 .. c : p \in 1 .. c2
    BY <1>1
  <2> QED
    BY <2>1, <2>2, <2>3, <2>4, <1>2
<1>7. ast' = ast => NodesNest(tokens', c2, ast', st2)
  BY <1>6 DEF NodesNest
<1>8. c # c + 1 /\ c2 \in Nat \ {0}
  BY <1>1
<1> QED
  BY <1>1, <1>2, <1>5, <1>6, <1>7, <1>8 DEF c2

-----------------------------------------------------------------------------
(* The inductive invariant, and the steps that make no node.               *)

(* The nodes made so far and the calls that are left are where the tokens  *)
(* say.                                                                    *)
NestsOn(t, c, td, op, nodes, st) ==
  /\ IsStacks(t, c, st) /\ NodesNest(t, c, nodes, st)
  /\ \E lv, bl : CallsNest(t, c, td, op, nodes, st, lv, bl)

(* The strengthening of NestingIsTrue: so it is, or no other node can be   *)
(* made before an error.                                                   *)
NInv ==
  \E st : \/ NestsOn(tokens, current_token_idx, todo, open, ast, st)
          \/ /\ IsStacks(tokens, current_token_idx, st)
                  /\ NodesNest(tokens, current_token_idx, ast, st)
             /\ Doomed(tokens, current_token_idx, todo)

(* Below an item that makes nodes, nothing is bound to a node of its       *)
(* bracket.                                                                *)
LEMMA Cleared ==
  ASSUME NEW td, NEW td2, NEW items, NEW q, NEW m, Replaced(td, td2, items, q, m), NEW bl,
         DepthsFit(td, bl),
         td[1] \in Makers, td[1] = "chain" => m > 0 /\ items[m] = "chain"
  PROVE  ClearBelow(td2, q, bl)
<1>1. /\ q \in Nat \ {0} /\ m \in Nat /\ Len(td) = q + 1 /\ Len(td2) = q + m
           /\ Up(td, q + 1) = td[1]
      /\ \A r \in 1 .. q : Up(td2, r) = Up(td, r)
      /\ \A i \in 1 .. m : Up(td2, (q + m + 1) - i) = items[i]
  BY DEF Replaced
<1>2. (q + 1) - 1 = q /\ q \in 1 .. q /\ q + 1 \in 1 .. (q + 1)
  BY <1>1
<1>3. /\ bl[q] = bl[q + 1] + Effect(td[1])
      /\ bl[q + 1] \in Nat
      /\ \A s, r \in 1 .. (q + 1) :
           s < r /\ Up(td, r) \in Makers /\ Up(td, s) \in Bound
             => bl[s] < bl[r] \/ Up(td, s + 1) = "chain"
  BY <1>1, <1>2 DEF DepthsFit
<1>4. Effect(td[1]) = 0
  BY DEF Effect, Makers, Inner, Elses, Openers, Closers
<1>5. bl[q] = bl[q + 1]
  BY <1>3, <1>4
<1> SUFFICES ASSUME NEW s \in 1 .. q, Up(td2, s) \in Bound
             PROVE  bl[s] < bl[q] \/ Up(td2, s + 1) = "chain"
  BY DEF ClearBelow
<1>6. s \in 1 .. (q + 1) /\ s < q + 1 /\ Up(td, s) \in Bound
  BY <1>1
<1>7. bl[s] < bl[q + 1] \/ Up(td, s + 1) = "chain"
  BY <1>1, <1>2, <1>3, <1>6
<1>8. CASE s # q
  <2>1. s + 1 \in 1 .. q
    BY <1>1, <1>8
  <2> QED
    BY <2>1, <1>1, <1>5, <1>7
<1>9. CASE s = q
  <2>1. ~(bl[q] < bl[q + 1])
    BY <1>3, <1>5
  <2>2. td[1] = "chain"
    BY <2>1, <1>1, <1>7, <1>9
  <2>3. m \in 1 .. m /\ (q + m + 1) - m = s + 1
    BY <2>2, <1>1, <1>9
  <2> QED
    BY <2>2, <2>3, <1>1
<1> QED
  BY <1>8, <1>9

(* Without a new node, what the brackets hold and belong to stays the      *)
(* same.                                                                   *)
LEMMA KeptNodes ==
  ASSUME DInv, NEW st, IsStacks(tokens, current_token_idx, st),
         NodesNest(tokens, current_token_idx, ast, st),
         Stay \/ Advance, ast' = ast,
         NEW st2, st2 = StackOn(tokens, current_token_idx, st, current_token_idx')
  PROVE  /\ \A x : In(ast', st2, x) = In(ast, st, x) /\ Latest(ast', st2, x) = Latest(ast, st, x)
                   /\ LatestIf(ast', st2, x) = LatestIf(ast, st, x)
         /\ \A j : FilledIn(tokens', ast', j) = FilledIn(tokens, ast, j)
         /\ \A b \in 0 .. (current_token_idx - 1) : Holder(tokens', ast', st2, b)
              = Holder(tokens, ast, st, b)
<1>1. Grows(tokens, current_token_idx, ast, st, tokens', ast', st2) /\ tokens' = tokens
  BY Moved
<1>2. \A x : In(ast, st2, x) = In(ast, st, x)
  BY <1>1, GrownIn
<1>3. \A x : In(ast', st2, x) = In(ast, st, x)
  BY <1>2
<1>4. \A b \in 0 .. (current_token_idx - 1) : Holder(tokens', ast', st2, b)
        = Holder(tokens, ast, st, b)
  BY <1>1, GrownHolder
<1> QED
  BY <1>1, <1>3, <1>4 DEF Latest, LatestIf

(* A step that makes no node replaces the next item by these, m of them;   *)
(* s and s2 are the brackets open before and after it.                     *)
Does(st, st2, s, s2, items, m, deep) ==
  /\ Next1 \notin {"file", "end"} /\ UNCHANGED <<ast, open>> /\ (Stay \/ Advance)
  /\ st2 = StackOn(tokens, current_token_idx, st, current_token_idx')
  /\ s = st[current_token_idx] /\ s2 = st2[current_token_idx']
  /\ IsSeq(items) /\ Then(items) /\ m = Len(items) /\ \A i \in 1 .. m : items[i] # "end"
  /\ Sinks(items, m, deep)
  /\ \/ Next1 \in Makers /\ (Next1 = "chain" => m > 0 /\ items[m] = "chain")
     \/ \A i \in 1 .. m : items[i] \in Makers => deep[i] = 1
  /\ Brackets(s2, current_token_idx')
  /\ \A i \in 1 .. (Len(s) + Effect(Next1)) : i <= Len(s) => s2[i] = s[i]
  /\ (Len(s) + Effect(Next1)) + (IF m > 0 THEN deep[1] ELSE 0) = Len(s2)
  /\ Next1 \in Openers => Innermost = Holder(tokens', ast', st2, s2[Len(s) + Effect(Next1)])
  /\ ItemsPlaced(tokens', current_token_idx', items, m, ast', st2, Innermost,
                 s2[Len(s) + Effect(Next1)])

(* Such a step keeps NInv.                                                 *)
LEMMA DoNests ==
  ASSUME DInv, HInv, NEW st, NestsOn(tokens, current_token_idx, todo, open, ast, st),
         NEW st2, NEW s, NEW s2, NEW items, NEW m, NEW deep,
         Does(st, st2, s, s2, items, m, deep)
  PROVE  NInv'
<1> USE DEF Does
<1> DEFINE c == current_token_idx
           c2 == current_token_idx'
           q == Len(todo) - 1
<1>1. IsStacks(tokens, c, st) /\ NodesNest(tokens, c, ast, st)
  BY DEF NestsOn
<1>2. PICK lv, bl : CallsNest(tokens, c, todo, open, ast, st, lv, bl)
  BY DEF NestsOn
<1>3. /\ q \in Nat \ {0} /\ Len(todo) = q + 1 /\ Len(todo) >= 2
      /\ IsSeq(todo) /\ IsSeq(open) /\ Len(open) \in Nat
      /\ bl[q] = Len(s) + Effect(Next1) /\ bl[q] \in Nat \ {0}
      /\ lv[q] \in Nat /\ Len(open) = lv[q]
      /\ \A r \in 1 .. q : Up(todo, r) # "statement"
  BY <1>2, Here
<1>4. /\ IsStacks(tokens', c2, st2) /\ Grows(tokens, c, ast, st, tokens', ast', st2)
      /\ NodesNest(tokens', c2, ast', st2) /\ c2 \in Nat
  BY <1>1, Moved
<1>5. todo' = items \o Tail(todo) /\ ast' = ast /\ open' = open /\ todo[1] = Next1
  BY DEF Then, Next1
<1>6. Replaced(todo, todo', items, q, m)
  BY <1>3, <1>5, ReplacedIs
<1>7. DepthsFit(todo, bl)
  BY <1>2 DEF CallsNest
<1> HIDE DEF q, c, c2
<1>8. ClearBelow(todo', q, bl) \/ \A i \in 1 .. m : items[i] \in Makers => deep[i] = 1
  BY <1>5, <1>6, <1>7, Cleared
<1>9. KeepsLatest(tokens, ast, st, tokens', ast', st2, todo, q, bl, s)
  <2>1. /\ \A x : Latest(ast', st2, x) = Latest(ast, st, x)
             /\ LatestIf(ast', st2, x) = LatestIf(ast, st, x)
        /\ \A j : FilledIn(tokens', ast', j) = FilledIn(tokens, ast, j)
    BY <1>1, KeptNodes DEF c
  <2> QED
    BY <2>1 DEF KeepsLatest
<1>10. Innermost = NodeAt(open, Len(open))
  BY InnermostIs
<1>11. Len(open) = lv[q] + (IF m > 0 /\ items[m] = "end" THEN 1 ELSE 0)
  <2>1. m > 0 => items[m] # "end"
    <3>1. m \in Nat
      BY SeqFacts
    <3>2. m > 0 => m \in 1 .. m
      BY <3>1
    <3> QED
      BY <3>2
  <2> QED
    BY <2>1, <1>3
<1>12. \A i \in 1 .. bl[q] : i <= Len(st[c]) => st2[c2][i] = st[c][i]
  BY <1>3 DEF c, c2
<1>13. bl[q] + (IF m > 0 THEN deep[1] ELSE 0) = Len(st2[c2])
  BY <1>3 DEF c2
<1>14. todo[1] \in Openers => NodeAt(open, lv[q]) = Holder(tokens', ast', st2, st2[c2][bl[q]])
  BY <1>3, <1>5, <1>10 DEF c2
<1>15. ItemsPlaced(tokens', c2, items, m, ast', st2, NodeAt(open, Len(open)), st2[c2][bl[q]])
  BY <1>3, <1>10 DEF c2
<1>16. Brackets(st2[c2], c2) /\ KeepsLatest(tokens, ast, st, tokens', ast', st2, todo, q, bl,
         st[c])
  BY <1>9 DEF c2, c
<1>17. \E lv2, bl2 : CallsNest(tokens', c2, todo', open, ast', st2, lv2, bl2)
  <2>1. (\A i \in 1 .. m : i # m => items[i] # "end") /\ \A i \in 1 .. lv[q] : open[i] = open[i]
    OBVIOUS
  <2>2. c2 \in Nat /\ IsSeq(open) /\ \A r \in 1 .. q : Up(todo, r) # "statement"
    BY <1>3, <1>4
  <2>3. CallsNest(tokens, c, todo, open, ast, st, lv, bl)
          /\ Grows(tokens, c, ast, st, tokens', ast', st2)
    BY <1>2, <1>4
  <2>4. Pushes(tokens, c, todo, open, ast, st, lv, bl, tokens', c2, todo', open, ast', st2,
          items, q, m, deep)
    BY <1>6, <1>8, <1>11, <1>12, <1>13, <1>14, <1>15, <1>16, <2>1, <2>2, <2>3 DEF Pushes
  <2> QED
    BY <2>4, Pushed
<1>18. NestsOn(tokens', c2, todo', open', ast', st2)
  BY <1>4, <1>5, <1>17 DEF NestsOn
<1> QED
  BY <1>18 DEF NInv, c2

(* A token that opens and closes no bracket.                               *)
Neutral(t, c) == t[c] \notin {"{", "(", "}", ")"} \/ (t[c] = "(" /\ OpensTypeIn(t, c))

(* Past it the same brackets are open.                                     *)
LEMMA NeutralStack ==
  ASSUME NEW t, NEW c, NEW s, Neutral(t, c)
  PROVE  StackAfter(t, c, s) = s
<1>1. ~OpensIn(t, c) /\ ~ClosesIn(t, c)
  BY DEF Neutral, OpensIn, ClosesIn
<1> QED
  BY <1>1 DEF StackAfter

(* Items with no brackets are as deep as the call.                         *)
LEMMA Zeros ==
  ASSUME NEW items, NEW m \in Nat, \A i \in 1 .. m : items[i] \notin Openers \cup Closers,
         \A i \in 1 .. m : i # 1 => items[i] \notin Bound
  PROVE  Sinks(items, m, [i \in 1 .. m |-> 0])
<1> DEFINE deep == [i \in 1 .. m |-> 0]
<1>1. \A i \in 1 .. m : deep[i] = 0 /\ (i # m => deep[i + 1] = 0)
  <2>1. \A i \in 1 .. m : i # m => i + 1 \in 1 .. m
    OBVIOUS
  <2> QED
    BY <2>1
<1>2. \A i \in 1 .. m : Effect(items[i]) = 0
  BY DEF Effect
<1>3. \A i \in 1 .. m : \A j \in (i + 1) .. m : j \in 1 .. m /\ j # 1
  OBVIOUS
<1> HIDE DEF deep
<1>4. \A i \in 1 .. m : \A j \in (i + 1) .. m : items[j] \notin Bound
  BY <1>3
<1> SUFFICES Sinks(items, m, deep)
  BY DEF deep
<1>5. ASSUME NEW i \in 1 .. m
      PROVE  (IF i = m THEN 0 ELSE deep[i + 1]) = deep[i] + Effect(items[i])
  BY <1>1, <1>2
<1> QED
  BY <1>1, <1>4, <1>5 DEF Sinks

(* None of them waits for a bracket.                                       *)
LEMMA NothingFresh ==
  ASSUME NEW items, NEW m \in Nat, \A i \in 1 .. m : items[i] \notin Openers
  PROVE  \A i \in 1 .. m : ~FreshAt(items, i)
<1>1. \A i \in 1 .. m : i > 1 => i - 1 \in 1 .. m
  OBVIOUS
<1> QED
  BY <1>1 DEF FreshAt

(* No bracket is gone past.                                                 *)
SameStack == Stay \/ (Advance /\ Neutral(tokens, current_token_idx))

(* A step past no bracket, to items with no brackets, keeps NInv.          *)
LEMMA FlatNests ==
  ASSUME DInv, HInv, NEW st, NestsOn(tokens, current_token_idx, todo, open, ast, st),
         Next1 \notin {"file", "end"} \cup Openers \cup Closers, UNCHANGED <<ast, open>>,
           SameStack,
         NEW items, IsSeq(items), Then(items), NEW m, m = Len(items),
         \A i \in 1 .. m : items[i] \notin Openers \cup Closers \cup {"end", "file"},
         \A i \in 1 .. m : i # 1 => items[i] \notin Bound,
         \/ Next1 \in Makers /\ (Next1 = "chain" => m > 0 /\ items[m] = "chain")
         \/ \A i \in 1 .. m : items[i] \notin Makers,
         \A i \in 1 .. m : items[i] \in Inner =>
            \/ Next1 \in Inner /\ ~(Next1 = "statement"
                 /\ BeforeIn(tokens, current_token_idx) = "else")
            \/ i = 1 /\ items[1] = "statement" /\ BeforeIn(tokens', current_token_idx') = "else",
         \A i \in 1 .. m : items[i] \in Beginners => Next1 \in Beginners,
         \A i \in 1 .. m : items[i] \in Elses => Next1 \in Elses,
         m > 0 /\ items[1] = "statement" /\ BeforeIn(tokens', current_token_idx') = "else"
           => Next1 \in Elses
  PROVE  NInv'
<1> DEFINE c == current_token_idx
           c2 == current_token_idx'
           s == st[c]
           st2 == StackOn(tokens, c, st, c2)
           s2 == st2[c2]
           b == s[Len(s)]
           deep == [i \in 1 .. m |-> 0]
<1>0. IsStacks(tokens, c, st) /\ NodesNest(tokens, c, ast, st) /\ (Stay \/ Advance) /\ ast' = ast
  BY DEF NestsOn, SameStack
<1>1. PICK lv, bl : CallsNest(tokens, c, todo, open, ast, st, lv, bl)
  BY DEF NestsOn
<1>2. /\ c \in Nat \ {0} /\ Brackets(s, c) /\ Len(s) \in Nat \ {0}
      /\ Next1 \in Inner /\ ~(Next1 = "statement"
           /\ BeforeIn(tokens, current_token_idx) = "else") =>
           Innermost = Holder(tokens, ast, st, s[Len(s)])
      /\ Next1 \in Beginners =>
              Innermost # 0 /\ Innermost = FilledIn(tokens, ast, Latest(ast, st, s[Len(s)]))
      /\ Next1 \in Elses => Innermost # 0 /\ Innermost = LatestIf(ast, st, s[Len(s)])
  BY <1>1, Here
<1>3. s2 = s
  <2>1. /\ Stay => s2 = s
        /\ Advance => s2 = StackAfter(tokens, c, s)
    BY <1>0, Moved
  <2>2. Neutral(tokens, c) => StackAfter(tokens, c, s) = s
    BY NeutralStack
  <2> QED
    BY <2>1, <2>2 DEF SameStack
<1>4. c2 = c \/ c2 = c + 1
  BY <1>0 DEF Stay, Advance
<1>5. Brackets(s2, c2)
  <2>1. Brackets(s, c + 1)
    BY <1>2, StackFacts
  <2> HIDE DEF s, s2, c2
  <2> QED
    BY <1>2, <1>3, <1>4, <2>1
<1>6. m \in Nat
  BY SeqFacts
<1>7. Sinks(items, m, deep)
  BY <1>6, Zeros
<1>8. Effect(Next1) = 0
  BY DEF Effect
<1>9. b \in 0 .. (c - 1)
  <2>1. Len(s) \in 1 .. Len(s)
    BY <1>2
  <2> QED
    BY <2>1, <1>2 DEF Brackets
<1>10. /\ \A x : Latest(ast', st2, x) = Latest(ast, st, x)
                   /\ LatestIf(ast', st2, x) = LatestIf(ast, st, x)
       /\ \A j : FilledIn(tokens', ast', j) = FilledIn(tokens, ast, j)
       /\ \A x \in 0 .. (c - 1) : Holder(tokens', ast', st2, x) = Holder(tokens, ast, st, x)
  BY <1>0, KeptNodes
<1>11. m > 0 => deep[1] = 0
  BY <1>6
<1> HIDE DEF c, c2, st2, deep
<1>12. Len(s) + Effect(Next1) = Len(s) /\ s2[Len(s) + Effect(Next1)] = b
  BY <1>2, <1>3, <1>8
<1>13. (Len(s) + Effect(Next1)) + (IF m > 0 THEN deep[1] ELSE 0) = Len(s2)
  BY <1>2, <1>3, <1>11, <1>12
<1>14. ItemsPlaced(tokens', c2, items, m, ast', st2, Innermost, b)
  <2>1. ASSUME NEW i \in 1 .. m
        PROVE  /\ items[i] \in Inner \cup {"file"} /\ ~FreshAt(items, i)
                    /\ ~ElseAt(tokens', c2, items, i) =>
                     Innermost = Holder(tokens', ast', st2, b)
               /\ items[i] \in Beginners =>
                     Innermost # 0 /\ Innermost = FilledIn(tokens', ast', Latest(ast', st2, b))
               /\ items[i] \in Elses \/ ElseAt(tokens', c2, items, i) =>
                     Innermost # 0 /\ Innermost = LatestIf(ast', st2, b)
    <3>1. items[i] \in Inner \cup {"file"} /\ ~ElseAt(tokens', c2, items, i) =>
            Next1 \in Inner /\ ~(Next1 = "statement"
              /\ BeforeIn(tokens, current_token_idx) = "else")
      BY DEF ElseAt, c2
    <3>2. ElseAt(tokens', c2, items, i) => Next1 \in Elses
      BY <1>6 DEF ElseAt, c2
    <3> QED
      BY <3>1, <3>2, <1>2, <1>9, <1>10
  <2> QED
    BY <2>1 DEF ItemsPlaced
<1>15. Stay \/ Advance
  BY <1>0
<1>16. /\ st2 = StackOn(tokens, current_token_idx, st, current_token_idx')
       /\ s = st[current_token_idx] /\ s2 = st2[current_token_idx']
  BY DEF st2, c, c2
<1>17. Brackets(s2, current_token_idx')
       /\ ItemsPlaced(tokens', current_token_idx', items, m, ast', st2, Innermost,
            s2[Len(s) + Effect(Next1)])
  BY <1>5, <1>12, <1>14 DEF c2
<1>18. \A i \in 1 .. (Len(s) + Effect(Next1)) : i <= Len(s) => s2[i] = s[i]
  BY <1>3
<1> HIDE DEF s, s2, b
<1>19. \/ Next1 \in Makers /\ (Next1 = "chain" => m > 0 /\ items[m] = "chain")
       \/ \A i \in 1 .. m : items[i] \in Makers => deep[i] = 1
  OBVIOUS
<1>20. (\A i \in 1 .. m : items[i] # "end") /\ Next1 \notin Openers
         /\ Next1 \notin {"file", "end"}
  OBVIOUS
<1>21. Does(st, st2, s, s2, items, m, deep)
  BY <1>7, <1>13, <1>15, <1>16, <1>17, <1>18, <1>19, <1>20 DEF Does
<1> QED
  BY <1>21, DoNests

(* A step past no bracket that is done with an item keeps NInv.            *)
LEMMA PopNests ==
  ASSUME DInv, HInv, NEW st, NestsOn(tokens, current_token_idx, todo, open, ast, st),
         Next1 \notin {"file", "end"} \cup Openers \cup Closers, UNCHANGED <<ast, open>>,
           SameStack,
         Then(<<>>)
  PROVE  NInv'
<1> DEFINE items == <<>>
<1>1. IsSeq(items) /\ Len(items) = 0
  BY ShortSeqs
<1>2. Then(items)
  OBVIOUS
<1> HIDE DEF items
<1>3. \A i \in 1 .. 0 : FALSE
  OBVIOUS
<1>4. ~(0 > 0)
  OBVIOUS
<1> QED
  BY <1>1, <1>2, <1>3, <1>4, FlatNests

(* The items are known by their names.                                      *)
LEMMA FlatByNames ==
  ASSUME DInv, HInv, NEW st, NestsOn(tokens, current_token_idx, todo, open, ast, st),
         Next1 \notin {"file", "end"} \cup Openers \cup Closers, UNCHANGED <<ast, open>>,
           SameStack,
         NEW S, NEW items \in Seq(S), Then(items), items # <<>>,
         S \cap (Bound \cup Closers \cup {"end", "file"}) = {},
         S \cap Makers = {} \/ (Next1 \in Makers
           /\ (Next1 = "chain" => items[Len(items)] = "chain")),
         S \cap Inner = {} \/ (Next1 \in Inner
           /\ ~(Next1 = "statement" /\ BeforeIn(tokens, current_token_idx) = "else")),
         ~(items[1] = "statement" /\ BeforeIn(tokens', current_token_idx') = "else")
  PROVE  NInv'
<1> DEFINE m == Len(items)
<1>1. IsSeq(items) /\ \A i \in 1 .. m : items[i] \in S
  BY SeqOfItsOwn
<1>2. m \in Nat /\ m > 0
  BY <1>1, SeqFacts
<1>3. \A i \in 1 .. m : items[i] \notin Openers \cup Closers \cup {"end", "file"}
        /\ items[i] \notin Bound
  BY <1>1 DEF Bound, Beginners
<1>4. \A i \in 1 .. m : items[i] \notin Beginners /\ items[i] \notin Elses
  BY <1>3 DEF Bound
<1> HIDE DEF m
<1> QED
  BY <1>1, <1>2, <1>3, <1>4, FlatNests DEF m

(* The innermost brackets before and after the step.                        *)
LEMMA Afoot ==
  ASSUME DInv, HInv, NEW st, NestsOn(tokens, current_token_idx, todo, open, ast, st),
         Next1 # "file", Stay \/ Advance,
         ast' = ast \/ \E node : ast' = Append(ast, node) /\ node.pos = current_token_idx,
         NEW st2, st2 = StackOn(tokens, current_token_idx, st, current_token_idx'),
         NEW s, s = st[current_token_idx], NEW s2, s2 = st2[current_token_idx']
  PROVE  /\ current_token_idx \in Nat \ {0} /\ Brackets(s, current_token_idx)
              /\ Len(s) \in Nat \ {0}
         /\ Len(s) + Effect(Next1) \in Nat \ {0}
         /\ s[Len(s)] \in 0 .. (current_token_idx - 1)
         /\ SameStack => s2 = s /\ Brackets(s2, current_token_idx')
         /\ Advance => s2 = StackAfter(tokens, current_token_idx, s)
         /\ Advance /\ OpensIn(tokens, current_token_idx) =>
              s2 = Append(s, current_token_idx) /\ Brackets(s2, current_token_idx')
         /\ Advance /\ ClosesIn(tokens, current_token_idx) /\ Len(s) > 1 =>
              s2 = SubSeq(s, 1, Len(s) - 1) /\ Brackets(s2, current_token_idx')
         /\ Next1 \in Inner /\ ~(Next1 = "statement"
              /\ BeforeIn(tokens, current_token_idx) = "else") =>
              Innermost = Holder(tokens, ast, st, s[Len(s)])
         /\ Next1 \in Beginners =>
              Innermost # 0 /\ Innermost = FilledIn(tokens, ast, Latest(ast, st, s[Len(s)]))
         /\ Next1 \in Elses \/ (Next1 = "statement"
              /\ BeforeIn(tokens, current_token_idx) = "else") =>
              Innermost # 0 /\ Innermost = LatestIf(ast, st, s[Len(s)])
<1> DEFINE c == current_token_idx
           c2 == current_token_idx'
<1>0. IsStacks(tokens, c, st) /\ NodesNest(tokens, c, ast, st)
  BY DEF NestsOn
<1>1. PICK lv, bl : CallsNest(tokens, c, todo, open, ast, st, lv, bl)
  BY DEF NestsOn
<1>2. /\ c \in Nat \ {0} /\ Brackets(s, c) /\ Len(s) \in Nat \ {0}
      /\ Len(s) + Effect(Next1) \in Nat \ {0}
      /\ Next1 \in Inner /\ ~(Next1 = "statement" /\ BeforeIn(tokens, c) = "else") =>
              Innermost = Holder(tokens, ast, st, s[Len(s)])
      /\ Next1 \in Beginners =>
              Innermost # 0 /\ Innermost = FilledIn(tokens, ast, Latest(ast, st, s[Len(s)]))
      /\ Next1 \in Elses \/ (Next1 = "statement" /\ BeforeIn(tokens, c) = "else") =>
              Innermost # 0 /\ Innermost = LatestIf(ast, st, s[Len(s)])
  BY <1>1, Here
<1>3. /\ Stay => s2 = s
      /\ Advance => s2 = StackAfter(tokens, c, s)
  BY <1>0, Moved
<1>4. SameStack => s2 = s
  BY <1>3, NeutralStack DEF SameStack
<1>5. (Stay => c2 = c) /\ (Advance => c2 = c + 1)
  BY DEF Stay, Advance
<1>6. s[Len(s)] \in 0 .. (c - 1)
  <2>1. Len(s) \in 1 .. Len(s)
    BY <1>2
  <2> QED
    BY <2>1, <1>2 DEF Brackets
<1>7. /\ Brackets(s, c + 1) /\ Brackets(Append(s, c), c + 1)
      /\ Len(s) > 1 => Brackets(SubSeq(s, 1, Len(s) - 1), c + 1)
  BY <1>2, StackFacts
<1> HIDE DEF c, c2
<1>8. SameStack => Brackets(s2, c2)
  <2>1. SameStack => s2 = s /\ (c2 = c \/ c2 = c + 1)
    BY <1>4, <1>5
  <2>2. Brackets(s, c) /\ Brackets(s, c + 1)
    BY <1>2, <1>7
  <2> SUFFICES ASSUME SameStack PROVE Brackets(s2, c2)
    OBVIOUS
  <2>3. s2 = s
    BY <2>1
  <2>4. CASE c2 = c
    BY <2>2, <2>3, <2>4
  <2>5. CASE c2 = c + 1
    BY <2>2, <2>3, <2>5
  <2> QED
    BY <2>1, <2>4, <2>5
<1>9. OpensIn(tokens, c) => StackAfter(tokens, c, s) = Append(s, c)
  <2>1. OpensIn(tokens, c) => ~ClosesIn(tokens, c)
    BY DEF OpensIn, ClosesIn
  <2> QED
    BY <2>1, Zenon DEF StackAfter
<1>10. ClosesIn(tokens, c) => StackAfter(tokens, c, s) = SubSeq(s, 1, Len(s) - 1)
  <2>1. ClosesIn(tokens, c) => ~OpensIn(tokens, c)
    BY DEF OpensIn, ClosesIn
  <2> QED
    BY <2>1, Zenon DEF StackAfter
<1>11. Advance /\ OpensIn(tokens, c) => s2 = Append(s, c) /\ Brackets(s2, c2)
  BY <1>3, <1>5, <1>7, <1>9
<1>12. Advance /\ ClosesIn(tokens, c) /\ Len(s) > 1
         => s2 = SubSeq(s, 1, Len(s) - 1) /\ Brackets(s2, c2)
  BY <1>3, <1>5, <1>7, <1>10
<1> QED
  BY <1>2, <1>3, <1>4, <1>6, <1>8, <1>11, <1>12 DEF c, c2

(* Items in a bracket just opened, which the last of them closes, are one  *)
(* deeper.                                                                 *)
LEMMA Ones ==
  ASSUME NEW S, NEW items \in Seq(S), NEW m, m = Len(items),
         S \cap (Makers \cup Bound \cup {"file"}) = {},
         \A i \in 1 .. m : items[i] \in Closers <=> i = m
  PROVE  Sinks(items, m, [i \in 1 .. m |-> 1])
<1> DEFINE deep == [i \in 1 .. m |-> 1]
<1>1. m \in Nat /\ \A i \in 1 .. m : items[i] \in S
  BY SeqOfItsOwn, SeqFacts
<1>2. \A i \in 1 .. m : deep[i] = 1 /\ (i # m => deep[i + 1] = 1)
  <2>1. \A i \in 1 .. m : i # m => i + 1 \in 1 .. m
    BY <1>1
  <2> QED
    BY <2>1
<1>3. \A i \in 1 .. m : items[i] \notin Makers /\ items[i] \notin Bound
        /\ items[i] \notin Inner \cup {"file"}
  BY <1>1 DEF Makers
<1>4. \A i \in 1 .. m : items[i] \notin Openers
  BY <1>3 DEF Bound, Beginners
<1> HIDE DEF deep
<1> SUFFICES Sinks(items, m, deep)
  BY DEF deep
<1>5. ASSUME NEW i \in 1 .. m
      PROVE  (IF i = m THEN 0 ELSE deep[i + 1]) = deep[i] + Effect(items[i])
  <2>1. i = m => Effect(items[i]) = 0 - 1
    BY <1>4 DEF Effect
  <2>2. i # m => Effect(items[i]) = 0
    BY <1>4 DEF Effect
  <2> QED
    BY <2>1, <2>2, <1>2
<1>6. \A i \in 1 .. m : ~KnownAt(items, i)
  BY <1>3 DEF KnownAt
<1> QED
  BY <1>2, <1>3, <1>5, <1>6 DEF Sinks

(* A list of parameters goes on inside its bracket: NInv is kept.          *)
LEMMA DeepNests ==
  ASSUME DInv, HInv, NEW st, NestsOn(tokens, current_token_idx, todo, open, ast, st),
         UNCHANGED <<ast, open>>, Stay \/ Advance,
         \/ Next1 \in Closers /\ SameStack
         \/ Next1 = "receiver" /\ Advance /\ OpensIn(tokens, current_token_idx),
         NEW S, NEW items \in Seq(S), Then(items), NEW m, m = Len(items), m > 0,
         S \cap (Makers \cup Bound \cup {"end", "file"}) = {},
         \A i \in 1 .. m : items[i] \in Closers <=> i = m
  PROVE  NInv'
<1> DEFINE c == current_token_idx
           c2 == current_token_idx'
           st2 == StackOn(tokens, c, st, c2)
           s == st[c]
           s2 == st2[c2]
           deep == [i \in 1 .. m |-> 1]
<1>1. IsSeq(items) /\ m \in Nat /\ \A i \in 1 .. m : items[i] \in S
  BY SeqOfItsOwn, SeqFacts
<1>2. Sinks(items, m, deep)
  BY Ones
<1>3. Next1 \notin Openers /\ Next1 \notin {"file", "end"}
  BY DEF Closers, Openers
<1>4. Effect(Next1) = IF Next1 \in Closers THEN 0 - 1 ELSE 0
  BY <1>3 DEF Effect
<1>5. /\ c \in Nat \ {0} /\ Brackets(s, c) /\ Len(s) \in Nat \ {0}
      /\ Len(s) + Effect(Next1) \in Nat \ {0}
      /\ SameStack => s2 = s /\ Brackets(s2, c2)
      /\ Advance /\ OpensIn(tokens, c) => s2 = Append(s, c) /\ Brackets(s2, c2)
  BY <1>3, Afoot
<1>6. Len(Append(s, c)) = Len(s) + 1 /\ \A i \in 1 .. Len(s) : Append(s, c)[i] = s[i]
  BY <1>5, StackFacts
<1>7. deep[1] = 1 /\ \A i \in 1 .. m : deep[i] = 1
  BY <1>1
<1> HIDE DEF deep, c, c2, st2, s, s2
<1>8. "receiver" \notin Closers
  BY DEF Closers
<1>9. (Len(s) + Effect(Next1)) + 1 = Len(s2)
  <2>1. CASE Next1 \in Closers /\ SameStack
    BY <2>1, <1>4, <1>5
  <2>2. CASE Next1 = "receiver" /\ Advance /\ OpensIn(tokens, c)
    BY <2>2, <1>4, <1>5, <1>6, <1>8
  <2> QED
    BY <2>1, <2>2 DEF c
<1>10. \A i \in 1 .. (Len(s) + Effect(Next1)) : i <= Len(s) => s2[i] = s[i]
  <2>1. \A i \in 1 .. (Len(s) + Effect(Next1)) : i <= Len(s) => i \in 1 .. Len(s)
    BY <1>5
  <2> QED
    BY <2>1, <1>5, <1>6 DEF c
<1>11. \A i \in 1 .. m : items[i] \notin Inner \cup {"file"} /\ items[i] \notin Beginners
         /\ items[i] \notin Elses
                         /\ items[i] # "end" /\ items[i] # "statement" /\ items[i] \notin Makers
  BY <1>1 DEF Makers, Bound, Inner
<1>12. ItemsPlaced(tokens', c2, items, m, ast', st2, Innermost, s2[Len(s) + Effect(Next1)])
  BY <1>11 DEF ItemsPlaced, ElseAt
<1>13. Brackets(s2, c2)
  BY <1>5 DEF c
<1>14. (Len(s) + Effect(Next1)) + (IF m > 0 THEN deep[1] ELSE 0) = Len(s2)
  BY <1>7, <1>9
<1>15. \A i \in 1 .. m : items[i] \in Makers => deep[i] = 1
  BY <1>11
<1>16. \A i \in 1 .. m : items[i] # "end"
  BY <1>11
<1>17. /\ st2 = StackOn(tokens, current_token_idx, st, current_token_idx')
       /\ s = st[current_token_idx] /\ s2 = st2[current_token_idx']
            /\ Brackets(s2, current_token_idx')
       /\ ItemsPlaced(tokens', current_token_idx', items, m, ast', st2, Innermost,
            s2[Len(s) + Effect(Next1)])
  BY <1>12, <1>13 DEF st2, s, s2, c, c2
<1>18. Does(st, st2, s, s2, items, m, deep)
  BY <1>1, <1>2, <1>3, <1>10, <1>14, <1>15, <1>16, <1>17 DEF Does
<1> QED
  BY <1>18, DoNests

(* No items need no places.                                                *)
LEMMA Empty ==
  /\ IsSeq(<<>>) /\ Len(<<>>) = 0 /\ \A items, deep : Sinks(items, 0, deep)
  /\ \A t, c, items, nodes, st, k, b : ItemsPlaced(t, c, items, 0, nodes, st, k, b)
<1>1. IsSeq(<<>>) /\ Len(<<>>) = 0
  BY ShortSeqs
<1>2. \A i \in 1 .. 0 : FALSE
  OBVIOUS
<1> QED
  BY <1>1, <1>2 DEF Sinks, ItemsPlaced

(* A closing bracket is read: NInv is kept.                                *)
LEMMA CloseNests ==
  ASSUME DInv, HInv, NEW st, NestsOn(tokens, current_token_idx, todo, open, ast, st),
         UNCHANGED <<ast, open>>, Advance, Next1 \in Closers,
           ClosesIn(tokens, current_token_idx), Then(<<>>)
  PROVE  NInv'
<1> DEFINE c == current_token_idx
           c2 == current_token_idx'
           st2 == StackOn(tokens, c, st, c2)
           s == st[c]
           s2 == st2[c2]
           items == <<>>
<1>1. IsSeq(items) /\ Len(items) = 0 /\ (\A i \in 1 .. 0 : FALSE) /\ ~(0 > 0) /\ Then(items)
  BY ShortSeqs
<1>2. Next1 \notin Openers /\ Next1 \notin {"file", "end"}
  BY DEF Closers, Openers
<1>3. Effect(Next1) = 0 - 1
  BY <1>2 DEF Effect
<1>4. /\ c \in Nat \ {0} /\ Brackets(s, c) /\ Len(s) \in Nat \ {0}
      /\ Len(s) + Effect(Next1) \in Nat \ {0}
      /\ Len(s) > 1 => s2 = SubSeq(s, 1, Len(s) - 1) /\ Brackets(s2, c2)
  BY <1>2, Afoot
<1>5. Len(s) > 1 => /\ Len(SubSeq(s, 1, Len(s) - 1)) = Len(s) - 1
                    /\ \A i \in 1 .. (Len(s) - 1) : SubSeq(s, 1, Len(s) - 1)[i] = s[i]
  BY <1>4, StackFacts
<1> HIDE DEF c, c2, st2, s, s2, items
<1>6. Len(s) > 1 /\ Len(s) + Effect(Next1) = Len(s) - 1
  <2>1. \A n \in Nat : n + (0 - 1) \in Nat \ {0} => n > 1 /\ n + (0 - 1) = n - 1
    OBVIOUS
  <2> QED
    BY <2>1, <1>3, <1>4
<1>7. /\ \A i \in 1 .. (Len(s) + Effect(Next1)) : i <= Len(s) => s2[i] = s[i]
      /\ Len(s2) = Len(s) - 1 /\ Brackets(s2, c2)
  BY <1>4, <1>5, <1>6
<1>8. (Len(s) + Effect(Next1)) + (IF 0 > 0 THEN items[1] ELSE 0) = Len(s2)
  BY <1>4, <1>6, <1>7
<1>9. /\ st2 = StackOn(tokens, current_token_idx, st, current_token_idx')
      /\ s = st[current_token_idx] /\ s2 = st2[current_token_idx']
           /\ Brackets(s2, current_token_idx')
  BY <1>7 DEF st2, s, s2, c, c2
<1>10. Does(st, st2, s, s2, items, 0, items)
  BY <1>1, <1>2, <1>7, <1>8, <1>9, Empty DEF Does
<1> QED
  BY <1>10, DoNests

(* An opening bracket is read: NInv is kept.                               *)
LEMMA OpenNests ==
  ASSUME DInv, HInv, NEW st, NestsOn(tokens, current_token_idx, todo, open, ast, st),
         UNCHANGED <<ast, open>>, Advance, Next1 \in Openers, OpensIn(tokens, current_token_idx),
           Then(<<>>)
  PROVE  NInv'
<1> DEFINE c == current_token_idx
           c2 == current_token_idx'
           st2 == StackOn(tokens, c, st, c2)
           s == st[c]
           s2 == st2[c2]
           items == <<>>
           b == s[Len(s)]
<1>1. IsSeq(items) /\ Len(items) = 0 /\ (\A i \in 1 .. 0 : FALSE) /\ ~(0 > 0) /\ Then(items)
  BY ShortSeqs
<1>2. Next1 \in Beginners /\ Next1 \notin {"file", "end"}
  BY DEF Beginners, Openers
<1>3. Effect(Next1) = 1
  BY DEF Effect
<1>4. /\ c \in Nat \ {0} /\ Brackets(s, c) /\ Len(s) \in Nat \ {0}
      /\ b \in 0 .. (c - 1)
      /\ s2 = Append(s, c) /\ Brackets(s2, c2)
      /\ Innermost = FilledIn(tokens, ast, Latest(ast, st, b))
  BY <1>2, Afoot
<1>5. Len(Append(s, c)) = Len(s) + 1 /\ Append(s, c)[Len(s) + 1] = c
      /\ \A i \in 1 .. Len(s) : Append(s, c)[i] = s[i]
  BY <1>4, StackFacts
<1>6. IsStacks(tokens, c, st) /\ NodesNest(tokens, c, ast, st)
  BY DEF NestsOn
<1>7. Grows(tokens, c, ast, st, tokens', ast', st2) /\ tokens' = tokens /\ ast' = ast
  BY <1>6, Moved
<1>8. \A x : In(ast', st2, x) = In(ast, st, x)
  BY <1>6, KeptNodes
<1>9. Holder(tokens', ast', st2, c) = Innermost
  <2> HIDE DEF c, c2, st2, s
  <2>1. st2[c] = s /\ c # 0
    <3>1. c \in 1 .. c
      BY <1>4
    <3> QED
      BY <3>1, <1>4, <1>7 DEF Grows, s
  <2>2. \A j \in 1 .. Len(ast) : ast[j].pos <= c
    <3>1. \A j \in 1 .. Len(ast) : ast[j].pos \in 1 .. c
      BY <1>7 DEF Grows
    <3> QED
      BY <3>1, <1>4
  <2>3. UpTo(ast', c, In(ast', st2, b)) = In(ast, st, b)
    <3>1. UpTo(ast, c, In(ast, st, b)) = In(ast, st, b)
      BY <2>2 DEF UpTo, In
    <3> QED
      BY <3>1, <1>7, <1>8
  <2>4. InnermostOf(st2[c]) = b
    BY <2>1 DEF InnermostOf
  <2>5. \A j : FilledIn(tokens', ast', j) = FilledIn(tokens, ast, j)
    BY <1>7
  <2> QED
    BY <2>1, <2>3, <2>4, <2>5, <1>4 DEF Holder, Latest
<1> HIDE DEF c, c2, st2, s, s2, items
<1>10. /\ \A i \in 1 .. (Len(s) + Effect(Next1)) : i <= Len(s) => s2[i] = s[i]
       /\ Len(s2) = Len(s) + 1 /\ Brackets(s2, c2) /\ s2[Len(s) + Effect(Next1)] = c
  <2>1. \A i \in 1 .. (Len(s) + 1) : i <= Len(s) => i \in 1 .. Len(s)
    BY <1>4
  <2> QED
    BY <2>1, <1>3, <1>4, <1>5
<1>11. (Len(s) + Effect(Next1)) + (IF 0 > 0 THEN items[1] ELSE 0) = Len(s2)
  BY <1>3, <1>4, <1>10
<1>12. /\ st2 = StackOn(tokens, current_token_idx, st, current_token_idx')
       /\ s = st[current_token_idx] /\ s2 = st2[current_token_idx']
            /\ Brackets(s2, current_token_idx')
       /\ Innermost = Holder(tokens', ast', st2, s2[Len(s) + Effect(Next1)])
  BY <1>9, <1>10 DEF st2, s, s2, c, c2
<1>13. Does(st, st2, s, s2, items, 0, items)
  BY <1>1, <1>2, <1>10, <1>11, <1>12, Empty DEF Does
<1> QED
  BY <1>13, DoNests

(* A sequence of three.                                                    *)
LEMMA Threes ==
  ASSUME NEW x, NEW y, NEW z
  PROVE  /\ IsSeq(<<x, y, z>>) /\ Len(<<x, y, z>>) = 3
         /\ <<x, y, z>>[1] = x /\ <<x, y, z>>[2] = y /\ <<x, y, z>>[3] = z
<1>1. <<x, y, z>> \in Seq({x, y, z})
  OBVIOUS
<1> QED
  BY <1>1, SeqOfItsOwn

(* The depths of an opening bracket, of what is in it and of the closing   *)
(* one.                                                                    *)
LEMMA ThisDeep ==
  \E deep : deep[1] = 0 /\ deep[2] = 1 /\ deep[3] = 1
<1>1. <<0, 1, 1>>[1] = 0 /\ <<0, 1, 1>>[2] = 1 /\ <<0, 1, 1>>[3] = 1
  BY Threes
<1> QED
  BY <1>1

(* The number of items of a block, by name.                                *)
Triple == 3

(* The places of three items.                                              *)
LEMMA OneToThree == \A i \in 1 .. 3 : i = 1 \/ i = 2 \/ i = 3
  OBVIOUS

(* What is in brackets is one deeper.                                       *)
LEMMA EnclosedSinks ==
  ASSUME NEW items, items[1] \in Openers, items[1] \notin Makers,
         items[2] \notin Openers \cup Closers \cup Bound,
         items[3] \in Closers, items[3] \notin Bound \cup Makers \cup Inner \cup {"file"},
         NEW deep, deep[1] = 0, deep[2] = 1, deep[3] = 1
  PROVE  Sinks(items, 3, deep)
<1>1. /\ Effect(items[1]) = 1 /\ Effect(items[2]) = 0 /\ Effect(items[3]) = 0 - 1
  <2>1. items[3] \notin Openers
    BY DEF Bound, Beginners
  <2> QED
    BY <2>1 DEF Effect
<1>2. FreshAt(items, 2) /\ ~KnownAt(items, 3)
  <2>1. 2 > 1 /\ 2 - 1 = 1
    OBVIOUS
  <2> QED
    BY <2>1 DEF FreshAt, KnownAt
<1>3. ~KnownAt(items, 2)
  BY <1>2 DEF KnownAt
<1>4. \A i \in 1 .. 3 : deep[i] \in {0, 1}
  BY OneToThree
<1>5. \A i \in 1 .. 3 : (IF i = 3 THEN 0 ELSE deep[i + 1]) = deep[i] + Effect(items[i])
  <2>1. 1 + 1 = 2 /\ 2 + 1 = 3 /\ 1 # 3 /\ 2 # 3 /\ 0 + 1 = 1 /\ 1 + 0 = 1 /\ 1 + (0 - 1) = 0
    OBVIOUS
  <2> QED
    BY <2>1, <1>1, OneToThree
<1>6. \A i \in 1 .. 3 : KnownAt(items, i) => deep[i] = 0
  BY <1>2, <1>3, OneToThree
<1>7. \A i \in 1 .. 3 : items[i] \in Makers => deep[i] # 0
  <2>1. 1 # 0
    OBVIOUS
  <2> QED
    BY <2>1, OneToThree
<1> QED
  BY <1>4, <1>5, <1>6, <1>7 DEF Sinks

(* A block is replaced by its brackets and its statements: NInv is kept.   *)
LEMMA ScopeNests ==
  ASSUME DInv, HInv, NEW st, NestsOn(tokens, current_token_idx, todo, open, ast, st),
         UNCHANGED <<ast, open>>, Stay, Next1 \in Beginners,
           Next1 \notin Openers \cup Closers \cup {"file", "end"},
         NEW items, IsSeq(items), NEW m, m = Triple, Len(items) = m, Then(items),
         items[1] \in Openers, items[1] \notin Inner \cup Elses \cup Makers \cup {"end", "file"},
         items[2] \notin Bound \cup Closers \cup Openers \cup Elses \cup Beginners
           \cup {"end", "file"},
         items[3] \notin Inner \cup Elses \cup Makers \cup Bound \cup Beginners \cup Openers
           \cup {"end", "file"},
         items[3] \in Closers
  PROVE  NInv'
<1> DEFINE c == current_token_idx
           c2 == current_token_idx'
           st2 == StackOn(tokens, c, st, c2)
           s == st[c]
           s2 == st2[c2]
           b == s[Len(s)]
<1>2. PICK deep : deep[1] = 0 /\ deep[2] = 1 /\ deep[3] = 1
  BY ThisDeep
<1>3. SameStack
  BY DEF SameStack
<1>4. Effect(Next1) = 0 /\ Next1 # "file"
  BY DEF Effect
<1>5. /\ c \in Nat \ {0} /\ Brackets(s, c) /\ Len(s) \in Nat \ {0}
      /\ b \in 0 .. (c - 1)
      /\ s2 = s /\ Brackets(s2, c2)
      /\ Innermost # 0 /\ Innermost = FilledIn(tokens, ast, Latest(ast, st, b))
  BY <1>3, <1>4, Afoot
<1>6. IsStacks(tokens, c, st) /\ NodesNest(tokens, c, ast, st)
  BY DEF NestsOn
<1>7. /\ \A x : Latest(ast', st2, x) = Latest(ast, st, x)
      /\ \A j : FilledIn(tokens', ast', j) = FilledIn(tokens, ast, j)
  BY <1>6, KeptNodes
<1> HIDE DEF c, c2, st2, s, s2, b
<1>11. FreshAt(items, 2) /\ \A i \in 1 .. m : ~ElseAt(tokens', c2, items, i)
  <2>1. 2 > 1 /\ 2 - 1 = 1
    OBVIOUS
  <2>2. items[1] # "statement"
    BY DEF Inner
  <2> QED
    BY <2>1, <2>2 DEF ElseAt, FreshAt
<1>12. Sinks(items, m, deep)
  BY <1>2, EnclosedSinks DEF Triple
<1>13. ItemsPlaced(tokens', c2, items, m, ast', st2, Innermost, b)
  <2>1. ASSUME NEW i \in 1 .. m
        PROVE  /\ items[i] \in Inner \cup {"file"} => FreshAt(items, i)
               /\ items[i] \notin Elses
    BY <1>11, OneToThree DEF Triple
  <2> QED
    BY <1>5, <1>7, <1>11, <2>1 DEF ItemsPlaced
<1>14. \A i \in 1 .. m : items[i] # "end" /\ (items[i] \in Makers => deep[i] = 1)
  BY <1>2, OneToThree DEF Openers, Closers, Triple
<1>15. Len(s) + Effect(Next1) = Len(s)
  <2>1. \A n \in Nat : n + 0 = n
    OBVIOUS
  <2> QED
    BY <2>1, <1>4, <1>5
<1>16. (Len(s) + Effect(Next1)) + (IF m > 0 THEN deep[1] ELSE 0) = Len(s2)
  <2>1. 3 > 0 /\ \A n \in Nat : n + 0 = n
    OBVIOUS
  <2> QED
    BY <2>1, <1>2, <1>5, <1>15 DEF Triple
<1>17. \A i \in 1 .. (Len(s) + Effect(Next1)) : i <= Len(s) => s2[i] = s[i]
  BY <1>5
<1>18. s2[Len(s) + Effect(Next1)] = b
  BY <1>5, <1>15 DEF b
<1>19. /\ st2 = StackOn(tokens, current_token_idx, st, current_token_idx')
       /\ s = st[current_token_idx] /\ s2 = st2[current_token_idx']
            /\ Brackets(s2, current_token_idx')
       /\ ItemsPlaced(tokens', current_token_idx', items, m, ast', st2, Innermost,
            s2[Len(s) + Effect(Next1)])
  BY <1>5, <1>13, <1>18 DEF st2, s, s2, c, c2
<1>20. /\ \A i \in 1 .. m : items[i] # "end"
       /\ \A i \in 1 .. m : items[i] \in Makers => deep[i] = 1
  BY <1>14
<1>21. Next1 \notin {"file", "end"} /\ Next1 \notin Openers /\ m = Len(items) /\ (Stay \/ Advance)
  OBVIOUS
<1>22. Does(st, st2, s, s2, items, m, deep)
  BY <1>12, <1>16, <1>17, <1>19, <1>20, <1>21 DEF Does
<1> QED
  BY <1>22, DoNests

(* What the tokens before the next item say of it.                          *)
LEMMA RestNow ==
  ASSUME DInv, HInv, Next1 \in Inner, Next1 = "statement" => Peek # "if"
  PROVE  BeforeIn(tokens, current_token_idx) # "else"
<1>1. HeadNests(tokens, current_token_idx, Next1, todo[2], ast)
  BY DEF HInv, Next1
<1> QED
  BY <1>1 DEF HeadNests, Resting, Peek

(* Next to one, two or three items that are known by their names.           *)
LEMMA FlatOne ==
  ASSUME DInv, HInv, NEW st, NestsOn(tokens, current_token_idx, todo, open, ast, st),
         Next1 \notin {"file", "end"} \cup Openers \cup Closers, UNCHANGED <<ast, open>>,
           SameStack,
         NEW x, Then(<<x>>), x \notin Bound \cup Closers \cup {"end", "file", "statement"},
         x \notin Makers \/ (x \in Inner /\ Next1 \in Inner
           /\ (Next1 = "statement" => Peek # "if"))
  PROVE  NInv'
<1> DEFINE items == <<x>>
<1>1. items \in Seq({x}) /\ items # <<>> /\ items[1] = x /\ Then(items)
  OBVIOUS
<1> HIDE DEF items
<1>2. Next1 \in Inner => Next1 # "chain" /\ Next1 \in Makers
  BY DEF Inner, Makers
<1>3. {x} \cap (Bound \cup Closers \cup {"end", "file"}) = {}
  OBVIOUS
<1>4. x \notin Makers => x \notin Inner
  BY DEF Makers
<1>5. {x} \cap Makers = {} \/ (Next1 \in Makers /\ Next1 # "chain")
  BY <1>2
<1>6. {x} \cap Inner = {} \/ (Next1 \in Inner /\ BeforeIn(tokens, current_token_idx) # "else")
  BY <1>4, RestNow
<1> QED
  BY <1>1, <1>3, <1>5, <1>6, FlatByNames

(* Two items, in the place of an item.                                     *)
LEMMA FlatTwo ==
  ASSUME DInv, HInv, NEW st, NestsOn(tokens, current_token_idx, todo, open, ast, st),
         Next1 \notin {"file", "end"} \cup Openers \cup Closers, UNCHANGED <<ast, open>>,
           SameStack,
         NEW x, NEW y, Then(<<x, y>>), {x, y}
             \cap (Bound \cup Closers \cup {"end", "file", "chain"}) = {},
         x = "statement" => Stay,
         {x, y} \cap Makers = {} \/ (Next1 \in Inner /\ Next1 # "statement")
  PROVE  NInv'
<1> DEFINE items == <<x, y>>
<1>1. items \in Seq({x, y}) /\ items # <<>> /\ items[1] = x /\ Then(items)
  OBVIOUS
<1> HIDE DEF items
<1>2. Next1 \in Inner => Next1 # "chain" /\ Next1 \in Makers
  BY DEF Inner, Makers
<1>3. Stay => BeforeIn(tokens', current_token_idx') = BeforeIn(tokens, current_token_idx)
  BY BeforeNow
<1>4. {x, y} \cap Inner # {} => {x, y} \cap Makers # {}
  BY DEF Makers
<1>5. {x, y} \cap Makers = {} \/ (Next1 \in Makers /\ Next1 # "chain")
  BY <1>2
<1>6. {x, y} \cap Inner = {} \/ (Next1 \in Inner /\ BeforeIn(tokens, current_token_idx) # "else")
  BY <1>4, RestNow
<1>7. ~(x = "statement" /\ BeforeIn(tokens', current_token_idx') = "else")
  <2> SUFFICES ASSUME x = "statement" PROVE BeforeIn(tokens', current_token_idx') # "else"
    OBVIOUS
  <2>1. x \in Inner
    BY DEF Inner
  <2> QED
    BY <2>1, <1>3, <1>6
<1> QED
  BY <1>1, <1>5, <1>6, <1>7, FlatByNames

(* Three items, in the place of an item.                                   *)
LEMMA FlatThree ==
  ASSUME DInv, HInv, NEW st, NestsOn(tokens, current_token_idx, todo, open, ast, st),
         Next1 \notin {"file", "end"} \cup Openers \cup Closers, UNCHANGED <<ast, open>>,
           SameStack,
         NEW x, NEW y, NEW z, Then(<<x, y, z>>),
           {x, y, z} \cap (Bound \cup Closers \cup {"end", "file", "statement"}) = {},
         {x, y, z} \cap Makers = {} \/ (Next1 = "chain" /\ z = "chain"
           /\ {x, y, z} \cap Inner = {})
  PROVE  NInv'
<1> DEFINE items == <<x, y, z>>
<1>1. items \in Seq({x, y, z}) /\ items # <<>> /\ items[1] = x /\ Then(items) /\ Len(items) = 3
        /\ items[3] = z
  OBVIOUS
<1> HIDE DEF items
<1>2. {x, y, z} \cap Inner = {}
  BY DEF Makers
<1>3. {x, y, z} \cap Makers = {} \/ (Next1 \in Makers /\ items[Len(items)] = "chain")
  BY <1>1 DEF Makers
<1> QED
  BY <1>1, <1>2, <1>3, FlatByNames

-----------------------------------------------------------------------------
(* The actions that make no node.                                          *)

(* NInv says nothing of the other variables.                               *)
LEMMA SameNests ==
  ASSUME NInv, UNCHANGED <<source, current_token_idx, locals>>
  PROVE  NInv'
<1>1. tokens' = tokens /\ current_token_idx' = current_token_idx /\ todo' = todo /\ ast' = ast
        /\ open' = open
  BY DEF source, locals
<1> QED
  BY <1>1 DEF NInv

(* An error keeps NInv.                                                    *)
LEMMA ExitNests ==
  ASSUME NEW st, NestsOn(tokens, current_token_idx, todo, open, ast, st),
         UNCHANGED <<source, current_token_idx, locals>>
  PROVE  NInv'
<1>1. NInv
  BY DEF NInv
<1> QED
  BY <1>1, SameNests

(* Past any token but a bracket the same brackets are open.                *)
LEMMA NeutralPeek ==
  ASSUME Advance, Peek \notin {"{", "(", "}", ")"}
  PROVE  SameStack
  BY DEF SameStack, Neutral, Peek

(* The last place before c, from another one before it.                    *)
LEMMA Between ==
  ASSUME NEW c \in Nat, NEW i \in 2 .. (c - 1)
  PROVE  c > 1 /\ (i # c - 1 => c - 1 \in (i + 1) .. c)
  OBVIOUS

(* A parenthesis after a name, or after "fn" that begins no type.           *)
LEMMA OpensHere ==
  ASSUME NEW t, NEW c \in Nat \ {0}, t[c] \in Openers,
         \/ t[c] = "{"
         \/ BeforeIn(t, c) \notin {"fn", "("}
         \/ BeforeIn(t, c) = "fn" /\ BeforeIn(t, c - 1) \notin TypeLeads
  PROVE  OpensIn(t, c)
<1>1. CASE t[c] = "{"
  BY <1>1 DEF OpensIn
<1>2. CASE t[c] = "("
  <2> SUFFICES ASSUME NEW i \in 2 .. (c - 1), t[i] = "fn", BeforeIn(t, i) \in TypeLeads,
                      \A j \in (i + 1) .. c : t[j] = "("
               PROVE  FALSE
    BY <1>2 DEF OpensIn, OpensTypeIn
  <2>0. t[c] # "{"
    BY <1>2
  <2>1. c > 1 /\ BeforeIn(t, c) = t[c - 1]
    BY Between DEF BeforeIn
  <2>2. CASE i = c - 1
    <3>1. BeforeIn(t, c) = "fn" /\ BeforeIn(t, c - 1) \in TypeLeads
      BY <2>1, <2>2
    <3> QED
      BY <2>0, <3>1
  <2>3. CASE i # c - 1
    <3>1. c - 1 \in (i + 1) .. c
      BY <2>3, Between
    <3>2. t[c - 1] = "("
      BY <3>1
    <3> QED
      BY <2>0, <2>1, <3>2
  <2> QED
    BY <2>2, <2>3
<1> QED
  BY <1>1, <1>2 DEF Openers

(* NInv is kept by a token that must come.                                 *)
LEMMA NExpect ==
  ASSUME DInv, HInv, NEW st, NestsOn(tokens, current_token_idx, todo, open, ast, st), Expect
  PROVE  NInv'
<1>1. CASE Exit
  BY <1>1, ExitNests DEF Exit
<1>2. CASE Next1 \in Punctuation \cup {"name", "expression"} /\ Peek \in Expected(Next1)
             /\ Advance
           /\ Then(<<>>) /\ UNCHANGED <<ast, open>>
  <2>1. current_token_idx \in Nat \ {0}
    BY BeforeNow
  <2>2. CASE Next1 \in Openers
    <3>1. Peek = Next1
      BY <1>2, <2>2 DEF Expected, Openers
    <3>2. Next1 = "(" => BeforeIn(tokens, current_token_idx) \notin {"fn", "("}
      <4>1. HeadNests(tokens, current_token_idx, Next1, todo[2], ast)
        BY DEF HInv, Next1
      <4> QED
        BY <4>1 DEF HeadNests
    <3>3. OpensIn(tokens, current_token_idx)
      BY <2>1, <2>2, <3>1, <3>2, OpensHere DEF Peek, Openers
    <3> QED
      BY <1>2, <2>2, <3>3, OpenNests
  <2>3. CASE Next1 \in {"}", ")"}
    <3>1. Peek = Next1
      BY <1>2, <2>3 DEF Expected
    <3>2. ClosesIn(tokens, current_token_idx) /\ Next1 \in Closers
      BY <2>3, <3>1 DEF Peek, ClosesIn, Closers
    <3> QED
      BY <1>2, <3>2, CloseNests
  <2>4. CASE Next1 \notin Openers \cup {"}", ")"}
    <3>1. Next1 \notin {"file", "end"} \cup Openers \cup Closers
      BY <1>2, <2>4 DEF Closers, Punctuation
    <3>2. Peek \notin {"{", "(", "}", ")"}
      BY <1>2, <2>4 DEF Expected, Openers, Identifiers, Builtins, Expressions, Punctuation
    <3> QED
      BY <1>2, <3>1, <3>2, NeutralPeek, PopNests
  <2> QED
    BY <2>2, <2>3, <2>4
<1> QED
  BY <1>1, <1>2 DEF Expect, At, Do

(* NInv is kept by a token that may come.                                  *)
LEMMA NConsumeIf ==
  ASSUME DInv, HInv, NEW st, NestsOn(tokens, current_token_idx, todo, open, ast, st), ConsumeIf
  PROVE  NInv'
<1>1. /\ Next1 \in {"mut?", "::?", ";?"} /\ Then(<<>>) /\ UNCHANGED <<ast, open>>
      /\ IF Peek = OptionalToken[Next1] THEN Advance ELSE Stay
  BY DEF ConsumeIf, At, Do, OptionalToken
<1>2. OptionalToken[Next1] \notin {"{", "(", "}", ")"}
  BY <1>1 DEF OptionalToken
<1>3. SameStack
  BY <1>1, <1>2, NeutralPeek DEF SameStack
<1>4. Next1 \notin {"file", "end"} \cup Openers \cup Closers
  BY <1>1 DEF Openers, Closers
<1> QED
  BY <1>1, <1>3, <1>4, PopNests

(* NInv is kept by the top level.                                          *)
LEMMA NTopLevel ==
  ASSUME DInv, HInv, NEW st, NestsOn(tokens, current_token_idx, todo, open, ast, st),
         ParseTopLevel
  PROVE  NInv'
<1>1. Next1 = "top_level" /\ Then(<<"declaration">>) /\ UNCHANGED <<ast, open>>
      /\ IF Peek = "pub" THEN Advance ELSE Stay
  BY DEF ParseTopLevel, At, DoPublic
<1>2. SameStack
  BY <1>1, NeutralPeek DEF SameStack
<1> QED
  BY <1>1, <1>2, FlatOne DEF Openers, Closers, Bound, Beginners, Elses, Inner, Makers

(* NInv is kept by a declaration.                                          *)
LEMMA NDeclaration ==
  ASSUME DInv, HInv, NEW st, NestsOn(tokens, current_token_idx, todo, open, ast, st),
         ParseDeclaration
  PROVE  NInv'
<1>1. CASE Exit
  BY <1>1, ExitNests DEF Exit
<1>2. ASSUME NEW x \in {"module", "function", "container", "field"}, Next1 = "declaration",
             Then(<<x>>),
             UNCHANGED <<ast, open>>, Stay \/ (Advance /\ Peek \in {"module", "type"})
      PROVE  NInv'
  <2>1. SameStack
    BY <1>2, NeutralPeek DEF SameStack
  <2>2. x \notin Bound \cup Closers \cup {"end", "file", "statement"} /\ x \in Inner
        /\ Next1 \in Inner /\ Next1 # "statement"
             /\ Next1 \notin {"file", "end"} \cup Openers \cup Closers
    BY <1>2 DEF Openers, Closers, Bound, Beginners, Elses, Inner
  <2> QED
    BY <1>2, <2>1, <2>2, FlatOne
<1> QED
  BY <1>1, <1>2 DEF ParseDeclaration, At, Do

(* NInv is kept by a chain of modules.                                     *)
LEMMA NChain ==
  ASSUME DInv, HInv, NEW st, NestsOn(tokens, current_token_idx, todo, open, ast, st), ParseChain
  PROVE  NInv'
<1>1. Next1 = "chain" => Next1 \notin {"file", "end"} \cup Openers \cup Closers
  BY DEF Openers, Closers
<1>2. CASE Next1 = "chain" /\ Peek = "::" /\ Advance /\ Then(<<"chain_module", "name", "chain">>)
           /\ UNCHANGED <<ast, open>>
  <2>1. SameStack
    BY <1>2, NeutralPeek
  <2>2. {"chain_module", "name", "chain"}
          \cap (Bound \cup Closers \cup {"end", "file", "statement"} \cup Inner) = {}
    BY DEF Openers, Closers, Bound, Beginners, Elses, Inner
  <2> QED
    BY <1>1, <1>2, <2>1, <2>2, FlatThree
<1>3. CASE Next1 = "chain" /\ Stay /\ Then(<<>>) /\ UNCHANGED <<ast, open>>
  BY <1>1, <1>3, PopNests DEF SameStack
<1> QED
  BY <1>2, <1>3 DEF ParseChain, At, Do

(* NInv is kept by a body that ends or goes on with one of its items.      *)
LEMMA NBody ==
  ASSUME DInv, HInv, NEW st, NestsOn(tokens, current_token_idx, todo, open, ast, st),
         Next1 \in {"module_body", "struct_body", "component_body", "statements"},
         NEW x \in {"top_level", "struct", "field", "member", "statement"},
         UNCHANGED <<ast, open>>,
         \/ Stay /\ Then(<<>>)
         \/ /\ Stay \/ (Advance /\ Peek \in {"type", "pub"} /\ x # "statement")
            /\ Then(<<x, Next1>>)
  PROVE  NInv'
<1>1. /\ {x, Next1} \cap (Bound \cup Closers \cup {"end", "file", "chain"}) = {}
      /\ Next1 \in Inner /\ Next1 # "statement"
           /\ Next1 \notin {"file", "end"} \cup Openers \cup Closers
  BY DEF Openers, Closers, Bound, Beginners, Elses, Inner
<1>2. SameStack
  BY NeutralPeek DEF SameStack
<1>3. CASE Then(<<>>)
  BY <1>1, <1>2, <1>3, PopNests
<1>4. CASE Then(<<x, Next1>>) /\ (x = "statement" => Stay)
  BY <1>1, <1>2, <1>4, FlatTwo
<1> QED
  BY <1>3, <1>4

(* NInv is kept by the body of a module.                                   *)
LEMMA NModuleBody ==
  ASSUME DInv, HInv, NEW st, NestsOn(tokens, current_token_idx, todo, open, ast, st),
         ParseModuleBody
  PROVE  NInv'
<1>1. Next1 = "module_body" /\ Stay /\ UNCHANGED <<ast, open>>
        /\ (Then(<<>>) \/ Then(<<"top_level", Next1>>))
  BY DEF ParseModuleBody, At, Do
<1> QED
  BY <1>1, NBody

(* Four items after the parenthesis of a receiver, the last of which reads *)
(* the parenthesis that closes it.                                         *)
LEMMA DeepFour ==
  ASSUME DInv, HInv, NEW st, NestsOn(tokens, current_token_idx, todo, open, ast, st),
         UNCHANGED <<ast, open>>, Next1 = "receiver", Advance, OpensIn(tokens, current_token_idx),
         NEW w, NEW x, NEW y, {w, x, y} \cap Closers = {}, NEW z \in Closers,
         {w, x, y, z} \cap (Makers \cup Bound \cup {"end", "file"}) = {}, Then(<<w, x, y, z>>)
  PROVE  NInv'
<1> DEFINE items == <<w, x, y, z>>
<1>1. items \in Seq({w, x, y, z}) /\ Len(items) = 4
      /\ items[1] = w /\ items[2] = x /\ items[3] = y /\ items[4] = z /\ Then(items)
  OBVIOUS
<1> HIDE DEF items
<1>2. (\A i \in 1 .. 4 : i = 1 \/ i = 2 \/ i = 3 \/ i = 4) /\ 1 # 4 /\ 2 # 4 /\ 3 # 4 /\ 4 > 0
  OBVIOUS
<1>3. \A i \in 1 .. 4 : items[i] \in Closers <=> i = 4
  BY <1>1, <1>2
<1>4. Len(items) > 0 /\ \A i \in 1 .. Len(items) : items[i] \in Closers <=> i = Len(items)
  BY <1>1, <1>2, <1>3
<1> QED
  BY <1>1, <1>4, DeepNests

(* NInv is kept by the receiver of a function.                             *)
LEMMA NReceiver ==
  ASSUME DInv, HInv, NEW st, NestsOn(tokens, current_token_idx, todo, open, ast, st),
         ParseReceiver
  PROVE  NInv'
<1>1. CASE Next1 = "receiver" /\ Stay /\ Then(<<>>) /\ UNCHANGED <<ast, open>>
  BY <1>1, PopNests DEF SameStack, Openers, Closers
<1>2. CASE Next1 = "receiver" /\ Peek = "(" /\ Advance /\ Then(<<"name", ":", "type_decl", ")">>)
             /\ UNCHANGED <<ast, open>>
  <2>1. HeadNests(tokens, current_token_idx, Next1, todo[2], ast)
    BY DEF HInv, Next1
  <2>2. BeforeIn(tokens, current_token_idx) = "fn"
          /\ BeforeIn(tokens, current_token_idx - 1) \notin TypeLeads
    BY <1>2, <2>1 DEF HeadNests
  <2>3. OpensIn(tokens, current_token_idx)
    <3>1. current_token_idx \in Nat \ {0}
      BY BeforeNow
    <3>2. tokens[current_token_idx] \in Openers
      BY <1>2 DEF Peek, Openers
    <3> QED
      BY <2>2, <3>1, <3>2, OpensHere
  <2>4. /\ {"name", ":", "type_decl"} \cap Closers = {} /\ ")" \in Closers
        /\ {"name", ":", "type_decl", ")"} \cap (Makers \cup Bound \cup {"end", "file"}) = {}
    BY DEF Bound, Beginners, Openers, Elses, Makers, Inner, Closers
  <2> QED
    BY <1>2, <2>3, <2>4, DeepFour
<1> QED
  BY <1>1, <1>2 DEF ParseReceiver, At, Do

(* One item in the place of one that reads a closing bracket.              *)
LEMMA DeepOne ==
  ASSUME DInv, HInv, NEW st, NestsOn(tokens, current_token_idx, todo, open, ast, st),
         UNCHANGED <<ast, open>>, SameStack, Next1 \in Closers,
         NEW x \in Closers, x \notin Makers \cup Bound \cup {"end", "file"}, Then(<<x>>)
  PROVE  NInv'
<1> DEFINE items == <<x>>
<1>1. items \in Seq({x}) /\ Then(items)
  OBVIOUS
<1>2. PICK m : m = Len(items) /\ m > 0 /\ \A i \in 1 .. m : i = m /\ items[i] = x
  <2>1. Len(items) = 1 /\ items[1] = x
    OBVIOUS
  <2> HIDE DEF items
  <2>2. (\A i \in 1 .. 1 : i = 1) /\ 1 > 0
    OBVIOUS
  <2> QED
    BY <2>1, <2>2
<1> HIDE DEF items
<1>3. \A i \in 1 .. m : items[i] \in Closers <=> i = m
  BY <1>2
<1> QED
  BY <1>1, <1>2, <1>3, DeepNests DEF SameStack

(* Two items in the place of one that reads a closing bracket.             *)
LEMMA DeepTwo ==
  ASSUME DInv, HInv, NEW st, NestsOn(tokens, current_token_idx, todo, open, ast, st),
         UNCHANGED <<ast, open>>, SameStack, Next1 \in Closers,
         NEW x, x \notin Closers, NEW y \in Closers,
           {x, y} \cap (Makers \cup Bound \cup {"end", "file"}) = {},
         Then(<<x, y>>)
  PROVE  NInv'
<1> DEFINE items == <<x, y>>
<1>1. items \in Seq({x, y}) /\ Len(items) = 2 /\ items[1] = x /\ items[2] = y /\ Then(items)
  OBVIOUS
<1> HIDE DEF items
<1>2. (\A i \in 1 .. 2 : i = 1 \/ i = 2) /\ 1 # 2 /\ 2 > 0
  OBVIOUS
<1>3. \A i \in 1 .. 2 : items[i] \in Closers <=> i = 2
  BY <1>1, <1>2
<1> QED
  BY <1>1, <1>2, <1>3, DeepNests DEF SameStack

(* NInv is kept by a list of parameters.                                   *)
LEMMA NParams ==
  ASSUME DInv, HInv, NEW st, NestsOn(tokens, current_token_idx, todo, open, ast, st), ParseParams
  PROVE  NInv'
<1>1. CASE Exit
  BY <1>1, ExitNests DEF Exit
<1>2. CASE Next1 = "params" /\ Peek = ")" /\ Advance /\ Then(<<>>) /\ UNCHANGED <<ast, open>>
  BY <1>2, CloseNests DEF Closers, ClosesIn, Peek
<1>3. CASE Next1 = "params" /\ Stay /\ Then(<<"param", "more_params">>) /\ UNCHANGED <<ast, open>>
  BY <1>3, DeepTwo DEF SameStack, Closers, Makers, Inner, Elses, Bound, Beginners, Openers
<1>4. CASE Next1 = "more_params" /\ Peek = "," /\ Advance /\ Then(<<"not_last", "params">>)
             /\ UNCHANGED <<ast, open>>
  <2>1. SameStack
    BY <1>4, NeutralPeek
  <2> QED
    BY <1>4, <2>1, DeepTwo DEF Closers, Makers, Inner, Elses, Bound, Beginners, Openers
<1>5. CASE Next1 = "more_params" /\ Stay /\ Then(<<")">>) /\ UNCHANGED <<ast, open>>
  BY <1>5, DeepOne DEF SameStack, Closers, Makers, Inner, Elses, Bound, Beginners, Openers
<1>6. CASE Next1 = "not_last" /\ Stay /\ Then(<<>>) /\ UNCHANGED <<ast, open>>
  BY <1>6, PopNests DEF SameStack, Openers, Closers
<1> QED
  BY <1>1, <1>2, <1>3, <1>4, <1>5, <1>6 DEF ParseParams, At, Do

(* Five items, in the place of an item.                                    *)
LEMMA FlatFive ==
  ASSUME DInv, HInv, NEW st, NestsOn(tokens, current_token_idx, todo, open, ast, st),
         Next1 \notin {"file", "end"} \cup Openers \cup Closers, UNCHANGED <<ast, open>>,
           SameStack,
         NEW v, NEW w, NEW x, NEW y, NEW z, Then(<<v, w, x, y, z>>),
         {v, w, x, y, z} \cap (Bound \cup Closers \cup {"end", "file", "statement"} \cup Makers)
           = {}
  PROVE  NInv'
<1> DEFINE items == <<v, w, x, y, z>>
<1>1. items \in Seq({v, w, x, y, z}) /\ items # <<>> /\ items[1] = v /\ Then(items)
  OBVIOUS
<1> HIDE DEF items
<1>2. {v, w, x, y, z} \cap Inner = {}
  BY DEF Makers
<1> QED
  BY <1>1, <1>2, FlatByNames

(* NInv is kept by a parameter.                                            *)
LEMMA NParam ==
  ASSUME DInv, HInv, NEW st, NestsOn(tokens, current_token_idx, todo, open, ast, st), ParseParam
  PROVE  NInv'
<1>1. CASE Exit
  BY <1>1, ExitNests DEF Exit
<1>2. CASE Next1 = "param" /\ Stay /\ Then(<<"mut?", "name", ":", "val?", "type_decl">>)
             /\ UNCHANGED <<ast, open>>
  BY <1>2, FlatFive DEF SameStack, Openers, Closers, Bound, Beginners, Elses, Makers, Inner
<1>3. CASE Next1 = "val?" /\ Peek = "val" /\ Advance /\ Then(<<"not_ref">>)
             /\ UNCHANGED <<ast, open>>
  <2>1. SameStack
    BY <1>3, NeutralPeek
  <2> QED
    BY <1>3, <2>1, FlatOne DEF Openers, Closers, Bound, Beginners, Elses, Makers, Inner
<1>4. CASE Next1 \in {"val?", "not_ref"} /\ Stay /\ Then(<<>>) /\ UNCHANGED <<ast, open>>
  BY <1>4, PopNests DEF SameStack, Openers, Closers
<1> QED
  BY <1>1, <1>2, <1>3, <1>4 DEF ParseParam, At, Do

(* NInv is kept by the name of a type.                                     *)
LEMMA NRegisterType ==
  ASSUME DInv, HInv, NEW st, NestsOn(tokens, current_token_idx, todo, open, ast, st), RegisterType
  PROVE  NInv'
<1>1. CASE Exit
  BY <1>1, ExitNests DEF Exit
<1>2. CASE Next1 = "type_name" /\ Peek \in Identifiers /\ Advance /\ Then(<<>>)
             /\ UNCHANGED <<ast, open>>
  <2>1. SameStack
    BY <1>2, NeutralPeek DEF Identifiers, Builtins
  <2> QED
    BY <1>2, <2>1, PopNests DEF Openers, Closers
<1> QED
  BY <1>1, <1>2 DEF RegisterType, At

(* NInv is kept by the body of a struct.                                   *)
LEMMA NStructBody ==
  ASSUME DInv, HInv, NEW st, NestsOn(tokens, current_token_idx, todo, open, ast, st),
         ParseStructBody
  PROVE  NInv'
<1>1. CASE Exit
  BY <1>1, ExitNests DEF Exit
<1>2. ASSUME NEW x \in {"struct", "field"}, Next1 = "struct_body", UNCHANGED <<ast, open>>,
             \/ Stay /\ Then(<<>>)
             \/ (Stay \/ (Advance /\ Peek = "type")) /\ Then(<<x, "struct_body">>)
      PROVE  NInv'
  BY <1>2, NBody
<1> QED
  BY <1>1, <1>2 DEF ParseStructBody, At, Do, DoPublic

(* NInv is kept by the body of a component.                                *)
LEMMA NComponentBody ==
  ASSUME DInv, HInv, NEW st, NestsOn(tokens, current_token_idx, todo, open, ast, st),
         ParseComponentBody
  PROVE  NInv'
<1>1. /\ Next1 = "component_body" /\ UNCHANGED <<ast, open>>
      /\ \/ Stay /\ Then(<<>>)
         \/ (Stay \/ (Advance /\ Peek = "pub")) /\ Then(<<"member", Next1>>)
  BY DEF ParseComponentBody, At, Do, DoPublic
<1> QED
  BY <1>1, NBody

(* NInv is kept by a member of a component.                                *)
LEMMA NMember ==
  ASSUME DInv, HInv, NEW st, NestsOn(tokens, current_token_idx, todo, open, ast, st), ParseMember
  PROVE  NInv'
<1>1. ASSUME NEW x \in {"container", "function", "field"}, Next1 = "member",
             UNCHANGED <<ast, open>>,
             Stay \/ (Advance /\ Peek = "type"), Then(<<x>>)
      PROVE  NInv'
  <2>1. SameStack
    BY <1>1, NeutralPeek DEF SameStack
  <2> QED
    BY <1>1, <2>1, FlatOne DEF Openers, Closers, Bound, Beginners, Elses, Makers, Inner
<1> QED
  BY <1>1 DEF ParseMember, At, Do

(* A step that makes no node, and leaves no call or one.                    *)
LEMMA NSmall ==
  ASSUME DInv, HInv, NEW st, NestsOn(tokens, current_token_idx, todo, open, ast, st),
         UNCHANGED <<ast, open>>, Stay \/ (Advance /\ Peek \notin {"{", "(", "}", ")"}),
         Next1 \notin {"file", "end"} \cup Openers \cup Closers,
         NEW x, x \notin Bound \cup Closers \cup {"end", "file", "statement"} \cup Makers,
         Then(<<>>) \/ Then(<<x>>)
  PROVE  NInv'
<1>1. SameStack
  BY NeutralPeek DEF SameStack
<1>2. CASE Then(<<>>)
  BY <1>1, <1>2, PopNests
<1>3. CASE Then(<<x>>)
  BY <1>1, <1>3, FlatOne
<1> QED
  BY <1>2, <1>3

(* What neither begins nor ends brackets or nodes.                          *)
Plain == {"expression", "type_path", "fn_ptr", "fn_ptr_params", "init_expr", "s{}", "a{}", ";?",
  ";", "not_ref"}

(* What plain items are not.                                               *)
LEMMA PlainItem ==
  ASSUME NEW x \in Plain
  PROVE  /\ x \notin Bound \cup Closers \cup {"end", "file", "statement"} \cup Makers
         /\ x \notin Openers \cup Closers \cup {"end", "file"}
  BY DEF Plain, Openers, Closers, Bound, Beginners, Elses, Makers, Inner

(* NInv is kept by the initial value of a field.                           *)
LEMMA NFieldInit ==
  ASSUME DInv, HInv, NEW st, NestsOn(tokens, current_token_idx, todo, open, ast, st), ParseField,
         Next1 = "field_init"
  PROVE  NInv'
<1>1. PICK x \in Plain : /\ UNCHANGED <<ast, open>> /\ (Stay \/ (Advance /\ Peek = "="))
                         /\ (Then(<<>>) \/ Then(<<x>>))
  BY DEF ParseField, At, Do, Plain
<1>2. Next1 \notin {"file", "end"} \cup Openers \cup Closers
  BY DEF Openers, Closers
<1> QED
  BY <1>1, <1>2, PlainItem, NSmall

(* NInv is kept by a block.                                                *)
LEMMA NScope ==
  ASSUME DInv, HInv, NEW st, NestsOn(tokens, current_token_idx, todo, open, ast, st), ParseScope
  PROVE  NInv'
<1>1. CASE Exit
  BY <1>1, ExitNests DEF Exit
<1>2. CASE Next1 = "scope" /\ Stay /\ Then(<<"{", "statements", "}">>) /\ UNCHANGED <<ast, open>>
  <2> DEFINE items == <<"{", "statements", "}">>
  <2>1. Then(items)
    BY <1>2
  <2>2. IsSeq(items) /\ Len(items) = Triple /\ items[1] = "{" /\ items[2] = "statements"
          /\ items[3] = "}"
    BY Threes DEF Triple
  <2> HIDE DEF items
  <2>3. /\ items[1] \in Openers /\ items[1] \notin Inner \cup Elses \cup Makers
             \cup {"end", "file"}
        /\ items[2] \notin Bound \cup Closers \cup Openers \cup Elses \cup Beginners
             \cup {"end", "file"}
        /\ items[3] \notin Inner \cup Elses \cup Makers \cup Bound \cup Beginners \cup Openers
             \cup {"end", "file"}
        /\ items[3] \in Closers
    BY <2>2 DEF Openers, Closers, Bound, Beginners, Elses, Makers, Inner
  <2>4. Next1 \in Beginners /\ Next1 \notin Openers \cup Closers \cup {"file", "end"}
    BY <1>2 DEF Beginners, Openers, Closers
  <2>5. UNCHANGED <<ast, open>> /\ Stay
    BY <1>2
  <2> HIDE <1>2
  <2> QED
    BY <2>1, <2>2, <2>3, <2>4, <2>5, ScopeNests
<1>3. CASE Next1 = "statements" /\ Stay /\ (Then(<<>>) \/ Then(<<"statement", Next1>>))
             /\ UNCHANGED <<ast, open>>
  BY <1>3, NBody
<1> QED
  BY <1>1, <1>2, <1>3 DEF ParseScope, At, Do

(* NInv is kept by a return.                                               *)
LEMMA NReturn ==
  ASSUME DInv, HInv, NEW st, NestsOn(tokens, current_token_idx, todo, open, ast, st),
         ReturnExpression
  PROVE  NInv'
<1>1. PICK x \in Plain : Next1 = "ret_expr" /\ UNCHANGED <<ast, open>> /\ Stay
        /\ (Then(<<>>) \/ Then(<<x>>))
  BY DEF ReturnExpression, At, Do, Plain
<1>2. Next1 \notin {"file", "end"} \cup Openers \cup Closers
  BY <1>1 DEF Openers, Closers
<1> QED
  BY <1>1, <1>2, PlainItem, NSmall

(* NInv is kept by the parts of a for statement.                           *)
LEMMA NFor ==
  ASSUME DInv, HInv, NEW st, NestsOn(tokens, current_token_idx, todo, open, ast, st), ForParts
  PROVE  NInv'
<1>1. ASSUME NEW x \in Plain, Next1 \in {"for_init", "for_condition", "for_increment"}, Stay,
             UNCHANGED <<ast, open>>,
             Then(<<>>) \/ Then(<<x>>)
      PROVE  NInv'
  <2>1. Next1 \notin {"file", "end"} \cup Openers \cup Closers
    BY <1>1 DEF Openers, Closers
  <2> QED
    BY <1>1, <2>1, PlainItem, NSmall
<1>2. CASE Next1 = "for_init" /\ Stay /\ UNCHANGED <<ast, open>> /\ Then(<<"statement", ";?">>)
  BY <1>2, FlatTwo DEF Openers, Closers, Bound, Beginners, Elses, Makers, Inner, SameStack
<1>4. CASE Next1 = "for_condition" /\ Stay /\ UNCHANGED <<ast, open>>
             /\ Then(<<"expression", ";">>)
  BY <1>4, FlatTwo DEF Openers, Closers, Bound, Beginners, Elses, Makers, Inner, SameStack
<1>5. {"expression", ";?", ";"} \subseteq Plain
  BY DEF Plain
<1>6. CASE At("for_init")
  BY <1>1, <1>2, <1>5, <1>6 DEF ForParts, At, Do
<1>7. CASE At("for_condition")
  BY <1>1, <1>4, <1>5, <1>7 DEF ForParts, At, Do
<1>8. CASE At("for_increment")
  BY <1>1, <1>5, <1>8 DEF ForParts, At, Do
<1> QED
  BY <1>6, <1>7, <1>8 DEF ForParts

(* NInv is kept by the type of a declaration.                              *)
LEMMA NTypeDecl ==
  ASSUME DInv, HInv, NEW st, NestsOn(tokens, current_token_idx, todo, open, ast, st),
         ParseTypeDecl
  PROVE  NInv'
<1>1. Next1 = "type_decl" /\ UNCHANGED <<ast, open>> /\ Stay /\ Then(<<"::?", "type_kind">>)
  BY DEF ParseTypeDecl, At, Do
<1> QED
  BY <1>1, FlatTwo DEF Openers, Closers, Bound, Beginners, Elses, Makers, Inner, SameStack

(* NInv is kept by the kinds of types.                                     *)
LEMMA NTypeKind ==
  ASSUME DInv, HInv, NEW st, NestsOn(tokens, current_token_idx, todo, open, ast, st),
         ParseTypeKind
  PROVE  NInv'
<1>1. CASE Exit
  BY <1>1, ExitNests DEF Exit
<1>2. CASE Next1 = "type_kind" /\ Advance /\ UNCHANGED <<ast, open>>
             /\ Peek \in Identifiers \cup {"*", "ref", "fn", "["}
  <2>1. SameStack
    BY <1>2, NeutralPeek DEF Identifiers, Builtins
  <2>2. Next1 \notin {"file", "end"} \cup Openers \cup Closers
    BY <1>2 DEF Openers, Closers
  <2>3. CASE Then(<<>>)
    BY <1>2, <2>1, <2>2, <2>3, PopNests
  <2>4. ASSUME NEW x \in Plain, Then(<<x>>)
        PROVE  NInv'
    BY <1>2, <2>1, <2>2, <2>4, PlainItem, FlatOne
  <2>5. ASSUME NEW x, NEW y, NEW z, Then(<<x, y, z>>),
               {x, y, z} \subseteq {"mut?", "type_decl", "end_ptr", "end_ref", "]", "array_sizes"}
        PROVE  NInv'
    <3>1. {x, y, z} \cap (Bound \cup Closers \cup {"end", "file", "statement"} \cup Makers) = {}
      BY <2>5 DEF Openers, Closers, Bound, Beginners, Elses, Makers, Inner
    <3> QED
      BY <1>2, <2>1, <2>2, <2>5, <3>1, FlatThree
  <2>6. CASE Then(<<"mut?", "type_decl", "end_ptr">>)
    BY <2>5, <2>6
  <2>7. CASE Then(<<"mut?", "type_decl", "end_ref">>)
    BY <2>5, <2>7
  <2>8. CASE Then(<<"type_decl", "]", "array_sizes">>)
    BY <2>5, <2>8
  <2>9. {"type_path", "fn_ptr"} \subseteq Plain
    BY DEF Plain
  <2>10. \/ Then(<<>>) \/ Then(<<"type_path">>) \/ Then(<<"fn_ptr">>)
         \/ Then(<<"mut?", "type_decl", "end_ptr">>) \/ Then(<<"mut?", "type_decl", "end_ref">>)
         \/ Then(<<"type_decl", "]", "array_sizes">>)
    BY <1>2 DEF ParseTypeKind, Do, DoType
  <2> QED
    BY <2>3, <2>4, <2>6, <2>7, <2>8, <2>9, <2>10
<1>3. /\ Next1 = "type_kind"
      /\ Exit \/ (Advance /\ Peek \in Identifiers \cup {"*", "ref", "fn", "["}
           /\ UNCHANGED <<ast, open>>)
  <2> HIDE <1>1, <1>2
  <2>1. Exit \/ (Advance /\ Peek \in Identifiers \cup {"*", "ref", "fn", "["})
    BY DEF ParseTypeKind, Identifiers, Builtins
  <2>2. Exit \/ UNCHANGED <<ast, open>>
    BY DEF ParseTypeKind, Do, DoType
  <2>3. Next1 = "type_kind"
    BY DEF ParseTypeKind, At
  <2> QED
    BY <2>1, <2>2, <2>3
<1> QED
  BY <1>1, <1>2, <1>3

(* NInv is kept by the path to a type.                                     *)
LEMMA NTypePath ==
  ASSUME DInv, HInv, NEW st, NestsOn(tokens, current_token_idx, todo, open, ast, st),
         ParseTypePath
  PROVE  NInv'
<1>1. CASE Next1 = "type_path" /\ UNCHANGED <<ast, open>> /\ Stay /\ Then(<<>>)
  BY <1>1, PopNests DEF Openers, Closers, SameStack
<1>2. CASE Next1 = "type_path" /\ UNCHANGED <<ast, open>> /\ Advance /\ Peek = "::"
             /\ Then(<<"name", "type_path">>)
  <2>1. SameStack
    BY <1>2, NeutralPeek
  <2> QED
    BY <1>2, <2>1, FlatTwo DEF Openers, Closers, Bound, Beginners, Elses, Makers, Inner
<1> QED
  BY <1>1, <1>2 DEF ParseTypePath, At, Do

(* NInv is kept by pointers and references.                                *)
LEMMA NPointers ==
  ASSUME DInv, HInv, NEW st, NestsOn(tokens, current_token_idx, todo, open, ast, st),
         EndPointer \/ EndReference
  PROVE  NInv'
<1>1. CASE Exit
  BY <1>1, ExitNests DEF Exit
<1>2. CASE Next1 \in {"end_ptr", "end_ref"} /\ UNCHANGED <<ast, open>> /\ Stay /\ Then(<<>>)
  BY <1>2, PopNests DEF Openers, Closers, SameStack
<1> QED
  BY <1>1, <1>2 DEF EndPointer, EndReference, At, DoType

(* NInv is kept by the sizes of an array.                                  *)
LEMMA NArraySizes ==
  ASSUME DInv, HInv, NEW st, NestsOn(tokens, current_token_idx, todo, open, ast, st),
         ParseArraySizes
  PROVE  NInv'
<1>1. CASE UNCHANGED <<source, current_token_idx, locals>>
  BY <1>1, ExitNests
<1>2. CASE Next1 = "array_sizes" /\ Peek = "[" /\ Advance
             /\ Then(<<"array_size", "]", "array_sizes">>) /\ UNCHANGED <<ast, open>>
  <2>1. SameStack
    BY <1>2, NeutralPeek
  <2>2. {"array_size", "]", "array_sizes"}
          \cap (Bound \cup Closers \cup {"end", "file", "statement"} \cup Makers) = {}
    BY DEF Openers, Closers, Bound, Beginners, Elses, Makers, Inner
  <2> QED
    BY <1>2, <2>1, <2>2, FlatThree DEF Openers, Closers
<1>3. CASE Next1 \in {"array_sizes", "array_size"} /\ (Stay \/ (Advance /\ Peek = "1"))
             /\ Then(<<>>) /\ UNCHANGED <<ast, open>>
  <2>1. SameStack
    BY <1>3, NeutralPeek DEF SameStack
  <2> QED
    BY <1>3, <2>1, PopNests DEF Openers, Closers
<1> QED
  BY <1>1, <1>2, <1>3 DEF ParseArraySizes, At, Do, DoType, Exit

(* NInv is kept by the initial value of a variable.                        *)
LEMMA NVarInit ==
  ASSUME DInv, HInv, NEW st, NestsOn(tokens, current_token_idx, todo, open, ast, st),
         ParseVarDecl,
         Next1 # "var_decl"
  PROVE  NInv'
<1>1. CASE UNCHANGED <<source, current_token_idx, locals>>
  BY <1>1, ExitNests
<1>2. CASE Next1 = "statement" /\ Peek = "let" /\ Advance /\ Then(<<"var_decl">>)
             /\ UNCHANGED <<ast, open>>
  <2>1. SameStack
    BY <1>2, NeutralPeek
  <2> QED
    BY <1>2, <2>1, FlatOne DEF Openers, Closers, Bound, Beginners, Elses, Makers, Inner
<1>3. ASSUME NEW x \in Plain, Next1 \in {"var_init", "init_expr"},
             Stay \/ (Advance /\ Peek = "="),
             Then(<<>>) \/ Then(<<x>>), UNCHANGED <<ast, open>>
      PROVE  NInv'
  <2>1. Next1 \notin {"file", "end"} \cup Openers \cup Closers
    BY <1>3 DEF Openers, Closers
  <2> QED
    BY <1>3, <2>1, PlainItem, NSmall
<1>4. {"init_expr", "expression", "s{}", "a{}"} \subseteq Plain
  BY DEF Plain
<1>5. CASE At("var_init")
  BY <1>3, <1>4, <1>5 DEF ParseVarDecl, At, Do
<1>6. CASE At("init_expr")
  BY <1>1, <1>3, <1>4, <1>6 DEF ParseVarDecl, At, Do
<1> QED
  BY <1>2, <1>5, <1>6 DEF ParseVarDecl, At, Do

(* An else goes on with the same if.                                       *)
LEMMA FlatElse ==
  ASSUME DInv, HInv, NEW st, NestsOn(tokens, current_token_idx, todo, open, ast, st),
         Next1 \in Elses, UNCHANGED <<ast, open>>, SameStack,
         NEW x, x \in Elses \/ (x = "statement"
             /\ BeforeIn(tokens', current_token_idx') = "else"), Then(<<x>>)
  PROVE  NInv'
<1> DEFINE items == <<x>>
<1>1. IsSeq(items) /\ Then(items)
  BY ShortSeqs
<1>2. PICK m : m = Len(items) /\ \A i \in 1 .. m : i = 1 /\ items[i] = x
  <2>1. Len(items) = 1 /\ items[1] = x
    OBVIOUS
  <2> HIDE DEF items
  <2>2. \A i \in 1 .. 1 : i = 1
    OBVIOUS
  <2> QED
    BY <2>1, <2>2
<1> HIDE DEF items
<1>3. x \notin Openers \cup Closers \cup {"end", "file"} \cup Beginners
      /\ (x \in Inner => x = "statement" /\ x \notin Elses)
  BY DEF Elses, Openers, Closers, Beginners, Inner
<1>4. Next1 \in Makers /\ Next1 # "chain"
        /\ Next1 \notin {"file", "end"} \cup Openers \cup Closers
  BY DEF Elses, Makers, Openers, Closers
<1>5. /\ \A i \in 1 .. m : items[i] \notin Openers \cup Closers \cup {"end", "file"}
      /\ \A i \in 1 .. m : i # 1 => items[i] \notin Bound
      /\ \A i \in 1 .. m : items[i] \notin Beginners
      /\ \A i \in 1 .. m : items[i] \in Elses => Next1 \in Elses
  BY <1>2, <1>3
<1>6. \A i \in 1 .. m : items[i] \in Inner =>
            i = 1 /\ items[1] = "statement" /\ BeforeIn(tokens', current_token_idx') = "else"
  BY <1>2, <1>3
<1> QED
  BY <1>1, <1>2, <1>4, <1>5, <1>6, FlatNests

(* NInv is kept by an else, where it makes no node.                        *)
LEMMA NElse ==
  ASSUME DInv, HInv, NEW st, NestsOn(tokens, current_token_idx, todo, open, ast, st), ElseBranch,
         ~(Next1 = "else_body" /\ Peek # "if")
  PROVE  NInv'
<1>1. CASE Next1 = "else_branch" /\ Peek = "else" /\ Advance /\ Then(<<"else_body">>)
             /\ UNCHANGED <<ast, open>>
  <2>1. SameStack
    BY <1>1, NeutralPeek
  <2> QED
    BY <1>1, <2>1, FlatElse DEF Elses
<1>2. CASE Next1 = "else_branch" /\ Stay /\ Then(<<>>) /\ UNCHANGED <<ast, open>>
  BY <1>2, PopNests DEF SameStack, Openers, Closers
<1>3. CASE Next1 = "else_body" /\ Stay /\ Then(<<"statement">>) /\ UNCHANGED <<ast, open>>
  <2>1. HeadNests(tokens, current_token_idx, Next1, todo[2], ast)
    BY DEF HInv, Next1
  <2>2. BeforeIn(tokens, current_token_idx) = "else"
    BY <1>3, <2>1 DEF HeadNests
  <2>3. BeforeIn(tokens', current_token_idx') = "else"
    BY <1>3, <2>2, BeforeNow
  <2> QED
    BY <1>3, <2>3, FlatElse DEF Elses, SameStack
<1> QED
  BY <1>1, <1>2, <1>3 DEF ElseBranch, At, Do

(* NInv is kept by a declaration of a type among statements.               *)
LEMMA NTypeStatement ==
  ASSUME DInv, HInv, NEW st, NestsOn(tokens, current_token_idx, todo, open, ast, st),
         ParseStatement,
         Peek = "type"
  PROVE  NInv'
<1>1. Next1 = "statement" /\ Advance /\ Then(<<"container">>) /\ UNCHANGED <<ast, open>>
  BY DEF ParseStatement, At, DoPublic, Exit, Expressions
<1>2. SameStack
  BY <1>1, NeutralPeek
<1> QED
  BY <1>1, <1>2, FlatOne DEF Openers, Closers, Bound, Beginners, Elses, Makers, Inner

(* The innermost node is complete.                                          *)
LEMMA NEndNode ==
  ASSUME DInv, HInv, NEW st, NestsOn(tokens, current_token_idx, todo, open, ast, st), EndNode
  PROVE  NInv'
<1> DEFINE c == current_token_idx
           c2 == current_token_idx'
           q == Len(todo) - 1
           s == st[c]
           st2 == StackOn(tokens, c, st, c2)
           op2 == SubSeq(open, 1, Len(open) - 1)
           items == <<>>
<1>0. IsStacks(tokens, c, st) /\ NodesNest(tokens, c, ast, st)
  BY DEF NestsOn
<1>1. Stay /\ Then(items) /\ ast' = ast /\ Next1 = "end" /\ open' = op2
  BY DEF EndNode, Stay
<1>2. IsSeq(items) /\ Len(items) = 0 /\ \A i \in 1 .. 0 : FALSE
  BY ShortSeqs
<1>3. ~(0 > 0)
  OBVIOUS
<1> HIDE DEF items
<1>4. PICK lv, bl : CallsNest(tokens, c, todo, open, ast, st, lv, bl)
  BY DEF NestsOn
<1>5. /\ q \in Nat \ {0} /\ Len(todo) = q + 1 /\ Len(todo) >= 2
      /\ IsSeq(todo) /\ IsSeq(open) /\ Len(open) \in Nat
      /\ c \in Nat \ {0} /\ Brackets(s, c) /\ Len(s) \in Nat \ {0}
      /\ bl[q] = Len(s) + Effect(Next1) /\ bl[q] \in Nat \ {0}
      /\ lv[q] \in Nat /\ Len(open) = lv[q] + 1
      /\ \A r \in 1 .. q : Up(todo, r) # "statement"
  BY <1>1, <1>4, Here
<1>6. /\ IsStacks(tokens', c2, st2) /\ Grows(tokens, c, ast, st, tokens', ast', st2)
      /\ NodesNest(tokens', c2, ast', st2) /\ c2 \in Nat /\ st2[c2] = s
  BY <1>0, <1>1, Moved
<1>7. Effect(Next1) = 0 /\ todo[1] = Next1 /\ Next1 \notin Openers
  BY <1>1 DEF Effect, Openers, Closers, Next1
<1>8. c2 = c
  BY <1>1 DEF Stay
<1>9. Replaced(todo, todo', items, q, 0)
  BY <1>1, <1>2, <1>5, ReplacedIs DEF Then
<1> HIDE DEF q, c, c2
<1>10. KeepsLatest(tokens, ast, st, tokens', ast', st2, todo, q, bl, s)
  <2>1. /\ \A x : Latest(ast', st2, x) = Latest(ast, st, x)
             /\ LatestIf(ast', st2, x) = LatestIf(ast, st, x)
        /\ \A j : FilledIn(tokens', ast', j) = FilledIn(tokens, ast, j)
    BY <1>0, <1>1, KeptNodes DEF c, c2
  <2> QED
    BY <2>1 DEF KeepsLatest
<1>11. IsSeq(op2) /\ Len(op2) = lv[q] /\ \A i \in 1 .. lv[q] : op2[i] = open[i]
  <2>1. open # <<>> /\ Len(open) - 1 = lv[q] /\ ~(Len(open) < 1)
    BY <1>5, SeqFacts
  <2> QED
    BY <2>1, <1>5, FrontSeq
<1> HIDE DEF op2, s, st2
<1>12. Brackets(st2[c2], c2) /\ \A i \in 1 .. bl[q] : i <= Len(st[c]) => st2[c2][i] = st[c][i]
  BY <1>5, <1>6, <1>8 DEF s
<1>13. bl[q] + (IF 0 > 0 THEN items[1] ELSE 0) = Len(st2[c2])
  <2>1. \A n \in Nat : (n + 0) + 0 = n
    OBVIOUS
  <2> QED
    BY <2>1, <1>3, <1>5, <1>6, <1>7
<1>14. Len(op2) = lv[q] + (IF 0 > 0 /\ items[0] = "end" THEN 1 ELSE 0)
  <2>1. \A n \in Nat : n + 0 = n
    OBVIOUS
  <2> QED
    BY <2>1, <1>3, <1>5, <1>11
<1>15. Pushes(tokens, c, todo, open, ast, st, lv, bl, tokens', c2, todo', op2, ast', st2, items,
         q, 0, items)
  BY <1>2, <1>4, <1>5, <1>6, <1>7, <1>9, <1>10, <1>11, <1>12, <1>13, <1>14, Empty DEF Pushes, s
<1>16. \E lv2, bl2 : CallsNest(tokens', c2, todo', op2, ast', st2, lv2, bl2)
  BY <1>15, Pushed
<1>17. NestsOn(tokens', c2, todo', open', ast', st2)
  BY <1>1, <1>6, <1>16 DEF NestsOn
<1> QED
  BY <1>17 DEF NInv, c2

(* Only the calls for the whole file are left.                              *)
LEMMA OneDeep ==
  ASSUME NEW lv, NEW bl, NEW td, NEW td2, NEW op, Len(td) = 1, LevelsUp(td, op, lv),
         DepthsFit(td, bl),
         Len(td2) = 2, Up(td2, 1) = "file", Up(td2, 2) = "top_level"
  PROVE  \E lv2, bl2 : /\ LevelsUp(td2, op, lv2) /\ DepthsFit(td2, bl2) /\ bl2[2] = bl[1]
                       /\ \A r \in 1 .. 2 : lv2[r] = lv[1] /\ bl2[r] = bl[1]
<1> DEFINE lv2 == [r \in 1 .. 2 |-> 0]
           bl2 == [r \in 1 .. 2 |-> 1]
<1>1. /\ lv[1] = 0 /\ Len(op) = 0 /\ bl[1] = 1
  BY DEF LevelsUp, DepthsFit
<1>2. /\ \A r \in 1 .. 2 : lv2[r] = 0 /\ bl2[r] = 1
      /\ lv2[1] = 0 /\ lv2[2] = 0 /\ bl2[1] = 1 /\ bl2[2] = 1
  OBVIOUS
<1>3. \A r \in 1 .. 2 : Up(td2, r) \in {"file", "top_level"}
  <2>1. \A r \in 1 .. 2 : r = 1 \/ r = 2
    OBVIOUS
  <2> QED
    BY <2>1
<1>4. \A r \in 1 .. 2 : Up(td2, r) # "end" /\ Effect(Up(td2, r)) = 0 /\ Up(td2, r) \notin Bound
  BY <1>3 DEF Effect, Openers, Closers, Bound, Beginners, Elses
<1>5. (\A r \in 1 .. (2 - 1) : r = 1) /\ 1 + 1 = 2 /\ 1 + 0 = 1 /\ 1 <= 1 /\ 0 <= 0
        /\ 0 \in 0 .. 0 /\ 1 \in Nat \ {0}
      /\ 1 \in 1 .. 2 /\ 2 \in 1 .. 2
  OBVIOUS
<1> HIDE DEF lv2, bl2
<1>6. LevelsUp(td2, op, lv2)
  BY <1>1, <1>2, <1>4, <1>5 DEF LevelsUp
<1>7. DepthsFit(td2, bl2)
  BY <1>1, <1>2, <1>4, <1>5 DEF DepthsFit
<1> QED
  BY <1>1, <1>2, <1>6, <1>7

(* NInv is kept by the whole file.                                         *)
LEMMA NFile ==
  ASSUME DInv, HInv, NEW st, NestsOn(tokens, current_token_idx, todo, open, ast, st), File
  PROVE  NInv'
<1> DEFINE c == current_token_idx
           c2 == current_token_idx'
           s == st[c]
           st2 == StackOn(tokens, c, st, c2)
           b == s[1]
<1>0. IsStacks(tokens, c, st) /\ NodesNest(tokens, c, ast, st)
  BY DEF NestsOn
<1>1. Stay /\ Then(<<"top_level", "file">>) /\ ast' = ast /\ Next1 = "file" /\ open' = open
  BY DEF File, At, Do
<1>2. PICK lv, bl : CallsNest(tokens, c, todo, open, ast, st, lv, bl)
  BY DEF NestsOn
<1>3. Len(todo) = 1
  <2>1. IsSeq(todo) /\ todo # <<>> /\ \A i \in 1 .. Len(todo) : todo[i] = "file" => i = Len(todo)
    BY DEF DInv, CallsFit, LevelsFit
  <2>2. 1 \in 1 .. Len(todo) /\ todo[1] = "file"
    BY <1>1, <2>1, SeqFacts DEF Next1
  <2> QED
    BY <2>1, <2>2
<1>4. /\ IsStacks(tokens', c2, st2) /\ Grows(tokens, c, ast, st, tokens', ast', st2)
      /\ NodesNest(tokens', c2, ast', st2) /\ c2 \in Nat /\ st2[c2] = s
  BY <1>0, <1>1, Moved
<1>5. c2 = c /\ c \in Nat \ {0}
  BY <1>1, BeforeNow DEF Stay
<1>6. Len(todo') = 2 /\ Up(todo', 1) = "file" /\ Up(todo', 2) = "top_level"
        /\ todo'[1] = "top_level"
  <2> DEFINE items == <<"top_level", "file">>
  <2>1. IsSeq(items) /\ Len(items) = 2 /\ items[1] = "top_level" /\ items[2] = "file"
    <3>1. items \in Seq({"top_level", "file"})
      OBVIOUS
    <3> QED
      BY <3>1, SeqOfItsOwn
  <2>2. todo' = items \o Tail(todo)
    BY <1>1 DEF Then
  <2> HIDE DEF items
  <2>6. IsSeq(todo) /\ todo # <<>>
    BY DEF DInv, CallsFit
  <2>3. /\ Len(items \o Tail(todo)) = Len(items) + (Len(todo) - 1)
        /\ \A i \in 1 .. Len(items) : (items \o Tail(todo))[i] = items[i]
    <3>1. IsSeq(items)
      BY <2>1
    <3> QED
      BY <2>6, <3>1, ThenSeq
  <2>4. 2 + (1 - 1) = 2 /\ 1 \in 1 .. 2 /\ 2 \in 1 .. 2 /\ (2 + 1) - 1 = 2 /\ (2 + 1) - 2 = 1
    OBVIOUS
  <2>5. Len(todo') = 2 /\ todo'[1] = "top_level" /\ todo'[2] = "file"
    BY <1>3, <2>1, <2>2, <2>3, <2>4
  <2> QED
    BY <2>4, <2>5 DEF Up
<1> HIDE DEF c, c2, s, st2, b
<1>7. /\ Brackets(s, c) /\ LevelsUp(todo, open, lv) /\ DepthsFit(todo, bl) /\ bl[1] = Len(s)
      /\ Placed(tokens, c, todo, open, ast, st, lv, bl, 1)
  <2>1. 1 \in 1 .. 1
    OBVIOUS
  <2> QED
    BY <1>2, <1>3, <2>1 DEF CallsNest, s
<1>8. PICK lv2, bl2 : /\ LevelsUp(todo', open, lv2) /\ DepthsFit(todo', bl2) /\ bl2[2] = bl[1]
                      /\ \A r \in 1 .. 2 : lv2[r] = lv[1] /\ bl2[r] = bl[1]
  BY <1>3, <1>6, <1>7, OneDeep
<1>9. NodeAt(open, lv[1]) = Holder(tokens, ast, st, s[bl[1]])
  <2>1. Up(todo, 1) = "file"
    <3>1. (1 + 1) - 1 = 1
      OBVIOUS
    <3> QED
      BY <3>1, <1>1, <1>3 DEF Up, Next1
  <2>2. ~(1 < 1)
    OBVIOUS
  <2>3. ~Pending(todo, 1)
    BY <2>2, <1>3 DEF Pending
  <2>4. ~AfterElse(tokens, c, todo, 1)
    BY <1>1 DEF AfterElse, Next1
  <2> QED
    BY <1>7, <2>1, <2>3, <2>4 DEF Placed, s
<1>10. s[bl[1]] \in 0 .. (c - 1)
  <2>1. bl[1] \in 1 .. Len(s)
    BY <1>5, <1>7, StackFacts
  <2> QED
    BY <1>7, <2>1 DEF Brackets
<1>11. NodeAt(open, lv[1]) = Holder(tokens', ast', st2, s[bl[1]])
  <2>1. Holder(tokens', ast', st2, s[bl[1]]) = Holder(tokens, ast, st, s[bl[1]])
    BY <1>4, <1>10, GrownHolder
  <2> QED
    BY <2>1, <1>9
<1>12. ASSUME NEW r \in 1 .. 2
       PROVE  Placed(tokens', c2, todo', open, ast', st2, lv2, bl2, r)
  <2>1. r = 1 \/ r = 2
    OBVIOUS
  <2>2. Up(todo', r) \in {"file", "top_level"}
    BY <2>1, <1>6
  <2>3. Up(todo', r) \notin Beginners /\ Up(todo', r) \notin Elses
    BY <2>2 DEF Beginners, Openers, Elses
  <2>4. ~AfterElse(tokens', c2, todo', r)
    BY <1>6 DEF AfterElse
  <2>5. st2[c2][bl2[r]] = s[bl[1]] /\ lv2[r] = lv[1]
    BY <1>4, <1>8
  <2> QED
    BY <2>3, <2>4, <2>5, <1>11 DEF Placed
<1>13. CallsNest(tokens', c2, todo', open, ast', st2, lv2, bl2)
  BY <1>4, <1>5, <1>6, <1>7, <1>8, <1>12 DEF CallsNest
<1>14. NestsOn(tokens', c2, todo', open', ast', st2)
  BY <1>1, <1>4, <1>13 DEF NestsOn
<1> QED
  BY <1>14 DEF NInv, c2

(* The two parentheses of a function's type.                                *)
LEMMA FirstOfType ==
  ASSUME NEW t, NEW c \in Nat \ {0}, t[c] = "(", BeforeIn(t, c) = "fn",
         BeforeIn(t, c - 1) \in TypeLeads
  PROVE  Neutral(t, c)
<1>1. c > 1 /\ t[c - 1] = "fn" /\ "{" \notin TypeLeads
  BY DEF BeforeIn, TypeLeads
<1>2. c - 1 > 1
  BY <1>1 DEF BeforeIn
<1>3. c - 1 \in 2 .. (c - 1) /\ \A j \in ((c - 1) + 1) .. c : j = c
  BY <1>2
<1>4. OpensTypeIn(t, c)
  BY <1>1, <1>3 DEF OpensTypeIn
<1> QED
  BY <1>4 DEF Neutral

(* The second one opens no bracket either.                                 *)
LEMMA SecondOfType ==
  ASSUME NEW t, NEW c \in Nat \ {0}, t[c] = "(", BeforeIn(t, c) = "(", BeforeIn(t, c - 1) = "fn",
         BeforeIn(t, c - 2) \in TypeLeads
  PROVE  Neutral(t, c)
<1>1. c > 1 /\ t[c - 1] = "(" /\ "{" \notin TypeLeads
  BY DEF BeforeIn, TypeLeads
<1>2. c - 1 > 1 /\ t[(c - 1) - 1] = "fn"
  BY <1>1 DEF BeforeIn
<1>3. c - 2 > 1 /\ (c - 1) - 1 = c - 2
  <2>1. c - 2 > 1
    BY <1>1 DEF BeforeIn
  <2> QED
    BY <2>1
<1>4. c - 2 \in 2 .. (c - 1) /\ \A j \in ((c - 2) + 1) .. c : j = c \/ j = c - 1
  BY <1>3
<1>5. OpensTypeIn(t, c)
  BY <1>1, <1>2, <1>3, <1>4 DEF OpensTypeIn
<1> QED
  BY <1>5 DEF Neutral

(* NInv is kept by the type of a function.                                 *)
LEMMA NFunctionPointer ==
  ASSUME DInv, HInv, NEW st, NestsOn(tokens, current_token_idx, todo, open, ast, st),
         ParseFunctionPointer
  PROVE  NInv'
<1>0. current_token_idx \in Nat \ {0} /\ HeadNests(tokens, current_token_idx, Next1, todo[2], ast)
  BY BeforeNow DEF HInv, Next1
<1>1. CASE Next1 = "fn_ptr" /\ Peek = "(" /\ Advance /\ Then(<<"fn_ptr_params">>)
             /\ UNCHANGED <<ast, open>>
  <2>1. BeforeIn(tokens, current_token_idx) = "fn"
          /\ BeforeIn(tokens, current_token_idx - 1) \in TypeLeads
    BY <1>0, <1>1 DEF HeadNests
  <2>2. SameStack
    BY <1>0, <1>1, <2>1, FirstOfType DEF SameStack, Peek
  <2> QED
    BY <1>1, <2>2, PlainItem, FlatOne DEF Plain
<1>2. CASE Next1 = "fn_ptr_params" /\ Peek = "(" /\ Advance /\ Then(<<"param", "fn_ptr_more">>)
             /\ UNCHANGED <<ast, open>>
  <2>1. /\ BeforeIn(tokens, current_token_idx) = "("
             /\ BeforeIn(tokens, current_token_idx - 1) = "fn"
        /\ BeforeIn(tokens, current_token_idx - 2) \in TypeLeads
    BY <1>0, <1>2 DEF HeadNests
  <2>2. SameStack
    BY <1>0, <1>2, <2>1, SecondOfType DEF SameStack, Peek
  <2> QED
    BY <1>2, <2>2, FlatTwo DEF Openers, Closers, Bound, Beginners, Elses, Makers, Inner
<1>3. CASE Next1 = "fn_ptr_more" /\ Peek = "," /\ Advance /\ Then(<<"param", "fn_ptr_more">>)
             /\ UNCHANGED <<ast, open>>
  <2>1. SameStack
    BY <1>3, NeutralPeek
  <2> QED
    BY <1>3, <2>1, FlatTwo DEF Openers, Closers, Bound, Beginners, Elses, Makers, Inner
<1>4. CASE Next1 = "fn_ptr_more" /\ Peek = ")" /\ Advance /\ Then(<<"fn_ptr_arrow">>)
             /\ UNCHANGED <<ast, open>>
  <2> DEFINE st2 == StackOn(tokens, current_token_idx, st, current_token_idx')
  <2>1. IsStacks(tokens, current_token_idx, st) /\ NodesNest(tokens, current_token_idx, ast, st)
    BY DEF NestsOn
  <2>2. IsStacks(tokens', current_token_idx', st2)
          /\ NodesNest(tokens', current_token_idx', ast', st2)
    BY <1>4, <2>1, Moved
  <2>3. todo'[1] = "fn_ptr_arrow"
    BY <1>4, ThenSeq, ShortSeqs DEF Then, DInv, CallsFit
  <2> HIDE DEF st2
  <2> QED
    BY <2>2, <2>3 DEF NInv, Doomed
<1>5. CASE Next1 \in {"fn_ptr", "fn_ptr_params", "fn_ptr_more", "fn_ptr_arrow"} /\ Stay
             /\ Then(<<>>) /\ UNCHANGED <<ast, open>>
  BY <1>5, PopNests DEF SameStack, Openers, Closers
<1>6. CASE Exit
  BY <1>6, ExitNests DEF Exit
<1>7. CASE (At("fn_ptr") \/ At("fn_ptr_params")) /\ Peek = "("
  BY <1>1, <1>2, <1>7 DEF ParseFunctionPointer, At, Do, DoType, Exit
<1>8. CASE ~((At("fn_ptr") \/ At("fn_ptr_params")) /\ Peek = "(")
  BY <1>3, <1>4, <1>5, <1>6, <1>8 DEF ParseFunctionPointer, At, Do, DoType
<1> QED
  BY <1>7, <1>8

-----------------------------------------------------------------------------
(* The steps that make a node.                                             *)

(* A node more, in the innermost bracket: it is the last one there, and the *)
(* other brackets are as they were.                                         *)
Added(t, c, nodes, st, t2, nodes2, st2, k, b) ==
  /\ k \in Nat \ {0} /\ nodes2[k].pos = c /\ st2[c] = st[c]
  /\ Latest(nodes2, st2, b) = k
  /\ nodes2[k].node = "IF" => LatestIf(nodes2, st2, b) = k
  /\ \A x : x # b => /\ LatestIf(nodes2, st2, x) = LatestIf(nodes, st, x)
                     /\ FilledIn(t2, nodes2, Latest(nodes2, st2, x))
                          = FilledIn(t, nodes, Latest(nodes, st, x))

(* A new node is the last one of its bracket.                              *)
LEMMA NewNode ==
  ASSUME NEW t, NEW c, NEW nodes, NEW st, NEW t2, NEW nodes2, NEW st2,
         Grows(t, c, nodes, st, t2, nodes2, st2),
         NEW k, k = Len(nodes) + 1, Len(nodes2) = k, NEW b, b = InnermostOf(st[c])
  PROVE  Added(t, c, nodes, st, t2, nodes2, st2, k, b)
<1>1. /\ c \in Nat \ {0} /\ Len(nodes) \in Nat /\ k \in 1 .. k /\ k > Len(nodes)
           /\ k \in Nat \ {0}
      /\ st2[c] = st[c] /\ nodes2[k].pos = c
      /\ \A j \in 1 .. Len(nodes) : nodes2[j] = nodes[j]
  <2>1. c \in Nat \ {0} /\ Len(nodes) \in Nat
    BY DEF Grows
  <2>2. k \in 1 .. k /\ k > Len(nodes) /\ k \in Nat \ {0} /\ c \in 1 .. c
    BY <2>1
  <2> QED
    BY <2>1, <2>2 DEF Grows
<1>2. k \in In(nodes2, st2, b)
  BY <1>1 DEF In
<1>3. \A x : In(nodes2, st2, x) \subseteq 1 .. k
  BY DEF In
<1>4. \A x : \A j \in In(nodes2, st2, x) : j \in Nat /\ j <= k
  BY <1>1, <1>3
<1>5. Latest(nodes2, st2, b) = k
  <2>1. In(nodes2, st2, b) \subseteq Nat
    BY <1>4
  <2> QED
    BY <1>2, <1>4, <2>1, LastIs DEF Latest
<1>6. nodes2[k].node = "IF" => LatestIf(nodes2, st2, b) = k
  <2>1. Ifs(nodes2, In(nodes2, st2, b)) \subseteq Nat
          /\ \A j \in Ifs(nodes2, In(nodes2, st2, b)) : j <= k
    BY <1>4 DEF Ifs
  <2>2. nodes2[k].node = "IF" => k \in Ifs(nodes2, In(nodes2, st2, b))
    BY <1>2 DEF Ifs
  <2> QED
    BY <2>1, <2>2, LastIs DEF LatestIf
<1>7. ASSUME NEW x, x # b
      PROVE  /\ LatestIf(nodes2, st2, x) = LatestIf(nodes, st, x)
             /\ FilledIn(t2, nodes2, Latest(nodes2, st2, x))
                  = FilledIn(t, nodes, Latest(nodes, st, x))
  <2>1. In(nodes2, st2, x) = In(nodes, st, x)
    BY <1>7, GrownIn
  <2>2. In(nodes, st, x) \subseteq 1 .. Len(nodes)
    BY DEF In
  <2>3. Ifs(nodes2, In(nodes, st, x)) = Ifs(nodes, In(nodes, st, x))
    BY <1>1, <2>2 DEF Ifs
  <2>4. Latest(nodes, st, x) \in 0 .. Len(nodes)
    BY <1>1, <2>2, LastFacts DEF Latest
  <2>5. FilledIn(t2, nodes2, Latest(nodes, st, x)) = FilledIn(t, nodes, Latest(nodes, st, x))
    BY <2>4, GrownFilled
  <2> QED
    BY <2>1, <2>3, <2>5 DEF Latest, LatestIf
<1> QED
  BY <1>1, <1>5, <1>6, <1>7 DEF Added

(* Where the new node belongs, when no chain and no "else" is before it.    *)
LEMMA NewParent ==
  ASSUME NEW t, NEW c, NEW nodes, NEW st, NEW t2, NEW nodes2, NEW st2,
         Grows(t, c, nodes, st, t2, nodes2, st2),
         NEW k, k = Len(nodes) + 1, Len(nodes2) = k, NEW b, b = InnermostOf(st[c]),
           b \in 0 .. (c - 1),
         BeforeIn(t2, c) \notin {"::", "else"}, nodes2[k].into = Holder(t, nodes, st, b)
  PROVE  NodeNests(t2, nodes2, st2, k)
<1>1. k \in Nat \ {0} /\ nodes2[k].pos = c /\ st2[c] = st[c]
  BY NewNode DEF Added
<1>2. ~IsChainedIn(t2, nodes2, k)
  BY <1>1 DEF IsChainedIn
<1>3. c \in Nat \ {0} /\ Len(nodes) \in Nat /\ \A i \in 1 .. c : st2[i] = st[i]
  BY DEF Grows
<1>4. InnermostOf(st2[c]) = b
  BY <1>1
<1>5. ParentOf(t2, nodes2, st2, k) =
        IF b = 0 THEN 0 ELSE LastOf(Earlier(k,
          UpTo(nodes2, b, In(nodes2, st2, InnermostOf(st2[b])))))
  BY <1>1, <1>4, Zenon DEF ParentOf
<1>6. CASE b = 0
  <2>1. FilledIn(t2, nodes2, ParentOf(t2, nodes2, st2, k)) = 0
    BY <1>5, <1>6 DEF FilledIn
  <2> QED
    BY <1>2, <1>6, <2>1 DEF NodeNests, Holder
<1>7. CASE b # 0
  <2> DEFINE S == UpTo(nodes, b, In(nodes, st, InnermostOf(st[b])))
  <2>1. b \in 1 .. c /\ st2[b] = st[b]
    BY <1>3, <1>7
  <2>2. UpTo(nodes2, b, In(nodes2, st2, InnermostOf(st2[b]))) = S
    BY <2>1, GrownUpTo
  <2>3. S \subseteq 1 .. Len(nodes)
    BY DEF UpTo, In
  <2>4. Earlier(k, S) = S
    BY <1>3, <2>3 DEF Earlier
  <2>5. LastOf(S) \in 0 .. Len(nodes)
    BY <1>3, <2>3, LastFacts
  <2>6. FilledIn(t2, nodes2, LastOf(S)) = FilledIn(t, nodes, LastOf(S))
    BY <2>5, GrownFilled
  <2>7. Holder(t, nodes, st, b) = FilledIn(t, nodes, LastOf(S))
    BY <1>7 DEF Holder
  <2>8. ParentOf(t2, nodes2, st2, k) = LastOf(S)
    BY <1>5, <1>7, <2>2, <2>4
  <2> QED
    BY <1>2, <2>6, <2>7, <2>8 DEF NodeNests
<1> QED
  BY <1>6, <1>7

(* Where it belongs after "else".                                           *)
LEMMA NewElse ==
  ASSUME NEW t, NEW c, NEW nodes, NEW st, NEW t2, NEW nodes2, NEW st2,
         Grows(t, c, nodes, st, t2, nodes2, st2),
         NEW k, k = Len(nodes) + 1, Len(nodes2) = k, NEW b, b = InnermostOf(st[c]),
         BeforeIn(t2, c) = "else", IsStacks(t, c, st), BeforeIn(t, c) = "else",
         \A j \in 1 .. Len(nodes) : nodes[j].pos < c, nodes2[k].into = LatestIf(nodes, st, b)
  PROVE  NodeNests(t2, nodes2, st2, k)
<1>1. k \in Nat \ {0} /\ nodes2[k].pos = c /\ st2[c] = st[c]
  BY NewNode DEF Added
<1>2. ~IsChainedIn(t2, nodes2, k)
  BY <1>1 DEF IsChainedIn
<1>3. /\ c \in Nat \ {0} /\ Len(nodes) \in Nat /\ \A i \in 1 .. c : st2[i] = st[i]
      /\ \A j \in 1 .. Len(nodes) : nodes2[j] = nodes[j] /\ nodes[j].pos \in 1 .. c
  BY DEF Grows
<1>4. c > 1 /\ t[c - 1] = "else"
  BY DEF BeforeIn
<1>5. c - 1 \in 1 .. (c - 1) /\ c - 1 \in 1 .. c /\ (c - 1) + 1 = c
  BY <1>3, <1>4
<1>6. st[c] = st[c - 1]
  <2>1. ~OpensIn(t, c - 1) /\ ~ClosesIn(t, c - 1)
    BY <1>4 DEF OpensIn, ClosesIn
  <2> DEFINE p == c - 1
  <2>2. st[p + 1] = CASE OpensIn(t, p) -> Append(st[p], p)
                     [] ClosesIn(t, p) -> SubSeq(st[p], 1, Len(st[p]) - 1)
                     [] OTHER -> st[p]
    BY <1>5 DEF IsStacks
  <2>3. ~OpensIn(t, p) /\ ~ClosesIn(t, p) /\ p + 1 = c
    BY <2>1, <1>5
  <2> HIDE DEF p
  <2>4. st[p + 1] = st[p]
    BY <2>2, <2>3, Zenon
  <2> QED
    BY <2>3, <2>4 DEF p
<1>7. InnermostOf(st2[c - 1]) = b
  BY <1>3, <1>5, <1>6
<1> DEFINE S == Ifs(nodes, In(nodes, st, b))
           S2 == Earlier(k, Ifs(nodes2, UpTo(nodes2, c - 1, In(nodes2, st2, b))))
<1>8. ParentOf(t2, nodes2, st2, k) = LastOf(S2)
  <2>1. ParentOf(t2, nodes2, st2, k) =
          LastOf(Earlier(k, Ifs(nodes2, UpTo(nodes2, c - 1,
              In(nodes2, st2, InnermostOf(st2[c - 1]))))))
    BY <1>1, Zenon DEF ParentOf
  <2> QED
    BY <2>1, <1>7
<1>9. S2 = S
  <2>1. In(nodes, st2, b) = In(nodes, st, b)
    BY GrownIn
  <2>2. In(nodes, st, b) \subseteq 1 .. Len(nodes)
    BY DEF In
  <2>3. In(nodes2, st2, b) \subseteq 1 .. k
    BY DEF In
  <2>4. \A j \in 1 .. Len(nodes) : j \in In(nodes2, st2, b) <=> j \in In(nodes, st, b)
    <3>1. \A j \in 1 .. Len(nodes) : j \in 1 .. k
      BY <1>3
    <3>2. \A j \in 1 .. Len(nodes) : j \in In(nodes2, st2, b) <=> j \in In(nodes, st2, b)
      BY <1>3, <3>1 DEF In
    <3> QED
      BY <3>2, <2>1
  <2>5. \A j \in 1 .. Len(nodes) : j < k /\ nodes[j].pos <= c - 1
    BY <1>3
  <2>6. \A j \in 1 .. k : j < k => j \in 1 .. Len(nodes)
    BY <1>3
  <2>7. \A j \in S2 : j \in S
    BY <1>3, <2>3, <2>4, <2>6 DEF Earlier, Ifs, UpTo
  <2>8. \A j \in S : j \in S2
    BY <1>3, <2>2, <2>4, <2>5 DEF Earlier, Ifs, UpTo
  <2> QED
    BY <2>7, <2>8
<1>10. FilledIn(t2, nodes2, LastOf(S)) = LastOf(S)
  <2>1. S \subseteq 1 .. Len(nodes)
    BY DEF Ifs, In
  <2>2. LastOf(S) \in {0} \cup S
    BY <1>3, <2>1, LastFacts
  <2>3. \A j \in S : ~IsChainedIn(t2, nodes2, j)
    BY <1>3, <2>1 DEF Ifs, IsChainedIn
  <2> QED
    BY <2>2, <2>3 DEF FilledIn
<1>11. nodes2[k].into = LastOf(S)
  BY DEF LatestIf
<1> HIDE DEF S, S2
<1> QED
  BY <1>2, <1>8, <1>9, <1>10, <1>11 DEF NodeNests

(* Whatever is bound to a bracket is outside the innermost one, where a node *)
(* is about to be made.                                                     *)
LEMMA Outside ==
  ASSUME DInv, HInv, NEW st, NEW lv, NEW bl,
         CallsNest(tokens, current_token_idx, todo, open, ast, st, lv, bl),
         Next1 \in Inner \cup Elses, NEW q, q = Len(todo) - 1, NEW s, s = st[current_token_idx]
  PROVE  \A r \in 1 .. q : Up(todo, r) \in Bound => s[bl[r]] # InnermostOf(s)
<1>1. Next1 \notin {"file", "end", "chain", "name", "chain_module"} /\ Next1 \in Makers
  BY DEF Inner, Elses, Makers
<1>2. /\ q \in Nat \ {0} /\ Len(todo) = q + 1 /\ IsSeq(todo)
      /\ Brackets(s, current_token_idx) /\ Len(s) \in Nat \ {0}
  BY <1>1, Here
<1>3. /\ DepthsFit(todo, bl) /\ bl[Len(todo)] = Len(s)
  BY DEF CallsNest
<1> SUFFICES ASSUME NEW r \in 1 .. q, Up(todo, r) \in Bound
             PROVE  s[bl[r]] # InnermostOf(s)
  OBVIOUS
<1>4. r \in 1 .. (q + 1) /\ q + 1 \in 1 .. (q + 1) /\ r < q + 1 /\ r + 1 \in 1 .. (q + 1)
      /\ (q + 1 + 1) - (q + 1) = 1 /\ (q + 1 + 1) - (r + 1) \in 1 .. (q + 1)
  BY <1>2
<1>5. Up(todo, q + 1) = Next1
  BY <1>2, <1>4 DEF Up, Next1
<1>6. bl[r] < bl[q + 1] \/ Up(todo, r + 1) = "chain"
  BY <1>1, <1>2, <1>3, <1>4, <1>5 DEF DepthsFit
<1>7. Up(todo, r + 1) # "chain"
  <2> DEFINE i == (q + 1 + 1) - (r + 1)
  <2>1. i \in 1 .. Len(todo) /\ Up(todo, r + 1) = todo[i] /\ todo[1] = Next1
    BY <1>2, <1>4 DEF Up, Next1
  <2>2. ChainFits(todo, ast)
    BY DEF DInv
  <2> HIDE DEF i
  <2>3. todo[i] = "chain" => i = 1 \/ Next1 \in {"name", "chain_module"}
    BY <2>1, <2>2 DEF ChainFits
  <2> QED
    BY <1>1, <2>1, <2>3
<1>8. bl[r] \in Nat \ {0} /\ bl[r] < Len(s)
  BY <1>2, <1>3, <1>4, <1>6, <1>7 DEF DepthsFit
<1>9. bl[r] \in 1 .. Len(s) /\ Len(s) \in 1 .. Len(s)
  BY <1>2, <1>8
<1>10. s[bl[r]] < s[Len(s)] /\ s[bl[r]] \in 0 .. (current_token_idx - 1)
  BY <1>2, <1>8, <1>9 DEF Brackets
<1>11. \A x, y \in 0 .. (current_token_idx - 1) : x < y => x # y
  OBVIOUS
<1>12. s[Len(s)] \in 0 .. (current_token_idx - 1)
  BY <1>2, <1>9 DEF Brackets
<1> QED
  BY <1>10, <1>11, <1>12 DEF InnermostOf

(* A node is made, in the innermost one: the items are inside it.           *)
LEMMA NodePushed ==
  ASSUME DInv, HInv, NEW st, NestsOn(tokens, current_token_idx, todo, open, ast, st),
         Next1 \in Inner \/ (Next1 \in Elses /\ BeforeIn(tokens, current_token_idx) = "else"),
           SameStack,
         NEW node, ast' = Append(ast, node), node.pos = current_token_idx, node.into = Innermost,
         open' = Append(open, Len(ast) + 1),
         NEW items, IsSeq(items), Then(items), NEW m, m = Len(items), m > 0, items[m] = "end",
         \A i \in 1 .. m : i # m => items[i] # "end",
         NEW deep, Sinks(items, m, deep), deep[1] = 0, items[1] # "statement",
         \A i \in 1 .. m : items[i] \in Inner \cup {"file"} => FreshAt(items, i),
         \A i \in 1 .. m : items[i] \in Elses => node.node = "IF"
  PROVE  NInv'
<1> DEFINE c == current_token_idx
           c2 == current_token_idx'
           q == Len(todo) - 1
           k == Len(ast) + 1
           s == st[c]
           st2 == StackOn(tokens, c, st, c2)
           b == InnermostOf(s)
           op2 == Append(open, k)
<1>0. IsStacks(tokens, c, st) /\ NodesNest(tokens, c, ast, st) /\ (Stay \/ Advance)
  BY DEF NestsOn, SameStack
<1>1. PICK lv, bl : CallsNest(tokens, c, todo, open, ast, st, lv, bl)
  BY DEF NestsOn
<1>2. Next1 \notin {"file", "end", "chain"} /\ Next1 \notin Openers \cup Closers
        /\ Next1 \in Makers
  BY DEF Inner, Elses, Makers, Openers, Closers
<1>3. /\ q \in Nat \ {0} /\ Len(todo) = q + 1 /\ Len(todo) >= 2
      /\ IsSeq(todo) /\ IsSeq(open) /\ IsSeq(ast) /\ Len(open) \in Nat /\ Len(ast) \in Nat
      /\ c \in Nat \ {0} /\ Brackets(s, c) /\ Len(s) \in Nat \ {0}
      /\ bl[q] = Len(s) + Effect(Next1) /\ bl[q] \in Nat \ {0}
      /\ lv[q] \in Nat /\ Len(open) = lv[q]
      /\ \A r \in 1 .. q : Up(todo, r) # "statement"
  BY <1>1, <1>2, HereAt
<1>3a. /\ Next1 \in Inner /\ ~(Next1 = "statement" /\ BeforeIn(tokens, c) = "else") =>
              Innermost = Holder(tokens, ast, st, s[Len(s)])
       /\ Next1 \in Elses \/ (Next1 = "statement" /\ BeforeIn(tokens, c) = "else") =>
              Innermost # 0 /\ Innermost = LatestIf(ast, st, s[Len(s)])
  BY <1>0, <1>2, Afoot
<1>4. /\ IsStacks(tokens', c2, st2) /\ Grows(tokens, c, ast, st, tokens', ast', st2)
      /\ \A j \in 1 .. Len(ast) : /\ ast'[j].pos \in 1 .. c2
                                  /\ InnermostOf(st2[ast'[j].pos]) \in 0 .. (ast'[j].pos - 1)
                                  /\ NodeNests(tokens', ast', st2, j)
      /\ tokens' = tokens /\ c2 \in Nat \ {0}
  BY <1>0, Moved
<1>5. st2[c2] = s /\ Brackets(s, c2)
  <2>1. \E n : ast' = Append(ast, n) /\ n.pos = current_token_idx
    OBVIOUS
  <2>2. Next1 # "file"
    BY <1>2
  <2> DEFINE s2 == st2[c2]
  <2>3. s2 = s /\ Brackets(s2, c2)
    BY <1>0, <2>1, <2>2, Afoot
  <2> QED
    BY <2>3
<1>6. Len(ast') = k /\ ast'[k] = node
  BY <1>3, AppendSeq
<1>7. IsSeq(op2) /\ Len(op2) = Len(open) + 1 /\ op2[Len(open) + 1] = k
      /\ \A i \in 1 .. Len(open) : op2[i] = open[i]
  <2>1. IsSeq(open)
    BY <1>3
  <2> HIDE DEF k
  <2> QED
    BY <2>1, AppendSeq
<1>8. c2 = c \/ c2 = c + 1
  BY <1>0 DEF Stay, Advance
<1>9. todo' = items \o Tail(todo) /\ open' = op2 /\ todo[1] = Next1
  BY DEF Then, Next1
<1>10. Replaced(todo, todo', items, q, m)
  BY <1>3, <1>9, ReplacedIs
<1>11. HeadNests(tokens, c, Next1, todo[2], ast)
  BY DEF HInv, Next1
<1> HIDE DEF q, c, c2, k, st2, op2
<1>12. /\ k \in Nat \ {0} /\ ast'[k].pos = c /\ st2[c] = st[c]
       /\ Latest(ast', st2, b) = k
       /\ ast'[k].node = "IF" => LatestIf(ast', st2, b) = k
       /\ \A x : x # b => /\ LatestIf(ast', st2, x) = LatestIf(ast, st, x)
                          /\ FilledIn(tokens', ast', Latest(ast', st2, x))
                               = FilledIn(tokens, ast, Latest(ast, st, x))
  <2>1. k = Len(ast) + 1 /\ Len(ast') = k /\ b = InnermostOf(st[c])
    BY <1>6 DEF k
  <2>2. Grows(tokens, c, ast, st, tokens', ast', st2)
    BY <1>4
  <2> HIDE DEF b, s
  <2>3. Added(tokens, c, ast, st, tokens', ast', st2, k, b)
    BY <2>1, <2>2, NewNode
  <2> QED
    BY <2>3 DEF Added
<1>13. s[Len(s)] = b /\ b \in 0 .. (c - 1)
  <2>1. Len(s) \in 1 .. Len(s)
    BY <1>3
  <2> QED
    BY <1>3, <2>1 DEF Brackets, InnermostOf
<1>14. BeforeIn(tokens', c) = BeforeIn(tokens, c)
  BY <1>4
<1>15. NodeNests(tokens', ast', st2, k)
  <2>1. Next1 \in Inner => BeforeIn(tokens, c) \notin TypeLeads
    BY <1>11 DEF HeadNests, Resting
  <2>2. BeforeIn(tokens, c) # "::"
    BY <2>1 DEF TypeLeads, c
  <2>3. CASE BeforeIn(tokens, c) = "else"
    <3>1. Next1 \in Elses \/ Next1 = "statement"
      BY <1>11, <2>3 DEF HeadNests, Resting
    <3>2. Innermost = LatestIf(ast, st, b)
      BY <1>3, <1>3a, <1>13, <2>3, <3>1
    <3>3. Next1 \in {"else_body", "statement"} \/ Next1 = "else_branch"
      BY <3>1 DEF Elses
    <3>4. Next1 # "else_branch"
      BY <1>11, <2>3 DEF HeadNests, Resting
    <3>5. \A j \in 1 .. Len(ast) : ast[j].pos < c
      BY <1>11, <2>3, <3>3, <3>4 DEF HeadNests
    <3> QED
      BY <1>0, <1>4, <1>6, <1>14, <2>3, <3>2, <3>5, NewElse DEF k
  <2>4. CASE BeforeIn(tokens, c) # "else"
    <3>1. Next1 \in Inner
      BY <2>4 DEF c
    <3>2. Innermost = Holder(tokens, ast, st, b)
      BY <1>3, <1>3a, <1>13, <2>4, <3>1
    <3> QED
      BY <1>4, <1>6, <1>13, <1>14, <2>2, <2>4, <3>2, NewParent DEF k
  <2> QED
    BY <2>3, <2>4
<1>16. NodesNest(tokens', c2, ast', st2)
  <2> SUFFICES ASSUME NEW j \in 1 .. Len(ast')
               PROVE  /\ ast'[j].pos \in 1 .. c2
                      /\ InnermostOf(st2[ast'[j].pos]) \in 0 .. (ast'[j].pos - 1)
                      /\ NodeNests(tokens', ast', st2, j)
    BY DEF NodesNest
  <2>1. j \in 1 .. Len(ast) \/ j = k
    BY <1>3, <1>6 DEF k
  <2>2. c \in 1 .. c2
    BY <1>3, <1>8
  <2> QED
    BY <1>4, <1>12, <1>13, <1>15, <2>1, <2>2
<1>17. Effect(Next1) = 0 /\ bl[q] = Len(s)
  <2>1. Effect(Next1) = 0
    BY <1>2 DEF Effect
  <2> QED
    BY <2>1, <1>3
<1>18. KeepsLatest(tokens, ast, st, tokens', ast', st2, todo, q, bl, s)
  <2>1. Next1 \in Inner \cup Elses
    OBVIOUS
  <2>2. \A r \in 1 .. q : Up(todo, r) \in Bound => s[bl[r]] # b
    BY <1>1, <2>1, Outside DEF q, c
  <2> QED
    BY <1>12, <2>2 DEF KeepsLatest, Bound
<1>19. ClearBelow(todo', q, bl)
  <2>1. DepthsFit(todo, bl)
    BY <1>1 DEF CallsNest
  <2> QED
    BY <1>2, <1>9, <1>10, <2>1, Cleared
<1>20. NodeAt(op2, Len(op2)) = k /\ k # 0 /\ FilledIn(tokens', ast', k) = k
  <2>1. Len(open) + 1 # 0
    BY <1>3
  <2>2. BeforeIn(tokens', c) # "::"
    <3>1. Next1 \in Inner => BeforeIn(tokens, c) \notin TypeLeads
      BY <1>11 DEF HeadNests, Resting
    <3> QED
      BY <1>14, <3>1 DEF TypeLeads, c
  <2>3. ~IsChainedIn(tokens', ast', k)
    BY <1>12, <2>2 DEF IsChainedIn
  <2> QED
    BY <1>7, <1>12, <2>1, <2>3 DEF NodeAt, FilledIn
<1>21. ItemsPlaced(tokens', c2, items, m, ast', st2, NodeAt(op2, Len(op2)), st2[c2][bl[q]])
  <2>1. st2[c2][bl[q]] = b
    BY <1>5, <1>13, <1>17
  <2>2. \A i \in 1 .. m : items[i] \in Elses => k = LatestIf(ast', st2, b)
    BY <1>6, <1>12
  <2>3. \A i \in 1 .. m : ~ElseAt(tokens', c2, items, i)
    BY DEF ElseAt
  <2>4. k = FilledIn(tokens', ast', Latest(ast', st2, b))
    BY <1>12, <1>20
  <2> QED
    BY <1>20, <2>1, <2>2, <2>3, <2>4 DEF ItemsPlaced
<1>22. /\ Len(op2) = lv[q] + (IF m > 0 /\ items[m] = "end" THEN 1 ELSE 0)
       /\ \A i \in 1 .. lv[q] : op2[i] = open[i]
  BY <1>3, <1>7
<1>23. bl[q] + (IF m > 0 THEN deep[1] ELSE 0) = Len(st2[c2])
  BY <1>3, <1>5, <1>17
<1>24. Brackets(st2[c2], c2) /\ \A i \in 1 .. bl[q] : i <= Len(st[c]) => st2[c2][i] = st[c][i]
  BY <1>5
<1>25. todo[1] \notin Openers /\ c2 \in Nat
  BY <1>2, <1>4, <1>9
<1>26. Pushes(tokens, c, todo, open, ast, st, lv, bl, tokens', c2, todo', op2, ast', st2, items,
         q, m, deep)
  BY <1>1, <1>3, <1>4, <1>7, <1>10, <1>18, <1>19, <1>21, <1>22, <1>23, <1>24, <1>25 DEF Pushes
<1>27. \E lv2, bl2 : CallsNest(tokens', c2, todo', op2, ast', st2, lv2, bl2)
  BY <1>26, Pushed
<1>28. NestsOn(tokens', c2, todo', open', ast', st2)
  BY <1>4, <1>9, <1>16, <1>27 DEF NestsOn
<1> QED
  BY <1>28 DEF NInv, c2

(* Items in one pair of brackets are one deeper: D are their places.        *)
LEMMA Enclosed ==
  ASSUME NEW items, NEW m \in Nat, NEW o \in 1 .. m, NEW e \in 1 .. m, o < e, NEW D,
         D = (o + 1) .. e,
         items[o] \in Openers, items[e] \in Closers,
         \A i \in 1 .. m : (i # o => items[i] \notin Openers)
             /\ (i # e => items[i] \notin Closers),
         \A i \in D : items[i] \notin Bound /\ (items[i] \in Inner \cup {"file"} => i = o + 1),
         \A i \in 1 .. m : items[i] \in Makers =>
            \/ i \in D
            \/ items[i] = "chain" /\ i + 1 = o /\ (\A j \in D : items[j] \notin Bound)
               /\ \A j \in 1 .. m : j > e => items[j] \notin Bound
            \/ i + 1 = m /\ items[m] \notin Bound
  PROVE  \E deep : Sinks(items, m, deep) /\ deep[1] = 0
<1> DEFINE deep == [i \in 1 .. m |-> IF i \in D THEN 1 ELSE 0]
<1>1. o \in Nat /\ e \in Nat /\ o >= 1 /\ 1 \in 1 .. m /\ 1 \notin D /\ e \in D /\ o \notin D
  OBVIOUS
<1>2. \A i \in 1 .. m : i # m => i + 1 \in 1 .. m
  OBVIOUS
<1>3. \A i \in 1 .. m : deep[i] = (IF i \in D THEN 1 ELSE 0)
        /\ (i # m => deep[i + 1] = IF i + 1 \in D THEN 1 ELSE 0)
  BY <1>2
<1>4. deep[1] = 0
  BY <1>1, <1>3
<1>5. \A i \in 1 .. m : /\ i = o => i + 1 \in D /\ i # m /\ i # e
                        /\ i = e => (i # m => i + 1 \notin D) /\ i # o
                        /\ i # o /\ i # e => (i + 1 \in D <=> i \in D) /\ (i = m => i \notin D)
  <2>1. \A i \in 1 .. m : i \in Nat /\ i <= m /\ (i \in D <=> o < i /\ i <= e)
    OBVIOUS
  <2>2. \A i \in 1 .. m : i + 1 \in D <=> o < i + 1 /\ i + 1 <= e
    OBVIOUS
  <2>3. e <= m
    OBVIOUS
  <2> QED
    BY <1>1, <2>1, <2>2, <2>3
<1>6. Effect(items[o]) = 1 /\ Effect(items[e]) = 0 - 1
      /\ \A i \in 1 .. m : i # o /\ i # e => Effect(items[i]) = 0
  <2>1. e # o
    OBVIOUS
  <2> QED
    BY <2>1 DEF Effect
<1> HIDE DEF deep
<1>7. ASSUME NEW i \in 1 .. m
      PROVE  (IF i = m THEN 0 ELSE deep[i + 1]) = deep[i] + Effect(items[i])
  <2>1. CASE i = o
    BY <1>1, <1>3, <1>5, <1>6, <2>1
  <2>2. CASE i = e
    BY <1>1, <1>3, <1>5, <1>6, <2>2
  <2>3. CASE i # o /\ i # e
    BY <1>3, <1>5, <1>6, <2>3
  <2> QED
    BY <2>1, <2>2, <2>3
<1>8. ASSUME NEW i \in 1 .. m, KnownAt(items, i)
      PROVE  deep[i] = 0
  <2> SUFFICES ASSUME i \in D PROVE FALSE
    BY <1>3
  <2>1. items[i] \notin Bound /\ (items[i] \in Inner \cup {"file"} => i = o + 1)
    OBVIOUS
  <2>2. i = o + 1 => i > 1 /\ i - 1 = o
    BY <1>1
  <2> QED
    BY <1>8, <2>1, <2>2 DEF KnownAt, FreshAt
<1>9. ASSUME NEW i \in 1 .. m, items[i] \in Makers, deep[i] = 0, NEW j \in (i + 1) .. m
      PROVE  items[j] \notin Bound \/ items[j - 1] = "chain"
  <2>1. i \notin D
    <3>1. 1 # 0
      OBVIOUS
    <3> QED
      BY <1>3, <1>9, <3>1
  <2>2. CASE items[i] = "chain" /\ i + 1 = o /\ (\A l \in D : items[l] \notin Bound)
             /\ \A l \in 1 .. m : l > e => items[l] \notin Bound
    <3>1. j = o \/ j \in D \/ (j \in 1 .. m /\ j > e)
      BY <2>2
    <3>2. j = o => j - 1 = i
      BY <2>2
    <3> QED
      BY <2>2, <3>1, <3>2
  <2>3. CASE i + 1 = m /\ items[m] \notin Bound
    <3>1. j = m
      BY <2>3
    <3> QED
      BY <2>3, <3>1
  <2> QED
    BY <1>9, <2>1, <2>2, <2>3
<1>10. Sinks(items, m, deep)
  <2>1. \A i \in 1 .. m : deep[i] \in {0, 1}
    BY <1>3
  <2> QED
    BY <1>7, <1>8, <1>9, <2>1 DEF Sinks
<1> QED
  BY <1>4, <1>10

(* No brackets among the items.                                             *)
LEMMA Unenclosed ==
  ASSUME NEW items, NEW m \in Nat \ {0}, \A i \in 1 .. m : items[i] \notin Openers \cup Closers,
         \A i \in 1 .. m : i # 1 => items[i] \notin Bound
  PROVE  \E deep : Sinks(items, m, deep) /\ deep[1] = 0
<1> DEFINE deep == [i \in 1 .. m |-> 0]
<1>1. Sinks(items, m, deep)
  BY Zeros
<1>2. 1 \in 1 .. m
  OBVIOUS
<1> QED
  BY <1>1, <1>2

(* A node is made whose items are these and "end".                          *)
Makes(node, items) ==
  /\ ast' = Append(ast, node) /\ node.pos = current_token_idx /\ node.into = Innermost
  /\ open' = Append(open, Len(ast) + 1)
  /\ Then(items)

(* The calls that make a node do so.                                       *)
LEMMA MakesIs ==
  ASSUME NEW kind, NEW public, NEW items, DoNode(kind, public, items)
  PROVE  \E node : node.node = kind /\ Makes(node, Append(items, "end"))
<1> DEFINE node == Node(kind, Innermost, public)
<1>1. node.node = kind /\ node.pos = current_token_idx /\ node.into = Innermost
  BY DEF Node
<1> QED
  BY <1>1 DEF DoNode, Makes

(* The next item may make a node.                                           *)
MayMake == Next1 \in Inner \/ (Next1 \in Elses /\ BeforeIn(tokens, current_token_idx) = "else")

(* A new node, its items given with its end: NInv is kept.                 *)
LEMMA NodeNested ==
  ASSUME DInv, HInv, NEW st, NestsOn(tokens, current_token_idx, todo, open, ast, st), MayMake,
         SameStack,
         NEW node, NEW items, Makes(node, items), IsSeq(items), NEW m, m = Len(items), m > 0,
           items[m] = "end",
         \A i \in 1 .. m : i # m => items[i] # "end",
         NEW deep, Sinks(items, m, deep), deep[1] = 0, items[1] # "statement",
         \A i \in 1 .. m : items[i] \in Inner \cup {"file"} => FreshAt(items, i),
         \A i \in 1 .. m : items[i] \in Elses => node.node = "IF"
  PROVE  NInv'
  BY NodePushed DEF MayMake, Makes

(* The items of a node with no brackets.                                    *)
LEMMA FlatNode ==
  ASSUME DInv, HInv, NEW st, NestsOn(tokens, current_token_idx, todo, open, ast, st), MayMake,
         SameStack,
         NEW node, NEW S, NEW items \in Seq(S \cup {"end"}), Makes(node, items), NEW m,
           m = Len(items), m > 0,
         items[m] = "end", \A i \in 1 .. m : i # m => items[i] \in S,
         S \cap (Openers \cup Closers \cup Inner \cup Elses \cup {"end", "file"}) = {},
         \A i \in 1 .. m : i # 1 => items[i] \notin Bound
  PROVE  NInv'
<1>1. IsSeq(items) /\ m \in Nat \ {0}
  BY SeqOfItsOwn, SeqFacts
<1>2. \A i \in 1 .. m : items[i] \in S \cup {"end"}
  OBVIOUS
<1>3. "end" \notin Openers \cup Closers \cup Inner \cup Elses \cup {"file", "statement"}
        /\ "statement" \in Inner
  BY DEF Openers, Closers, Inner, Elses
<1>4. \A i \in 1 .. m : items[i] \notin Openers \cup Closers \cup Inner \cup Elses \cup {"file"}
  BY <1>2, <1>3
<1>5. PICK deep : Sinks(items, m, deep) /\ deep[1] = 0
  BY <1>1, <1>4, Unenclosed
<1>6. 1 \in 1 .. m
  BY <1>1
<1>7. items[1] # "statement"
  BY <1>3, <1>4, <1>6
<1>8. \A i \in 1 .. m : i # m => items[i] # "end"
  OBVIOUS
<1>9. /\ \A i \in 1 .. m : items[i] \in Inner \cup {"file"} => FreshAt(items, i)
      /\ \A i \in 1 .. m : items[i] \in Elses => node.node = "IF"
  BY <1>4
<1> QED
  BY <1>1, <1>5, <1>7, <1>8, <1>9, NodeNested

(* The items of a node with one pair of brackets, the places between them D. *)
Fenced(items, m, o, e, D, kind) ==
  /\ o \in 1 .. m /\ e \in 1 .. m /\ o < e /\ D = (o + 1) .. e
  /\ items[o] \in Openers /\ items[e] \in Closers
  /\ \A i \in 1 .. m : (i # o => items[i] \notin Openers) /\ (i # e => items[i] \notin Closers)
  /\ \A i \in D : items[i] \notin Bound
  /\ \A i \in 1 .. m : items[i] \in Inner \cup {"file"} => i \in D /\ i = o + 1
  /\ \A i \in 1 .. m : items[i] = "chain" => i + 1 = o /\ \A j \in 1 .. m : j > e
       => items[j] \notin Bound
  /\ \A i \in 1 .. m : items[i] # "chain_module"
  /\ \A i \in 1 .. m : items[i] \in Elses => kind = "IF" /\ i + 1 = m

(* The items of a node with one pair of brackets: NInv is kept.            *)
LEMMA DeepNode ==
  ASSUME DInv, HInv, NEW st, NestsOn(tokens, current_token_idx, todo, open, ast, st), MayMake,
         SameStack,
         NEW node, NEW items, IsSeq(items), Makes(node, items), NEW m, m = Len(items), m > 0,
         items[m] = "end", \A i \in 1 .. m : i # m => items[i] # "end",
         NEW o, NEW e, NEW D, Fenced(items, m, o, e, D, node.node)
  PROVE  NInv'
<1>0. /\ o \in 1 .. m /\ e \in 1 .. m /\ o < e /\ D = (o + 1) .. e
      /\ items[o] \in Openers /\ items[e] \in Closers
      /\ \A i \in 1 .. m : (i # o => items[i] \notin Openers)
           /\ (i # e => items[i] \notin Closers)
      /\ \A i \in D : items[i] \notin Bound
      /\ \A i \in 1 .. m : items[i] \in Inner \cup {"file"} => i \in D /\ i = o + 1
      /\ \A i \in 1 .. m : items[i] = "chain" => i + 1 = o /\ \A j \in 1 .. m : j > e
           => items[j] \notin Bound
      /\ \A i \in 1 .. m : items[i] # "chain_module"
      /\ \A i \in 1 .. m : items[i] \in Elses => node.node = "IF" /\ i + 1 = m
  BY DEF Fenced
<1>1. m \in Nat /\ 1 \in 1 .. m /\ 1 \notin D
  <2>1. m \in Nat
    BY SeqFacts
  <2> QED
    BY <2>1, <1>0
<1>2. items[m] \notin Bound
  BY DEF Bound, Beginners, Openers, Elses
<1>3. \A i \in 1 .. m : items[i] \in Makers =>
            \/ i \in D
            \/ items[i] = "chain" /\ i + 1 = o /\ (\A j \in D : items[j] \notin Bound)
               /\ \A j \in 1 .. m : j > e => items[j] \notin Bound
            \/ i + 1 = m /\ items[m] \notin Bound
  BY <1>0, <1>2 DEF Makers
<1>4. PICK deep : Sinks(items, m, deep) /\ deep[1] = 0
  <2>1. /\ m \in Nat /\ o \in 1 .. m /\ e \in 1 .. m /\ o < e /\ D = (o + 1) .. e
        /\ items[o] \in Openers /\ items[e] \in Closers
        /\ \A i \in 1 .. m : (i # o => items[i] \notin Openers)
             /\ (i # e => items[i] \notin Closers)
    BY <1>0, <1>1
  <2>2. \A i \in D : i \in 1 .. m
    BY <2>1
  <2>3. \A i \in D : items[i] \notin Bound /\ (items[i] \in Inner \cup {"file"} => i = o + 1)
    BY <1>0, <2>2
  <2> HIDE <1>0
  <2> QED
    BY <2>1, <2>3, <1>3, Enclosed
<1>5. items[1] # "statement"
  <2>1. "statement" \in Inner
    BY DEF Inner
  <2> QED
    BY <1>0, <1>1, <2>1
<1>6. \A i \in 1 .. m : items[i] \in Inner \cup {"file"} => FreshAt(items, i)
  <2>1. \A i \in 1 .. m : i = o + 1 => i > 1 /\ i - 1 = o
    BY <1>0, <1>1
  <2> QED
    BY <1>0, <2>1 DEF FreshAt
<1> QED
  BY <1>0, <1>4, <1>5, <1>6, NodeNested

(* A node whose items have no brackets: NInv is kept.                      *)
LEMMA FlatDo ==
  ASSUME DInv, HInv, NEW st, NestsOn(tokens, current_token_idx, todo, open, ast, st), MayMake,
         SameStack,
         NEW kind, NEW public, NEW S, NEW items \in Seq(S), DoNode(kind, public, items),
         S \cap (Openers \cup Closers \cup Inner \cup Elses \cup {"end", "file"}) = {},
         Len(items) = 1 \/ S \cap Bound = {}
  PROVE  NInv'
<1> DEFINE all == Append(items, "end")
           n == Len(items)
           m == n + 1
<1>1. IsSeq(items) /\ n \in Nat /\ \A i \in 1 .. n : items[i] \in S
  BY SeqOfItsOwn, SeqFacts
<1>2. /\ IsSeq(all) /\ Len(all) = m /\ all[m] = "end"
      /\ \A i \in 1 .. n : all[i] = items[i]
  BY <1>1, AppendSeq
<1>3. PICK node : Makes(node, all)
  BY MakesIs
<1>4. all \in Seq(S \cup {"end"})
  OBVIOUS
<1>5. m > 0 /\ \A i \in 1 .. m : (i # m => i \in 1 .. n) /\ (n = 1 /\ i # 1 => i = m)
  BY <1>1
<1>6. "end" \notin Bound
  BY DEF Bound, Beginners, Openers, Elses
<1> HIDE DEF all, m, n
<1>7. \A i \in 1 .. m : i # m => all[i] \in S
  BY <1>1, <1>2, <1>5
<1>8. \A i \in 1 .. m : i # 1 => all[i] \notin Bound
  <2>1. CASE n = 1
    BY <1>2, <1>5, <1>6, <2>1
  <2>2. CASE S \cap Bound = {}
    BY <1>2, <1>6, <1>7, <2>2
  <2> QED
    BY <2>1, <2>2 DEF n
<1> QED
  BY <1>2, <1>3, <1>4, <1>5, <1>7, <1>8, FlatNode

(* The same of the items before "end", n of them.                           *)
Fences(items, n, o, e, D, kind) ==
  /\ o \in 1 .. n /\ e \in 1 .. n /\ o < e /\ D = (o + 1) .. e
  /\ items[o] \in Openers /\ items[e] \in Closers
  /\ \A i \in 1 .. n : (i # o => items[i] \notin Openers) /\ (i # e => items[i] \notin Closers)
                        /\ items[i] \notin {"end", "file", "chain_module"}
  /\ \A i \in D : items[i] \notin Bound
  /\ \A i \in 1 .. n : items[i] \in Inner => i \in D /\ i = o + 1
  /\ \A i \in 1 .. n : items[i] = "chain" => i + 1 = o /\ n = e
  /\ \A i \in 1 .. n : items[i] \in Elses => kind = "IF" /\ i = n

(* With "end" after them they are the items of a node.                     *)
LEMMA FencesEnd ==
  ASSUME NEW items, IsSeq(items), NEW n \in Nat, n = Len(items), NEW o, NEW e, NEW D, NEW kind,
         Fences(items, n, o, e, D, kind)
  PROVE  /\ Fenced(Append(items, "end"), n + 1, o, e, D, kind)
         /\ IsSeq(Append(items, "end")) /\ Len(Append(items, "end")) = n + 1
         /\ Append(items, "end")[n + 1] = "end" /\ n + 1 > 0
         /\ \A i \in 1 .. (n + 1) : i # n + 1 => Append(items, "end")[i] # "end"
<1> DEFINE all == Append(items, "end")
           m == n + 1
<1>1. /\ IsSeq(all) /\ Len(all) = m /\ all[m] = "end"
      /\ \A i \in 1 .. n : all[i] = items[i]
  BY AppendSeq
<1>2. /\ o \in 1 .. n /\ e \in 1 .. n /\ o < e /\ D = (o + 1) .. e
      /\ items[o] \in Openers /\ items[e] \in Closers
      /\ \A i \in 1 .. n : (i # o => items[i] \notin Openers)
           /\ (i # e => items[i] \notin Closers)
                           /\ items[i] \notin {"end", "file", "chain_module"}
      /\ \A i \in D : items[i] \notin Bound
      /\ \A i \in 1 .. n : items[i] \in Inner => i \in D /\ i = o + 1
      /\ \A i \in 1 .. n : items[i] = "chain" => i + 1 = o /\ n = e
      /\ \A i \in 1 .. n : items[i] \in Elses => kind = "IF" /\ i = n
  BY DEF Fences
<1>3. /\ m > 0 /\ \A i \in 1 .. m : i = m \/ (i \in 1 .. n /\ i # m)
      /\ o \in 1 .. m /\ e \in 1 .. m /\ o # m /\ e # m /\ n + 1 = m /\ \A i \in D : i \in 1 .. n
      /\ \A j \in 1 .. m : n = e /\ j > e => j = m
  BY <1>2
<1>4. "end" \notin Bound \cup Openers \cup Closers \cup Inner \cup Elses
        \cup {"chain", "chain_module", "file"}
  BY DEF Bound, Beginners, Openers, Closers, Elses, Inner
<1> HIDE DEF all, m
<1>5. \A i \in 1 .. m : i # m => all[i] # "end"
  BY <1>1, <1>2, <1>3
<1>6. all[o] \in Openers /\ all[e] \in Closers
  BY <1>1, <1>2
<1>7. \A i \in 1 .. m : (i # o => all[i] \notin Openers) /\ (i # e => all[i] \notin Closers)
  BY <1>1, <1>2, <1>3, <1>4
<1>8. \A i \in D : all[i] \notin Bound
  BY <1>1, <1>2, <1>3
<1>9. \A i \in 1 .. m : all[i] \in Inner \cup {"file"} => i \in D /\ i = o + 1
  BY <1>1, <1>2, <1>3, <1>4
<1>10. \A i \in 1 .. m : all[i] = "chain" => i + 1 = o /\ \A j \in 1 .. m : j > e
         => all[j] \notin Bound
  <2> SUFFICES ASSUME NEW i \in 1 .. m, all[i] = "chain"
               PROVE  i + 1 = o /\ \A j \in 1 .. m : j > e => all[j] \notin Bound
    OBVIOUS
  <2>1. i \in 1 .. n /\ items[i] = "chain"
    BY <1>1, <1>2, <1>3, <1>4
  <2> QED
    BY <1>1, <1>2, <1>3, <1>4, <2>1
<1>11. \A i \in 1 .. m : all[i] # "chain_module"
  BY <1>1, <1>2, <1>3, <1>4
<1>12. \A i \in 1 .. m : all[i] \in Elses => kind = "IF" /\ i + 1 = m
  BY <1>1, <1>2, <1>3, <1>4
<1> QED
  BY <1>1, <1>2, <1>3, <1>5, <1>6, <1>7, <1>8, <1>9, <1>10, <1>11, <1>12 DEF Fenced, all, m

(* A node whose items have one pair of brackets: NInv is kept.             *)
LEMMA DeepDo ==
  ASSUME DInv, HInv, NEW st, NestsOn(tokens, current_token_idx, todo, open, ast, st), MayMake,
         SameStack,
         NEW kind, NEW public, NEW items, IsSeq(items), DoNode(kind, public, items),
         NEW n \in Nat, n = Len(items), NEW o, NEW e, NEW D, Fences(items, n, o, e, D, kind)
  PROVE  NInv'
<1> DEFINE all == Append(items, "end")
           m == n + 1
<1>1. /\ Fenced(all, m, o, e, D, kind)
      /\ IsSeq(all) /\ Len(all) = m /\ all[m] = "end" /\ m > 0
      /\ \A i \in 1 .. m : i # m => all[i] # "end"
  BY FencesEnd
<1>2. PICK node : node.node = kind /\ Makes(node, all)
  BY MakesIs
<1> HIDE DEF all, m
<1> QED
  BY <1>1, <1>2, DeepNode

(* NInv is kept by a module.                                               *)
LEMMA NModule ==
  ASSUME DInv, HInv, NEW st, NestsOn(tokens, current_token_idx, todo, open, ast, st), ParseModule
  PROVE  NInv'
<1> DEFINE items == <<"name", "chain", "{", "module_body", "}">>
<1>1. /\ items \in Seq({"name", "chain", "{", "module_body", "}"}) /\ Len(items) = 5
      /\ items[1] = "name" /\ items[2] = "chain" /\ items[3] = "{" /\ items[4] = "module_body"
           /\ items[5] = "}"
  OBVIOUS
<1>2. Next1 = "module" /\ Stay /\ DoNode("MODULE", FALSE, items)
  BY DEF ParseModule, At
<1> HIDE DEF items
<1>3. MayMake /\ SameStack /\ IsSeq(items)
  BY <1>1, <1>2, SeqOfItsOwn DEF MayMake, SameStack, Inner
<1>4. /\ (\A i \in 1 .. 5 : i = 1 \/ i = 2 \/ i = 3 \/ i = 4 \/ i = 5) /\ 5 \in Nat
           /\ 3 \in 1 .. 5 /\ 5 \in 1 .. 5
      /\ 3 < 5 /\ {4, 5} = (3 + 1) .. 5 /\ 2 + 1 = 3 /\ 3 + 1 = 4 /\ 1 # 3 /\ 2 # 3 /\ 4 # 3
           /\ 5 # 3
  OBVIOUS
<1>5. /\ "{" \in Openers /\ "}" \in Closers /\ "}" \notin Openers /\ "{" \notin Closers
      /\ {"name", "chain", "module_body"} \cap (Openers \cup Closers) = {}
      /\ {"module_body", "}"} \cap Bound = {}
      /\ {"name", "chain", "{", "}"} \cap Inner = {}
      /\ {"name", "chain", "{", "module_body", "}"}
           \cap (Elses \cup {"end", "file", "chain_module"}) = {}
  BY DEF Openers, Closers, Bound, Beginners, Elses, Inner
<1>6. \A i \in 1 .. 5 : (i # 3 => items[i] \notin Openers) /\ (i # 5 => items[i] \notin Closers)
                           /\ items[i] \notin {"end", "file", "chain_module"}
                                /\ items[i] \notin Elses
  BY <1>1, <1>4, <1>5
<1>7. \A i \in {4, 5} : items[i] \notin Bound
  BY <1>1, <1>5
<1>8. \A i \in 1 .. 5 : items[i] \in Inner => i \in {4, 5} /\ i = 3 + 1
  BY <1>1, <1>4, <1>5
<1>9. \A i \in 1 .. 5 : items[i] = "chain" => i + 1 = 3 /\ 5 = 5
  BY <1>1, <1>4
<1>10. Fences(items, 5, 3, 5, {4, 5}, "MODULE")
  BY <1>1, <1>4, <1>5, <1>6, <1>7, <1>8, <1>9 DEF Fences
<1>11. 5 = Len(items) /\ 5 \in Nat
  BY <1>1
<1> QED
  BY <1>2, <1>3, <1>10, <1>11, DeepDo

(* A sequence of four.                                                     *)
LEMMA FourLong ==
  ASSUME NEW a, NEW b, NEW c, NEW d
  PROVE  IsSeq(<<a, b, c, d>>) /\ Len(<<a, b, c, d>>) = 4
<1>1. <<a, b, c, d>> \in Seq({a, b, c, d}) /\ Len(<<a, b, c, d>>) = 4
  OBVIOUS
<1> QED
  BY <1>1, SeqOfItsOwn

(* A sequence of five.                                                     *)
LEMMA FiveLong ==
  ASSUME NEW a, NEW b, NEW c, NEW d, NEW e
  PROVE  IsSeq(<<a, b, c, d, e>>) /\ Len(<<a, b, c, d, e>>) = 5
<1>1. <<a, b, c, d, e>> \in Seq({a, b, c, d, e}) /\ Len(<<a, b, c, d, e>>) = 5
  OBVIOUS
<1> QED
  BY <1>1, SeqOfItsOwn

(* A sequence of six.                                                      *)
LEMMA SixLong ==
  ASSUME NEW a, NEW b, NEW c, NEW d, NEW e, NEW f
  PROVE  IsSeq(<<a, b, c, d, e, f>>) /\ Len(<<a, b, c, d, e, f>>) = 6
<1>1. <<a, b, c, d, e, f>> \in Seq({a, b, c, d, e, f}) /\ Len(<<a, b, c, d, e, f>>) = 6
  OBVIOUS
<1> QED
  BY <1>1, SeqOfItsOwn

(* A sequence of seven.                                                    *)
LEMMA SevenLong ==
  ASSUME NEW a, NEW b, NEW c, NEW d, NEW e, NEW f, NEW g
  PROVE  IsSeq(<<a, b, c, d, e, f, g>>) /\ Len(<<a, b, c, d, e, f, g>>) = 7
<1>1. <<a, b, c, d, e, f, g>> \in Seq({a, b, c, d, e, f, g}) /\ Len(<<a, b, c, d, e, f, g>>) = 7
  OBVIOUS
<1> QED
  BY <1>1, SeqOfItsOwn

(* The places of the items of a function.                                  *)
LEMMA PlacesFunction ==
  /\ \A i \in 1 .. 7 : i = 1 \/ i = 2 \/ i = 3 \/ i = 4 \/ i = 5 \/ i = 6 \/ i = 7
  /\ 7 \in Nat /\ 3 \in 1 .. 7 /\ 4 \in 1 .. 7
  /\ 3 < 4 /\ {4} = (3 + 1) .. 4 /\ 3 + 1 = 4
  /\ 1 # 3 /\ 2 # 3 /\ 4 # 3 /\ 5 # 3 /\ 6 # 3 /\ 7 # 3
  /\ 1 # 4 /\ 2 # 4 /\ 5 # 4 /\ 6 # 4 /\ 7 # 4
OBVIOUS

(* The items of a function, and the pair of brackets among them.           *)
LEMMA FencesFunction ==
  ASSUME NEW items, items = <<"receiver", "name", "(", "params", "->", "type_decl", "scope">>
  PROVE  /\ IsSeq(items) /\ Fences(items, 7, 3, 4, {4}, "FUNCTION")
         /\ 7 \in Nat /\ 7 = Len(items)
<1>3. IsSeq(items)
  BY SevenLong
<1>1. items[1] = "receiver" /\ items[2] = "name" /\ items[3] = "(" /\ items[4] = "params"
        /\ items[5] = "->" /\ items[6] = "type_decl" /\ items[7] = "scope"
  OBVIOUS
<1>2. Len(items) = 7
  OBVIOUS
<1>5. /\ "(" \in Openers /\ "params" \in Closers /\ "params" \notin Openers /\ "(" \notin Closers
      /\ {"receiver", "name", "->", "type_decl", "scope"} \cap (Openers \cup Closers) = {}
      /\ {"params"} \cap Bound = {}
      /\ {"receiver", "name", "(", "params", "->", "type_decl", "scope"} \cap Inner = {}
      /\ {"receiver", "name", "(", "params", "->", "type_decl", "scope"} \cap Elses = {}
      /\ {"receiver", "name", "(", "params", "->", "type_decl", "scope"}
           \cap {"end", "file", "chain_module", "chain"} = {}
  BY DEF Openers, Closers, Bound, Beginners, Elses, Inner
<1>6. \A i \in 1 .. 7 : (i # 3 => items[i] \notin Openers) /\ (i # 4 => items[i] \notin Closers)
                        /\ items[i] \notin {"end", "file", "chain_module"} /\ items[i] # "chain"
  BY <1>1, PlacesFunction, <1>5
<1>7. \A i \in {4} : items[i] \notin Bound
  BY <1>1, <1>5
<1>8. \A i \in 1 .. 7 : items[i] \in Inner => i \in {4} /\ i = 3 + 1
  BY <1>1, PlacesFunction, <1>5
<1>9. \A i \in 1 .. 7 : items[i] \notin Elses
  BY <1>1, PlacesFunction, <1>5
<1>10. Fences(items, 7, 3, 4, {4}, "FUNCTION")
  BY <1>1, <1>2, PlacesFunction, <1>5, <1>6, <1>7, <1>8, <1>9 DEF Fences
<1>11. 7 = Len(items) /\ 7 \in Nat
  BY <1>2, PlacesFunction
<1> QED
  BY <1>3, <1>10, <1>11

(* The places of the items of a struct.                                    *)
LEMMA PlacesStruct ==
  /\ \A i \in 1 .. 4 : i = 1 \/ i = 2 \/ i = 3 \/ i = 4
  /\ 4 \in Nat /\ 2 \in 1 .. 4 /\ 4 \in 1 .. 4
  /\ 2 < 4 /\ {3, 4} = (2 + 1) .. 4 /\ 2 + 1 = 3
  /\ 1 # 2 /\ 3 # 2 /\ 4 # 2
  /\ 1 # 4 /\ 3 # 4
OBVIOUS

(* The items of a struct, and the pair of brackets among them.             *)
LEMMA FencesStruct ==
  ASSUME NEW items, items = <<"type_name", "{", "struct_body", "}">>
  PROVE  /\ IsSeq(items) /\ Fences(items, 4, 2, 4, {3, 4}, "STRUCT")
         /\ 4 \in Nat /\ 4 = Len(items)
<1>3. IsSeq(items)
  BY FourLong
<1>1. items[1] = "type_name" /\ items[2] = "{" /\ items[3] = "struct_body" /\ items[4] = "}"
  OBVIOUS
<1>2. Len(items) = 4
  BY FourLong
<1>5. /\ "{" \in Openers /\ "}" \in Closers /\ "}" \notin Openers /\ "{" \notin Closers
      /\ {"type_name", "struct_body"} \cap (Openers \cup Closers) = {}
      /\ {"struct_body", "}"} \cap Bound = {}
      /\ {"type_name", "{", "}"} \cap Inner = {}
      /\ {"type_name", "{", "struct_body", "}"} \cap Elses = {}
      /\ {"type_name", "{", "struct_body", "}"} \cap {"end", "file", "chain_module", "chain"} = {}
  BY DEF Openers, Closers, Bound, Beginners, Elses, Inner
<1>6. \A i \in 1 .. 4 : (i # 2 => items[i] \notin Openers) /\ (i # 4 => items[i] \notin Closers)
                        /\ items[i] \notin {"end", "file", "chain_module"} /\ items[i] # "chain"
  BY <1>1, PlacesStruct, <1>5
<1>7. \A i \in {3, 4} : items[i] \notin Bound
  BY <1>1, <1>5
<1>8. \A i \in 1 .. 4 : items[i] \in Inner => i \in {3, 4} /\ i = 2 + 1
  BY <1>1, PlacesStruct, <1>5
<1>9. \A i \in 1 .. 4 : items[i] \notin Elses
  BY <1>1, PlacesStruct, <1>5
<1>10. Fences(items, 4, 2, 4, {3, 4}, "STRUCT")
  BY <1>1, <1>2, PlacesStruct, <1>5, <1>6, <1>7, <1>8, <1>9 DEF Fences
<1>11. 4 = Len(items) /\ 4 \in Nat
  BY <1>2, PlacesStruct
<1> QED
  BY <1>3, <1>10, <1>11

(* The places of the items of a component.                                 *)
LEMMA PlacesComponent ==
  /\ \A i \in 1 .. 4 : i = 1 \/ i = 2 \/ i = 3 \/ i = 4
  /\ 4 \in Nat /\ 2 \in 1 .. 4 /\ 4 \in 1 .. 4
  /\ 2 < 4 /\ {3, 4} = (2 + 1) .. 4 /\ 2 + 1 = 3
  /\ 1 # 2 /\ 3 # 2 /\ 4 # 2
  /\ 1 # 4 /\ 3 # 4
OBVIOUS

(* The items of a component, and the pair of brackets among them.          *)
LEMMA FencesComponent ==
  ASSUME NEW items, items = <<"type_name", "{", "component_body", "}">>
  PROVE  /\ IsSeq(items) /\ Fences(items, 4, 2, 4, {3, 4}, "COMPONENT")
         /\ 4 \in Nat /\ 4 = Len(items)
<1>3. IsSeq(items)
  BY FourLong
<1>1. items[1] = "type_name" /\ items[2] = "{" /\ items[3] = "component_body" /\ items[4] = "}"
  OBVIOUS
<1>2. Len(items) = 4
  BY FourLong
<1>5. /\ "{" \in Openers /\ "}" \in Closers /\ "}" \notin Openers /\ "{" \notin Closers
      /\ {"type_name", "component_body"} \cap (Openers \cup Closers) = {}
      /\ {"component_body", "}"} \cap Bound = {}
      /\ {"type_name", "{", "}"} \cap Inner = {}
      /\ {"type_name", "{", "component_body", "}"} \cap Elses = {}
      /\ {"type_name", "{", "component_body", "}"}
           \cap {"end", "file", "chain_module", "chain"} = {}
  BY DEF Openers, Closers, Bound, Beginners, Elses, Inner
<1>6. \A i \in 1 .. 4 : (i # 2 => items[i] \notin Openers) /\ (i # 4 => items[i] \notin Closers)
                        /\ items[i] \notin {"end", "file", "chain_module"} /\ items[i] # "chain"
  BY <1>1, PlacesComponent, <1>5
<1>7. \A i \in {3, 4} : items[i] \notin Bound
  BY <1>1, <1>5
<1>8. \A i \in 1 .. 4 : items[i] \in Inner => i \in {3, 4} /\ i = 2 + 1
  BY <1>1, PlacesComponent, <1>5
<1>9. \A i \in 1 .. 4 : items[i] \notin Elses
  BY <1>1, PlacesComponent, <1>5
<1>10. Fences(items, 4, 2, 4, {3, 4}, "COMPONENT")
  BY <1>1, <1>2, PlacesComponent, <1>5, <1>6, <1>7, <1>8, <1>9 DEF Fences
<1>11. 4 = Len(items) /\ 4 \in Nat
  BY <1>2, PlacesComponent
<1> QED
  BY <1>3, <1>10, <1>11

(* The places of the items of an if.                                       *)
LEMMA PlacesIf ==
  /\ \A i \in 1 .. 5 : i = 1 \/ i = 2 \/ i = 3 \/ i = 4 \/ i = 5
  /\ 5 \in Nat /\ 1 \in 1 .. 5 /\ 3 \in 1 .. 5
  /\ 1 < 3 /\ {2, 3} = (1 + 1) .. 3 /\ 1 + 1 = 2
  /\ 2 # 1 /\ 3 # 1 /\ 4 # 1 /\ 5 # 1
  /\ 2 # 3 /\ 4 # 3 /\ 5 # 3
OBVIOUS

(* The items of an if, and the pair of brackets among them.                *)
LEMMA FencesIf ==
  ASSUME NEW items, items = <<"(", "expression", ")", "scope", "else_branch">>
  PROVE  /\ IsSeq(items) /\ Fences(items, 5, 1, 3, {2, 3}, "IF")
         /\ 5 \in Nat /\ 5 = Len(items)
<1>3. IsSeq(items)
  BY FiveLong
<1>1. items[1] = "(" /\ items[2] = "expression" /\ items[3] = ")" /\ items[4] = "scope"
        /\ items[5] = "else_branch"
  OBVIOUS
<1>2. Len(items) = 5
  OBVIOUS
<1>5. /\ "(" \in Openers /\ ")" \in Closers /\ ")" \notin Openers /\ "(" \notin Closers
      /\ {"expression", "scope", "else_branch"} \cap (Openers \cup Closers) = {}
      /\ {"expression", ")"} \cap Bound = {}
      /\ {"(", "expression", ")", "scope", "else_branch"} \cap Inner = {}
      /\ {"(", "expression", ")", "scope"} \cap Elses = {}
      /\ {"(", "expression", ")", "scope", "else_branch"}
           \cap {"end", "file", "chain_module", "chain"} = {}
  BY DEF Openers, Closers, Bound, Beginners, Elses, Inner
<1>6. \A i \in 1 .. 5 : (i # 1 => items[i] \notin Openers) /\ (i # 3 => items[i] \notin Closers)
                        /\ items[i] \notin {"end", "file", "chain_module"} /\ items[i] # "chain"
  BY <1>1, PlacesIf, <1>5
<1>7. \A i \in {2, 3} : items[i] \notin Bound
  BY <1>1, <1>5
<1>8. \A i \in 1 .. 5 : items[i] \in Inner => i \in {2, 3} /\ i = 1 + 1
  BY <1>1, PlacesIf, <1>5
<1>9. \A i \in 1 .. 5 : items[i] \in Elses => i = 5
  BY <1>1, PlacesIf, <1>5
<1>10. Fences(items, 5, 1, 3, {2, 3}, "IF")
  BY <1>1, <1>2, PlacesIf, <1>5, <1>6, <1>7, <1>8, <1>9 DEF Fences
<1>11. 5 = Len(items) /\ 5 \in Nat
  BY <1>2, PlacesIf
<1> QED
  BY <1>3, <1>10, <1>11

(* The places of the items of a while statement.                           *)
LEMMA PlacesWhile ==
  /\ \A i \in 1 .. 4 : i = 1 \/ i = 2 \/ i = 3 \/ i = 4
  /\ 4 \in Nat /\ 1 \in 1 .. 4 /\ 3 \in 1 .. 4
  /\ 1 < 3 /\ {2, 3} = (1 + 1) .. 3 /\ 1 + 1 = 2
  /\ 2 # 1 /\ 3 # 1 /\ 4 # 1
  /\ 2 # 3 /\ 4 # 3
OBVIOUS

(* The items of a while statement, and the pair of brackets among them.    *)
LEMMA FencesWhile ==
  ASSUME NEW items, items = <<"(", "expression", ")", "scope">>
  PROVE  /\ IsSeq(items) /\ Fences(items, 4, 1, 3, {2, 3}, "WHILE")
         /\ 4 \in Nat /\ 4 = Len(items)
<1>3. IsSeq(items)
  BY FourLong
<1>1. items[1] = "(" /\ items[2] = "expression" /\ items[3] = ")" /\ items[4] = "scope"
  OBVIOUS
<1>2. Len(items) = 4
  BY FourLong
<1>5. /\ "(" \in Openers /\ ")" \in Closers /\ ")" \notin Openers /\ "(" \notin Closers
      /\ {"expression", "scope"} \cap (Openers \cup Closers) = {}
      /\ {"expression", ")"} \cap Bound = {}
      /\ {"(", "expression", ")", "scope"} \cap Inner = {}
      /\ {"(", "expression", ")", "scope"} \cap Elses = {}
      /\ {"(", "expression", ")", "scope"} \cap {"end", "file", "chain_module", "chain"} = {}
  BY DEF Openers, Closers, Bound, Beginners, Elses, Inner
<1>6. \A i \in 1 .. 4 : (i # 1 => items[i] \notin Openers) /\ (i # 3 => items[i] \notin Closers)
                        /\ items[i] \notin {"end", "file", "chain_module"} /\ items[i] # "chain"
  BY <1>1, PlacesWhile, <1>5
<1>7. \A i \in {2, 3} : items[i] \notin Bound
  BY <1>1, <1>5
<1>8. \A i \in 1 .. 4 : items[i] \in Inner => i \in {2, 3} /\ i = 1 + 1
  BY <1>1, PlacesWhile, <1>5
<1>9. \A i \in 1 .. 4 : items[i] \notin Elses
  BY <1>1, PlacesWhile, <1>5
<1>10. Fences(items, 4, 1, 3, {2, 3}, "WHILE")
  BY <1>1, <1>2, PlacesWhile, <1>5, <1>6, <1>7, <1>8, <1>9 DEF Fences
<1>11. 4 = Len(items) /\ 4 \in Nat
  BY <1>2, PlacesWhile
<1> QED
  BY <1>3, <1>10, <1>11

(* The places of the items of a for statement.                             *)
LEMMA PlacesFor ==
  /\ \A i \in 1 .. 6 : i = 1 \/ i = 2 \/ i = 3 \/ i = 4 \/ i = 5 \/ i = 6
  /\ 6 \in Nat /\ 1 \in 1 .. 6 /\ 5 \in 1 .. 6
  /\ 1 < 5 /\ {2, 3, 4, 5} = (1 + 1) .. 5 /\ 1 + 1 = 2
  /\ 2 # 1 /\ 3 # 1 /\ 4 # 1 /\ 5 # 1 /\ 6 # 1
  /\ 2 # 5 /\ 3 # 5 /\ 4 # 5 /\ 6 # 5
OBVIOUS

(* The items of a for statement, and the pair of brackets among them.      *)
LEMMA FencesFor ==
  ASSUME NEW items, items = <<"(", "for_init", "for_condition", "for_increment", ")", "scope">>
  PROVE  /\ IsSeq(items) /\ Fences(items, 6, 1, 5, {2, 3, 4, 5}, "FOR")
         /\ 6 \in Nat /\ 6 = Len(items)
<1>3. IsSeq(items)
  BY SixLong
<1>1. items[1] = "(" /\ items[2] = "for_init" /\ items[3] = "for_condition"
        /\ items[4] = "for_increment" /\ items[5] = ")" /\ items[6] = "scope"
  OBVIOUS
<1>2. Len(items) = 6
  OBVIOUS
<1>5. /\ "(" \in Openers /\ ")" \in Closers /\ ")" \notin Openers /\ "(" \notin Closers
      /\ {"for_init", "for_condition", "for_increment", "scope"} \cap (Openers \cup Closers) = {}
      /\ {"for_init", "for_condition", "for_increment", ")"} \cap Bound = {}
      /\ {"(", "for_condition", "for_increment", ")", "scope"} \cap Inner = {}
      /\ {"(", "for_init", "for_condition", "for_increment", ")", "scope"} \cap Elses = {}
      /\ {"(", "for_init", "for_condition", "for_increment", ")", "scope"}
           \cap {"end", "file", "chain_module", "chain"} = {}
  BY DEF Openers, Closers, Bound, Beginners, Elses, Inner
<1>6. \A i \in 1 .. 6 : (i # 1 => items[i] \notin Openers) /\ (i # 5 => items[i] \notin Closers)
                        /\ items[i] \notin {"end", "file", "chain_module"} /\ items[i] # "chain"
  BY <1>1, PlacesFor, <1>5
<1>7. \A i \in {2, 3, 4, 5} : items[i] \notin Bound
  BY <1>1, <1>5
<1>8. \A i \in 1 .. 6 : items[i] \in Inner => i \in {2, 3, 4, 5} /\ i = 1 + 1
  BY <1>1, PlacesFor, <1>5
<1>9. \A i \in 1 .. 6 : items[i] \notin Elses
  BY <1>1, PlacesFor, <1>5
<1>10. Fences(items, 6, 1, 5, {2, 3, 4, 5}, "FOR")
  BY <1>1, <1>2, PlacesFor, <1>5, <1>6, <1>7, <1>8, <1>9 DEF Fences
<1>11. 6 = Len(items) /\ 6 \in Nat
  BY <1>2, PlacesFor
<1> QED
  BY <1>3, <1>10, <1>11

(* The items of a field.                                                   *)
LEMMA FieldItems ==
  <<"mut?", "name", ":", "type_decl", "field_init",
    ";">> \in Seq({"mut?", "name", ":", "type_decl", "field_init", ";"})
OBVIOUS

(* The items of a return.                                                  *)
LEMMA ReturnItems ==
  <<"ret_expr", ";">> \in Seq({"ret_expr", ";"})
OBVIOUS

(* The items of a variable declaration.                                    *)
LEMMA LetItems ==
  <<"mut?", "name", ":", "type_decl", "var_init",
    ";">> \in Seq({"mut?", "name", ":", "type_decl", "var_init", ";"})
OBVIOUS

(* The items of an expression as a statement.                              *)
LEMMA ExpressionItems ==
  <<"expression", ";">> \in Seq({"expression", ";"})
OBVIOUS

(* The items of a block as a statement.                                    *)
LEMMA BlockItems ==
  <<"scope">> \in Seq({"scope"}) /\ Len(<<"scope">>) = 1
OBVIOUS

-----------------------------------------------------------------------------
(* The actions that make a node.                                           *)

(* NInv is kept by a function.                                             *)
LEMMA NFunction ==
  ASSUME DInv, HInv, NEW st, NestsOn(tokens, current_token_idx, todo, open, ast, st),
         ParseFunction
  PROVE  NInv'
<1> DEFINE items == <<"receiver", "name", "(", "params", "->", "type_decl", "scope">>
<1>1. Next1 = "function" /\ Advance /\ DoNode("FUNCTION", is_pub, items)
  BY DEF ParseFunction, At
<1>2. IsSeq(items) /\ Fences(items, 7, 3, 4, {4}, "FUNCTION") /\ 7 \in Nat /\ 7 = Len(items)
  BY FencesFunction
<1>3. Peek = "fn"
  BY <1>1 DEF DInv, TokenFits
<1>4. MayMake /\ SameStack
  BY <1>1, <1>3, NeutralPeek DEF MayMake, Inner
<1> HIDE DEF items
<1> QED
  BY <1>1, <1>2, <1>4, DeepDo

(* NInv is kept by a struct or component.                                  *)
LEMMA NContainer ==
  ASSUME DInv, HInv, NEW st, NestsOn(tokens, current_token_idx, todo, open, ast, st),
         ParseContainer
  PROVE  NInv'
<1>1. CASE Exit
  BY <1>1, ExitNests DEF Exit
<1>2. CASE Next1 \in {"struct", "container"} /\ Peek \in {"struct", "component"} /\ Advance
  <2>1. MayMake /\ SameStack
    BY <1>2, NeutralPeek DEF MayMake, Inner
  <2>2. ASSUME NEW items, items = <<"type_name", "{", "struct_body", "}">>,
               DoNode("STRUCT", is_pub, items)
        PROVE  NInv'
    <3>1. IsSeq(items) /\ Fences(items, 4, 2, 4, {3, 4}, "STRUCT") /\ 4 \in Nat /\ 4 = Len(items)
      BY <2>2, FencesStruct
    <3>2. DoNode("STRUCT", is_pub, items)
      BY <2>2
    <3> QED
      BY <2>1, <3>1, <3>2, DeepDo
  <2>3. ASSUME NEW items, items = <<"type_name", "{", "component_body", "}">>,
               DoNode("COMPONENT", is_pub, items)
        PROVE  NInv'
    <3>1. IsSeq(items) /\ Fences(items, 4, 2, 4, {3, 4}, "COMPONENT") /\ 4 \in Nat
            /\ 4 = Len(items)
      BY <2>3, FencesComponent
    <3>2. DoNode("COMPONENT", is_pub, items)
      BY <2>3
    <3> QED
      BY <2>1, <3>1, <3>2, DeepDo
  <2>4. ~Exit => \/ DoNode("STRUCT", is_pub, <<"type_name", "{", "struct_body", "}">>)
                 \/ DoNode("COMPONENT", is_pub, <<"type_name", "{", "component_body", "}">>)
    BY DEF ParseContainer
  <2> QED
    BY <1>1, <2>2, <2>3, <2>4
<1> QED
  BY <1>1, <1>2 DEF ParseContainer, At

(* None of these is a bracket, a body or an end.                           *)
LEMMA FlatSets ==
  /\ {"mut?", "name", ":", "type_decl", "field_init", "var_init", ";", "ret_expr", "expression"}
       \cap (Openers \cup Closers \cup Inner \cup Elses \cup {"end", "file"} \cup Bound) = {}
  /\ {"scope"} \cap (Openers \cup Closers \cup Inner \cup Elses \cup {"end", "file"}) = {}
BY DEF Openers, Closers, Bound, Beginners, Elses, Inner

(* NInv is kept by a field.                                                *)
LEMMA NField ==
  ASSUME DInv, HInv, NEW st, NestsOn(tokens, current_token_idx, todo, open, ast, st), ParseField
  PROVE  NInv'
<1>1. CASE Next1 = "field_init"
  BY <1>1, NFieldInit
<1>2. CASE Next1 = "field"
  <2> DEFINE items == <<"mut?", "name", ":", "type_decl", "field_init", ";">>
             S == {"mut?", "name", ":", "type_decl", "field_init", ";"}
  <2>1. Stay /\ DoNode("FIELD", is_pub, items)
    BY <1>2 DEF ParseField, At
  <2>2. items \in Seq(S)
    BY FieldItems
  <2>3. S \cap (Openers \cup Closers \cup Inner \cup Elses \cup {"end", "file"}) = {}
          /\ S \cap Bound = {}
    BY FlatSets
  <2>4. MayMake /\ SameStack
    BY <1>2, <2>1 DEF MayMake, Inner, SameStack
  <2> HIDE DEF items, S
  <2> QED
    BY <2>1, <2>2, <2>3, <2>4, FlatDo
<1> QED
  BY <1>1, <1>2 DEF ParseField, At

(* NInv is kept by a variable declaration.                                 *)
LEMMA NVarDecl ==
  ASSUME DInv, HInv, NEW st, NestsOn(tokens, current_token_idx, todo, open, ast, st), ParseVarDecl
  PROVE  NInv'
<1>1. CASE Next1 # "var_decl"
  BY <1>1, NVarInit
<1>2. CASE Next1 = "var_decl"
  <2> DEFINE items == <<"mut?", "name", ":", "type_decl", "var_init", ";">>
             S == {"mut?", "name", ":", "type_decl", "var_init", ";"}
  <2>1. Stay /\ DoNode("LET", FALSE, items)
    BY <1>2 DEF ParseVarDecl, At
  <2>2. items \in Seq(S)
    BY LetItems
  <2>3. S \cap (Openers \cup Closers \cup Inner \cup Elses \cup {"end", "file"}) = {}
          /\ S \cap Bound = {}
    BY FlatSets
  <2>4. MayMake /\ SameStack
    BY <1>2, <2>1 DEF MayMake, Inner, SameStack
  <2> HIDE DEF items, S
  <2> QED
    BY <2>1, <2>2, <2>3, <2>4, FlatDo
<1> QED
  BY <1>1, <1>2

(* The body of an else is a block, unless it is the next if.                *)
LEMMA NElseBranch ==
  ASSUME DInv, HInv, NEW st, NestsOn(tokens, current_token_idx, todo, open, ast, st), ElseBranch
  PROVE  NInv'
<1>1. CASE ~(Next1 = "else_body" /\ Peek # "if")
  BY <1>1, NElse
<1>2. CASE Next1 = "else_body" /\ Peek # "if"
  <2> DEFINE items == <<"scope">>
             S == {"scope"}
  <2>1. Stay /\ DoNode("BLOCK", FALSE, items)
    BY <1>2 DEF ElseBranch, At
  <2>2. items \in Seq(S) /\ Len(items) = 1
    BY BlockItems
  <2>3. S \cap (Openers \cup Closers \cup Inner \cup Elses \cup {"end", "file"}) = {}
    BY FlatSets
  <2>4. HeadNests(tokens, current_token_idx, Next1, todo[2], ast)
    BY DEF HInv, Next1
  <2>5. BeforeIn(tokens, current_token_idx) = "else"
    BY <1>2, <2>4 DEF HeadNests
  <2>6. MayMake /\ SameStack
    BY <1>2, <2>1, <2>5 DEF MayMake, Elses, SameStack
  <2> HIDE DEF items, S
  <2> QED
    BY <2>1, <2>2, <2>3, <2>6, FlatDo
<1> QED
  BY <1>1, <1>2

(* NInv is kept by a statement.                                            *)
LEMMA NStatement ==
  ASSUME DInv, HInv, NEW st, NestsOn(tokens, current_token_idx, todo, open, ast, st),
         ParseStatement
  PROVE  NInv'
<1>1. CASE Exit
  BY <1>1, ExitNests DEF Exit
<1>2. CASE Peek = "type"
  BY <1>2, NTypeStatement
<1>3. CASE Next1 = "statement" /\ (Stay \/ (Advance /\ Peek \in {"ret", "if", "while", "for"}))
  <2>1. MayMake /\ SameStack
    BY <1>3, NeutralPeek DEF MayMake, Inner, SameStack
  <2>2. ASSUME NEW items, items = <<"ret_expr", ";">>, DoNode("RET", FALSE, items)
        PROVE  NInv'
    <3> DEFINE S == {"ret_expr", ";"}
    <3>1. items \in Seq(S)
      BY <2>2, ReturnItems
    <3>2. S \cap (Openers \cup Closers \cup Inner \cup Elses \cup {"end", "file"}) = {}
            /\ S \cap Bound = {}
      BY FlatSets
    <3>3. DoNode("RET", FALSE, items)
      BY <2>2
    <3> HIDE DEF S
    <3> QED
      BY <2>1, <3>1, <3>2, <3>3, FlatDo
  <2>3. ASSUME NEW items, items = <<"expression", ";">>, DoNode("EXPR", FALSE, items)
        PROVE  NInv'
    <3> DEFINE S == {"expression", ";"}
    <3>1. items \in Seq(S)
      BY <2>3, ExpressionItems
    <3>2. S \cap (Openers \cup Closers \cup Inner \cup Elses \cup {"end", "file"}) = {}
            /\ S \cap Bound = {}
      BY FlatSets
    <3>3. DoNode("EXPR", FALSE, items)
      BY <2>3
    <3> HIDE DEF S
    <3> QED
      BY <2>1, <3>1, <3>2, <3>3, FlatDo
  <2>4. ASSUME NEW items, items = <<"scope">>, DoNode("BLOCK", FALSE, items)
        PROVE  NInv'
    <3> DEFINE S == {"scope"}
    <3>1. items \in Seq(S) /\ Len(items) = 1
      BY <2>4, BlockItems
    <3>2. S \cap (Openers \cup Closers \cup Inner \cup Elses \cup {"end", "file"}) = {}
      BY FlatSets
    <3>3. DoNode("BLOCK", FALSE, items)
      BY <2>4
    <3> HIDE DEF S
    <3> QED
      BY <2>1, <3>1, <3>2, <3>3, FlatDo
  <2>5. ASSUME NEW items, items = <<"(", "expression", ")", "scope", "else_branch">>,
               DoNode("IF", FALSE, items)
        PROVE  NInv'
    <3>1. IsSeq(items) /\ Fences(items, 5, 1, 3, {2, 3}, "IF") /\ 5 \in Nat /\ 5 = Len(items)
      BY <2>5, FencesIf
    <3>2. DoNode("IF", FALSE, items)
      BY <2>5
    <3> QED
      BY <2>1, <3>1, <3>2, DeepDo
  <2>6. ASSUME NEW items, items = <<"(", "expression", ")", "scope">>,
               DoNode("WHILE", FALSE, items)
        PROVE  NInv'
    <3>1. IsSeq(items) /\ Fences(items, 4, 1, 3, {2, 3}, "WHILE") /\ 4 \in Nat /\ 4 = Len(items)
      BY <2>6, FencesWhile
    <3>2. DoNode("WHILE", FALSE, items)
      BY <2>6
    <3> QED
      BY <2>1, <3>1, <3>2, DeepDo
  <2>7. ASSUME NEW items, items = <<"(", "for_init", "for_condition", "for_increment", ")",
               "scope">>,
               DoNode("FOR", FALSE, items)
        PROVE  NInv'
    <3>1. IsSeq(items) /\ Fences(items, 6, 1, 5, {2, 3, 4, 5}, "FOR") /\ 6 \in Nat
            /\ 6 = Len(items)
      BY <2>7, FencesFor
    <3>2. DoNode("FOR", FALSE, items)
      BY <2>7
    <3> QED
      BY <2>1, <3>1, <3>2, DeepDo
  <2>8. \/ Exit \/ Peek = "type"
        \/ DoNode("RET", FALSE, <<"ret_expr", ";">>)
        \/ DoNode("EXPR", FALSE, <<"expression", ";">>)
        \/ DoNode("BLOCK", FALSE, <<"scope">>)
        \/ DoNode("IF", FALSE, <<"(", "expression", ")", "scope", "else_branch">>)
        \/ DoNode("WHILE", FALSE, <<"(", "expression", ")", "scope">>)
        \/ DoNode("FOR", FALSE, <<"(", "for_init", "for_condition", "for_increment", ")",
             "scope">>)
    BY DEF ParseStatement
  <2> QED
    BY <1>1, <1>2, <2>2, <2>3, <2>4, <2>5, <2>6, <2>7, <2>8
<1> QED
  BY <1>1, <1>2, <1>3 DEF ParseStatement, At

(* The brackets stay the same past any other token.                         *)
LEMMA StackStays ==
  ASSUME NEW t, NEW c \in Nat, NEW st, IsStacks(t, c, st), NEW p \in 1 .. (c - 1),
         t[p] \notin {"{", "(", "}", ")"}
  PROVE  st[p + 1] = st[p]
<1>1. ~OpensIn(t, p) /\ ~ClosesIn(t, p)
  BY DEF OpensIn, ClosesIn
<1>2. st[p + 1] = CASE OpensIn(t, p) -> Append(st[p], p)
                   [] ClosesIn(t, p) -> SubSeq(st[p], 1, Len(st[p]) - 1)
                   [] OTHER -> st[p]
  BY DEF IsStacks
<1> QED
  BY <1>1, <1>2, Zenon

(* The first module of a chain stays the one that is filled.                *)
LEMMA ChainFilled ==
  ASSUME NEW t, NEW c, NEW nodes, NEW st, NEW t2, NEW nodes2, NEW st2,
         Grows(t, c, nodes, st, t2, nodes2, st2),
         NEW j, j = Len(nodes), j > 0, NEW k, k = j + 1, Len(nodes2) = k,
           nodes2[k].node = "MODULE", nodes2[k].pos = c,
         BeforeIn(t2, c) = "::", nodes[j].node = "MODULE"
  PROVE  IsChainedIn(t2, nodes2, k) /\ FilledIn(t2, nodes2, k) = FilledIn(t, nodes, j)
<1> DEFINE S == {i \in 1 .. j : nodes[i].node = "MODULE" /\ ~IsChainedIn(t, nodes, i)}
           S2 == {i \in 1 .. k : nodes2[i].node = "MODULE" /\ ~IsChainedIn(t2, nodes2, i)}
<1>1. IsChainedIn(t2, nodes2, k)
  BY DEF IsChainedIn
<1>2. /\ j \in Nat /\ \A i \in 1 .. j : nodes2[i] = nodes[i]
  BY DEF Grows
<1>3. \A i \in 1 .. j : IsChainedIn(t2, nodes2, i) <=> IsChainedIn(t, nodes, i)
  BY GrownFilled
<1>4. k # 0 /\ j # 0 /\ j \in 1 .. j /\ (\A i \in 1 .. k : i \in 1 .. j \/ i = k)
        /\ (\A i \in 1 .. j : i \in 1 .. k)
      /\ \A i \in 1 .. j : i \in Nat /\ i <= j
  BY <1>2
<1>5. S2 = S
  BY <1>1, <1>2, <1>3, <1>4
<1>6. FilledIn(t2, nodes2, k) = Greatest(S)
  BY <1>1, <1>4, <1>5 DEF FilledIn
<1>7. CASE IsChainedIn(t, nodes, j)
  <2>1. FilledIn(t, nodes, j) = Greatest(S)
    BY <1>4, <1>7 DEF FilledIn
  <2> HIDE DEF S
  <2> QED
    BY <1>1, <1>6, <2>1
<1>8. CASE ~IsChainedIn(t, nodes, j)
  <2>1. j \in S /\ S \subseteq Nat /\ \A i \in S : i <= j
    BY <1>4, <1>8
  <2> HIDE DEF S
  <2>2. Greatest(S) = j
    BY <2>1, GreatestIs
  <2>3. FilledIn(t, nodes, j) = j
    BY <1>8 DEF FilledIn
  <2> QED
    BY <1>1, <1>6, <2>2, <2>3
<1> QED
  BY <1>1, <1>7, <1>8

(* The two places before c.                                                *)
LEMMA TwoBefore ==
  ASSUME NEW c \in Nat, NEW x \in 1 .. c, x + 2 = c
  PROVE  x = c - 2 /\ c - 2 \in 1 .. (c - 1) /\ (c - 2) + 1 \in 1 .. (c - 1)
         /\ ((c - 2) + 1) + 1 = c
OBVIOUS

(* The next module of a chain belongs to the one before it.                 *)
LEMMA ChainParent ==
  ASSUME NEW t, NEW c, NEW nodes, NEW st, NEW t2, NEW nodes2, NEW st2,
         Grows(t, c, nodes, st, t2, nodes2, st2),
         NEW j, j = Len(nodes), j > 0, NEW k, k = j + 1, Len(nodes2) = k, nodes2[k].pos = c,
         BeforeIn(t2, c) = "::", nodes[j].pos + 2 = c
  PROVE  ParentOf(t2, nodes2, st2, k) = j
<1> DEFINE S == {i \in 1 .. Len(nodes2) : nodes2[i].pos = c - 2}
<1>1. /\ j \in Nat /\ nodes2[j] = nodes[j] /\ j \in 1 .. j /\ c \in Nat
  BY DEF Grows
<1>2. nodes[j].pos \in 1 .. c
  BY <1>1 DEF Grows
<1>3. nodes[j].pos = c - 2 /\ c # c - 2
  BY <1>1, <1>2
<1>4. j \in Earlier(k, S) /\ Earlier(k, S) \subseteq Nat /\ \A i \in Earlier(k, S) : i <= j
  BY <1>1, <1>3 DEF Earlier
<1>5. ParentOf(t2, nodes2, st2, k) = LastOf(Earlier(k, S))
  BY Zenon DEF ParentOf
<1> HIDE DEF S
<1> QED
  BY <1>4, <1>5, LastIs

(* NInv is kept by the next module of a chain.                             *)
LEMMA NChainModule ==
  ASSUME DInv, HInv, NEW st, NestsOn(tokens, current_token_idx, todo, open, ast, st), ChainModule
  PROVE  NInv'
<1> DEFINE c == current_token_idx
           c2 == current_token_idx'
           q == Len(todo) - 1
           j == Len(ast)
           k == Len(ast) + 1
           s == st[c]
           st2 == StackOn(tokens, c, st, c2)
           b == InnermostOf(s)
           items == <<>>
           node == Node("MODULE", Len(ast), FALSE)
<1>0. Next1 = "chain_module" /\ Stay /\ ast' = Append(ast, node) /\ Then(<<>>) /\ open' = open
  BY DEF ChainModule, At
<1>1. PICK lv, bl : CallsNest(tokens, c, todo, open, ast, st, lv, bl)
  BY DEF NestsOn
<1>2. Next1 \notin {"file", "end", "chain"}
        /\ Next1 \notin Openers \cup Closers \cup Inner \cup Elses \cup Beginners
             /\ Next1 \in Makers
  BY <1>0 DEF Inner, Elses, Makers, Openers, Closers, Beginners
<1>3. /\ q \in Nat \ {0} /\ Len(todo) = q + 1 /\ Len(todo) >= 2
      /\ IsSeq(todo) /\ IsSeq(open) /\ IsSeq(ast) /\ Len(open) \in Nat /\ Len(ast) \in Nat
      /\ c \in Nat \ {0} /\ Brackets(s, c) /\ Len(s) \in Nat \ {0}
      /\ bl[q] = Len(s) + Effect(Next1) /\ bl[q] \in Nat \ {0}
      /\ lv[q] \in Nat /\ Len(open) = lv[q]
      /\ \A r \in 1 .. q : Up(todo, r) # "statement"
  BY <1>1, <1>2, Here
<1>4. IsStacks(tokens, c, st) /\ NodesNest(tokens, c, ast, st) /\ c2 = c /\ tokens' = tokens
  BY <1>0 DEF NestsOn, Stay, source
<1>5. /\ BeforeIn(tokens, c) = "::" /\ ast # <<>> /\ ast[j].node = "MODULE"
  BY <1>0 DEF DInv, TokenFits, Before, BeforeIn
<1>6. ast[j].pos + 2 = c /\ \A p \in ast[j].pos .. (c - 1) : tokens[p] \notin {"{", "(", "}", ")"}
  <2>1. HeadNests(tokens, c, Next1, todo[2], ast)
    BY DEF HInv, Next1
  <2> QED
    BY <1>0, <2>1 DEF HeadNests
<1>7. j > 0 /\ j \in Nat /\ k \in Nat \ {0} /\ j \in 1 .. j
  BY <1>3, <1>5, SeqFacts
<1>8. node.node = "MODULE" /\ node.pos = c /\ node.into = j
  BY DEF Node
<1>9. Len(ast') = k /\ ast'[k] = node
  BY <1>0, <1>3, AppendSeq
<1>10. /\ IsStacks(tokens', c2, st2) /\ Grows(tokens, c, ast, st, tokens', ast', st2)
       /\ \A i \in 1 .. Len(ast) : /\ ast'[i].pos \in 1 .. c2
                                   /\ InnermostOf(st2[ast'[i].pos]) \in 0 .. (ast'[i].pos - 1)
                                   /\ NodeNests(tokens', ast', st2, i)
       /\ st2[c2] = st[c]
  <2>1. \E n : ast' = Append(ast, n) /\ n.pos = current_token_idx
    BY <1>0, <1>8
  <2> QED
    BY <1>0, <1>4, <2>1, Moved
<1>11. Replaced(todo, todo', items, q, 0)
  <2>1. IsSeq(<<>>) /\ Len(<<>>) = 0
    BY Empty
  <2> QED
    BY <1>0, <1>3, <2>1, ReplacedIs DEF Then
<1> HIDE DEF node, q, c, c2, j, k, st2
<1>12. Added(tokens, c, ast, st, tokens', ast', st2, k, b)
  <2>1. k = Len(ast) + 1 /\ Len(ast') = k /\ b = InnermostOf(st[c])
    BY <1>9 DEF k
  <2> HIDE DEF b, s
  <2> QED
    BY <1>10, <2>1, NewNode
<1>13. s[Len(s)] = b /\ b \in 0 .. (c - 1)
  <2>1. Len(s) \in 1 .. Len(s)
    BY <1>3
  <2> QED
    BY <1>3, <2>1 DEF Brackets, InnermostOf
<1>14. BeforeIn(tokens', c) = "::"
  BY <1>4, <1>5
<1>15. IsChainedIn(tokens', ast', k) /\ FilledIn(tokens', ast', k) = FilledIn(tokens, ast, j)
  <2>1. j = Len(ast) /\ k = j + 1 /\ Len(ast') = k
    BY <1>9 DEF j, k
  <2> QED
    BY <1>5, <1>7, <1>8, <1>9, <1>10, <1>14, <2>1, ChainFilled
<1>16. NodeNests(tokens', ast', st2, k)
  <2>1. j = Len(ast) /\ k = j + 1 /\ Len(ast') = k
    BY <1>9 DEF j, k
  <2>2. ParentOf(tokens', ast', st2, k) = j
    <3>1. ast'[k].pos = c /\ ast[j].pos + 2 = c
      BY <1>6, <1>8, <1>9
    <3>2. Grows(tokens, c, ast, st, tokens', ast', st2) /\ j > 0
      BY <1>7, <1>10
    <3> QED
      BY <1>14, <2>1, <3>1, <3>2, ChainParent
  <2> QED
    BY <1>8, <1>9, <1>15, <2>2 DEF NodeNests
<1>17. NodesNest(tokens', c2, ast', st2)
  <2> SUFFICES ASSUME NEW i \in 1 .. Len(ast')
               PROVE  /\ ast'[i].pos \in 1 .. c2
                      /\ InnermostOf(st2[ast'[i].pos]) \in 0 .. (ast'[i].pos - 1)
                      /\ NodeNests(tokens', ast', st2, i)
    BY DEF NodesNest
  <2>1. i \in 1 .. Len(ast) \/ i = k
    BY <1>3, <1>9 DEF k
  <2>2. c \in 1 .. c2
    BY <1>3, <1>4
  <2> QED
    BY <1>8, <1>9, <1>10, <1>4, <1>13, <1>16, <2>1, <2>2
<1>18. Effect(Next1) = 0 /\ bl[q] = Len(s)
  <2>1. Effect(Next1) = 0
    BY <1>2 DEF Effect
  <2> QED
    BY <2>1, <1>3
<1>19. Latest(ast, st, b) = j
  <2> DEFINE p == c - 2
  <2>1. p \in 1 .. (c - 1) /\ p + 1 \in 1 .. (c - 1) /\ (p + 1) + 1 = c /\ c \in Nat
          /\ ast[j].pos = p
        /\ tokens[p] \notin {"{", "(", "}", ")"} /\ tokens[p + 1] \notin {"{", "(", "}", ")"}
    <3>1. ast[j].pos \in 1 .. c
      BY <1>4, <1>7 DEF NodesNest, j
    <3>2. c \in Nat
      BY <1>3
    <3>3. ast[j].pos = p /\ p \in 1 .. (c - 1) /\ p + 1 \in 1 .. (c - 1) /\ (p + 1) + 1 = c
      <4> DEFINE x == ast[j].pos
      <4>1. x \in 1 .. c /\ c \in Nat /\ x + 2 = c
        BY <1>6, <3>1, <3>2
      <4> HIDE DEF x
      <4>2. x = p /\ p \in 1 .. (c - 1) /\ p + 1 \in 1 .. (c - 1) /\ (p + 1) + 1 = c
        BY <4>1, TwoBefore
      <4> QED
        BY <4>2 DEF x
    <3>4. p \in ast[j].pos .. (c - 1) /\ p + 1 \in ast[j].pos .. (c - 1)
      BY <3>2, <3>3
    <3> HIDE DEF p
    <3> QED
      BY <1>6, <3>2, <3>3, <3>4
  <2> HIDE DEF p
  <2>2. st[p + 1] = st[p] /\ st[c] = st[p + 1]
    <3>1. st[p + 1] = st[p]
      <4>1. p \in 1 .. (c - 1) /\ tokens[p] \notin {"{", "(", "}", ")"} /\ c \in Nat
        BY <2>1
      <4> QED
        BY <1>4, <4>1, StackStays
    <3>2. st[(p + 1) + 1] = st[p + 1]
      <4> DEFINE p1 == p + 1
      <4>1. p1 \in 1 .. (c - 1) /\ tokens[p1] \notin {"{", "(", "}", ")"} /\ c \in Nat
        BY <2>1
      <4> HIDE DEF p1
      <4>2. st[p1 + 1] = st[p1]
        BY <1>4, <4>1, StackStays
      <4> QED
        BY <4>2 DEF p1
    <3> QED
      BY <2>1, <3>1, <3>2
  <2> DEFINE S == In(ast, st, b)
  <2>3. j \in S /\ S \subseteq Nat /\ \A i \in S : i <= j
    <3>1. InnermostOf(st[ast[j].pos]) = b
      BY <2>1, <2>2
    <3>2. j \in 1 .. Len(ast)
      BY <1>7 DEF j
    <3>3. S \subseteq 1 .. Len(ast) /\ j \in S
      BY <3>1, <3>2 DEF In
    <3>4. \A i \in 1 .. Len(ast) : i \in Nat /\ i <= j
      BY <1>7 DEF j
    <3> HIDE DEF S
    <3> QED
      BY <3>3, <3>4
  <2> HIDE DEF S
  <2>4. LastOf(S) = j
    BY <2>3, LastIs
  <2> QED
    BY <2>4 DEF Latest, S
<1>20. LatestIf(ast', st2, b) = LatestIf(ast, st, b)
  <2>1. In(ast, st2, b) = In(ast, st, b)
    BY <1>10, GrownIn
  <2>2. /\ \A i \in 1 .. Len(ast) : ast'[i] = ast[i] /\ i \in 1 .. Len(ast')
        /\ \A i \in 1 .. Len(ast') : i \in 1 .. Len(ast) \/ i = k
    BY <1>3, <1>9, <1>10 DEF k, Grows
  <2>3. ast'[k].node # "IF"
    BY <1>8, <1>9
  <2>4. Ifs(ast', In(ast', st2, b)) = Ifs(ast, In(ast, st2, b))
    BY <2>2, <2>3 DEF Ifs, In
  <2> QED
    BY <2>1, <2>4 DEF LatestIf
<1>21. KeepsLatest(tokens, ast, st, tokens', ast', st2, todo, q, bl, s)
  <2>1. \A x : /\ LatestIf(ast', st2, x) = LatestIf(ast, st, x)
               /\ FilledIn(tokens', ast', Latest(ast', st2, x))
                    = FilledIn(tokens, ast, Latest(ast, st, x))
    <3>1. Latest(ast', st2, b) = k
      BY <1>12 DEF Added
    <3>2. FilledIn(tokens', ast', Latest(ast', st2, b))
            = FilledIn(tokens, ast, Latest(ast, st, b))
      BY <1>15, <1>19, <3>1
    <3> HIDE DEF b
    <3> QED
      BY <1>12, <1>20, <3>2 DEF Added
  <2> HIDE DEF b, s
  <2> QED
    BY <2>1 DEF KeepsLatest
<1>22. ClearBelow(todo', q, bl)
  <2>1. DepthsFit(todo, bl)
    BY <1>1 DEF CallsNest
  <2>2. todo[1] = Next1
    BY DEF Next1
  <2> QED
    BY <1>2, <1>11, <2>1, <2>2, Cleared
<1> DEFINE deep == <<>>
<1>23. Sinks(items, 0, deep) /\ ItemsPlaced(tokens', c2, items, 0, ast', st2,
         NodeAt(open, Len(open)), st2[c2][bl[q]])
  BY Empty
<1>24. bl[q] + (IF 0 > 0 THEN deep[1] ELSE 0) = Len(st2[c2])
  BY <1>3, <1>10, <1>18
<1>25. Brackets(st2[c2], c2) /\ (\A i \in 1 .. bl[q] : i <= Len(st[c]) => st2[c2][i] = st[c][i])
       /\ todo[1] \notin Openers /\ c2 \in Nat
  BY <1>2, <1>3, <1>4, <1>10 DEF Next1
<1>26. Len(open) = lv[q] + (IF 0 > 0 /\ items[0] = "end" THEN 1 ELSE 0)
         /\ \A i \in 1 .. 0 : i # 0 => items[i] # "end"
  BY <1>3
<1> HIDE DEF items, deep, b, s
<1>27. Pushes(tokens, c, todo, open, ast, st, lv, bl, tokens', c2, todo', open, ast', st2, items,
         q, 0, deep)
  BY <1>1, <1>3, <1>10, <1>11, <1>21, <1>22, <1>23, <1>24, <1>25, <1>26 DEF Pushes, s
<1>28. \E lv2, bl2 : CallsNest(tokens', c2, todo', open, ast', st2, lv2, bl2)
  BY <1>27, Pushed
<1>29. NestsOn(tokens', c2, todo', open', ast', st2)
  BY <1>0, <1>10, <1>17, <1>28 DEF NestsOn
<1> QED
  BY <1>29 DEF NInv, c2

-----------------------------------------------------------------------------
(* The types of functions that are refused, and the steps of the whole     *)
(* parser.                                                                 *)

(* A function's type that lacks its arrow, or is followed by one, leads to  *)
(* an error, and to no node before it.                                      *)
LEMMA DoomedActions ==
  ASSUME Step, ~NextToken, Next1 \in AfterTypes \cup {"fn_ptr_arrow", ";", "{"}
  PROVE  \/ Expect \/ ParseField \/ ParseParams \/ ParseScope \/ ParseVarDecl
         \/ EndPointer \/ EndReference \/ ParseFunctionPointer
<1>1. Next1 \in {"field_init", "scope", ")", "more_params", "var_init", "end_ptr", "end_ref", "]",
                 "fn_ptr_more", "fn_ptr_arrow", ";", "{"}
  BY DEF AfterTypes
<1>2. ~(ConsumeIf \/ EndNode \/ File \/ ParseTopLevel \/ EndOfFile \/ ParseDeclaration)
  BY <1>1 DEF ConsumeIf, EndNode, File, ParseTopLevel, EndOfFile, ParseDeclaration, At,
              OptionalToken
<1>3. ~(ParseModule \/ ParseChain \/ ChainModule \/ ParseModuleBody \/ ParseFunction
        \/ ParseReceiver)
  BY <1>1 DEF ParseModule, ParseChain, ChainModule, ParseModuleBody, ParseFunction,
              ParseReceiver, At
<1>4. ~(ParseParam \/ ParseContainer \/ RegisterType \/ ParseStructBody \/ ParseComponentBody
        \/ ParseMember)
  BY <1>1 DEF ParseParam, ParseContainer, RegisterType, ParseStructBody, ParseComponentBody,
              ParseMember, At
<1>5. ~(ParseStatement \/ ReturnExpression \/ ElseBranch \/ ForParts)
  BY <1>1 DEF ParseStatement, ReturnExpression, ElseBranch, ForParts, At
<1>6. ~(ParseTypeDecl \/ ParseTypeKind \/ ParseTypePath \/ ParseArraySizes)
  BY <1>1 DEF ParseTypeDecl, ParseTypeKind, ParseTypePath, ParseArraySizes, At
<1> QED
  BY <1>2, <1>3, <1>4, <1>5, <1>6 DEF Step

(* Each item that is left: removed, replaced, or refused.                   *)
LEMMA DoomedMoves ==
  ASSUME Step, ~NextToken, Doomed(tokens, current_token_idx, todo)
  PROVE  \/ UNCHANGED <<source, current_token_idx, locals>>
         \/ /\ Stay /\ UNCHANGED <<ast, open>> /\ current_token_idx <= Len(tokens) /\ Peek = "->"
            /\ \/ Next1 \in {"fn_ptr_arrow", "field_init", "var_init", "end_ptr", "end_ref",
                    "fn_ptr_more"} /\ Then(<<>>)
               \/ Then(<<"{", "statements", "}">>)
               \/ Then(<<")">>)
<1>1. \/ Next1 = "fn_ptr_arrow"
      \/ Peek = "->" /\ Next1 \in AfterTypes \cup {";", "{"}
  BY DEF Doomed, Peek, Next1
<1>2. /\ Next1 \in AfterTypes \cup {"fn_ptr_arrow", ";", "{"}
      /\ Next1 \in {"field_init", "scope", ")", "more_params", "var_init", "end_ptr", "end_ref",
           "]", "fn_ptr_more", "fn_ptr_arrow", ";", "{"}
  BY <1>1 DEF AfterTypes
<1>3. \/ Expect \/ ParseField \/ ParseParams \/ ParseScope \/ ParseVarDecl
      \/ EndPointer \/ EndReference \/ ParseFunctionPointer
  BY <1>2, DoomedActions
<1>4. CASE Expect
  <2>1. Next1 \in {")", "]", ";", "{"} /\ Peek = "->"
    BY <1>1, <1>2, <1>4 DEF Expect, At, Punctuation
  <2>2. Peek \notin Expected(Next1)
    BY <2>1 DEF Expected
  <2> QED
    BY <1>4, <2>2 DEF Expect, Exit
<1>5. CASE ParseField
  BY <1>1, <1>2, <1>5 DEF ParseField, At, Do
<1>6. CASE ParseParams
  BY <1>1, <1>2, <1>6 DEF ParseParams, At, Do, Exit
<1>7. CASE ParseScope
  BY <1>1, <1>2, <1>7 DEF ParseScope, At, Do, Exit
<1>8. CASE ParseVarDecl
  BY <1>1, <1>2, <1>8 DEF ParseVarDecl, At, Do
<1>9. CASE EndPointer
  BY <1>1, <1>2, <1>9 DEF EndPointer, At, DoType
<1>10. CASE EndReference
  BY <1>1, <1>2, <1>10 DEF EndReference, At, DoType, Exit
<1>11. CASE ParseFunctionPointer
  BY <1>1, <1>2, <1>11 DEF ParseFunctionPointer, At, DoType, Exit
<1> QED
  BY <1>3, <1>4, <1>5, <1>6, <1>7, <1>8, <1>9, <1>10, <1>11

(* The first of three items comes next.                                    *)
LEMMA HeadOfThree ==
  ASSUME IsSeq(todo), todo # <<>>, NEW x, NEW y, NEW z, Then(<<x, y, z>>)
  PROVE  todo'[1] = x
<1> DEFINE items == <<x, y, z>>
<1>1. IsSeq(items) /\ Len(items) = 3 /\ items[1] = x /\ Then(items)
  BY Threes
<1> HIDE DEF items
<1>2. 1 \in 1 .. Len(items)
  BY <1>1
<1> QED
  BY <1>1, <1>2, ThenSeq DEF Then

(* Once no other node can be made, none is.                                *)
LEMMA DoomedNests ==
  ASSUME DInv, HInv, NEW st, IsStacks(tokens, current_token_idx, st),
         NodesNest(tokens, current_token_idx, ast, st),
         Doomed(tokens, current_token_idx, todo), Step, ~NextToken
  PROVE  NInv'
<1>1. CASE UNCHANGED <<source, current_token_idx, locals>>
  <2>1. NInv
    BY DEF NInv
  <2> QED
    BY <1>1, <2>1, SameNests
<1>2. CASE /\ Stay /\ UNCHANGED <<ast, open>> /\ current_token_idx <= Len(tokens) /\ Peek = "->"
           /\ Doomed(tokens, current_token_idx, todo')
  <2>1. tokens' = tokens /\ current_token_idx' = current_token_idx /\ ast' = ast
    BY <1>2 DEF Stay, source
  <2> QED
    BY <1>2, <2>1 DEF NInv
<1>3. IsSeq(todo) /\ todo # <<>> /\ Pairs(todo) /\ todo[1] = Next1
  BY DEF DInv, CallsFit, HInv, Next1
<1>4. Next1 # "file"
  BY DEF Doomed, Next1, AfterTypes
<1>5. ASSUME NEW items, IsSeq(items), Len(items) > 0, Then(items)
      PROVE  todo'[1] = items[1]
  <2>1. 1 \in 1 .. Len(items)
    BY <1>5, SeqFacts
  <2> QED
    BY <1>3, <1>5, <2>1, ThenSeq DEF Then
<1>6. ASSUME Then(<<>>)
      PROVE  Pair(Next1, todo'[1])
  <2>1. Len(todo) \in Nat /\ Len(todo) >= 2
    BY <1>3, <1>4, MoreToDo DEF DInv
  <2>2. todo'[1] = todo[2]
    BY <1>3, <1>6, <2>1, ThenSeq, Empty DEF Then
  <2>3. 1 \in 1 .. (Len(todo) - 1) /\ 1 + 1 = 2
    BY <2>1
  <2> QED
    BY <1>3, <2>2, <2>3 DEF Pairs
<1>7. ASSUME Peek = "->", current_token_idx <= Len(tokens),
             todo'[1] \in AfterTypes \cup {";", "{"}
      PROVE  Doomed(tokens, current_token_idx, todo')
  BY <1>7 DEF Doomed, Peek
<1>8. CASE Next1 \in {"fn_ptr_arrow", "field_init", "var_init", "end_ptr", "end_ref",
             "fn_ptr_more"} /\ Then(<<>>)
  <2>1. Pair(Next1, todo'[1])
    BY <1>6, <1>8
  <2> HIDE DEF Next1
  <2>2. todo'[1] \in AfterTypes \cup {";", "{"}
    BY <1>8, <2>1 DEF Pair, TypeItems
  <2> QED
    BY <1>1, <1>2, <1>7, <2>2, DoomedMoves
<1>9. CASE Then(<<"{", "statements", "}">>)
  <2>1. todo'[1] = "{"
    BY <1>3, <1>9, HeadOfThree
  <2> QED
    BY <1>1, <1>2, <1>7, <2>1, DoomedMoves
<1>10. CASE Then(<<")">>)
  <2>1. todo'[1] = ")"
    BY <1>5, <1>10, ShortSeqs
  <2> QED
    BY <1>1, <1>2, <1>7, <2>1, DoomedMoves DEF AfterTypes
<1> QED
  BY <1>1, <1>8, <1>9, <1>10, DoomedMoves

(* What brackets are open depends on the tokens up to there only.           *)
LEMMA SameStacks ==
  ASSUME NEW t, NEW t2, NEW c \in Nat, NEW st, IsStacks(t, c, st),
         \A i \in 1 .. (c - 1) : t2[i] = t[i]
  PROVE  IsStacks(t2, c, st)
<1>1. ASSUME NEW p \in 1 .. (c - 1)
      PROVE  (OpensIn(t2, p) <=> OpensIn(t, p)) /\ (ClosesIn(t2, p) <=> ClosesIn(t, p))
  <2>1. t2[p] = t[p]
    OBVIOUS
  <2>2. ASSUME NEW i \in 2 .. (p - 1)
        PROVE  t2[i] = t[i] /\ t2[i - 1] = t[i - 1] /\ \A j \in (i + 1) .. p : t2[j] = t[j]
    OBVIOUS
  <2>3. OpensTypeIn(t2, p) <=> OpensTypeIn(t, p)
    BY <2>2 DEF OpensTypeIn, BeforeIn
  <2> QED
    BY <2>1, <2>3 DEF OpensIn, ClosesIn
<1>2. ASSUME NEW p \in 1 .. (c - 1)
      PROVE  st[p + 1] = CASE OpensIn(t2, p) -> Append(st[p], p)
                           [] ClosesIn(t2, p) -> SubSeq(st[p], 1, Len(st[p]) - 1)
                           [] OTHER -> st[p]
  <2>1. st[p + 1] = CASE OpensIn(t, p) -> Append(st[p], p)
                      [] ClosesIn(t, p) -> SubSeq(st[p], 1, Len(st[p]) - 1)
                      [] OTHER -> st[p]
    BY DEF IsStacks
  <2>2. (OpensIn(t2, p) <=> OpensIn(t, p)) /\ (ClosesIn(t2, p) <=> ClosesIn(t, p))
    BY <1>1
  <2>6. OpensIn(t, p) => ~ClosesIn(t, p)
    BY DEF OpensIn, ClosesIn
  <2>3. CASE OpensIn(t, p)
    <3>1. st[p + 1] = Append(st[p], p)
      BY <2>1, <2>3, <2>6, Zenon
    <3> QED
      BY <2>2, <2>3, <2>6, <3>1, Zenon
  <2>4. CASE ~OpensIn(t, p) /\ ClosesIn(t, p)
    <3>1. st[p + 1] = SubSeq(st[p], 1, Len(st[p]) - 1)
      BY <2>1, <2>4, Zenon
    <3> QED
      BY <2>2, <2>4, <3>1, Zenon
  <2>5. CASE ~OpensIn(t, p) /\ ~ClosesIn(t, p)
    <3>1. st[p + 1] = st[p]
      BY <2>1, <2>5, Zenon
    <3> QED
      BY <2>2, <2>5, <3>1, Zenon
  <2> QED
    BY <2>3, <2>4, <2>5
<1> QED
  BY <1>2 DEF IsStacks

(* The calls are nested as they were when the source has a token more.      *)
LEMMA SameCalls ==
  ASSUME NEW t, NEW c, NEW td, NEW op, NEW nodes, NEW st, NEW t2, NEW lv, NEW bl,
         Grows(t, c, nodes, st, t2, nodes, st), CallsNest(t, c, td, op, nodes, st, lv, bl),
         Len(td) \in Nat \ {0}
  PROVE  CallsNest(t2, c, td, op, nodes, st, lv, bl)
<1>1. c \in Nat \ {0} /\ BeforeIn(t2, c) = BeforeIn(t, c) /\ Len(nodes) \in Nat
  <2>1. c \in Nat \ {0} /\ Len(nodes) \in Nat
    BY DEF Grows
  <2> QED
    BY <2>1, GrownBefore
<1>2. \A r : AfterElse(t2, c, td, r) <=> AfterElse(t, c, td, r)
  BY <1>1 DEF AfterElse
<1>3. \A b \in 0 .. (c - 1) : Holder(t2, nodes, st, b) = Holder(t, nodes, st, b)
  BY GrownHolder
<1>4. \A b : FilledIn(t2, nodes, Latest(nodes, st, b)) = FilledIn(t, nodes, Latest(nodes, st, b))
  <2> TAKE b
  <2>1. In(nodes, st, b) \subseteq 1 .. Len(nodes)
    BY DEF In
  <2>2. Latest(nodes, st, b) \in 0 .. Len(nodes)
    BY <1>1, <2>1, LastFacts DEF Latest
  <2> QED
    BY <2>2, GrownFilled
<1>5. ASSUME NEW r \in 1 .. Len(td), Known(td, r)
      PROVE  st[c][bl[r]] \in 0 .. (c - 1)
  <2>1. DepthsFit(td, bl) /\ bl[Len(td)] = Len(st[c]) /\ Brackets(st[c], c)
    BY DEF CallsNest
  <2>2. Len(td) \in 1 .. Len(td) /\ r <= Len(td)
    OBVIOUS
  <2>3. bl[r] \in Nat \ {0} /\ bl[r] <= bl[Len(td)] /\ bl[Len(td)] \in Nat \ {0}
    BY <1>5, <2>1, <2>2 DEF DepthsFit
  <2>4. bl[r] \in 1 .. Len(st[c])
    BY <2>1, <2>3
  <2> QED
    BY <2>1, <2>4 DEF Brackets
<1>6. ASSUME NEW r \in 1 .. Len(td)
      PROVE  Placed(t2, c, td, op, nodes, st, lv, bl, r)
  <2>1. Placed(t, c, td, op, nodes, st, lv, bl, r)
    BY DEF CallsNest
  <2>2. Up(td, r) \in Inner \cup {"file"} /\ ~Pending(td, r)
          => Holder(t2, nodes, st, st[c][bl[r]]) = Holder(t, nodes, st, st[c][bl[r]])
    BY <1>3, <1>5 DEF Known
  <2> QED
    BY <1>2, <1>4, <2>1, <2>2 DEF Placed
<1> QED
  BY <1>6 DEF CallsNest

(* NInv is kept by a token more in the source.                             *)
LEMMA NNextToken ==
  ASSUME DInv, HInv, NInv, NextToken
  PROVE  NInv'
<1>1. PICK st :
              /\ IsStacks(tokens, current_token_idx, st)
              /\ NodesNest(tokens, current_token_idx, ast, st)
              /\ \/ \E lv, bl : CallsNest(tokens, current_token_idx, todo, open, ast, st, lv, bl)
                 \/ Doomed(tokens, current_token_idx, todo)
  BY DEF NInv, NestsOn
<1> DEFINE c == current_token_idx
           n == Len(tokens)
<1>2. /\ \A i \in 1 .. n : tokens'[i] = tokens[i]
      /\ c = n + 1 /\ current_token_idx' = c /\ n \in Nat
      /\ todo' = todo /\ ast' = ast /\ open' = open
  BY SameTokens
<1>3. c \in Nat \ {0} /\ (\A i \in 1 .. (c - 1) : i \in 1 .. n) /\ ~(c <= n)
  BY <1>2
<1>4. Len(todo) \in Nat \ {0} /\ Len(ast) \in Nat
  BY SeqFacts DEF DInv, CallsFit
<1> HIDE DEF c, n
<1>5. IsStacks(tokens, c, st) /\ NodesNest(tokens, c, ast, st)
        /\ \A i \in 1 .. (c - 1) : tokens'[i] = tokens[i]
  BY <1>1, <1>2, <1>3 DEF c
<1>6. IsStacks(tokens', c, st)
  BY <1>3, <1>5, SameStacks
<1>7. Grows(tokens, c, ast, st, tokens', ast, st)
  <2>1. \A k \in 1 .. Len(ast) : ast[k].pos \in 1 .. c /\ ~(k > Len(ast))
    BY <1>4, <1>5 DEF NodesNest
  <2>2. Len(ast) <= Len(ast)
    BY <1>4
  <2> QED
    BY <1>3, <1>4, <1>5, <2>1, <2>2 DEF Grows
<1>8. NodesNest(tokens', c, ast, st)
  <2>1. ASSUME NEW k \in 1 .. Len(ast)
        PROVE  NodeNests(tokens', ast, st, k)
    <3>1. NodeNests(tokens, ast, st, k) /\ InnermostOf(st[ast[k].pos]) \in 0 .. (ast[k].pos - 1)
      BY <1>5 DEF NodesNest
    <3> QED
      BY <1>7, <3>1, GrownNode
  <2> QED
    BY <1>5, <2>1 DEF NodesNest
<1>9. CASE \E lv, bl : CallsNest(tokens, c, todo, open, ast, st, lv, bl)
  <2>1. PICK lv, bl : CallsNest(tokens, c, todo, open, ast, st, lv, bl)
    BY <1>9
  <2>2. CallsNest(tokens', c, todo, open, ast, st, lv, bl)
    BY <1>4, <1>7, <2>1, SameCalls
  <2>3. NestsOn(tokens', c, todo, open, ast, st)
    BY <1>6, <1>8, <2>2 DEF NestsOn
  <2> QED
    BY <1>2, <2>3 DEF NInv
<1>10. CASE Doomed(tokens, c, todo)
  <2>1. todo[1] = "fn_ptr_arrow"
    BY <1>3, <1>10 DEF Doomed, n
  <2>2. Doomed(tokens', c, todo)
    BY <2>1 DEF Doomed
  <2> QED
    BY <1>2, <1>6, <1>8, <2>2 DEF NInv
<1> QED
  BY <1>1, <1>9, <1>10 DEF c

(* Every step keeps NInv.                                                  *)
LEMMA NestsStep ==
  ASSUME DInv, HInv, NInv, Step
  PROVE  NInv'
<1>1. CASE NextToken
  BY <1>1, NNextToken
<1>2. ASSUME ~NextToken, NEW st, IsStacks(tokens, current_token_idx, st),
             NodesNest(tokens, current_token_idx, ast, st),
             Doomed(tokens, current_token_idx, todo)
      PROVE  NInv'
  BY <1>2, DoomedNests
<1>3. ASSUME ~NextToken, NEW st, NestsOn(tokens, current_token_idx, todo, open, ast, st)
      PROVE  NInv'
  <2>1. CASE Expect \/ ConsumeIf \/ EndNode \/ File \/ ParseTopLevel
    BY <1>3, <2>1, NExpect, NConsumeIf, NEndNode, NFile, NTopLevel
  <2>2. CASE EndOfFile
    BY <1>3, <2>2, ExitNests DEF EndOfFile
  <2>3. CASE ParseDeclaration \/ ParseModule \/ ParseChain \/ ChainModule \/ ParseModuleBody
    BY <1>3, <2>3, NDeclaration, NModule, NChain, NChainModule, NModuleBody
  <2>4. CASE ParseFunction \/ ParseReceiver \/ ParseParams \/ ParseParam \/ ParseContainer
               \/ RegisterType
    BY <1>3, <2>4, NFunction, NReceiver, NParams, NParam, NContainer, NRegisterType
  <2>5. CASE ParseStructBody \/ ParseComponentBody \/ ParseMember \/ ParseField \/ ParseScope
    BY <1>3, <2>5, NStructBody, NComponentBody, NMember, NField, NScope
  <2>6. CASE ParseStatement \/ ReturnExpression \/ ElseBranch \/ ForParts \/ ParseVarDecl
    BY <1>3, <2>6, NStatement, NReturn, NElseBranch, NFor, NVarDecl
  <2>7. CASE ParseTypeDecl \/ ParseTypeKind \/ ParseTypePath \/ EndPointer \/ EndReference
    BY <1>3, <2>7, NTypeDecl, NTypeKind, NTypePath, NPointers
  <2>8. CASE ParseFunctionPointer \/ ParseArraySizes
    BY <1>3, <2>8, NFunctionPointer, NArraySizes
  <2>9. \/ Expect \/ ConsumeIf \/ EndNode \/ File \/ ParseTopLevel
        \/ EndOfFile
        \/ ParseDeclaration \/ ParseModule \/ ParseChain \/ ChainModule \/ ParseModuleBody
        \/ ParseFunction \/ ParseReceiver \/ ParseParams \/ ParseParam \/ ParseContainer
             \/ RegisterType
        \/ ParseStructBody \/ ParseComponentBody \/ ParseMember \/ ParseField \/ ParseScope
        \/ ParseStatement \/ ReturnExpression \/ ElseBranch \/ ForParts \/ ParseVarDecl
        \/ ParseTypeDecl \/ ParseTypeKind \/ ParseTypePath \/ EndPointer \/ EndReference
        \/ ParseFunctionPointer \/ ParseArraySizes
    BY <1>3 DEF Step
  <2> QED
    BY <2>1, <2>2, <2>3, <2>4, <2>5, <2>6, <2>7, <2>8, <2>9
<1> QED
  BY <1>1, <1>2, <1>3 DEF NInv

(* Nothing is open and nothing is made yet.                                 *)
LEMMA NestsAtFirst ==
  ASSUME Init
  PROVE  NInv
<1> DEFINE st == [p \in 1 .. 1 |-> <<0>>]
           lv == <<0>>
           bl == <<1>>
<1>1. tokens = <<>> /\ current_token_idx = 1 /\ todo = <<"file">> /\ ast = <<>> /\ open = <<>>
  BY DEF Init
<1>2. Len(todo) = 1 /\ todo[1] = "file" /\ Len(ast) = 0 /\ Len(open) = 0 /\ lv[1] = 0
        /\ bl[1] = 1 /\ st[1] = <<0>>
  BY <1>1
<1>3. IsSeq(<<0>>) /\ Len(<<0>>) = 1 /\ <<0>>[1] = 0 /\ <<0>> # <<>>
  BY ShortSeqs
<1> DEFINE s == st[1]
<1>4. IsSeq(s) /\ Len(s) = 1 /\ s[1] = 0 /\ s # <<>> /\ s = st[1] /\ s = <<0>>
  BY <1>2, <1>3
<1>5. /\ (\A r \in 1 .. 1 : r = 1) /\ (\A r \in 1 .. (1 - 1) : FALSE) /\ (\A r \in 1 .. 0 : FALSE)
      /\ 0 \in 0 .. 0 /\ 0 \in 0 .. (1 - 1) /\ 1 \in Nat \ {0} /\ 0 <= 0 /\ 1 <= 1 /\ ~(1 < 1)
           /\ ~(0 > 0) /\ 1 \in 1 .. 1
  OBVIOUS
<1> HIDE DEF st, lv, bl, s
<1>6. IsStacks(tokens, 1, st)
  BY <1>4, <1>5 DEF IsStacks
<1>7. NodesNest(tokens, 1, ast, st)
  BY <1>2, <1>5 DEF NodesNest
<1>8. Brackets(s, 1)
  BY <1>4, <1>5 DEF Brackets
<1>9. Up(todo, 1) = "file"
  <2>1. (1 + 1) - 1 = 1
    OBVIOUS
  <2> QED
    BY <1>2, <2>1 DEF Up
<1>10. "file" \notin Bound \cup Inner \cup Beginners \cup Elses \cup Makers
  BY DEF Bound, Inner, Beginners, Elses, Openers, Makers
<1>11. LevelsUp(todo, open, lv)
  BY <1>2, <1>5 DEF LevelsUp
<1>12. DepthsFit(todo, bl)
  BY <1>2, <1>5, <1>9, <1>10 DEF DepthsFit
<1>13. Placed(tokens, 1, todo, open, ast, st, lv, bl, 1)
  <2>1. NodeAt(open, lv[1]) = 0
    BY <1>2 DEF NodeAt
  <2>2. st[1][bl[1]] = 0
    BY <1>2, <1>4
  <2>3. Holder(tokens, ast, st, 0) = 0
    BY DEF Holder
  <2>4. ~AfterElse(tokens, 1, todo, 1)
    BY <1>2 DEF AfterElse
  <2> QED
    BY <1>9, <1>10, <2>1, <2>2, <2>3, <2>4 DEF Placed
<1>14. CallsNest(tokens, 1, todo, open, ast, st, lv, bl)
  BY <1>2, <1>4, <1>5, <1>8, <1>11, <1>12, <1>13 DEF CallsNest
<1>15. NestsOn(tokens, 1, todo, open, ast, st)
  BY <1>6, <1>7, <1>14 DEF NestsOn
<1> QED
  BY <1>1, <1>15 DEF NInv

-----------------------------------------------------------------------------
(* The property's words and those of the invariant.                        *)

(* A set of numbers that is not empty has a least one.                     *)
LEMMA FirstIn ==
  ASSUME NEW T \in SUBSET Nat, T # {}
  PROVE  \E m \in T : \A k \in T : m <= k
<1>1. IsWellFoundedOn(OpToRel(<, Nat), Nat)
  BY NatLessThanWellFounded
<1>2. PICK m \in T : \A k \in T : ~(<<k, m>> \in OpToRel(<, Nat))
  BY <1>1, WFMin
<1>3. \A k \in T : ~(k < m)
  BY <1>2 DEF OpToRel
<1> QED
  BY <1>3

(* What the property says of the tokens, of any sequence of tokens.         *)
LEMMA SameWords ==
  /\ \A p : Before(p) = BeforeIn(tokens, p)
  /\ \A p : Opens(p) <=> OpensIn(tokens, p)
  /\ \A p : Closes(p) <=> ClosesIn(tokens, p)
<1>1. \A p : Before(p) = BeforeIn(tokens, p)
  BY DEF Before, BeforeIn
<1>2. \A p : OpensType(p) <=> OpensTypeIn(tokens, p)
  BY <1>1 DEF OpensType, OpensTypeIn, TypeLeads
<1> QED
  BY <1>1, <1>2 DEF Opens, OpensIn, Closes, ClosesIn

(* The brackets up to p, as the property counts them.                       *)
IsOpened(g, p) ==
  g = [i \in 1 .. p |->
         IF i = 1 THEN <<0>>
         ELSE LET upto == g[i - 1] IN
              CASE Opens(i - 1) -> Append(upto, i - 1)
                [] Closes(i - 1) -> SubSeq(upto, 1, Len(upto) - 1)
                [] OTHER -> upto]

(* The brackets at the next place, in the property's words.                *)
LEMMA NextStack ==
  ASSUME NEW c \in Nat, NEW st, IsStacks(tokens, c, st), NEW p \in 1 .. (c - 1), NEW g, g = st[p]
  PROVE  st[p + 1] = CASE Opens(p) -> Append(g, p)
                       [] Closes(p) -> SubSeq(g, 1, Len(g) - 1)
                       [] OTHER -> g
<1>1. st[p + 1] = CASE OpensIn(tokens, p) -> Append(g, p)
                    [] ClosesIn(tokens, p) -> SubSeq(g, 1, Len(g) - 1)
                    [] OTHER -> g
  BY DEF IsStacks
<1>2. (Opens(p) <=> OpensIn(tokens, p)) /\ (Closes(p) <=> ClosesIn(tokens, p))
  BY SameWords
<1>3. OpensIn(tokens, p) => ~ClosesIn(tokens, p)
  BY DEF OpensIn, ClosesIn
<1>4. CASE OpensIn(tokens, p)
  <2>1. st[p + 1] = Append(g, p)
    BY <1>1, <1>3, <1>4, Zenon
  <2> QED
    BY <1>2, <1>3, <1>4, <2>1, Zenon
<1>5. CASE ~OpensIn(tokens, p) /\ ClosesIn(tokens, p)
  <2>1. st[p + 1] = SubSeq(g, 1, Len(g) - 1)
    BY <1>1, <1>5, Zenon
  <2> QED
    BY <1>2, <1>5, <2>1, Zenon
<1>6. CASE ~OpensIn(tokens, p) /\ ~ClosesIn(tokens, p)
  <2>1. st[p + 1] = g
    BY <1>1, <1>6, Zenon
  <2> QED
    BY <1>2, <1>6, <2>1, Zenon
<1> QED
  BY <1>4, <1>5, <1>6

(* The stacks of the invariant are what the property counts.               *)
LEMMA IsOpenedBy ==
  ASSUME NEW c \in Nat, NEW st, IsStacks(tokens, c, st), NEW p \in 1 .. c
  PROVE  IsOpened([i \in 1 .. p |-> st[i]], p)
<1> DEFINE g == [i \in 1 .. p |-> st[i]]
           up(upto, j) == CASE Opens(j) -> Append(upto, j)
                            [] Closes(j) -> SubSeq(upto, 1, Len(upto) - 1)
                            [] OTHER -> upto
<1>1. \A i \in 1 .. p : g[i] = st[i]
  OBVIOUS
<1>2. g = [i \in 1 .. p |-> g[i]]
  OBVIOUS
<1> HIDE DEF g
<1>3. ASSUME NEW i \in 1 .. p, i # 1
      PROVE  g[i] = up(g[i - 1], i - 1)
  <2> DEFINE j == i - 1
  <2>1. j \in 1 .. (c - 1) /\ j \in 1 .. p /\ j + 1 = i
    BY <1>3
  <2> HIDE DEF j
  <2>2. g[j] = st[j] /\ g[i] = st[j + 1]
    BY <1>1, <2>1
  <2>3. st[j + 1] = up(g[j], j)
    BY <2>1, <2>2, NextStack
  <2> HIDE DEF up
  <2> QED
    BY <2>2, <2>3 DEF j
<1>4. \A i \in 1 .. p : g[i] = IF i = 1 THEN <<0>> ELSE up(g[i - 1], i - 1)
  <2>1. 1 \in 1 .. p /\ st[1] = <<0>>
    BY DEF IsStacks
  <2> HIDE DEF up
  <2> QED
    BY <1>1, <1>3, <2>1
<1> HIDE DEF up
<1>5. g = [i \in 1 .. p |-> IF i = 1 THEN <<0>> ELSE up(g[i - 1], i - 1)]
  BY <1>2, <1>4
<1> QED
  BY <1>5, Zenon DEF IsOpened, g, up

(* They are the only ones: by induction on the place.                      *)
LEMMA OpenedIs ==
  ASSUME NEW c \in Nat, NEW st, IsStacks(tokens, c, st), NEW p \in 1 .. c, NEW g, IsOpened(g, p)
  PROVE  g[p] = st[p]
<1> DEFINE up(upto, j) == CASE Opens(j) -> Append(upto, j)
                            [] Closes(j) -> SubSeq(upto, 1, Len(upto) - 1)
                            [] OTHER -> upto
           bad == {i \in 1 .. p : g[i] # st[i]}
<1>1. g = [i \in 1 .. p |-> IF i = 1 THEN <<0>> ELSE up(g[i - 1], i - 1)]
  BY Zenon DEF IsOpened
<1> HIDE DEF up
<1>2. \A i \in 1 .. p : g[i] = IF i = 1 THEN <<0>> ELSE up(g[i - 1], i - 1)
  BY <1>1
<1> SUFFICES ASSUME bad # {}
             PROVE  FALSE
  OBVIOUS
<1>3. bad \in SUBSET Nat
  OBVIOUS
<1> DEFINE T == bad
<1>4. PICK m \in T : \A k \in T : m <= k
  <2> HIDE DEF bad
  <2> QED
    BY <1>3, FirstIn
<1>5. m \in 1 .. p /\ g[m] # st[m]
  OBVIOUS
<1>6. m # 1
  BY <1>2, <1>5 DEF IsStacks
<1> DEFINE j == m - 1
<1>7. j \in 1 .. p /\ j \in 1 .. (c - 1) /\ j + 1 = m /\ ~(m <= j)
  BY <1>5, <1>6
<1>8. g[j] = st[j]
  BY <1>4, <1>7
<1>9. g[m] = up(g[j], j)
  BY <1>2, <1>5, <1>6
<1> HIDE DEF j, bad
<1>10. st[j + 1] = up(g[j], j)
  BY <1>7, <1>8, NextStack DEF up
<1> QED
  BY <1>5, <1>7, <1>9, <1>10

(* The innermost bracket is the same in both.                              *)
LEMMA BracketIs ==
  ASSUME NEW c \in Nat, NEW st, IsStacks(tokens, c, st), NEW p \in 1 .. c
  PROVE  Bracket(p) = InnermostOf(st[p])
<1> DEFINE g == CHOOSE g : IsOpened(g, p)
<1>1. Bracket(p) = Last(g[p])
  BY Zenon DEF Bracket, IsOpened
<1>2. IsOpened(g, p)
  BY IsOpenedBy
<1> HIDE DEF g
<1>3. g[p] = st[p]
  BY <1>2, OpenedIs
<1> QED
  BY <1>1, <1>3 DEF Last, InnermostOf

(* Where the nodes belong, in the property's words and in the invariant's.  *)
LEMMA ChainedIs ==
  ASSUME NEW k
  PROVE  IsChained(k) <=> IsChainedIn(tokens, ast, k)
BY SameWords DEF IsChained, IsChainedIn

(* So is the node that is filled.                                          *)
LEMMA FilledIs ==
  ASSUME NEW k
  PROVE  Filled(k) = FilledIn(tokens, ast, k)
BY ChainedIs DEF Filled, FilledIn

(* So are the nodes beside a place.                                        *)
LEMMA BesideIs ==
  ASSUME NEW c \in Nat, NEW st, IsStacks(tokens, c, st), NodesNest(tokens, c, ast, st),
         DOMAIN ast = 1 .. Len(ast), NEW o \in 1 .. c
  PROVE  BesideUpTo(o) = UpTo(ast, o, In(ast, st, InnermostOf(st[o])))
<1>1. \A j \in 1 .. Len(ast) : Bracket(ast[j].pos) = InnermostOf(st[ast[j].pos])
  BY BracketIs DEF NodesNest
<1>2. Bracket(o) = InnermostOf(st[o])
  BY BracketIs
<1> QED
  BY <1>1, <1>2 DEF BesideUpTo, UpTo, In

(* So is the last of them.                                                 *)
LEMMA ParentInIs ==
  ASSUME NEW k, NEW S
  PROVE  ParentIn(k, S) = LastOf(Earlier(k, S))
BY DEF ParentIn, LastOf, Earlier

(* So is the node that a node is written in the body of.                   *)
LEMMA ParentIs ==
  ASSUME NEW c \in Nat, NEW st, IsStacks(tokens, c, st), NodesNest(tokens, c, ast, st),
         DOMAIN ast = 1 .. Len(ast), NEW k \in 1 .. Len(ast)
  PROVE  Parent(k) = ParentOf(tokens, ast, st, k)
<1> DEFINE p == ast[k].pos
           b == InnermostOf(st[p])
           before == Before(p)
           inChain == LastOf(Earlier(k, {j \in 1 .. Len(ast) : ast[j].pos = p - 2}))
           afterIf == LastOf(Earlier(k, Ifs(ast,
             UpTo(ast, p - 1, In(ast, st, InnermostOf(st[p - 1]))))))
           around == IF b = 0 THEN 0 ELSE LastOf(Earlier(k,
             UpTo(ast, b, In(ast, st, InnermostOf(st[b])))))
           inChain2 == ParentIn(k, {j \in DOMAIN ast : ast[j].pos = p - 2})
           afterIf2 == ParentIn(k, {j \in BesideUpTo(p - 1) : ast[j].node = "IF"})
           around2 == IF Bracket(p) = 0 THEN 0 ELSE ParentIn(k, BesideUpTo(Bracket(p)))
<1>1. p \in 1 .. c /\ b \in 0 .. (p - 1)
  BY DEF NodesNest
<1>2. before = BeforeIn(tokens, p)
  BY SameWords
<1>3. ParentOf(tokens, ast, st, k) = CASE before = "::" -> inChain [] before = "else" -> afterIf
        [] OTHER -> around
  BY <1>2, Zenon DEF ParentOf
<1>4. Parent(k) = CASE before = "::" -> inChain2 [] before = "else" -> afterIf2
        [] OTHER -> around2
  BY Zenon DEF Parent
<1>5. inChain2 = inChain
  BY ParentInIs
<1>6. before = "else" => afterIf2 = afterIf
  <2> SUFFICES ASSUME before = "else" PROVE afterIf2 = afterIf
    OBVIOUS
  <2>1. p > 1
    BY DEF Before
  <2>2. p - 1 \in 1 .. c
    BY <1>1, <2>1
  <2>3. BesideUpTo(p - 1) = UpTo(ast, p - 1, In(ast, st, InnermostOf(st[p - 1])))
    BY <2>2, BesideIs
  <2> QED
    BY <2>3, ParentInIs DEF Ifs
<1>7. around2 = around
  <2>1. Bracket(p) = b
    BY <1>1, BracketIs
  <2>2. CASE b # 0
    <3>1. b \in 1 .. c
      BY <1>1, <2>2
    <3>2. BesideUpTo(b) = UpTo(ast, b, In(ast, st, InnermostOf(st[b])))
      BY <3>1, BesideIs
    <3> QED
      BY <2>1, <2>2, <3>2, ParentInIs
  <2> QED
    BY <2>1, <2>2
<1> HIDE DEF inChain, inChain2, afterIf, afterIf2, around, around2, before
<1>8. CASE before = "::"
  BY <1>3, <1>4, <1>5, <1>8
<1>9. CASE before = "else"
  BY <1>3, <1>4, <1>6, <1>9
<1>10. CASE before # "::" /\ before # "else"
  BY <1>3, <1>4, <1>7, <1>10, Zenon
<1> QED
  BY <1>8, <1>9, <1>10

(* Every node is in the node whose body it is written in, whatever bodies,  *)
(* else branches and for statements nest, and what is in the body of a chain*)
(* of modules is in the first of them (parse_scope, parse_if_stmt,          *)
(* parse_for_stmt, parse_module).                                           *)
THEOREM NestingIsKept == Spec => []NestingIsTrue
<1>1. Init => NInv /\ HInv
  BY NestsAtFirst, HInit
<1>2. DInv /\ NInv /\ HInv /\ [Next]_vars => (NInv /\ HInv)'
  <2> SUFFICES ASSUME DInv, NInv, HInv, [Next]_vars
               PROVE  (NInv /\ HInv)'
    OBVIOUS
  <2>1. CASE Step
    BY <2>1, NestsStep, HStep
  <2>2. CASE UNCHANGED vars
    <3>1. tokens' = tokens /\ current_token_idx' = current_token_idx /\ todo' = todo
            /\ ast' = ast /\ open' = open
      BY <2>2 DEF vars, source, locals
    <3>2. NInv'
      BY <3>1 DEF NInv
    <3>3. HInv'
      BY <3>1 DEF HInv
    <3> QED
      BY <3>2, <3>3
  <2> QED
    BY <2>1, <2>2 DEF Next, Ended
<1>3. DInv /\ NInv => NestingIsTrue
  <2> SUFFICES ASSUME DInv, NInv, NEW k \in DOMAIN ast
               PROVE  ast[k].into = IF IsChained(k) THEN Parent(k) ELSE Filled(Parent(k))
    BY DEF NestingIsTrue
  <2>1. PICK st : IsStacks(tokens, current_token_idx, st)
          /\ NodesNest(tokens, current_token_idx, ast, st)
    BY DEF NInv, NestsOn
  <2>2. DOMAIN ast = 1 .. Len(ast) /\ k \in 1 .. Len(ast) /\ current_token_idx \in Nat
    BY BeforeNow, SeqFacts DEF DInv, CallsFit
  <2>3. NodeNests(tokens, ast, st, k)
    BY <2>1, <2>2 DEF NodesNest
  <2>4. Parent(k) = ParentOf(tokens, ast, st, k)
    BY <2>1, <2>2, ParentIs
  <2> QED
    BY <2>3, <2>4, ChainedIs, FilledIs DEF NodeNests
<1> QED
  BY <1>1, <1>2, <1>3, CallsAreInPlace, PTL DEF Spec
=============================================================================
