----------------------- MODULE DeclarationParserProofs ------------------------
(***************************************************************************)
(* Proofs about the declaration, statement and type parser, for every      *)
(* vocabulary: the parses of all sources, whatever they nest and however   *)
(* deep.                                                                   *)
(***************************************************************************)
EXTENDS DeclarationParser, SequenceFacts, TLAPS

Containers == {"STRUCT", "COMPONENT"}
KindOf(nodes, k) == IF k = 0 THEN "MODULE" ELSE nodes[k].node

(* The kinds of nodes an item may add a node to: those of bodies that are   *)
(* walked by a loop with a case for it.  Every other item adds none.        *)
ModuleItems == {"module_body", "top_level", "declaration", "module", "chain_module", "chain"}
ComponentItems == {"component_body", "member"}
StructItems == {"struct_body", "struct"}
BodyItems == {"scope", "statements", "statement", "var_decl", "else_branch", "else_body",
              "for_init"}

InPlace(item, kind) ==
  /\ item \in ModuleItems => kind = "MODULE"
  /\ item \in ComponentItems => kind = "COMPONENT"
  /\ item \in StructItems => kind = "STRUCT"
  /\ item \in BodyItems => kind \notin Containers \cup {"MODULE"}
  /\ item = "function" => kind \in {"MODULE", "COMPONENT"}
  /\ item = "field" => kind \in Containers \cup {"MODULE"}
  /\ item = "container" => kind # "STRUCT"

(* Done as soon as they are come by: what they rely on was just read.       *)
HeadOnly == {"declaration", "module", "chain_module", "function", "field", "container", "struct",
             "member", "type_name"}

(* An item at this level of the open nodes adds to this one.                *)
NodeAt(op, level) == IF level = 0 THEN 0 ELSE op[level]

(* The items are those of the calls inside the open nodes, an "end" where   *)
(* each of these stops, and at last those of the whole file.                *)
LevelsFit(td, op, nodes, level) ==
  /\ level \in [1 .. Len(td) -> 0 .. Len(op)]
  /\ level[1] = Len(op) /\ level[Len(td)] = 0
  /\ \A i \in 1 .. Len(td) - 1 :
       level[i] = IF td[i] = "end" THEN level[i + 1] + 1 ELSE level[i + 1]
  /\ \A i, j \in 1 .. Len(td) : i <= j => level[j] <= level[i]
  /\ \A i \in 1 .. Len(td) :
       /\ td[i] = "file" <=> i = Len(td)
       /\ InPlace(td[i], KindOf(nodes, NodeAt(op, level[i])))
       /\ i > 1 => td[i] \notin HeadOnly

(* The last node is a module's where a chain may go on.                     *)
ChainFits(td, nodes) ==
  \A i \in 1 .. Len(td) : td[i] = "chain" =>
    /\ nodes # <<>> /\ nodes[Len(nodes)].node = "MODULE"
    /\ \/ i = 1
       \/ i = 2 /\ td[1] = "name"
       \/ i = 3 /\ td[1] = "chain_module" /\ td[2] = "name"

CallsFit(td, op, nodes) ==
  /\ IsSeq(td) /\ td # <<>> /\ IsSeq(op) /\ IsSeq(nodes)
  /\ \A i \in 1 .. Len(op) : op[i] \in 1 .. Len(nodes)
  /\ \E level : LevelsFit(td, op, nodes, level)

(* What the next item relies on: the tokens before it say whether it is     *)
(* marked, and only an item that uses the mark may follow "pub".            *)
MarkFits ==
  LET kind == KindOf(ast, Innermost) IN
  /\ Next1 \in {"declaration", "member"} => (is_pub <=> Before(current_token_idx) = "pub")
  /\ Next1 \in {"function", "field"} =>
       (is_pub <=> (kind = "STRUCT" \/ Before(current_token_idx) = "pub"))
  /\ Next1 = "struct" => is_pub
  /\ Next1 = "container" =>
       (is_pub <=> (kind \notin {"MODULE", "COMPONENT"} \/ Before(current_token_idx - 1) = "pub"))
  /\ Before(current_token_idx) = "pub" =>
       \/ Next1 \in {"declaration", "member", "function", "field", "name"}
       \/ Next1 = "mut?" /\ todo[2] = "name"

TokenFits ==
  /\ Next1 = "function" => current_token_idx <= Len(tokens) /\ Peek = "fn"
  /\ Next1 = "module" => Before(current_token_idx) = "module"
  /\ Next1 = "chain_module" =>
       /\ Before(current_token_idx) = "::"
       /\ ast # <<>> /\ ast[Len(ast)].node = "MODULE"

(* The name of a type is read, and registered, right after its node is made.*)
IsNamed(k) == ast[k].node \in Containers
AwaitsName(k) == k = Len(ast) /\ Next1 = "type_name"

NamesFit ==
  /\ Next1 = "type_name" => ast # <<>> /\ IsNamed(Len(ast))
  /\ \A k \in 1 .. Len(ast) : IsNamed(k) =>
       IF AwaitsName(k) THEN ast[k].pos + 1 = current_token_idx
       ELSE ast[k].pos + 1 < current_token_idx /\ NameOf(k) \in defined_types \ Builtins
  /\ \A j, k \in 1 .. Len(ast) :
       (/\ IsNamed(j) /\ ~AwaitsName(j)
        /\ IsNamed(k) /\ ~AwaitsName(k)
        /\ NameOf(j) = NameOf(k)) => j = k

NodeFits(k) ==
  LET around == KindOf(ast, ast[k].into) IN
  /\ ast[k].node \in NodeKinds /\ ast[k].is_pub \in BOOLEAN
  /\ ast[k].pos \in 1 .. current_token_idx
  /\ ast[k].into \in 0 .. (k - 1)
  /\ ast[k].node \in ChildrenOf(around)
  /\ around \in {"MODULE", "COMPONENT"} => (ast[k].is_pub <=> IsMarked(k))
  /\ around = "STRUCT" => ast[k].is_pub
  /\ around \notin Containers \cup {"MODULE"} => (ast[k].is_pub <=> ast[k].node \in Containers)

NodesFit == \A k \in 1 .. Len(ast) : NodeFits(k)

Statuses == {"parsing", "done", "exited", "null_type_read", "bad_optional_access"}
TypeKinds == {"none", "null", "NAMED", "PTR", "REF", "ARRAY"}

TokensFit ==
  /\ IsSeq(tokens)
  /\ current_token_idx \in 1 .. (Len(tokens) + 1)
  /\ status \in Statuses
  /\ type \in TypeKinds
  /\ is_pub \in BOOLEAN
  /\ Builtins \subseteq defined_types /\ defined_types \subseteq Identifiers
  /\ EndIsNeverConsumed

DInv ==
  /\ TokensFit
  /\ NodesFit
  /\ CallsFit(todo, open, ast) /\ ChainFits(todo, ast)
  /\ MarkFits /\ TokenFits /\ NamesFit

----------------------------------------------------------------------------
(* The items a call is replaced by, in a node of this kind.                 *)
Calm(items, kind) ==
  /\ IsSeq(items)
  /\ \A i \in 1 .. Len(items) :
       /\ items[i] \notin {"end", "file"} /\ InPlace(items[i], kind)
       /\ i > 1 => items[i] \notin HeadOnly

(* Items that rely on nothing that was just read.                           *)
IsQuiet(item, kind) == item \notin HeadOnly \cup {"end", "file", "chain"} /\ InPlace(item, kind)

Quiet(items, kind) == IsSeq(items) /\ \A i \in 1 .. Len(items) : IsQuiet(items[i], kind)

(* Then, place by place.                                                    *)
LEMMA ThenSeq ==
  ASSUME NEW td, IsSeq(td), td # <<>>, NEW items, IsSeq(items)
  PROVE  /\ IsSeq(items \o Tail(td))
         /\ Len(items \o Tail(td)) = Len(items) + (Len(td) - 1)
         /\ \A i \in 1 .. Len(items) : (items \o Tail(td))[i] = items[i]
         /\ \A i \in 1 .. (Len(td) - 1) : (items \o Tail(td))[Len(items) + i] = td[i + 1]
<1>1. /\ IsSeq(Tail(td)) /\ Len(Tail(td)) = Len(td) - 1
      /\ \A i \in 1 .. (Len(td) - 1) : Tail(td)[i] = td[i + 1]
  BY TailSeq
<1> QED
  BY <1>1, ConcatSeq

(* Items with a known set of names are quiet if the names are.              *)
LEMMA QuietByNames ==
  ASSUME NEW S, NEW items \in Seq(S), NEW kind, \A item \in S : IsQuiet(item, kind)
  PROVE  Quiet(items, kind)
<1>1. IsSeq(items) /\ \A i \in 1 .. Len(items) : items[i] \in S
  BY SeqOfItsOwn
<1> QED
  BY <1>1 DEF Quiet

(* Quiet items are calm.                                                    *)
LEMMA QuietIsCalm ==
  ASSUME NEW items, NEW kind, Quiet(items, kind)
  PROVE  Calm(items, kind)
  BY DEF Quiet, Calm, IsQuiet

(* No item but the file's is the last.                                      *)
LEMMA MoreToDo ==
  ASSUME NEW td, NEW op, NEW nodes, CallsFit(td, op, nodes), td[1] # "file"
  PROVE  /\ Len(td) \in Nat /\ Len(td) >= 2
         /\ td[2] \notin HeadOnly
         /\ td[Len(td)] = "file"
<1>1. Len(td) \in Nat /\ Len(td) > 0
  BY SeqFacts DEF CallsFit
<1>2. \A i \in 1 .. Len(td) : (td[i] = "file" <=> i = Len(td)) /\ (i > 1 => td[i] \notin HeadOnly)
  BY DEF CallsFit, LevelsFit
<1> DEFINE n == Len(td)
<1> HIDE DEF n
<1>3. n \in Nat /\ n > 0 /\ \A i \in 1 .. n : (td[i] = "file" <=> i = n) /\ (i > 1 => td[i] \notin HeadOnly)
  BY <1>1, <1>2 DEF n
<1>4. n >= 2
  BY <1>3
<1> QED
  BY <1>3, <1>4 DEF n

(* A call is replaced by what it still has to do.                           *)
LEMMA DoFits ==
  ASSUME NEW td, NEW op, NEW nodes, CallsFit(td, op, nodes),
         td[1] \notin {"end", "file"},
         NEW items, Calm(items, KindOf(nodes, NodeAt(op, Len(op))))
  PROVE  CallsFit(items \o Tail(td), op, nodes)
<1> DEFINE n == Len(td)
           m == Len(items)
           l == Len(op)
           u == items \o Tail(td)
<1>1. /\ IsSeq(td) /\ td # <<>> /\ IsSeq(op) /\ IsSeq(nodes)
      /\ \A i \in 1 .. Len(op) : op[i] \in 1 .. Len(nodes)
  BY DEF CallsFit
<1>2. PICK level : LevelsFit(td, op, nodes, level)
  BY DEF CallsFit
<1>3. n \in Nat /\ n >= 2 /\ l \in Nat
  BY <1>1, MoreToDo, SeqFacts
<1>4. /\ IsSeq(items) /\ m \in Nat
      /\ \A i \in 1 .. m : /\ items[i] \notin {"end", "file"}
                           /\ InPlace(items[i], KindOf(nodes, NodeAt(op, l)))
                           /\ i > 1 => items[i] \notin HeadOnly
  BY SeqFacts DEF Calm
<1>5. /\ IsSeq(u) /\ Len(u) = m + (n - 1)
      /\ \A i \in 1 .. m : u[i] = items[i]
      /\ \A i \in 1 .. (n - 1) : u[m + i] = td[i + 1]
  BY <1>1, <1>4, ThenSeq
<1>6. /\ level \in [1 .. n -> 0 .. l] /\ level[1] = l /\ level[n] = 0
      /\ \A i \in 1 .. n - 1 : level[i] = IF td[i] = "end" THEN level[i + 1] + 1 ELSE level[i + 1]
      /\ \A i, j \in 1 .. n : i <= j => level[j] <= level[i]
      /\ \A i \in 1 .. n : /\ td[i] = "file" <=> i = n
                           /\ InPlace(td[i], KindOf(nodes, NodeAt(op, level[i])))
                           /\ i > 1 => td[i] \notin HeadOnly
  BY <1>2 DEF LevelsFit
<1> DEFINE lv == [i \in 1 .. m + (n - 1) |-> IF i <= m THEN l ELSE level[(i - m) + 1]]
<1> HIDE DEF n, m, l, u
<1>7. level[2] = l
  BY <1>3, <1>6
<1>8. lv \in [1 .. m + (n - 1) -> 0 .. l]
  BY <1>3, <1>4, <1>6
<1>9. lv[1] = l /\ lv[m + (n - 1)] = 0
  BY <1>3, <1>4, <1>6, <1>7
<1>10. ASSUME NEW i \in 1 .. m + (n - 1)
       PROVE  /\ i \in 1 .. m => u[i] = items[i] /\ lv[i] = l
              /\ i \notin 1 .. m => /\ (i - m) + 1 \in 2 .. n
                                    /\ u[i] = td[(i - m) + 1] /\ lv[i] = level[(i - m) + 1]
  <2>1. CASE i \in 1 .. m
    BY <2>1, <1>5, <1>4
  <2>2. CASE i \notin 1 .. m
    <3>1. i - m \in 1 .. (n - 1) /\ m + (i - m) = i /\ ~(i <= m) /\ (i - m) + 1 \in 2 .. n
      BY <2>2, <1>3, <1>4
    <3>2. u[m + (i - m)] = td[(i - m) + 1]
      BY <3>1, <1>5
    <3> QED
      BY <3>1, <3>2, <2>2
  <2> QED
    BY <2>1, <2>2
<1>11. ASSUME NEW i \in 1 .. (m + (n - 1)) - 1
       PROVE  lv[i] = IF u[i] = "end" THEN lv[i + 1] + 1 ELSE lv[i + 1]
  <2>1. i \in 1 .. m + (n - 1) /\ i + 1 \in 1 .. m + (n - 1)
    BY <1>3, <1>4
  <2>2. CASE i \in 1 .. m
    <3>1. u[i] # "end" /\ lv[i] = l
      BY <2>1, <2>2, <1>10, <1>4
    <3>2. lv[i + 1] = l
      BY <2>1, <2>2, <1>4, <1>3, <1>7
    <3> QED
      BY <3>1, <3>2
  <2>3. CASE i \notin 1 .. m
    <3>1. /\ (i - m) + 1 \in 1 .. n - 1 /\ ((i - m) + 1) + 1 = ((i + 1) - m) + 1 /\ i + 1 \notin 1 .. m
      BY <2>1, <2>3, <1>3, <1>4
    <3>2. /\ u[i] = td[(i - m) + 1] /\ lv[i] = level[(i - m) + 1]
          /\ lv[i + 1] = level[((i + 1) - m) + 1]
      BY <2>1, <2>3, <3>1, <1>10
    <3> HIDE DEF lv
    <3> QED
      BY <3>1, <3>2, <1>6
  <2> QED
    BY <2>2, <2>3
<1>12. ASSUME NEW i \in 1 .. m + (n - 1)
       PROVE  /\ u[i] = "file" <=> i = m + (n - 1)
              /\ InPlace(u[i], KindOf(nodes, NodeAt(op, lv[i])))
              /\ i > 1 => u[i] \notin HeadOnly
  <2> HIDE DEF lv
  <2>1. CASE i \in 1 .. m
    <3>1. i # m + (n - 1)
      BY <2>1, <1>3, <1>4
    <3> QED
      BY <2>1, <3>1, <1>10, <1>4
  <2>2. CASE i \notin 1 .. m
    <3>1. (i - m) + 1 \in 2 .. n /\ u[i] = td[(i - m) + 1] /\ lv[i] = level[(i - m) + 1]
      BY <2>2, <1>10
    <3>2. i = m + (n - 1) <=> (i - m) + 1 = n
      BY <1>3, <1>4
    <3>3. (i - m) + 1 \in 1 .. n /\ (i - m) + 1 > 1
      BY <3>1, <1>3, <1>4
    <3> QED
      BY <3>1, <3>2, <3>3, <1>6
  <2> QED
    BY <2>1, <2>2
<1>13. u # <<>>
  BY <1>5, <1>3, <1>4, SeqFacts
<1> HIDE DEF lv
<1>15. ASSUME NEW i \in 1 .. m + (n - 1), NEW j \in 1 .. m + (n - 1), i <= j
       PROVE  lv[j] <= lv[i]
  <2>1. CASE i \in 1 .. m
    <3>1. lv[i] = l /\ lv[j] \in 0 .. l
      BY <2>1, <1>8, <1>10
    <3> QED
      BY <3>1, <1>3
  <2>2. CASE i \notin 1 .. m
    <3>1. j \notin 1 .. m /\ i - m <= j - m
      BY <2>2, <1>15, <1>4
    <3>2. /\ (i - m) + 1 \in 2 .. n /\ lv[i] = level[(i - m) + 1]
          /\ (j - m) + 1 \in 2 .. n /\ lv[j] = level[(j - m) + 1]
      BY <2>2, <3>1, <1>10
    <3>3. (i - m) + 1 <= (j - m) + 1 /\ (i - m) + 1 \in 1 .. n /\ (j - m) + 1 \in 1 .. n
      BY <3>1, <3>2, <1>3, <1>4
    <3> QED
      BY <3>2, <3>3, <1>6
  <2> QED
    BY <2>1, <2>2
<1>14. LevelsFit(u, op, nodes, lv)
  BY <1>5, <1>8, <1>9, <1>11, <1>12, <1>15 DEF LevelsFit, l
<1> QED
  BY <1>1, <1>5, <1>13, <1>14 DEF CallsFit, u

(* The nodes that were there stay what they are.                            *)
Extends(more, nodes) ==
  /\ IsSeq(more) /\ Len(nodes) <= Len(more)
  /\ \A k \in 1 .. Len(nodes) : more[k] = nodes[k]

(* One more node makes no difference to the calls.                          *)
LEMMA MoreNodes ==
  ASSUME NEW td, NEW op, NEW nodes, CallsFit(td, op, nodes), NEW more, Extends(more, nodes)
  PROVE  CallsFit(td, op, more)
<1>1. /\ IsSeq(td) /\ td # <<>> /\ IsSeq(op) /\ IsSeq(nodes) /\ IsSeq(more)
      /\ \A i \in 1 .. Len(op) : op[i] \in 1 .. Len(nodes)
  BY DEF CallsFit, Extends
<1>2. PICK level : LevelsFit(td, op, nodes, level)
  BY DEF CallsFit
<1>3. Len(nodes) \in Nat /\ Len(more) \in Nat /\ Len(op) \in Nat
  BY <1>1, SeqFacts
<1>4. \A i \in 1 .. Len(op) : op[i] \in 1 .. Len(more) /\ op[i] # 0 /\ more[op[i]] = nodes[op[i]]
  BY <1>1, <1>3 DEF Extends
<1>5. \A l \in 0 .. Len(op) : KindOf(more, NodeAt(op, l)) = KindOf(nodes, NodeAt(op, l))
  <2> SUFFICES ASSUME NEW l \in 0 .. Len(op)
               PROVE  KindOf(more, NodeAt(op, l)) = KindOf(nodes, NodeAt(op, l))
    OBVIOUS
  <2>1. CASE l = 0
    BY <2>1 DEF KindOf, NodeAt
  <2>2. CASE l # 0
    <3>1. l \in 1 .. Len(op)
      BY <2>2, <1>3
    <3> QED
      BY <3>1, <2>2, <1>4 DEF KindOf, NodeAt
  <2> QED
    BY <2>1, <2>2
<1>6. \A i \in 1 .. Len(td) : level[i] \in 0 .. Len(op)
  BY <1>2 DEF LevelsFit
<1>7. LevelsFit(td, op, more, level)
  BY <1>2, <1>5, <1>6 DEF LevelsFit
<1> QED
  BY <1>1, <1>4, <1>7 DEF CallsFit

(* The calls inside a node that is opened, and its end, come before what    *)
(* else there is to do.                                                     *)
LEMMA OpenFits ==
  ASSUME NEW td, NEW op, NEW nodes, CallsFit(td, op, nodes),
         td[1] \notin {"end", "file"},
         NEW node \in 1 .. Len(nodes),
         NEW items, Calm(items, nodes[node].node)
  PROVE  CallsFit(Append(items, "end") \o Tail(td), Append(op, node), nodes)
<1> DEFINE n == Len(td)
           m == Len(items)
           l == Len(op)
           its == Append(items, "end")
           u == its \o Tail(td)
           op2 == Append(op, node)
<1>1. /\ IsSeq(td) /\ td # <<>> /\ IsSeq(op) /\ IsSeq(nodes)
      /\ \A i \in 1 .. Len(op) : op[i] \in 1 .. Len(nodes)
  BY DEF CallsFit
<1>2. PICK level : LevelsFit(td, op, nodes, level)
  BY DEF CallsFit
<1>3. n \in Nat /\ n >= 2 /\ l \in Nat /\ Len(nodes) \in Nat
  BY <1>1, MoreToDo, SeqFacts
<1>4. /\ IsSeq(items) /\ m \in Nat
      /\ \A i \in 1 .. m : /\ items[i] \notin {"end", "file"}
                           /\ InPlace(items[i], nodes[node].node)
                           /\ i > 1 => items[i] \notin HeadOnly
  BY SeqFacts DEF Calm
<1>5. /\ IsSeq(its) /\ Len(its) = m + 1 /\ its[m + 1] = "end"
      /\ \A i \in 1 .. m : its[i] = items[i]
  BY <1>4, AppendSeq
<1>6. /\ IsSeq(u) /\ Len(u) = (m + 1) + (n - 1)
      /\ \A i \in 1 .. (m + 1) : u[i] = its[i]
      /\ \A i \in 1 .. (n - 1) : u[(m + 1) + i] = td[i + 1]
  <2> HIDE DEF its, m, n
  <2>0. IsSeq(td) /\ td # <<>> /\ IsSeq(its)
    BY <1>1, <1>5
  <2>1. /\ IsSeq(u) /\ Len(u) = Len(its) + (Len(td) - 1)
        /\ \A i \in 1 .. Len(its) : u[i] = its[i]
        /\ \A i \in 1 .. (Len(td) - 1) : u[Len(its) + i] = td[i + 1]
    BY <2>0, ThenSeq
  <2> QED
    BY <2>1, <1>5 DEF n
<1>7. /\ IsSeq(op2) /\ Len(op2) = l + 1 /\ op2[l + 1] = node
      /\ \A i \in 1 .. l : op2[i] = op[i]
  BY <1>1, AppendSeq
<1>8. /\ level \in [1 .. n -> 0 .. l] /\ level[1] = l /\ level[n] = 0
      /\ \A i \in 1 .. n - 1 : level[i] = IF td[i] = "end" THEN level[i + 1] + 1 ELSE level[i + 1]
      /\ \A i, j \in 1 .. n : i <= j => level[j] <= level[i]
      /\ \A i \in 1 .. n : /\ td[i] = "file" <=> i = n
                           /\ InPlace(td[i], KindOf(nodes, NodeAt(op, level[i])))
                           /\ i > 1 => td[i] \notin HeadOnly
  BY <1>2 DEF LevelsFit
<1>9. \A i \in 1 .. Len(op2) : op2[i] \in 1 .. Len(nodes)
  <2> HIDE DEF l, op2
  <2>1. \A i \in 1 .. l : op[i] \in 1 .. Len(nodes)
    BY <1>1 DEF l
  <2> QED
    BY <2>1, <1>3, <1>7
<1> DEFINE k == (m + 1) + (n - 1)
           lv == [i \in 1 .. k |-> IF i <= m + 1 THEN l + 1 ELSE level[i - m]]
<1> HIDE DEF n, m, l, u, op2, its
<1>10. level[2] = l
  BY <1>3, <1>8
<1>11. lv \in [1 .. k -> 0 .. (l + 1)] /\ lv[1] = l + 1 /\ lv[k] = 0
  BY <1>3, <1>4, <1>8, <1>10
<1>12. ASSUME NEW i \in 1 .. k
       PROVE  /\ i \in 1 .. m => u[i] = items[i] /\ lv[i] = l + 1
              /\ i = m + 1 => u[i] = "end" /\ lv[i] = l + 1
              /\ i \notin 1 .. (m + 1) => /\ i - m \in 2 .. n
                                          /\ u[i] = td[i - m] /\ lv[i] = level[i - m]
  <2>1. CASE i \in 1 .. (m + 1)
    BY <2>1, <1>5, <1>6, <1>4
  <2>2. CASE i \notin 1 .. (m + 1)
    <3>1. /\ (i - m) - 1 \in 1 .. (n - 1) /\ (m + 1) + ((i - m) - 1) = i /\ ~(i <= m + 1)
          /\ i - m \in 2 .. n /\ ((i - m) - 1) + 1 = i - m /\ i # m + 1 /\ i \notin 1 .. m
      BY <2>2, <1>3, <1>4
    <3>2. u[(m + 1) + ((i - m) - 1)] = td[((i - m) - 1) + 1]
      BY <3>1, <1>6
    <3> QED
      BY <3>1, <3>2, <2>2
  <2> QED
    BY <2>1, <2>2
<1>13. ASSUME NEW i \in 1 .. k - 1
       PROVE  lv[i] = IF u[i] = "end" THEN lv[i + 1] + 1 ELSE lv[i + 1]
  <2>1. i \in 1 .. k /\ i + 1 \in 1 .. k
    BY <1>3, <1>4
  <2>2. CASE i \in 1 .. m
    <3>1. u[i] # "end" /\ lv[i] = l + 1
      BY <2>1, <2>2, <1>12, <1>4
    <3>2. i + 1 \in 1 .. m \/ i + 1 = m + 1
      BY <2>2, <1>4
    <3>3. lv[i + 1] = l + 1
      BY <2>1, <3>2, <1>12
    <3> QED
      BY <3>1, <3>3
  <2>3. CASE i = m + 1
    <3>1. i + 1 \notin 1 .. (m + 1) /\ (i + 1) - m = 2
      BY <2>3, <1>4
    <3>2. lv[i + 1] = l /\ u[i] = "end" /\ lv[i] = l + 1
      BY <2>1, <2>3, <3>1, <1>10, <1>12
    <3> QED
      BY <3>2
  <2>4. CASE i \notin 1 .. (m + 1)
    <3>1. i - m \in 1 .. n - 1 /\ (i - m) + 1 = (i + 1) - m /\ i + 1 \notin 1 .. (m + 1)
      BY <2>1, <2>4, <1>3, <1>4
    <3>2. u[i] = td[i - m] /\ lv[i] = level[i - m] /\ lv[i + 1] = level[(i + 1) - m]
      BY <2>1, <2>4, <3>1, <1>12
    <3> HIDE DEF lv
    <3> QED
      BY <3>1, <3>2, <1>8
  <2>5. i \in 1 .. m \/ i = m + 1 \/ i \notin 1 .. (m + 1)
    BY <1>4, <2>1
  <2> QED
    BY <2>2, <2>3, <2>4, <2>5
<1>14. \A j \in 0 .. l : NodeAt(op2, j) = NodeAt(op, j)
  BY <1>3, <1>7 DEF NodeAt
<1>15. KindOf(nodes, NodeAt(op2, l + 1)) = nodes[node].node
  <2>1. l + 1 # 0 /\ node # 0
    BY <1>3
  <2> QED
    BY <2>1, <1>7 DEF NodeAt, KindOf
<1>16. ASSUME NEW i \in 1 .. k
       PROVE  /\ u[i] = "file" <=> i = k
              /\ InPlace(u[i], KindOf(nodes, NodeAt(op2, lv[i])))
              /\ i > 1 => u[i] \notin HeadOnly
  <2> HIDE DEF lv
  <2>1. CASE i \in 1 .. m
    <3>1. i # k
      BY <2>1, <1>3, <1>4
    <3> QED
      BY <2>1, <3>1, <1>12, <1>15, <1>4
  <2>2. CASE i = m + 1
    <3>1. i # k
      BY <2>2, <1>3, <1>4
    <3>2. u[i] = "end"
      BY <2>2, <1>12
    <3> QED
      BY <3>1, <3>2 DEF InPlace, ModuleItems, ComponentItems, StructItems, BodyItems, HeadOnly
  <2>3. CASE i \notin 1 .. (m + 1)
    <3>1. i - m \in 2 .. n /\ u[i] = td[i - m] /\ lv[i] = level[i - m]
      BY <2>3, <1>12
    <3>2. (i = k <=> i - m = n) /\ i - m \in 1 .. n /\ i - m > 1
      BY <3>1, <1>3, <1>4
    <3>3. NodeAt(op2, lv[i]) = NodeAt(op, level[i - m])
      <4>1. level[i - m] \in 0 .. l
        BY <3>2, <1>8
      <4> QED
        BY <3>1, <4>1, <1>14
    <3> QED
      BY <3>1, <3>2, <3>3, <1>8
  <2>4. i \in 1 .. m \/ i = m + 1 \/ i \notin 1 .. (m + 1)
    BY <1>4
  <2> QED
    BY <2>1, <2>2, <2>3, <2>4
<1>17. u # <<>>
  BY <1>6, <1>3, <1>4, SeqFacts
<1> HIDE DEF lv
<1>18. ASSUME NEW i \in 1 .. k, NEW j \in 1 .. k, i <= j
       PROVE  lv[j] <= lv[i]
  <2>1. CASE i \in 1 .. (m + 1)
    <3>1. i \in 1 .. m \/ i = m + 1
      BY <2>1, <1>4
    <3>2. lv[i] = l + 1 /\ lv[j] \in 0 .. (l + 1)
      BY <3>1, <1>11, <1>12
    <3> QED
      BY <3>2, <1>3
  <2>2. CASE i \notin 1 .. (m + 1)
    <3>1. j \notin 1 .. (m + 1) /\ i - m <= j - m
      BY <2>2, <1>18, <1>4
    <3>2. /\ i - m \in 2 .. n /\ lv[i] = level[i - m]
          /\ j - m \in 2 .. n /\ lv[j] = level[j - m]
      BY <2>2, <3>1, <1>12
    <3>3. i - m \in 1 .. n /\ j - m \in 1 .. n
      BY <3>2, <1>3
    <3> QED
      BY <3>1, <3>2, <3>3, <1>8
  <2> QED
    BY <2>1, <2>2
<1>19. LevelsFit(u, op2, nodes, lv)
  BY <1>6, <1>7, <1>11, <1>13, <1>16, <1>18 DEF LevelsFit, k
<1> QED
  BY <1>1, <1>6, <1>7, <1>9, <1>17, <1>19 DEF CallsFit, u, op2, its

(* Where a node stops, it is closed.                                        *)
LEMMA EndFits ==
  ASSUME NEW td, NEW op, NEW nodes, CallsFit(td, op, nodes), td[1] = "end"
  PROVE  CallsFit(<<>> \o Tail(td), SubSeq(op, 1, Len(op) - 1), nodes)
<1> DEFINE n == Len(td)
           l == Len(op)
           u == <<>> \o Tail(td)
           op2 == SubSeq(op, 1, Len(op) - 1)
<1>1. /\ IsSeq(td) /\ td # <<>> /\ IsSeq(op) /\ IsSeq(nodes)
      /\ \A i \in 1 .. Len(op) : op[i] \in 1 .. Len(nodes)
  BY DEF CallsFit
<1>2. PICK level : LevelsFit(td, op, nodes, level)
  BY DEF CallsFit
<1>3. n \in Nat /\ n >= 2 /\ l \in Nat
  BY <1>1, MoreToDo, SeqFacts
<1>4. IsSeq(u) /\ Len(u) = n - 1 /\ \A i \in 1 .. (n - 1) : u[i] = td[i + 1]
  <2>1. IsSeq(<<>>) /\ Len(<<>>) = 0
    BY SeqOfItsOwn, <<>> \in Seq({})
  <2>2. /\ IsSeq(u) /\ Len(u) = 0 + (n - 1)
        /\ \A i \in 1 .. (n - 1) : u[0 + i] = td[i + 1]
    BY <1>1, <2>1, ThenSeq
  <2> HIDE DEF u, n
  <2> QED
    BY <2>2, <1>3
<1>5. /\ level \in [1 .. n -> 0 .. l] /\ level[1] = l /\ level[n] = 0
      /\ \A i \in 1 .. n - 1 : level[i] = IF td[i] = "end" THEN level[i + 1] + 1 ELSE level[i + 1]
      /\ \A i, j \in 1 .. n : i <= j => level[j] <= level[i]
      /\ \A i \in 1 .. n : /\ td[i] = "file" <=> i = n
                           /\ InPlace(td[i], KindOf(nodes, NodeAt(op, level[i])))
                           /\ i > 1 => td[i] \notin HeadOnly
  BY <1>2 DEF LevelsFit
<1>6. level[2] + 1 = l /\ l >= 1
  <2> HIDE DEF n, l
  <2> QED
    BY <1>3, <1>5
<1>7. /\ IsSeq(op2) /\ Len(op2) = l - 1
      /\ \A i \in 1 .. (l - 1) : op2[i] = op[i]
  BY <1>1, <1>6, FrontSeq, SeqFacts
<1> DEFINE lv == [i \in 1 .. n - 1 |-> level[i + 1]]
<1> HIDE DEF n, l, u, op2
<1>8. \A i \in 1 .. Len(op2) : op2[i] \in 1 .. Len(nodes)
  <2>1. \A i \in 1 .. l : op[i] \in 1 .. Len(nodes)
    BY <1>1 DEF l
  <2> QED
    BY <2>1, <1>3, <1>7
<1>9. lv \in [1 .. n - 1 -> 0 .. (l - 1)] /\ lv[1] = l - 1 /\ lv[n - 1] = 0
  <2>1. \A i \in 1 .. n - 1 : i + 1 \in 2 .. n /\ level[i + 1] \in 0 .. l /\ level[i + 1] <= level[2]
    BY <1>3, <1>5
  <2>2. level[2] = l - 1
    <3>1. level[2] \in Int
      BY <1>3, <1>5
    <3> QED
      BY <3>1, <1>3, <1>6
  <2>3. \A i \in 1 .. n - 1 : level[i + 1] \in 0 .. (l - 1)
    BY <2>1, <2>2, <1>3
  <2> QED
    BY <2>2, <2>3, <1>3, <1>5
<1>10. ASSUME NEW i \in 1 .. (n - 1) - 1
       PROVE  lv[i] = IF u[i] = "end" THEN lv[i + 1] + 1 ELSE lv[i + 1]
  <2>1. i \in 1 .. n - 1 /\ i + 1 \in 1 .. n - 1
    BY <1>3
  <2>2. u[i] = td[i + 1] /\ lv[i] = level[i + 1] /\ lv[i + 1] = level[(i + 1) + 1]
    BY <2>1, <1>4
  <2> HIDE DEF lv
  <2> QED
    BY <2>1, <2>2, <1>5
<1>11. ASSUME NEW i \in 1 .. n - 1, NEW j \in 1 .. n - 1, i <= j
       PROVE  lv[j] <= lv[i]
  <2>1. i + 1 \in 1 .. n /\ j + 1 \in 1 .. n /\ i + 1 <= j + 1
    BY <1>11, <1>3
  <2>2. lv[i] = level[i + 1] /\ lv[j] = level[j + 1]
    OBVIOUS
  <2> QED
    BY <2>1, <2>2, <1>5
<1>12. \A k \in 0 .. (l - 1) : NodeAt(op2, k) = NodeAt(op, k)
  BY <1>3, <1>7 DEF NodeAt
<1>13. ASSUME NEW i \in 1 .. n - 1
       PROVE  /\ u[i] = "file" <=> i = n - 1
              /\ InPlace(u[i], KindOf(nodes, NodeAt(op2, lv[i])))
              /\ i > 1 => u[i] \notin HeadOnly
  <2>1. u[i] = td[i + 1] /\ lv[i] = level[i + 1] /\ i + 1 \in 1 .. n /\ i + 1 > 1
        /\ (i = n - 1 <=> i + 1 = n)
    BY <1>3, <1>4
  <2>2. lv[i] \in 0 .. (l - 1)
    BY <1>9
  <2>3. NodeAt(op2, lv[i]) = NodeAt(op, level[i + 1])
    BY <2>1, <2>2, <1>12
  <2> HIDE DEF lv
  <2> QED
    BY <2>1, <2>3, <1>5
<1>14. u # <<>>
  BY <1>4, <1>3, SeqFacts
<1> HIDE DEF lv
<1>15. LevelsFit(u, op2, nodes, lv)
  BY <1>4, <1>7, <1>9, <1>10, <1>11, <1>13 DEF LevelsFit
<1> QED
  BY <1>1, <1>4, <1>7, <1>8, <1>14, <1>15 DEF CallsFit, u, op2

(* The file goes on behind each of its declarations.                        *)
LEMMA FileFits ==
  ASSUME NEW td, NEW op, NEW nodes, CallsFit(td, op, nodes), td[1] = "file"
  PROVE  CallsFit(<<"top_level", "file">> \o Tail(td), op, nodes)
<1> DEFINE u == <<"top_level", "file">> \o Tail(td)
           lv == [i \in 1 .. 2 |-> 0]
<1>1. /\ IsSeq(td) /\ td # <<>> /\ IsSeq(op) /\ IsSeq(nodes)
      /\ \A i \in 1 .. Len(op) : op[i] \in 1 .. Len(nodes)
  BY DEF CallsFit
<1>2. PICK level : LevelsFit(td, op, nodes, level)
  BY DEF CallsFit
<1>3. Len(td) \in Nat /\ Len(td) > 0
  BY <1>1, SeqFacts
<1>4. Len(td) = 1 /\ Len(op) = 0
  <2>1. 1 \in 1 .. Len(td)
    BY <1>3
  <2>2. \A i \in 1 .. Len(td) : td[i] = "file" <=> i = Len(td)
    BY <1>2 DEF LevelsFit
  <2>3. 1 = Len(td)
    BY <2>1, <2>2
  <2> QED
    BY <2>3, <1>2 DEF LevelsFit
<1>5. /\ IsSeq(<<"top_level", "file">>) /\ Len(<<"top_level", "file">>) = 2
      /\ <<"top_level", "file">>[1] = "top_level" /\ <<"top_level", "file">>[2] = "file"
  BY SeqOfItsOwn, <<"top_level", "file">> \in Seq({"top_level", "file"})
<1>6. IsSeq(u) /\ Len(u) = 2 /\ u[1] = "top_level" /\ u[2] = "file"
  <2> DEFINE items == <<"top_level", "file">>
  <2>1. IsSeq(items) /\ Len(items) = 2 /\ items[1] = "top_level" /\ items[2] = "file"
    BY <1>5
  <2> HIDE DEF items
  <2>0. IsSeq(td) /\ td # <<>> /\ IsSeq(items)
    BY <1>1, <2>1
  <2>2. /\ IsSeq(items \o Tail(td))
        /\ Len(items \o Tail(td)) = Len(items) + (Len(td) - 1)
        /\ \A i \in 1 .. Len(items) : (items \o Tail(td))[i] = items[i]
    BY <2>0, ThenSeq
  <2>3. Len(items \o Tail(td)) = 2
    BY <2>1, <2>2, <1>4
  <2>4. (items \o Tail(td))[1] = items[1] /\ (items \o Tail(td))[2] = items[2]
    <3>1. 1 \in 1 .. Len(items) /\ 2 \in 1 .. Len(items)
      BY <2>1
    <3> QED
      BY <2>2, <3>1
  <2> QED
    BY <2>1, <2>2, <2>3, <2>4 DEF items
<1> HIDE DEF u
<1>7. lv \in [1 .. 2 -> 0 .. 0] /\ lv[1] = 0 /\ lv[2] = 0
  OBVIOUS
<1> HIDE DEF lv
<1>8. \A i \in 1 .. 2 : /\ u[i] = "file" <=> i = 2
                        /\ InPlace(u[i], KindOf(nodes, NodeAt(op, lv[i])))
                        /\ i > 1 => u[i] \notin HeadOnly
  BY <1>6, <1>7 DEF InPlace, ModuleItems, ComponentItems, StructItems, BodyItems, HeadOnly, KindOf, NodeAt
<1>9. LevelsFit(u, op, nodes, lv)
  BY <1>4, <1>6, <1>7, <1>8 DEF LevelsFit
<1>10. u # <<>>
  BY <1>6, SeqFacts
<1> QED
  BY <1>1, <1>6, <1>9, <1>10 DEF CallsFit, u

----------------------------------------------------------------------------
(* What a step does to the tokens: it stays, or goes past one that is not   *)
(* the end of the source.                                                   *)
Moves ==
  /\ tokens' = tokens
  /\ \/ current_token_idx' = current_token_idx
     \/ /\ current_token_idx' = current_token_idx + 1
        /\ current_token_idx <= Len(tokens) /\ Peek # "eof"
  /\ status' \in Statuses /\ type' \in TypeKinds /\ is_pub' \in BOOLEAN
  /\ Builtins \subseteq defined_types' /\ defined_types' \subseteq Identifiers

(* No mark is left behind the next token.                                   *)
LeavesNoMark ==
  \/ /\ current_token_idx' = current_token_idx
     /\ Next1 \notin {"declaration", "member", "function", "field", "name", "mut?"}
  \/ current_token_idx' = current_token_idx + 1 /\ Peek # "pub"

(* The node on top is one of the nodes, or the file.                        *)
LEMMA InnermostIs ==
  ASSUME DInv
  PROVE  /\ Innermost = NodeAt(open, Len(open)) /\ Innermost \in 0 .. Len(ast)
         /\ Len(open) \in Nat /\ Len(ast) \in Nat /\ IsSeq(ast) /\ IsSeq(open)
<1>1. IsSeq(open) /\ IsSeq(ast) /\ \A i \in 1 .. Len(open) : open[i] \in 1 .. Len(ast)
  BY DEF DInv, CallsFit
<1>2. Len(open) \in Nat /\ Len(ast) \in Nat /\ (open # <<>> <=> Len(open) > 0)
  BY <1>1, SeqFacts
<1>3. CASE open = <<>>
  <2>1. Len(open) = 0
    BY <1>2, <1>3
  <2> QED
    BY <2>1, <1>1, <1>2, <1>3 DEF Innermost, NodeAt
<1>4. CASE open # <<>>
  <2>1. Len(open) \in 1 .. Len(open) /\ Len(open) # 0
    BY <1>2, <1>4
  <2> QED
    BY <2>1, <1>1, <1>2, <1>4 DEF Innermost, NodeAt
<1> QED
  BY <1>3, <1>4

(* The tokens keep what they have, and the end is not consumed.             *)
LEMMA MovesKeep ==
  ASSUME DInv, Moves
  PROVE  /\ TokensFit'
         /\ current_token_idx \in Nat /\ current_token_idx' \in Nat
         /\ current_token_idx <= current_token_idx'
<1>1. TokensFit
  BY DEF DInv
<1>2. Len(tokens) \in Nat /\ DOMAIN tokens = 1 .. Len(tokens)
  BY <1>1, SeqFacts DEF TokensFit
<1>3. /\ current_token_idx \in 1 .. (Len(tokens) + 1)
      /\ \A i \in 1 .. Len(tokens) : tokens[i] = "eof" => i >= current_token_idx
  BY <1>1, <1>2 DEF TokensFit, EndIsNeverConsumed
<1>4. /\ current_token_idx' \in 1 .. (Len(tokens) + 1) /\ current_token_idx' >= current_token_idx
      /\ \A i \in 1 .. Len(tokens) : tokens[i] = "eof" => i >= current_token_idx'
  <2>1. CASE current_token_idx' = current_token_idx
    BY <2>1, <1>2, <1>3
  <2>2. CASE /\ current_token_idx' = current_token_idx + 1
             /\ current_token_idx <= Len(tokens) /\ Peek # "eof"
    BY <2>2, <1>2, <1>3 DEF Peek
  <2> QED
    BY <2>1, <2>2 DEF Moves
<1>5. EndIsNeverConsumed'
  BY <1>2, <1>4 DEF Moves, EndIsNeverConsumed
<1> QED
  BY <1>1, <1>2, <1>3, <1>4, <1>5 DEF Moves, TokensFit

(* No mark stands before the next token then.                               *)
LEMMA NoMark ==
  ASSUME DInv, Moves, LeavesNoMark
  PROVE  Before(current_token_idx)' # "pub"
<1>1. MarkFits /\ current_token_idx \in Nat /\ current_token_idx >= 1
  BY MovesKeep DEF DInv, TokensFit
<1>2. CASE /\ current_token_idx' = current_token_idx
           /\ Next1 \notin {"declaration", "member", "function", "field", "name", "mut?"}
  BY <1>1, <1>2 DEF MarkFits, Before, Moves
<1>3. CASE current_token_idx' = current_token_idx + 1 /\ Peek # "pub"
  BY <1>1, <1>3 DEF Before, Peek, Moves
<1> QED
  BY <1>2, <1>3 DEF LeavesNoMark

(* The nodes that were made keep what they have.                            *)
LEMMA NodesKeep ==
  ASSUME DInv, Moves, Extends(ast', ast), NEW k \in 1 .. Len(ast)
  PROVE  NodeFits(k)'
<1>1. NodeFits(k) /\ Len(ast) \in Nat
  BY InnermostIs DEF DInv, NodesFit
<1>2. ast'[k] = ast[k]
  BY DEF Extends
<1>3. KindOf(ast', ast[k].into) = KindOf(ast, ast[k].into)
  <2>1. CASE ast[k].into = 0
    BY <2>1 DEF KindOf
  <2>2. CASE ast[k].into # 0
    <3>1. ast[k].into \in 1 .. Len(ast)
      BY <1>1, <2>2 DEF NodeFits
    <3> QED
      BY <3>1, <2>2 DEF KindOf, Extends
  <2> QED
    BY <2>1, <2>2
<1>4. IsMarked(k)' <=> IsMarked(k)
  BY <1>2 DEF IsMarked, Before, Moves
<1>5. ast[k].pos \in 1 .. current_token_idx'
  BY <1>1, MovesKeep DEF NodeFits
<1> QED
  BY <1>1, <1>2, <1>3, <1>4, <1>5 DEF NodeFits

(* A node of this kind may be put into this one, and is public if it shows. *)
Shows(kind, into, public) ==
  LET around == KindOf(ast, into)
      first == IF kind \in Containers THEN current_token_idx - 1 ELSE current_token_idx
  IN  /\ kind \in NodeKinds \cap ChildrenOf(around) /\ public \in BOOLEAN
      /\ around \in {"MODULE", "COMPONENT"} => (public <=> Before(first) = "pub")
      /\ around = "STRUCT" => public
      /\ around \notin Containers \cup {"MODULE"} => (public <=> kind \in Containers)

(* A node that is made.                                                     *)
LEMMA NodeMade ==
  ASSUME DInv, Moves, NEW kind, NEW into \in 0 .. Len(ast), NEW public,
         Shows(kind, into, public),
         ast' = Append(ast, Node(kind, into, public))
  PROVE  /\ Extends(ast', ast) /\ IsSeq(ast') /\ Len(ast') = Len(ast) + 1
         /\ Len(ast') \in Nat
         /\ ast'[Len(ast) + 1].node = kind
         /\ ast'[Len(ast) + 1].pos = current_token_idx
         /\ NodesFit'
<1> DEFINE new == Node(kind, into, public)
<1>0. PICK n : n = Len(ast)
  OBVIOUS
<1>1. IsSeq(ast) /\ n \in Nat
  BY <1>0, InnermostIs
<1>2. /\ IsSeq(ast') /\ Len(ast') = n + 1 /\ ast'[n + 1] = new
      /\ \A k \in 1 .. n : ast'[k] = ast[k]
  BY <1>0, <1>1, AppendSeq
<1>3. Extends(ast', ast)
  BY <1>1, <1>2, <1>0 DEF Extends
<1>4. /\ new.node = kind /\ new.pos = current_token_idx /\ new.into = into
      /\ new.is_pub = public
  BY DEF Node
<1> HIDE DEF new
<1>5. KindOf(ast', into) = KindOf(ast, into)
  <2>1. into = 0 \/ into \in 1 .. n
    BY <1>0, <1>1
  <2> QED
    BY <2>1, <1>2 DEF KindOf
<1>6. IsMarked(n + 1)' <=> Before(IF kind \in Containers THEN current_token_idx - 1
                               ELSE current_token_idx) = "pub"
  BY <1>2, <1>4 DEF IsMarked, Before, Moves, Containers
<1>7. current_token_idx \in 1 .. current_token_idx' /\ into \in 0 .. ((n + 1) - 1)
  BY <1>1, <1>0, MovesKeep DEF DInv, TokensFit
<1>8. NodeFits(n + 1)'
  BY <1>2, <1>4, <1>5, <1>6, <1>7 DEF NodeFits, Shows
<1>9. \A k \in 1 .. n : NodeFits(k)'
  BY <1>3, <1>0, NodesKeep
<1>10. NodesFit'
  <2>1. \A k \in 1 .. Len(ast') : k \in 1 .. n \/ k = n + 1
    BY <1>1, <1>2
  <2> QED
    BY <2>1, <1>8, <1>9 DEF NodesFit
<1> QED
  BY <1>1, <1>2, <1>3, <1>4, <1>0, <1>10

(* No name is read or registered.                                           *)
LEMMA NamesKeep ==
  ASSUME DInv, Moves, ast' = ast, defined_types' = defined_types,
         Next1 # "type_name", Next1' # "type_name"
  PROVE  NamesFit'
<1>1. NamesFit
  BY DEF DInv
<1>2. \A k \in 1 .. Len(ast) : ~AwaitsName(k) /\ ~AwaitsName(k)'
  BY DEF AwaitsName
<1>3. \A k \in 1 .. Len(ast) : NodeFits(k)
  BY DEF DInv, NodesFit
<1>4. /\ current_token_idx \in Nat /\ current_token_idx' \in Nat
      /\ current_token_idx <= current_token_idx'
  BY MovesKeep
<1>5. \A k \in 1 .. Len(ast) : IsNamed(k) =>
        /\ ast[k].pos + 1 < current_token_idx' /\ NameOf(k) \in defined_types \ Builtins
  BY <1>1, <1>2, <1>3, <1>4 DEF NamesFit, NodeFits
<1>6. \A k : (IsNamed(k)' <=> IsNamed(k)) /\ NameOf(k)' = NameOf(k)
  BY DEF IsNamed, NameOf, Moves
<1> QED
  BY <1>1, <1>2, <1>5, <1>6 DEF NamesFit

(* A chain goes on after its next name, and nowhere else.                   *)
LEMMA NoChain ==
  ASSUME NEW td, IsSeq(td), td # <<>>, NEW nodes, ChainFits(td, nodes),
         td[1] \notin {"name", "chain_module", "chain"},
         NEW items, IsSeq(items), \A i \in 1 .. Len(items) : items[i] # "chain",
         NEW more
  PROVE  ChainFits(items \o Tail(td), more)
<1> DEFINE u == items \o Tail(td)
<1>1. Len(td) \in Nat /\ Len(td) >= 1 /\ Len(items) \in Nat
  BY SeqFacts
<1>2. \A i \in 1 .. Len(td) : td[i] # "chain"
  BY <1>1 DEF ChainFits
<1>3. /\ Len(u) = Len(items) + (Len(td) - 1)
      /\ \A i \in 1 .. Len(items) : u[i] = items[i]
      /\ \A i \in 1 .. (Len(td) - 1) : u[Len(items) + i] = td[i + 1]
  BY ThenSeq
<1> DEFINE n == Len(td)
           m == Len(items)
<1> HIDE DEF n, m, u
<1>4. ASSUME NEW i \in 1 .. Len(u)
      PROVE  u[i] # "chain"
  <2>1. CASE i \in 1 .. m
    BY <2>1, <1>3 DEF m
  <2>2. CASE i \notin 1 .. m
    <3>1. i - m \in 1 .. (n - 1) /\ m + (i - m) = i /\ (i - m) + 1 \in 1 .. n
      BY <2>2, <1>1, <1>3 DEF n, m
    <3>2. u[m + (i - m)] = td[(i - m) + 1]
      BY <3>1, <1>3 DEF n, m
    <3> QED
      BY <3>1, <3>2, <1>2 DEF n
  <2> QED
    BY <2>1, <2>2
<1> QED
  BY <1>4 DEF ChainFits, u

(* What comes next is quiet: it relies on no token.                         *)
LEMMA QuietHead ==
  ASSUME Next1' \notin HeadOnly, Before(current_token_idx)' # "pub"
  PROVE  MarkFits' /\ TokenFits'
  BY DEF MarkFits, TokenFits, HeadOnly

(* Quiet items are followed by others that are.                             *)
LEMMA QuietNext ==
  ASSUME DInv, Next1 # "file", NEW items, IsSeq(items),
         \A i \in 1 .. Len(items) : items[i] \notin HeadOnly,
         todo' = items \o Tail(todo)
  PROVE  Next1' \notin HeadOnly
<1>1. IsSeq(todo) /\ todo # <<>>
  BY DEF DInv, CallsFit
<1>2. Len(todo) \in Nat /\ Len(todo) >= 2 /\ todo[2] \notin HeadOnly
  BY MoreToDo DEF DInv, Next1
<1>3. /\ \A i \in 1 .. Len(items) : todo'[i] = items[i]
      /\ \A i \in 1 .. (Len(todo) - 1) : todo'[Len(items) + i] = todo[i + 1]
  BY <1>1, ThenSeq
<1>4. CASE Len(items) = 0
  <2>1. todo'[0 + 1] = todo[1 + 1]
    BY <1>2, <1>3, <1>4
  <2> QED
    BY <2>1, <1>2 DEF Next1
<1>5. CASE Len(items) # 0
  <2>1. 1 \in 1 .. Len(items)
    BY <1>5, SeqFacts
  <2> QED
    BY <2>1, <1>3 DEF Next1
<1> QED
  BY <1>4, <1>5

----------------------------------------------------------------------------
(* The next item is replaced by calm ones, and no node is made.             *)
LEMMA DoKeeps ==
  ASSUME DInv, Moves, UNCHANGED <<ast, open, defined_types>>,
         Next1 \notin {"end", "file", "type_name"}, Next1' # "type_name",
         NEW items, Calm(items, KindOf(ast, Innermost)), Then(items)
  PROVE  TokensFit' /\ NodesFit' /\ CallsFit(todo, open, ast)' /\ NamesFit'
<1>1. TokensFit'
  BY MovesKeep
<1>2. NodesFit'
  <2>1. Extends(ast', ast)
    BY InnermostIs DEF Extends
  <2> QED
    BY <2>1, NodesKeep DEF NodesFit
<1>3. CallsFit(todo', open, ast)
  <2>1. CallsFit(todo, open, ast)
    BY DEF DInv
  <2>2. Calm(items, KindOf(ast, NodeAt(open, Len(open))))
    BY InnermostIs
  <2>3. todo[1] \notin {"end", "file"}
    BY DEF Next1
  <2> QED
    BY <2>1, <2>2, <2>3, DoFits DEF Then
<1>4. NamesFit'
  BY NamesKeep
<1> QED
  BY <1>1, <1>2, <1>3, <1>4

(* ... by quiet ones, and all that went before is done with.                *)
LEMMA QuietDoKeeps ==
  ASSUME DInv, Moves, LeavesNoMark, UNCHANGED <<ast, open, defined_types>>,
         Next1 \notin {"end", "file", "type_name", "name", "chain_module", "chain"},
         NEW items, Quiet(items, KindOf(ast, Innermost)), Then(items)
  PROVE  DInv'
<1>1. IsSeq(items) /\ \A i \in 1 .. Len(items) : items[i] \notin HeadOnly /\ items[i] # "chain"
  BY DEF Quiet, IsQuiet
<1>2. Next1' \notin HeadOnly
  BY <1>1, QuietNext DEF Then
<1>3. Next1' # "type_name"
  BY <1>2 DEF HeadOnly
<1>4. TokensFit' /\ NodesFit' /\ CallsFit(todo, open, ast)' /\ NamesFit'
  BY <1>3, QuietIsCalm, DoKeeps
<1>5. ChainFits(todo', ast')
  <2>1. IsSeq(todo) /\ todo # <<>> /\ ChainFits(todo, ast)
    BY DEF DInv, CallsFit
  <2> QED
    BY <1>1, <2>1, NoChain DEF Then, Next1
<1>6. MarkFits' /\ TokenFits'
  BY <1>2, NoMark, QuietHead
<1> QED
  BY <1>4, <1>5, <1>6 DEF DInv

(* A node is made and opened, and calm items fill it.                       *)
LEMMA NodeKeeps ==
  ASSUME DInv, Moves, Next1 \notin {"end", "file"},
         NEW kind, NEW public, Shows(kind, Innermost, public),
         ast' = Append(ast, Node(kind, Innermost, public)),
         open' = Append(open, Len(ast) + 1),
         NEW items, Calm(items, kind), items # <<>>, Then(Append(items, "end"))
  PROVE  /\ TokensFit' /\ NodesFit' /\ CallsFit(todo, open, ast)'
         /\ Next1' = items[1] /\ (Len(items) > 1 => todo'[2] = items[2])
<1>1. TokensFit'
  BY MovesKeep
<1>2. /\ Extends(ast', ast) /\ Len(ast') = Len(ast) + 1 /\ Len(ast') \in Nat
      /\ ast'[Len(ast) + 1].node = kind
      /\ NodesFit'
  BY InnermostIs, NodeMade
<1>3. Len(ast) \in Nat
  BY InnermostIs
<1>4. CallsFit(todo, open, ast')
  BY <1>2, MoreNodes DEF DInv
<1>5. PICK node \in 1 .. Len(ast') : node = Len(ast) + 1
  BY <1>2, <1>3
<1>6. todo[1] \notin {"end", "file"} /\ Calm(items, ast'[node].node)
  BY <1>2, <1>5 DEF Next1
<1>7. CallsFit(todo', open', ast')
  <2>1. CallsFit(Append(items, "end") \o Tail(todo), Append(open, node), ast')
    BY <1>4, <1>6, OpenFits
  <2> QED
    BY <2>1, <1>5 DEF Then
<1>8. IsSeq(todo) /\ todo # <<>>
  BY DEF DInv, CallsFit
<1>9. IsSeq(items) /\ Len(items) \in Nat /\ Len(items) > 0
  BY SeqFacts DEF Calm
<1>10. PICK its : its = Append(items, "end")
  OBVIOUS
<1>11. IsSeq(its) /\ Len(its) = Len(items) + 1 /\ \A i \in 1 .. Len(items) : its[i] = items[i]
  BY <1>9, <1>10, AppendSeq
<1>12. \A i \in 1 .. Len(its) : todo'[i] = its[i]
  <2>1. todo' = its \o Tail(todo)
    BY <1>10 DEF Then
  <2>2. \A i \in 1 .. Len(its) : (its \o Tail(todo))[i] = its[i]
    BY <1>8, <1>11, ThenSeq
  <2> QED
    BY <2>1, <2>2
<1>13. \A i \in 1 .. Len(items) : todo'[i] = items[i]
  BY <1>9, <1>11, <1>12
<1> QED
  BY <1>1, <1>2, <1>7, <1>9, <1>13 DEF Next1

(* No chain goes on in it, unless it is a module.                           *)
LEMMA NodeChain ==
  ASSUME DInv, Next1 \notin {"name", "chain_module", "chain"},
         NEW items, IsSeq(items), \A i \in 1 .. Len(items) : items[i] # "chain",
         Then(Append(items, "end"))
  PROVE  ChainFits(todo, ast)'
<1>1. IsSeq(todo) /\ todo # <<>> /\ ChainFits(todo, ast)
  BY DEF DInv, CallsFit
<1>2. PICK its : its = Append(items, "end")
  OBVIOUS
<1>3. /\ IsSeq(its) /\ Len(its) = Len(items) + 1 /\ its[Len(items) + 1] = "end"
      /\ \A i \in 1 .. Len(items) : its[i] = items[i]
  BY <1>2, AppendSeq
<1>4. \A i \in 1 .. Len(its) : its[i] # "chain"
  <2>1. Len(items) \in Nat
    BY SeqFacts
  <2>2. \A i \in 1 .. Len(its) : i \in 1 .. Len(items) \/ i = Len(items) + 1
    BY <2>1, <1>3
  <2> QED
    BY <2>2, <1>3
<1>5. ChainFits(its \o Tail(todo), ast')
  BY <1>1, <1>3, <1>4, NoChain DEF Next1
<1> QED
  BY <1>2, <1>5 DEF Then

(* A node of another kind than those with names.                            *)
LEMMA NodeNames ==
  ASSUME DInv, Moves, defined_types' = defined_types,
         Next1 # "type_name", Next1' # "type_name",
         Extends(ast', ast), Len(ast') = Len(ast) + 1,
         ast'[Len(ast) + 1].node \notin Containers
  PROVE  NamesFit'
<1>1. NamesFit
  BY DEF DInv
<1>2. (\A k \in 1 .. Len(ast) : ~AwaitsName(k)) /\ \A k : ~AwaitsName(k)'
  BY DEF AwaitsName
<1>3. \A k \in 1 .. Len(ast) : NodeFits(k)
  BY DEF DInv, NodesFit
<1>4. /\ current_token_idx \in Nat /\ current_token_idx' \in Nat
      /\ current_token_idx <= current_token_idx'
  BY MovesKeep
<1>5. \A k \in 1 .. Len(ast) : IsNamed(k) =>
        /\ ast[k].pos + 1 < current_token_idx' /\ NameOf(k) \in defined_types \ Builtins
  BY <1>1, <1>2, <1>3, <1>4 DEF NamesFit, NodeFits
<1>6. \A k \in 1 .. Len(ast) : (IsNamed(k)' <=> IsNamed(k)) /\ NameOf(k)' = NameOf(k)
                               /\ ast'[k] = ast[k]
  BY DEF IsNamed, NameOf, Moves, Extends
<1>7. \A k \in 1 .. Len(ast') : IsNamed(k)' => k \in 1 .. Len(ast)
  <2>1. \A k \in 1 .. Len(ast') : k \in 1 .. Len(ast) \/ k = Len(ast) + 1
    BY InnermostIs
  <2> QED
    BY <2>1 DEF IsNamed
<1> QED
  BY <1>1, <1>2, <1>5, <1>6, <1>7 DEF NamesFit

(* A node with a name, which comes next.                                    *)
LEMMA ContainerNames ==
  ASSUME DInv, Moves, defined_types' = defined_types, current_token_idx' = current_token_idx + 1,
         Next1 # "type_name", Next1' = "type_name",
         Extends(ast', ast), IsSeq(ast'), Len(ast') = Len(ast) + 1,
         ast'[Len(ast) + 1].node \in Containers, ast'[Len(ast) + 1].pos = current_token_idx
  PROVE  NamesFit'
<1>0. PICK n : n = Len(ast)
  OBVIOUS
<1>1. NamesFit /\ n \in Nat
  BY <1>0, InnermostIs DEF DInv
<1>2. \A k \in 1 .. n : ~AwaitsName(k)
  BY DEF AwaitsName
<1>3. \A k \in 1 .. n : NodeFits(k)
  BY <1>0 DEF DInv, NodesFit
<1>4. current_token_idx \in Nat
  BY MovesKeep
<1>5. \A k \in 1 .. n : IsNamed(k) =>
        /\ ast[k].pos + 1 < current_token_idx' /\ NameOf(k) \in defined_types \ Builtins
  BY <1>0, <1>1, <1>2, <1>3, <1>4 DEF NamesFit, NodeFits
<1>6. \A k \in 1 .. n : (IsNamed(k)' <=> IsNamed(k)) /\ NameOf(k)' = NameOf(k)
                        /\ ast'[k] = ast[k]
  BY <1>0 DEF IsNamed, NameOf, Moves, Extends
<1>7. \A k \in 1 .. Len(ast') : k \in 1 .. n \/ k = n + 1
  BY <1>0, <1>1
<1>8. AwaitsName(n + 1)' /\ \A k \in 1 .. n : ~AwaitsName(k)'
  BY <1>0, <1>1 DEF AwaitsName
<1>9. ast' # <<>> /\ IsNamed(n + 1)' /\ Len(ast') = n + 1
  BY <1>0, <1>1, SeqFacts DEF IsNamed
<1> QED
  BY <1>0, <1>1, <1>2, <1>4, <1>5, <1>6, <1>7, <1>8, <1>9 DEF NamesFit

(* A node is made and opened, quiet items fill it, and all that went before *)
(* is done with.                                                            *)
LEMMA QuietNodeKeeps ==
  ASSUME DInv, Moves, LeavesNoMark, UNCHANGED defined_types,
         Next1 \notin {"end", "file", "type_name", "name", "chain_module", "chain"},
         NEW kind, NEW public, Shows(kind, Innermost, public), kind \notin Containers,
         ast' = Append(ast, Node(kind, Innermost, public)),
         open' = Append(open, Len(ast) + 1),
         NEW items, Quiet(items, kind), items # <<>>, Then(Append(items, "end"))
  PROVE  DInv'
<1>1. IsSeq(items) /\ Len(items) > 0
      /\ \A i \in 1 .. Len(items) : items[i] \notin HeadOnly /\ items[i] # "chain"
  BY SeqFacts DEF Quiet, IsQuiet
<1>2. /\ TokensFit' /\ NodesFit' /\ CallsFit(todo, open, ast)' /\ Next1' = items[1]
  BY QuietIsCalm, NodeKeeps
<1>3. Next1' \notin HeadOnly
  BY <1>1, <1>2, SeqFacts
<1>4. NamesFit'
  <2>1. Next1' # "type_name"
    BY <1>3 DEF HeadOnly
  <2>2. /\ Extends(ast', ast) /\ Len(ast') = Len(ast) + 1
        /\ ast'[Len(ast) + 1].node = kind
    BY InnermostIs, NodeMade
  <2> QED
    BY <2>1, <2>2, NodeNames
<1>5. ChainFits(todo, ast)'
  BY <1>1, NodeChain
<1>6. MarkFits' /\ TokenFits'
  BY <1>3, NoMark, QuietHead
<1> QED
  BY <1>2, <1>4, <1>5, <1>6 DEF DInv

----------------------------------------------------------------------------
(* The items that add no node, and the mark is not what they are about.     *)
Harmless ==
  {"name", "expression", "{", "}", "(", ")", "]", ":", ";", "->", "s{}", "a{}",
   "mut?", "::?", ";?", "receiver", "params", "more_params", "not_last", "param", "val?", "not_ref",
   "field_init", "ret_expr", "for_condition", "for_increment", "var_init", "init_expr",
   "type_decl", "type_kind", "type_path", "end_ptr", "end_ref",
   "fn_ptr", "fn_ptr_params", "fn_ptr_more", "fn_ptr_arrow", "array_sizes", "array_size"}

(* The items whose step is not quiet, and those that may follow "pub".      *)
Special == {"end", "file", "type_name", "name", "chain_module", "chain"}
MayFollowPub == {"declaration", "member", "function", "field", "name", "mut?"}

(* A harmless item is quiet everywhere, ...                                 *)
LEMMA HarmlessItem ==
  ASSUME NEW item \in Harmless, NEW kind
  PROVE  IsQuiet(item, kind)
<1>1. item \notin {"end", "file", "chain", "function", "field", "container"}
  BY DEF Harmless
<1>2. item \notin HeadOnly
  BY DEF Harmless, HeadOnly
<1>3. item \notin ModuleItems \cup ComponentItems \cup StructItems
  BY DEF Harmless, ModuleItems, ComponentItems, StructItems
<1>4. item \notin BodyItems
  BY DEF Harmless, BodyItems
<1> QED
  BY <1>1, <1>2, <1>3, <1>4 DEF IsQuiet, InPlace

(* ... and so are many of them.                                             *)
LEMMA HarmlessIsQuiet ==
  ASSUME NEW items \in Seq(Harmless), NEW kind
  PROVE  Quiet(items, kind)
<1>1. \A item \in Harmless : IsQuiet(item, kind)
  BY HarmlessItem
<1> QED
  BY <1>1, QuietByNames

(* Those of statements are quiet in the body of a function.                 *)
LEMMA BodyIsQuiet ==
  ASSUME NEW items \in Seq(Harmless \cup BodyItems), NEW kind, kind \notin Containers \cup {"MODULE"}
  PROVE  Quiet(items, kind)
<1>1. \A item \in Harmless : IsQuiet(item, kind)
  BY HarmlessItem
<1>2. \A item \in BodyItems : IsQuiet(item, kind)
  BY DEF IsQuiet, HeadOnly, InPlace, ModuleItems, ComponentItems, StructItems, BodyItems
<1>3. \A item \in Harmless \cup BodyItems : IsQuiet(item, kind)
  BY <1>1, <1>2
<1> QED
  BY <1>3, QuietByNames

(* What is done next is in its place.                                       *)
LEMMA HeadInPlace ==
  ASSUME DInv
  PROVE  InPlace(Next1, KindOf(ast, Innermost))
<1>1. CallsFit(todo, open, ast)
  BY DEF DInv
<1>2. PICK level : LevelsFit(todo, open, ast, level)
  BY <1>1 DEF CallsFit
<1>3. 1 \in 1 .. Len(todo)
  BY <1>1, SeqFacts DEF CallsFit
<1>4. level[1] = Len(open) /\ InPlace(todo[1], KindOf(ast, NodeAt(open, level[1])))
  BY <1>2, <1>3 DEF LevelsFit
<1> QED
  BY <1>4, InnermostIs DEF Next1

(* A step that stays or goes past a token that is not the end.              *)
LEMMA StepMoves ==
  ASSUME DInv, NEW h, At(h), Stay \/ (Advance /\ Peek # "eof"),
         type' \in TypeKinds, is_pub' \in BOOLEAN, defined_types' = defined_types
  PROVE  Moves /\ Next1 = h
<1>1. status \in Statuses /\ Builtins \subseteq defined_types /\ defined_types \subseteq Identifiers
  BY DEF DInv, TokensFit
<1> QED
  BY <1>1 DEF Moves, Stay, Advance, source, At

(* The steps that replace an item by quiet ones.                            *)
LEMMA QuietStep ==
  ASSUME DInv, NEW h, At(h), h \notin Special,
         \/ Stay /\ h \notin MayFollowPub
         \/ Advance /\ Peek \notin {"eof", "pub"},
         type' \in TypeKinds, is_pub' \in BOOLEAN, UNCHANGED <<ast, open, defined_types>>,
         NEW items, Quiet(items, KindOf(ast, Innermost)), Then(items)
  PROVE  DInv'
<1>1. Moves /\ Next1 = h
  <2>1. (Stay \/ (Advance /\ Peek # "eof")) /\ defined_types' = defined_types
    OBVIOUS
  <2> QED
    BY <2>1, StepMoves
<1>2. LeavesNoMark
  BY <1>1 DEF LeavesNoMark, Stay, Advance, MayFollowPub
<1> QED
  BY <1>1, <1>2, QuietDoKeeps DEF Special

(* ... and change nothing else,                                             *)
LEMMA QuietDo ==
  ASSUME DInv, NEW h, At(h), h \notin Special,
         \/ Stay /\ h \notin MayFollowPub
         \/ Advance /\ Peek \notin {"eof", "pub"},
         NEW items, Quiet(items, KindOf(ast, Innermost)), Do(items)
  PROVE  DInv'
<1>1. type \in TypeKinds /\ is_pub \in BOOLEAN
  BY DEF DInv, TokensFit
<1>2. type' \in TypeKinds /\ is_pub' \in BOOLEAN /\ UNCHANGED <<ast, open, defined_types>> /\ Then(items)
  BY <1>1 DEF Do
<1> QED
  BY <1>2, QuietStep

(* ... or the type as well,                                                 *)
LEMMA QuietType ==
  ASSUME DInv, NEW h, At(h), h \notin Special,
         \/ Stay /\ h \notin MayFollowPub
         \/ Advance /\ Peek \notin {"eof", "pub"},
         NEW kind \in TypeKinds,
         NEW items, Quiet(items, KindOf(ast, Innermost)), DoType(kind, items)
  PROVE  DInv'
<1>1. is_pub \in BOOLEAN
  BY DEF DInv, TokensFit
<1>2. type' \in TypeKinds /\ is_pub' \in BOOLEAN /\ UNCHANGED <<ast, open, defined_types>> /\ Then(items)
  BY <1>1 DEF DoType
<1> QED
  BY <1>2, QuietStep

(* ... or make a node.                                                      *)
LEMMA QuietNode ==
  ASSUME DInv, NEW h, At(h), h \notin Special,
         \/ Stay /\ h \notin MayFollowPub
         \/ Advance /\ Peek \notin {"eof", "pub"},
         NEW kind, NEW public, Shows(kind, Innermost, public), kind \notin Containers,
         NEW items, Quiet(items, kind), items # <<>>, DoNode(kind, public, items)
  PROVE  DInv'
<1>1. type \in TypeKinds /\ is_pub \in BOOLEAN
  BY DEF DInv, TokensFit
<1>2. /\ type' \in TypeKinds /\ is_pub' \in BOOLEAN /\ defined_types' = defined_types
      /\ ast' = Append(ast, Node(kind, Innermost, public))
      /\ open' = Append(open, Len(ast) + 1) /\ Then(Append(items, "end"))
  BY <1>1 DEF DoNode
<1>3. Moves /\ Next1 = h
  <2>1. Stay \/ (Advance /\ Peek # "eof")
    OBVIOUS
  <2> QED
    BY <1>2, <2>1, StepMoves
<1>4. LeavesNoMark
  BY <1>3 DEF LeavesNoMark, Stay, Advance, MayFollowPub
<1> QED
  BY <1>2, <1>3, <1>4, QuietNodeKeeps DEF Special

(* The process exits, and nothing else changes.                             *)
LEMMA StopKeeps ==
  ASSUME DInv, status' \in Statuses, UNCHANGED <<source, current_token_idx, locals>>
  PROVE  DInv'
<1>1. UNCHANGED <<tokens, current_token_idx, todo, ast, open, defined_types, is_pub, type>>
  BY DEF source, locals
<1>2. TokensFit'
  BY <1>1 DEF DInv, TokensFit, EndIsNeverConsumed
<1>3. NodesFit'
  BY <1>1 DEF DInv, NodesFit, NodeFits, IsMarked, Before
<1>4. MarkFits' /\ TokenFits' /\ NamesFit'
  BY <1>1 DEF DInv, MarkFits, TokenFits, NamesFit, Innermost, Before, Next1, Peek, IsNamed, AwaitsName, NameOf
<1> QED
  BY <1>1, <1>2, <1>3, <1>4 DEF DInv

(* ... with a message.                                                      *)
LEMMA ExitKeeps ==
  ASSUME DInv, Exit
  PROVE  DInv'
  BY StopKeeps DEF Exit, Statuses

----------------------------------------------------------------------------
(* A harmless item is replaced by harmless ones at the same token,          *)
LEMMA HarmlessStay ==
  ASSUME DInv, NEW h, At(h), h \notin Special \cup MayFollowPub, Stay,
         NEW items \in Seq(Harmless), Do(items)
  PROVE  DInv'
<1>1. Quiet(items, KindOf(ast, Innermost))
  BY HarmlessIsQuiet
<1> QED
  BY <1>1, QuietDo

(* ... or past one,                                                         *)
LEMMA HarmlessAdvance ==
  ASSUME DInv, NEW h, At(h), h \notin Special, Advance, Peek \notin {"eof", "pub"},
         NEW items \in Seq(Harmless), Do(items)
  PROVE  DInv'
<1>1. Quiet(items, KindOf(ast, Innermost))
  BY HarmlessIsQuiet
<1> QED
  BY <1>1, QuietDo

(* ... or in the body of a function.                                        *)
LEMMA BodyDo ==
  ASSUME DInv, NEW h \in BodyItems, At(h),
         Stay \/ (Advance /\ Peek \notin {"eof", "pub"}),
         NEW items \in Seq(Harmless \cup BodyItems), Do(items)
  PROVE  DInv'
<1>1. Next1 = h
  BY DEF At
<1>2. KindOf(ast, Innermost) \notin Containers \cup {"MODULE"}
  BY <1>1, HeadInPlace DEF InPlace
<1>3. Quiet(items, KindOf(ast, Innermost))
  BY <1>2, BodyIsQuiet
<1>4. h \notin Special \cup MayFollowPub
  BY DEF BodyItems, Special, MayFollowPub
<1> QED
  BY <1>3, <1>4, QuietDo

(* expect, but for names, whose case is that of a chain of modules.         *)
LEMMA ExpectKeeps ==
  ASSUME DInv, Expect, Next1 # "name"
  PROVE  DInv'
<1>1. <<>> \in Seq(Harmless)
  OBVIOUS
<1>2. CASE Peek \in Expected(Next1) /\ Advance /\ Do(<<>>)
  <2>1. PICK h \in Punctuation \cup {"expression"} : At(h)
    BY DEF Expect, At
  <2>2. Next1 = h /\ h \notin Special
    BY <2>1 DEF At, Punctuation, Special
  <2>3. Peek \notin {"eof", "pub"}
    BY <1>2, <2>1, <2>2 DEF Expected, Punctuation, Expressions
  <2> QED
    BY <1>1, <1>2, <2>1, <2>2, <2>3, HarmlessAdvance
<1>3. CASE Exit
  BY <1>3, ExitKeeps
<1> QED
  BY <1>2, <1>3 DEF Expect

(* parse_module_body's loop.                                                *)
LEMMA ModuleBodyKeeps ==
  ASSUME DInv, ParseModuleBody
  PROVE  DInv'
<1>1. At("module_body") /\ Stay /\ Next1 = "module_body"
  BY DEF ParseModuleBody, At
<1>2. KindOf(ast, Innermost) = "MODULE"
  BY <1>1, HeadInPlace DEF InPlace, ModuleItems
<1>3. Quiet(<<>>, "MODULE")
  BY HarmlessIsQuiet, <<>> \in Seq(Harmless)
<1>4. Quiet(<<"top_level", "module_body">>, "MODULE")
  <2> DEFINE items == <<"top_level", "module_body">>
             names == {"top_level", "module_body"}
  <2>1. items \in Seq(names)
    OBVIOUS
  <2>2. \A item \in names : IsQuiet(item, "MODULE")
    BY DEF IsQuiet, HeadOnly, InPlace, ModuleItems, ComponentItems, StructItems, BodyItems
  <2> HIDE DEF items, names
  <2>3. Quiet(items, "MODULE")
    BY <2>1, <2>2, QuietByNames
  <2> QED
    BY <2>3 DEF items
<1>5. "module_body" \notin Special \cup MayFollowPub
  BY DEF Special, MayFollowPub
<1> QED
  BY <1>1, <1>2, <1>3, <1>4, <1>5, QuietDo DEF ParseModuleBody

(* The receiver of a function.                                              *)
LEMMA ReceiverKeeps ==
  ASSUME DInv, ParseReceiver
  PROVE  DInv'
<1>1. <<>> \in Seq(Harmless) /\ <<"name", ":", "type_decl", ")">> \in Seq(Harmless)
  BY DEF Harmless
<1>2. "receiver" \notin Special \cup MayFollowPub
  BY DEF Special, MayFollowPub
<1> QED
  BY <1>1, <1>2, HarmlessStay, HarmlessAdvance DEF ParseReceiver

(* The list of parameters.                                                  *)
LEMMA ParamsKeep ==
  ASSUME DInv, ParseParams
  PROVE  DInv'
<1>1. /\ <<>> \in Seq(Harmless) /\ <<"param", "more_params">> \in Seq(Harmless)
      /\ <<"not_last", "params">> \in Seq(Harmless) /\ <<")">> \in Seq(Harmless)
  BY DEF Harmless
<1>2. "params" \notin Special \cup MayFollowPub /\ "more_params" \notin Special \cup MayFollowPub
      /\ "not_last" \notin Special \cup MayFollowPub
  BY DEF Special, MayFollowPub
<1> QED
  BY <1>1, <1>2, HarmlessStay, HarmlessAdvance, ExitKeeps DEF ParseParams

(* parse_param                                                              *)
LEMMA ParamKeeps ==
  ASSUME DInv, ParseParam
  PROVE  DInv'
<1>1. /\ <<>> \in Seq(Harmless) /\ <<"not_ref">> \in Seq(Harmless)
      /\ <<"mut?", "name", ":", "val?", "type_decl">> \in Seq(Harmless)
  BY DEF Harmless
<1>2. "param" \notin Special \cup MayFollowPub /\ "val?" \notin Special \cup MayFollowPub
      /\ "not_ref" \notin Special \cup MayFollowPub
  BY DEF Special, MayFollowPub
<1> QED
  BY <1>1, <1>2, HarmlessStay, HarmlessAdvance, ExitKeeps DEF ParseParam

(* What ParseParam is to a parameter, parse_type_decl is to a type.         *)
LEMMA TypeDeclKeeps ==
  ASSUME DInv, ParseTypeDecl
  PROVE  DInv'
<1>1. <<"::?", "type_kind">> \in Seq(Harmless)
  BY DEF Harmless
<1>2. "type_decl" \notin Special \cup MayFollowPub
  BY DEF Special, MayFollowPub
<1> QED
  BY <1>1, <1>2, HarmlessStay DEF ParseTypeDecl

(* A step that says what the type is.                                       *)
LEMMA HarmlessType ==
  ASSUME DInv, NEW h, At(h), h \notin Special \cup MayFollowPub,
         Stay \/ (Advance /\ Peek \notin {"eof", "pub"}),
         NEW kind \in TypeKinds, NEW items \in Seq(Harmless), DoType(kind, items)
  PROVE  DInv'
<1>1. Quiet(items, KindOf(ast, Innermost))
  BY HarmlessIsQuiet
<1> QED
  BY <1>1, QuietType

(* The first token of a type.                                               *)
LEMMA TypeKindKeeps ==
  ASSUME DInv, ParseTypeKind
  PROVE  DInv'
<1>1. /\ <<>> \in Seq(Harmless) /\ <<"type_path">> \in Seq(Harmless)
      /\ <<"mut?", "type_decl", "end_ptr">> \in Seq(Harmless)
      /\ <<"mut?", "type_decl", "end_ref">> \in Seq(Harmless)
      /\ <<"fn_ptr">> \in Seq(Harmless)
      /\ <<"type_decl", "]", "array_sizes">> \in Seq(Harmless)
  BY DEF Harmless
<1>2. "type_kind" \notin Special \cup MayFollowPub
  BY DEF Special, MayFollowPub
<1>3. "PTR" \in TypeKinds /\ "NAMED" \in TypeKinds
  BY DEF TypeKinds
<1>4. /\ {"eof", "pub"} \cap (Identifiers \cup {"opaque_ptr", "*", "ref", "fn", "["}) = {}
  BY DEF Identifiers, Builtins
<1>5. CASE At("type_kind") /\ Peek = "opaque_ptr" /\ Advance /\ DoType("PTR", <<>>)
  BY <1>1, <1>2, <1>3, <1>4, <1>5, HarmlessType
<1>6. CASE /\ At("type_kind") /\ Peek \in Identifiers \ {"opaque_ptr"}
           /\ Advance /\ DoType("NAMED", <<"type_path">>)
  BY <1>1, <1>2, <1>3, <1>4, <1>6, HarmlessType
<1>7. CASE /\ At("type_kind") /\ Peek = "*"
           /\ Advance /\ Do(<<"mut?", "type_decl", "end_ptr">>)
  BY <1>1, <1>2, <1>7, HarmlessAdvance
<1>8. CASE /\ At("type_kind") /\ Peek = "ref"
           /\ Advance /\ Do(<<"mut?", "type_decl", "end_ref">>)
  BY <1>1, <1>2, <1>8, HarmlessAdvance
<1>9. CASE At("type_kind") /\ Peek = "fn" /\ Advance /\ Do(<<"fn_ptr">>)
  BY <1>1, <1>2, <1>9, HarmlessAdvance
<1>10. CASE At("type_kind") /\ Peek = "[" /\ Advance /\ Do(<<"type_decl", "]", "array_sizes">>)
  BY <1>1, <1>2, <1>10, HarmlessAdvance
<1>11. CASE Exit
  BY <1>11, ExitKeeps
<1> QED
  BY <1>5, <1>6, <1>7, <1>8, <1>9, <1>10, <1>11 DEF ParseTypeKind

(* The path of a named type.                                                *)
LEMMA TypePathKeeps ==
  ASSUME DInv, ParseTypePath
  PROVE  DInv'
<1>1. <<>> \in Seq(Harmless) /\ <<"name", "type_path">> \in Seq(Harmless)
  BY DEF Harmless
<1>2. "type_path" \notin Special \cup MayFollowPub
  BY DEF Special, MayFollowPub
<1> QED
  BY <1>1, <1>2, HarmlessStay, HarmlessAdvance DEF ParseTypePath

(* A pointer's and a reference's end.                                       *)
LEMMA PointersKeep ==
  ASSUME DInv, EndPointer \/ EndReference
  PROVE  DInv'
<1>1. <<>> \in Seq(Harmless)
  OBVIOUS
<1>2. "end_ptr" \notin Special \cup MayFollowPub /\ "end_ref" \notin Special \cup MayFollowPub
  BY DEF Special, MayFollowPub
<1>3. /\ (IF type = "null" THEN "null" ELSE "PTR") \in TypeKinds
      /\ (IF type = "null" THEN "null" ELSE "REF") \in TypeKinds
  BY DEF TypeKinds
<1>4. CASE EndPointer
  BY <1>1, <1>2, <1>3, <1>4, HarmlessType DEF EndPointer
<1>5. CASE EndReference
  BY <1>1, <1>2, <1>3, <1>5, HarmlessType, ExitKeeps DEF EndReference
<1> QED
  BY <1>4, <1>5

(* The type of a function pointer.                                          *)
LEMMA FunctionPointerKeeps ==
  ASSUME DInv, ParseFunctionPointer
  PROVE  DInv'
<1>1. /\ <<>> \in Seq(Harmless) /\ <<"fn_ptr_params">> \in Seq(Harmless)
      /\ <<"param", "fn_ptr_more">> \in Seq(Harmless) /\ <<"fn_ptr_arrow">> \in Seq(Harmless)
  BY DEF Harmless
<1>2. /\ "fn_ptr" \notin Special \cup MayFollowPub /\ "fn_ptr_params" \notin Special \cup MayFollowPub
      /\ "fn_ptr_more" \notin Special \cup MayFollowPub /\ "fn_ptr_arrow" \notin Special \cup MayFollowPub
  BY DEF Special, MayFollowPub
<1>3. "null" \in TypeKinds
  BY DEF TypeKinds
<1>4. CASE /\ At("fn_ptr") \/ At("fn_ptr_params")
           /\ Peek = "("
           /\ Advance
           /\ Do(IF At("fn_ptr") THEN <<"fn_ptr_params">> ELSE <<"param", "fn_ptr_more">>)
  <2>1. (IF At("fn_ptr") THEN <<"fn_ptr_params">> ELSE <<"param", "fn_ptr_more">>) \in Seq(Harmless)
    BY <1>1
  <2>2. Peek \notin {"eof", "pub"}
    BY <1>4
  <2> QED
    BY <1>2, <1>4, <2>1, <2>2, HarmlessAdvance
<1>5. CASE /\ At("fn_ptr_more") /\ Peek = ","
           /\ Advance /\ Do(<<"param", "fn_ptr_more">>)
  BY <1>1, <1>2, <1>5, HarmlessAdvance
<1>6. CASE /\ At("fn_ptr_more") /\ Peek = ")"
           /\ Advance /\ Do(<<"fn_ptr_arrow">>)
  BY <1>1, <1>2, <1>6, HarmlessAdvance
<1>7. CASE /\ \/ (At("fn_ptr") \/ At("fn_ptr_params")) /\ Peek # "("
              \/ At("fn_ptr_more") /\ Peek \notin {",", ")"}
              \/ At("fn_ptr_arrow") /\ Peek = "->"
           /\ Stay /\ DoType("null", <<>>)
  BY <1>1, <1>2, <1>3, <1>7, HarmlessType
<1>8. CASE Exit
  BY <1>8, ExitKeeps
<1> QED
  BY <1>4, <1>5, <1>6, <1>7, <1>8 DEF ParseFunctionPointer

(* The sizes of an array.                                                   *)
LEMMA ArraySizesKeep ==
  ASSUME DInv, ParseArraySizes
  PROVE  DInv'
<1>1. <<>> \in Seq(Harmless) /\ <<"array_size", "]", "array_sizes">> \in Seq(Harmless)
  BY DEF Harmless
<1>2. "array_sizes" \notin Special \cup MayFollowPub /\ "array_size" \notin Special \cup MayFollowPub
  BY DEF Special, MayFollowPub
<1>3. "ARRAY" \in TypeKinds /\ "bad_optional_access" \in Statuses
  BY DEF TypeKinds, Statuses
<1> QED
  BY <1>1, <1>2, <1>3, HarmlessAdvance, HarmlessType, ExitKeeps, StopKeeps DEF ParseArraySizes

----------------------------------------------------------------------------
(* What may be in what, kind by kind.                                       *)
LEMMA ChildrenAre ==
  ASSUME NEW kind
  PROVE  /\ kind = "MODULE" =>
              ChildrenOf(kind) = {"MODULE", "FUNCTION", "STRUCT", "COMPONENT", "FIELD"}
         /\ kind = "COMPONENT" => ChildrenOf(kind) = {"FUNCTION", "STRUCT", "COMPONENT", "FIELD"}
         /\ kind = "STRUCT" => ChildrenOf(kind) = {"STRUCT", "FIELD"}
         /\ kind \notin Containers \cup {"MODULE"} =>
              ChildrenOf(kind) = {"STRUCT", "COMPONENT", "RET", "IF", "WHILE", "FOR", "BLOCK",
                                  "EXPR", "LET"}
  BY DEF ChildrenOf, Containers

StatementKinds == {"RET", "IF", "WHILE", "FOR", "BLOCK", "EXPR", "LET"}

(* A statement is made in the body of a function.                           *)
LEMMA BodyNode ==
  ASSUME DInv, NEW h \in BodyItems, At(h),
         Stay \/ (Advance /\ Peek \notin {"eof", "pub"}),
         NEW kind \in StatementKinds,
         NEW items \in Seq(Harmless \cup BodyItems), items # <<>>, DoNode(kind, FALSE, items)
  PROVE  DInv'
<1>1. Next1 = h
  BY DEF At
<1>2. KindOf(ast, Innermost) \notin Containers \cup {"MODULE"}
  BY <1>1, HeadInPlace DEF InPlace
<1>3. kind \notin Containers \cup {"MODULE"} /\ kind \in NodeKinds
  BY DEF StatementKinds, Containers, NodeKinds
<1>4. Quiet(items, kind)
  BY <1>3, BodyIsQuiet
<1>5. Shows(kind, Innermost, FALSE)
  <2>1. kind \in ChildrenOf(KindOf(ast, Innermost))
    BY <1>2, ChildrenAre DEF StatementKinds
  <2> QED
    BY <2>1, <1>2, <1>3 DEF Shows, Containers
<1>6. h \notin Special \cup MayFollowPub
  BY DEF BodyItems, Special, MayFollowPub
<1> QED
  BY <1>3, <1>4, <1>5, <1>6, QuietNode

(* parse_scope and its loop                                                 *)
LEMMA ScopeKeeps ==
  ASSUME DInv, ParseScope
  PROVE  DInv'
<1>1. /\ <<>> \in Seq(Harmless \cup BodyItems)
      /\ <<"{", "statements", "}">> \in Seq(Harmless \cup BodyItems)
      /\ <<"statement", "statements">> \in Seq(Harmless \cup BodyItems)
  BY DEF Harmless, BodyItems
<1>2. "scope" \in BodyItems /\ "statements" \in BodyItems
  BY DEF BodyItems
<1> QED
  BY <1>1, <1>2, BodyDo, ExitKeeps DEF ParseScope

(* parse_statement, but for the declarations of types                       *)
LEMMA StatementKeeps ==
  ASSUME DInv, ParseStatement, Peek # "type"
  PROVE  DInv'
<1> DEFINE Items == Harmless \cup BodyItems
<1>1. /\ <<"ret_expr", ";">> \in Seq(Items)
      /\ <<"(", "expression", ")", "scope">> \in Seq(Items)
      /\ <<"scope">> \in Seq(Items) /\ <<"expression", ";">> \in Seq(Items)
  BY DEF Harmless, BodyItems
<1>2. /\ <<"(", "expression", ")", "scope", "else_branch">> \in Seq(Items)
      /\ <<"(", "for_init", "for_condition", "for_increment", ")", "scope">> \in Seq(Items)
  BY DEF Harmless, BodyItems
<1>3. "statement" \in BodyItems
  BY DEF BodyItems
<1>4. /\ "RET" \in StatementKinds /\ "IF" \in StatementKinds /\ "WHILE" \in StatementKinds
      /\ "FOR" \in StatementKinds /\ "BLOCK" \in StatementKinds /\ "EXPR" \in StatementKinds
  BY DEF StatementKinds
<1> HIDE DEF Items
<1>5. CASE At("statement") /\ Peek = "ret" /\ Advance /\ DoNode("RET", FALSE, <<"ret_expr", ";">>)
  BY <1>1, <1>3, <1>4, <1>5, BodyNode DEF Items
<1>6. CASE /\ At("statement") /\ Peek = "if"
           /\ Advance /\ DoNode("IF", FALSE, <<"(", "expression", ")", "scope", "else_branch">>)
  BY <1>2, <1>3, <1>4, <1>6, BodyNode DEF Items
<1>7. CASE /\ At("statement") /\ Peek = "while"
           /\ Advance /\ DoNode("WHILE", FALSE, <<"(", "expression", ")", "scope">>)
  BY <1>1, <1>3, <1>4, <1>7, BodyNode DEF Items
<1>8. CASE /\ At("statement") /\ Peek = "for"
           /\ Advance
           /\ DoNode("FOR", FALSE,
                     <<"(", "for_init", "for_condition", "for_increment", ")", "scope">>)
  BY <1>2, <1>3, <1>4, <1>8, BodyNode DEF Items
<1>9. CASE At("statement") /\ Peek = "{" /\ Stay /\ DoNode("BLOCK", FALSE, <<"scope">>)
  BY <1>1, <1>3, <1>4, <1>9, BodyNode DEF Items
<1>10. CASE /\ At("statement") /\ Peek \in Expressions
            /\ Stay /\ DoNode("EXPR", FALSE, <<"expression", ";">>)
  BY <1>1, <1>3, <1>4, <1>10, BodyNode DEF Items
<1>11. CASE Exit
  BY <1>11, ExitKeeps
<1> QED
  BY <1>5, <1>6, <1>7, <1>8, <1>9, <1>10, <1>11 DEF ParseStatement

(* The parts of a return, an if and a for statement.                        *)
LEMMA PartsKeep ==
  ASSUME DInv, ReturnExpression \/ ElseBranch \/ ForParts
  PROVE  DInv'
<1> DEFINE Items == Harmless \cup BodyItems
<1>1. /\ <<>> \in Seq(Harmless) /\ <<"expression">> \in Seq(Harmless)
      /\ <<";">> \in Seq(Harmless) /\ <<"expression", ";">> \in Seq(Harmless)
  BY DEF Harmless
<1>2. /\ <<>> \in Seq(Items) /\ <<"else_body">> \in Seq(Items) /\ <<"statement">> \in Seq(Items)
      /\ <<"scope">> \in Seq(Items) /\ <<";?">> \in Seq(Items) /\ <<"statement", ";?">> \in Seq(Items)
  BY DEF Harmless, BodyItems
<1>3. "else_branch" \in BodyItems /\ "else_body" \in BodyItems /\ "for_init" \in BodyItems
  BY DEF BodyItems
<1>4. /\ "ret_expr" \notin Special \cup MayFollowPub /\ "for_condition" \notin Special \cup MayFollowPub
      /\ "for_increment" \notin Special \cup MayFollowPub
  BY DEF Special, MayFollowPub
<1>5. "BLOCK" \in StatementKinds
  BY DEF StatementKinds
<1> HIDE DEF Items
<1>6. CASE ReturnExpression
  BY <1>1, <1>4, <1>6, HarmlessStay DEF ReturnExpression
<1>7. CASE ElseBranch
  <2>1. CASE /\ At("else_branch")
             /\ IF Peek = "else" THEN Advance /\ Do(<<"else_body">>) ELSE Stay /\ Do(<<>>)
    BY <1>2, <1>3, <2>1, BodyDo DEF Items
  <2>2. CASE At("else_body") /\ Peek = "if" /\ Stay /\ Do(<<"statement">>)
    BY <1>2, <1>3, <2>2, BodyDo DEF Items
  <2>3. CASE At("else_body") /\ Peek # "if" /\ Stay /\ DoNode("BLOCK", FALSE, <<"scope">>)
    BY <1>2, <1>3, <1>5, <2>3, BodyNode DEF Items
  <2> QED
    BY <1>7, <2>1, <2>2, <2>3 DEF ElseBranch
<1>8. CASE ForParts
  <2>1. CASE At("for_init") /\ Stay /\ Do(IF Peek = ";" THEN <<";?">> ELSE <<"statement", ";?">>)
    BY <1>2, <1>3, <2>1, BodyDo DEF Items
  <2>2. CASE At("for_condition") /\ Stay /\ Do(IF Peek = ";" THEN <<";">> ELSE <<"expression", ";">>)
    BY <1>1, <1>4, <2>2, HarmlessStay
  <2>3. CASE At("for_increment") /\ Stay /\ Do(IF Peek = ")" THEN <<>> ELSE <<"expression">>)
    BY <1>1, <1>4, <2>3, HarmlessStay
  <2> QED
    BY <1>8, <2>1, <2>2, <2>3 DEF ForParts
<1> QED
  BY <1>6, <1>7, <1>8

(* parse_var_decl_stmt                                                      *)
LEMMA VarDeclKeeps ==
  ASSUME DInv, ParseVarDecl
  PROVE  DInv'
<1> DEFINE Items == Harmless \cup BodyItems
<1>1. /\ <<>> \in Seq(Harmless) /\ <<"init_expr">> \in Seq(Harmless)
      /\ <<"expression">> \in Seq(Harmless) /\ <<"s{}">> \in Seq(Harmless)
      /\ <<"a{}">> \in Seq(Harmless)
  BY DEF Harmless
<1>2. /\ <<"var_decl">> \in Seq(Items)
      /\ <<"mut?", "name", ":", "type_decl", "var_init", ";">> \in Seq(Items)
  BY DEF Harmless, BodyItems
<1>3. "statement" \in BodyItems /\ "var_decl" \in BodyItems
  BY DEF BodyItems
<1>4. "var_init" \notin Special \cup MayFollowPub /\ "init_expr" \notin Special \cup MayFollowPub
  BY DEF Special, MayFollowPub
<1>5. "LET" \in StatementKinds /\ "null_type_read" \in Statuses
  BY DEF StatementKinds, Statuses
<1> HIDE DEF Items
<1>6. CASE At("statement") /\ Peek = "let" /\ Advance /\ Do(<<"var_decl">>)
  BY <1>2, <1>3, <1>6, BodyDo DEF Items
<1>7. CASE /\ At("var_decl")
           /\ Stay /\ DoNode("LET", FALSE, <<"mut?", "name", ":", "type_decl", "var_init", ";">>)
  BY <1>2, <1>3, <1>5, <1>7, BodyNode DEF Items
<1>8. CASE /\ At("var_init")
           /\ IF Peek = "=" THEN Advance /\ Do(<<"init_expr">>) ELSE Stay /\ Do(<<>>)
  BY <1>1, <1>4, <1>8, HarmlessAdvance, HarmlessStay
<1>9. CASE At("init_expr") /\ Stay /\ Do(<<"expression">>)
  BY <1>1, <1>4, <1>9, HarmlessStay
<1>10. CASE At("init_expr") /\ Stay /\ Do(<<IF type = "NAMED" THEN "s{}" ELSE "a{}">>)
  <2>1. <<IF type = "NAMED" THEN "s{}" ELSE "a{}">> \in Seq(Harmless)
    BY <1>1
  <2> QED
    BY <2>1, <1>4, <1>10, HarmlessStay
<1>11. CASE status' = "null_type_read" /\ UNCHANGED <<source, current_token_idx, locals>>
  BY <1>5, <1>11, StopKeeps
<1> QED
  BY <1>6, <1>7, <1>8, <1>9, <1>10, <1>11 DEF ParseVarDecl

----------------------------------------------------------------------------
(* A list of one item,                                                      *)
LEMMA OneItem ==
  ASSUME NEW x, x \notin {"end", "file", "chain"}, NEW kind, InPlace(x, kind)
  PROVE  /\ Calm(<<x>>, kind) /\ <<x>> # <<>> /\ <<x>>[1] = x
         /\ \A i \in 1 .. Len(<<x>>) : <<x>>[i] # "chain"
<1> DEFINE items == <<x>>
<1>1. items \in Seq({x}) /\ Len(items) = 1 /\ items[1] = x /\ items # <<>>
  OBVIOUS
<1> HIDE DEF items
<1>2. IsSeq(items)
  BY <1>1, SeqOfItsOwn
<1>3. \A i \in 1 .. Len(items) : i = 1 /\ items[i] = x
  BY <1>1
<1>4. Calm(items, kind) /\ items # <<>> /\ items[1] = x /\ \A i \in 1 .. Len(items) : items[i] # "chain"
  BY <1>1, <1>2, <1>3 DEF Calm
<1> QED
  BY <1>4 DEF items

(* ... and of one and a quiet one.                                          *)
LEMMA TwoItems ==
  ASSUME NEW x, x \notin {"end", "file", "chain"}, NEW kind, InPlace(x, kind),
         NEW y, IsQuiet(y, kind)
  PROVE  /\ Calm(<<x, y>>, kind) /\ <<x, y>> # <<>> /\ <<x, y>>[1] = x
         /\ \A i \in 1 .. Len(<<x, y>>) : <<x, y>>[i] # "chain"
<1> DEFINE items == <<x, y>>
<1>1. items \in Seq({x, y}) /\ Len(items) = 2 /\ items[1] = x /\ items[2] = y /\ items # <<>>
  OBVIOUS
<1> HIDE DEF items
<1>2. IsSeq(items)
  BY <1>1, SeqOfItsOwn
<1>3. \A i \in 1 .. Len(items) : (i = 1 /\ items[i] = x) \/ (i = 2 /\ items[i] = y)
  BY <1>1
<1>4. Calm(items, kind) /\ items # <<>> /\ items[1] = x /\ \A i \in 1 .. Len(items) : items[i] # "chain"
  BY <1>1, <1>2, <1>3 DEF Calm, IsQuiet
<1> QED
  BY <1>4 DEF items

(* The next item is replaced by some that rely on what was just read.       *)
LEMMA CalmDo ==
  ASSUME DInv, NEW h, At(h), h \notin Special, Stay \/ (Advance /\ Peek # "eof"),
         type' \in TypeKinds, is_pub' \in BOOLEAN, UNCHANGED <<ast, open, defined_types>>,
         NEW items, Calm(items, KindOf(ast, Innermost)), items # <<>>, items[1] # "type_name",
         \A i \in 1 .. Len(items) : items[i] # "chain", Then(items)
  PROVE  /\ TokensFit' /\ NodesFit' /\ CallsFit(todo, open, ast)' /\ ChainFits(todo, ast)' /\ NamesFit'
         /\ Next1' = items[1] /\ KindOf(ast, Innermost)' = KindOf(ast, Innermost)
<1>1. Moves /\ Next1 = h
  BY StepMoves
<1>2. IsSeq(todo) /\ todo # <<>> /\ ChainFits(todo, ast) /\ IsSeq(items)
  BY DEF DInv, CallsFit, Calm
<1>3. Next1' = items[1]
  <2>1. 1 \in 1 .. Len(items)
    BY <1>2, SeqFacts
  <2> QED
    BY <1>2, <2>1, ThenSeq DEF Then, Next1
<1>4. TokensFit' /\ NodesFit' /\ CallsFit(todo, open, ast)' /\ NamesFit'
  BY <1>1, <1>3, DoKeeps DEF Special
<1>5. ChainFits(todo', ast')
  BY <1>1, <1>2, NoChain DEF Then, Next1, Special
<1>6. KindOf(ast, Innermost)' = KindOf(ast, Innermost)
  BY DEF KindOf, Innermost
<1> QED
  BY <1>3, <1>4, <1>5, <1>6

(* "pub", or none, before a declaration of a file or a module, and before a *)
(* member of a component.                                                   *)
LEMMA MarkRead ==
  ASSUME DInv, NEW h \in {"top_level", "component_body"}, At(h),
         IF Peek = "pub" THEN Advance ELSE Stay,
         NEW item \in {"declaration", "member"}, InPlace(item, KindOf(ast, Innermost)),
         NEW items, Calm(items, KindOf(ast, Innermost)), items # <<>>, items[1] = item,
         \A i \in 1 .. Len(items) : items[i] # "chain",
         DoPublic(Peek = "pub", items)
  PROVE  DInv'
<1>1. h \notin Special /\ item # "type_name"
  BY DEF Special
<1>2. Stay \/ (Advance /\ Peek # "eof")
  OBVIOUS
<1>3. /\ type' \in TypeKinds /\ is_pub' \in BOOLEAN /\ UNCHANGED <<ast, open, defined_types>>
      /\ Then(items) /\ (is_pub' <=> Peek = "pub")
  BY DEF DoPublic, DInv, TokensFit
<1>4. /\ TokensFit' /\ NodesFit' /\ CallsFit(todo, open, ast)' /\ ChainFits(todo, ast)' /\ NamesFit'
      /\ Next1' = item
  BY <1>1, <1>2, <1>3, CalmDo
<1>5. Before(current_token_idx)' = "pub" <=> Peek = "pub"
  <2>1. current_token_idx \in Nat /\ current_token_idx >= 1
    BY DEF DInv, TokensFit
  <2>2. CASE Peek = "pub"
    BY <2>1, <2>2 DEF Advance, source, Before, Peek
  <2>3. CASE Peek # "pub"
    <3>1. Before(current_token_idx) # "pub"
      BY DEF DInv, MarkFits, At
    <3> QED
      BY <2>3, <3>1 DEF Stay, source, Before
  <2> QED
    BY <2>2, <2>3
<1>6. MarkFits' /\ TokenFits'
  BY <1>3, <1>4, <1>5 DEF MarkFits, TokenFits
<1> QED
  BY <1>4, <1>6 DEF DInv

(* parse_top_level                                                          *)
LEMMA TopLevelKeeps ==
  ASSUME DInv, ParseTopLevel
  PROVE  DInv'
<1>1. At("top_level") /\ Next1 = "top_level"
  BY DEF ParseTopLevel, At
<1>2. KindOf(ast, Innermost) = "MODULE"
  BY <1>1, HeadInPlace DEF InPlace, ModuleItems
<1>3. InPlace("declaration", KindOf(ast, Innermost))
  BY <1>2 DEF InPlace, ModuleItems, ComponentItems, StructItems, BodyItems
<1> QED
  BY <1>1, <1>3, OneItem, MarkRead DEF ParseTopLevel

(* parse_component's loop                                                   *)
LEMMA ComponentBodyKeeps ==
  ASSUME DInv, ParseComponentBody
  PROVE  DInv'
<1>1. At("component_body") /\ Next1 = "component_body"
  BY DEF ParseComponentBody, At
<1>2. KindOf(ast, Innermost) = "COMPONENT"
  BY <1>1, HeadInPlace DEF InPlace, ComponentItems
<1>3. /\ InPlace("member", KindOf(ast, Innermost))
      /\ IsQuiet("component_body", KindOf(ast, Innermost))
  BY <1>2 DEF InPlace, ModuleItems, ComponentItems, StructItems, BodyItems, IsQuiet, HeadOnly
<1>4. CASE Peek = "}" /\ Stay /\ Do(<<>>)
  <2>1. <<>> \in Seq(Harmless) /\ "component_body" \notin Special \cup MayFollowPub
    BY DEF Special, MayFollowPub
  <2> QED
    BY <1>1, <1>4, <2>1, HarmlessStay
<1>5. CASE /\ IF Peek = "pub" THEN Advance ELSE Stay
           /\ DoPublic(Peek = "pub", <<"member", "component_body">>)
  BY <1>1, <1>3, <1>5, TwoItems, MarkRead
<1> QED
  BY <1>4, <1>5 DEF ParseComponentBody

(* A declaration or member starts with "fn",                                *)
LEMMA ToFunction ==
  ASSUME DInv, NEW h \in {"declaration", "member"}, At(h), Peek = "fn", Stay, Do(<<"function">>)
  PROVE  DInv'
<1>1. /\ h \notin Special /\ Next1 = h /\ current_token_idx <= Len(tokens)
  BY DEF Special, At
<1>2. KindOf(ast, Innermost) \in {"MODULE", "COMPONENT"}
  BY <1>1, HeadInPlace DEF InPlace, ModuleItems, ComponentItems
<1>3. InPlace("function", KindOf(ast, Innermost))
  BY <1>2 DEF InPlace, ModuleItems, ComponentItems, StructItems, BodyItems
<1>4. /\ type' \in TypeKinds /\ is_pub' \in BOOLEAN /\ UNCHANGED <<ast, open, defined_types>>
      /\ Then(<<"function">>) /\ is_pub' = is_pub
  BY DEF Do, DInv, TokensFit
<1>5. /\ TokensFit' /\ NodesFit' /\ CallsFit(todo, open, ast)' /\ ChainFits(todo, ast)' /\ NamesFit'
      /\ Next1' = "function" /\ KindOf(ast, Innermost)' = KindOf(ast, Innermost)
  BY <1>1, <1>3, <1>4, OneItem, CalmDo
<1>6. is_pub <=> Before(current_token_idx) = "pub"
  BY <1>1 DEF DInv, MarkFits
<1>7. Before(current_token_idx)' = Before(current_token_idx) /\ Peek' = Peek
      /\ current_token_idx' = current_token_idx /\ Len(tokens') = Len(tokens)
  BY DEF Before, Stay, source, Peek
<1>8. MarkFits' /\ TokenFits'
  BY <1>1, <1>2, <1>4, <1>5, <1>6, <1>7 DEF MarkFits, TokenFits
<1> QED
  BY <1>5, <1>8 DEF DInv

(* ... is a field,                                                          *)
LEMMA ToField ==
  ASSUME DInv, NEW h \in {"declaration", "member"}, At(h), Stay, Do(<<"field">>)
  PROVE  DInv'
<1>1. h \notin Special /\ Next1 = h
  BY DEF Special, At
<1>2. KindOf(ast, Innermost) \in {"MODULE", "COMPONENT"}
  BY <1>1, HeadInPlace DEF InPlace, ModuleItems, ComponentItems
<1>3. InPlace("field", KindOf(ast, Innermost))
  BY <1>2 DEF InPlace, ModuleItems, ComponentItems, StructItems, BodyItems, Containers
<1>4. /\ type' \in TypeKinds /\ is_pub' \in BOOLEAN /\ UNCHANGED <<ast, open, defined_types>>
      /\ Then(<<"field">>) /\ is_pub' = is_pub
  BY DEF Do, DInv, TokensFit
<1>5. /\ TokensFit' /\ NodesFit' /\ CallsFit(todo, open, ast)' /\ ChainFits(todo, ast)' /\ NamesFit'
      /\ Next1' = "field" /\ KindOf(ast, Innermost)' = KindOf(ast, Innermost)
  BY <1>1, <1>3, <1>4, OneItem, CalmDo
<1>6. is_pub <=> Before(current_token_idx) = "pub"
  BY <1>1 DEF DInv, MarkFits
<1>7. Before(current_token_idx)' = Before(current_token_idx)
  BY DEF Before, Stay, source
<1>8. MarkFits' /\ TokenFits'
  BY <1>2, <1>4, <1>5, <1>6, <1>7 DEF MarkFits, TokenFits
<1> QED
  BY <1>5, <1>8 DEF DInv

(* ... or starts with "type".                                               *)
LEMMA ToContainer ==
  ASSUME DInv, NEW h \in {"declaration", "member"}, At(h), Peek = "type", Advance,
         Do(<<"container">>)
  PROVE  DInv'
<1>1. h \notin Special /\ Next1 = h
  BY DEF Special, At
<1>2. KindOf(ast, Innermost) \in {"MODULE", "COMPONENT"}
  BY <1>1, HeadInPlace DEF InPlace, ModuleItems, ComponentItems
<1>3. InPlace("container", KindOf(ast, Innermost))
  BY <1>2 DEF InPlace, ModuleItems, ComponentItems, StructItems, BodyItems
<1>4. /\ type' \in TypeKinds /\ is_pub' \in BOOLEAN /\ UNCHANGED <<ast, open, defined_types>>
      /\ Then(<<"container">>) /\ is_pub' = is_pub
  BY DEF Do, DInv, TokensFit
<1>5. /\ TokensFit' /\ NodesFit' /\ CallsFit(todo, open, ast)' /\ ChainFits(todo, ast)' /\ NamesFit'
      /\ Next1' = "container" /\ KindOf(ast, Innermost)' = KindOf(ast, Innermost)
  BY <1>1, <1>3, <1>4, OneItem, CalmDo
<1>6. is_pub <=> Before(current_token_idx) = "pub"
  BY <1>1 DEF DInv, MarkFits
<1>7. current_token_idx \in Nat /\ current_token_idx >= 1
  BY DEF DInv, TokensFit
<1>8. Before(current_token_idx)' = "type" /\ Before(current_token_idx - 1)' = Before(current_token_idx)
  BY <1>7 DEF Before, Advance, source, Peek
<1>9. MarkFits' /\ TokenFits'
  BY <1>2, <1>4, <1>5, <1>6, <1>8 DEF MarkFits, TokenFits
<1> QED
  BY <1>5, <1>9 DEF DInv

(* A declaration is a module: "module" is gone past, and names it not public.*)
LEMMA ToModule ==
  ASSUME DInv, At("declaration"), Peek = "module", Advance, Do(<<"module">>)
  PROVE  DInv'
<1>1. "declaration" \notin Special /\ Next1 = "declaration"
  BY DEF Special, At
<1>2. KindOf(ast, Innermost) = "MODULE"
  BY <1>1, HeadInPlace DEF InPlace, ModuleItems
<1>3. InPlace("module", KindOf(ast, Innermost))
  BY <1>2 DEF InPlace, ModuleItems, ComponentItems, StructItems, BodyItems
<1>4. /\ type' \in TypeKinds /\ is_pub' \in BOOLEAN /\ UNCHANGED <<ast, open, defined_types>>
      /\ Then(<<"module">>)
  BY DEF Do, DInv, TokensFit
<1>5. /\ TokensFit' /\ NodesFit' /\ CallsFit(todo, open, ast)' /\ ChainFits(todo, ast)' /\ NamesFit'
      /\ Next1' = "module"
  BY <1>1, <1>3, <1>4, OneItem, CalmDo
<1>6. current_token_idx \in Nat /\ current_token_idx >= 1
  BY DEF DInv, TokensFit
<1>7. Before(current_token_idx)' = "module"
  BY <1>6 DEF Before, Advance, source, Peek
<1>8. MarkFits' /\ TokenFits'
  BY <1>5, <1>7 DEF MarkFits, TokenFits
<1> QED
  BY <1>5, <1>8 DEF DInv

(* parse_declaration                                                        *)
LEMMA DeclarationKeeps ==
  ASSUME DInv, ParseDeclaration
  PROVE  DInv'
<1>1. CASE At("declaration") /\ Peek = "module" /\ Advance /\ Do(<<"module">>)
  BY <1>1, ToModule
<1>2. CASE At("declaration") /\ Peek = "fn" /\ Stay /\ Do(<<"function">>)
  BY <1>2, ToFunction
<1>3. CASE At("declaration") /\ Peek = "type" /\ Advance /\ Do(<<"container">>)
  BY <1>3, ToContainer
<1>4. CASE At("declaration") /\ Stay /\ Do(<<"field">>)
  BY <1>4, ToField
<1>5. CASE Exit
  BY <1>5, ExitKeeps
<1> QED
  BY <1>1, <1>2, <1>3, <1>4, <1>5 DEF ParseDeclaration

(* A member of a component.                                                 *)
LEMMA MemberKeeps ==
  ASSUME DInv, ParseMember
  PROVE  DInv'
<1>1. CASE At("member") /\ Peek = "type" /\ Advance /\ Do(<<"container">>)
  BY <1>1, ToContainer
<1>2. CASE At("member") /\ Stay /\ Do(<<IF Peek = "fn" THEN "function" ELSE "field">>)
  <2>1. CASE Peek = "fn"
    BY <1>2, <2>1, ToFunction
  <2>2. CASE Peek # "fn"
    BY <1>2, <2>2, ToField
  <2> QED
    BY <2>1, <2>2
<1> QED
  BY <1>1, <1>2 DEF ParseMember

(* A type is declared in a function, where all types are public.            *)
LEMMA LocalTypeKeeps ==
  ASSUME DInv, ParseStatement, Peek = "type"
  PROVE  DInv'
<1>1. CASE Exit
  BY <1>1, ExitKeeps
<1>2. CASE At("statement") /\ Advance /\ DoPublic(TRUE, <<"container">>)
  <2>1. "statement" \notin Special /\ Next1 = "statement"
    BY <1>2 DEF Special, At
  <2>2. KindOf(ast, Innermost) \notin Containers \cup {"MODULE"}
    BY <2>1, HeadInPlace DEF InPlace, BodyItems
  <2>3. InPlace("container", KindOf(ast, Innermost))
    BY <2>2 DEF InPlace, ModuleItems, ComponentItems, StructItems, BodyItems, Containers
  <2>4. /\ type' \in TypeKinds /\ is_pub' \in BOOLEAN /\ UNCHANGED <<ast, open, defined_types>>
        /\ Then(<<"container">>) /\ is_pub'
    BY <1>2 DEF DoPublic, DInv, TokensFit
  <2>5. /\ TokensFit' /\ NodesFit' /\ CallsFit(todo, open, ast)' /\ ChainFits(todo, ast)' /\ NamesFit'
        /\ Next1' = "container" /\ KindOf(ast, Innermost)' = KindOf(ast, Innermost)
    BY <1>2, <2>1, <2>3, <2>4, OneItem, CalmDo
  <2>6. current_token_idx \in Nat /\ current_token_idx >= 1
    BY DEF DInv, TokensFit
  <2>7. Before(current_token_idx)' = "type"
    BY <1>2, <2>6 DEF Before, Advance, source, Peek
  <2>8. MarkFits' /\ TokenFits'
    BY <2>2, <2>4, <2>5, <2>7 DEF MarkFits, TokenFits, Containers
  <2> QED
    BY <2>5, <2>8 DEF DInv
<1> QED
  BY <1>1, <1>2 DEF ParseStatement, Expressions

(* parse_struct's loop: everything in a struct is public.                   *)
LEMMA StructBodyKeeps ==
  ASSUME DInv, ParseStructBody
  PROVE  DInv'
<1>1. At("struct_body") /\ Next1 = "struct_body" /\ "struct_body" \notin Special \cup MayFollowPub
  BY DEF ParseStructBody, At, Special, MayFollowPub
<1>2. KindOf(ast, Innermost) = "STRUCT"
  BY <1>1, HeadInPlace DEF InPlace, StructItems
<1>3. /\ InPlace("struct", KindOf(ast, Innermost)) /\ InPlace("field", KindOf(ast, Innermost))
      /\ IsQuiet("struct_body", KindOf(ast, Innermost))
  BY <1>2 DEF InPlace, ModuleItems, ComponentItems, StructItems, BodyItems, IsQuiet, HeadOnly, Containers
<1>4. CASE Stay /\ Do(<<>>)
  <2>1. <<>> \in Seq(Harmless)
    OBVIOUS
  <2> QED
    BY <1>1, <1>4, <2>1, HarmlessStay
<1>5. CASE Exit
  BY <1>5, ExitKeeps
<1>6. CASE Peek = "type" /\ Advance /\ DoPublic(TRUE, <<"struct", "struct_body">>)
  <2>1. /\ type' \in TypeKinds /\ is_pub' \in BOOLEAN /\ UNCHANGED <<ast, open, defined_types>>
        /\ Then(<<"struct", "struct_body">>) /\ is_pub'
    BY <1>6 DEF DoPublic, DInv, TokensFit
  <2>2. /\ TokensFit' /\ NodesFit' /\ CallsFit(todo, open, ast)' /\ ChainFits(todo, ast)' /\ NamesFit'
        /\ Next1' = "struct"
    BY <1>1, <1>3, <1>6, <2>1, TwoItems, CalmDo
  <2>3. current_token_idx \in Nat /\ current_token_idx >= 1
    BY DEF DInv, TokensFit
  <2>4. Before(current_token_idx)' = "type"
    BY <1>6, <2>3 DEF Before, Advance, source, Peek
  <2>5. MarkFits' /\ TokenFits'
    BY <2>1, <2>2, <2>4 DEF MarkFits, TokenFits
  <2> QED
    BY <2>2, <2>5 DEF DInv
<1>7. CASE Stay /\ DoPublic(TRUE, <<"field", "struct_body">>)
  <2>1. /\ type' \in TypeKinds /\ is_pub' \in BOOLEAN /\ UNCHANGED <<ast, open, defined_types>>
        /\ Then(<<"field", "struct_body">>) /\ is_pub'
    BY <1>7 DEF DoPublic, DInv, TokensFit
  <2>2. /\ TokensFit' /\ NodesFit' /\ CallsFit(todo, open, ast)' /\ ChainFits(todo, ast)' /\ NamesFit'
        /\ Next1' = "field" /\ KindOf(ast, Innermost)' = KindOf(ast, Innermost)
    BY <1>1, <1>3, <1>7, <2>1, TwoItems, CalmDo
  <2>3. Before(current_token_idx)' # "pub"
    <3>1. Before(current_token_idx) # "pub"
      BY <1>1 DEF DInv, MarkFits
    <3> QED
      BY <1>7, <3>1 DEF Before, Stay, source
  <2>4. MarkFits' /\ TokenFits'
    BY <1>2, <2>1, <2>2, <2>3 DEF MarkFits, TokenFits
  <2> QED
    BY <2>2, <2>4 DEF DInv
<1> QED
  BY <1>4, <1>5, <1>6, <1>7 DEF ParseStructBody

----------------------------------------------------------------------------
(* parse_field: a field is public as it is marked, and in a struct.         *)
LEMMA FieldKeeps ==
  ASSUME DInv, ParseField
  PROVE  DInv'
<1> DEFINE items == <<"mut?", "name", ":", "type_decl", "field_init", ";">>
<1>1. CASE /\ At("field_init")
           /\ IF Peek = "=" THEN Advance /\ Do(<<"expression">>) ELSE Stay /\ Do(<<>>)
  <2>1. <<"expression">> \in Seq(Harmless) /\ <<>> \in Seq(Harmless)
    BY DEF Harmless
  <2>2. "field_init" \notin Special \cup MayFollowPub
    BY DEF Special, MayFollowPub
  <2> QED
    BY <1>1, <2>1, <2>2, HarmlessAdvance, HarmlessStay
<1>2. CASE At("field") /\ Stay /\ DoNode("FIELD", is_pub, items)
  <2>1. Next1 = "field" /\ Next1 \notin Special
    BY <1>2 DEF At, Special
  <2>2. items \in Seq(Harmless)
    BY DEF Harmless
  <2>3. items[1] = "mut?" /\ items[2] = "name" /\ Len(items) > 1
    OBVIOUS
  <2> HIDE DEF items
  <2>4. Quiet(items, "FIELD") /\ items # <<>> /\ IsSeq(items)
    BY <2>2, <2>3, HarmlessIsQuiet, SeqFacts DEF Quiet
  <2>5. Shows("FIELD", Innermost, is_pub)
    <3>1. KindOf(ast, Innermost) \in Containers \cup {"MODULE"}
      BY <2>1, HeadInPlace DEF InPlace
    <3>2. "FIELD" \in ChildrenOf(KindOf(ast, Innermost))
      BY <3>1, ChildrenAre DEF Containers
    <3>3. is_pub <=> (KindOf(ast, Innermost) = "STRUCT" \/ Before(current_token_idx) = "pub")
      BY <2>1 DEF DInv, MarkFits
    <3>4. is_pub \in BOOLEAN /\ "FIELD" \in NodeKinds /\ "FIELD" \notin Containers
      BY DEF DInv, TokensFit, NodeKinds, Containers
    <3> QED
      BY <3>1, <3>2, <3>3, <3>4 DEF Shows
  <2>6. /\ type' \in TypeKinds /\ is_pub' \in BOOLEAN /\ defined_types' = defined_types
        /\ ast' = Append(ast, Node("FIELD", Innermost, is_pub))
        /\ open' = Append(open, Len(ast) + 1) /\ Then(Append(items, "end"))
    BY <1>2 DEF DoNode, DInv, TokensFit
  <2>7. Moves
    BY <1>2, <2>6, StepMoves
  <2>8. /\ TokensFit' /\ NodesFit' /\ CallsFit(todo, open, ast)'
        /\ Next1' = items[1] /\ (Len(items) > 1 => todo'[2] = items[2])
    BY <2>1, <2>4, <2>5, <2>6, <2>7, QuietIsCalm, NodeKeeps DEF Special
  <2>9. NamesFit'
    <3>1. /\ Extends(ast', ast) /\ Len(ast') = Len(ast) + 1
          /\ ast'[Len(ast) + 1].node = "FIELD"
      BY <2>5, <2>6, <2>7, InnermostIs, NodeMade
    <3> QED
      BY <2>1, <2>3, <2>6, <2>7, <2>8, <3>1, NodeNames DEF Containers
  <2>10. ChainFits(todo, ast)'
    BY <2>1, <2>4, <2>6, NodeChain DEF Quiet, IsQuiet, Special
  <2>11. MarkFits' /\ TokenFits'
    BY <2>3, <2>8 DEF MarkFits, TokenFits
  <2> QED
    BY <2>8, <2>9, <2>10, <2>11 DEF DInv
<1> QED
  BY <1>1, <1>2 DEF ParseField

(* parse_function                                                           *)
LEMMA FunctionKeeps ==
  ASSUME DInv, ParseFunction
  PROVE  DInv'
<1> DEFINE items == <<"receiver", "name", "(", "params", "->", "type_decl", "scope">>
<1>1. At("function") /\ Advance /\ DoNode("FUNCTION", is_pub, items)
  BY DEF ParseFunction
<1>2. Next1 = "function" /\ "function" \notin Special
  BY <1>1 DEF At, Special
<1>3. Peek = "fn"
  BY <1>2 DEF DInv, TokenFits
<1>4. items \in Seq(Harmless \cup BodyItems) /\ items # <<>>
  BY DEF Harmless, BodyItems
<1> HIDE DEF items
<1>5. "FUNCTION" \notin Containers \cup {"MODULE"} /\ "FUNCTION" \in NodeKinds
  BY DEF Containers, NodeKinds
<1>6. Quiet(items, "FUNCTION")
  BY <1>4, <1>5, BodyIsQuiet
<1>7. Shows("FUNCTION", Innermost, is_pub)
  <2>1. KindOf(ast, Innermost) \in {"MODULE", "COMPONENT"}
    BY <1>2, HeadInPlace DEF InPlace
  <2>2. "FUNCTION" \in ChildrenOf(KindOf(ast, Innermost))
    BY <2>1, ChildrenAre
  <2>3. is_pub <=> (KindOf(ast, Innermost) = "STRUCT" \/ Before(current_token_idx) = "pub")
    BY <1>2 DEF DInv, MarkFits
  <2>4. is_pub \in BOOLEAN
    BY DEF DInv, TokensFit
  <2> QED
    BY <1>5, <2>1, <2>2, <2>3, <2>4 DEF Shows, Containers
<1> QED
  BY <1>1, <1>2, <1>3, <1>4, <1>5, <1>6, <1>7, QuietNode

(* parse_struct and parse_component: their node is public as it is marked,  *)
(* and in a struct and in a function.                                       *)
LEMMA NewContainer ==
  ASSUME DInv, NEW h \in {"struct", "container"}, At(h), Advance, Peek \in {"struct", "component"},
         NEW kind \in Containers, h = "struct" => kind = "STRUCT",
         NEW items, Calm(items, kind), items # <<>>, items[1] = "type_name",
         \A i \in 1 .. Len(items) : items[i] # "chain",
         DoNode(kind, is_pub, items)
  PROVE  DInv'
<1>1. Next1 = h /\ Next1 \notin Special /\ Peek # "eof" /\ current_token_idx <= Len(tokens)
  BY DEF At, Special
<1>2. Shows(kind, Innermost, is_pub)
  <2>1. /\ h = "struct" => KindOf(ast, Innermost) = "STRUCT"
        /\ h = "container" => KindOf(ast, Innermost) # "STRUCT"
    BY <1>1, HeadInPlace DEF InPlace, StructItems
  <2>2. kind \in ChildrenOf(KindOf(ast, Innermost)) /\ kind \in NodeKinds
    BY <2>1, ChildrenAre DEF Containers, NodeKinds
  <2>3. /\ h = "struct" => is_pub
        /\ h = "container" =>
             (is_pub <=> (KindOf(ast, Innermost) \notin {"MODULE", "COMPONENT"}
                          \/ Before(current_token_idx - 1) = "pub"))
    BY <1>1 DEF DInv, MarkFits
  <2>4. is_pub \in BOOLEAN
    BY DEF DInv, TokensFit
  <2> QED
    BY <2>1, <2>2, <2>3, <2>4 DEF Shows, Containers
<1>3. /\ type' \in TypeKinds /\ is_pub' \in BOOLEAN /\ defined_types' = defined_types
      /\ ast' = Append(ast, Node(kind, Innermost, is_pub))
      /\ open' = Append(open, Len(ast) + 1) /\ Then(Append(items, "end"))
  BY DEF DoNode, DInv, TokensFit
<1>4. Moves
  BY <1>1, <1>3, StepMoves
<1>5. /\ TokensFit' /\ NodesFit' /\ CallsFit(todo, open, ast)' /\ Next1' = "type_name"
  BY <1>1, <1>2, <1>3, <1>4, NodeKeeps DEF Special
<1>6. NamesFit'
  <2>1. /\ Extends(ast', ast) /\ IsSeq(ast') /\ Len(ast') = Len(ast) + 1
        /\ ast'[Len(ast) + 1].node = kind /\ ast'[Len(ast) + 1].pos = current_token_idx
    BY <1>2, <1>3, <1>4, InnermostIs, NodeMade
  <2>2. current_token_idx' = current_token_idx + 1
    BY DEF Advance
  <2> QED
    BY <1>1, <1>3, <1>4, <1>5, <2>1, <2>2, ContainerNames DEF Special
<1>7. ChainFits(todo, ast)'
  BY <1>1, <1>3, NodeChain DEF Calm, Special
<1>8. Before(current_token_idx)' # "pub"
  <2>1. current_token_idx \in Nat /\ current_token_idx >= 1
    BY DEF DInv, TokensFit
  <2> QED
    BY <2>1 DEF Before, Advance, source, Peek
<1>9. MarkFits' /\ TokenFits'
  BY <1>5, <1>8 DEF MarkFits, TokenFits
<1> QED
  BY <1>5, <1>6, <1>7, <1>9 DEF DInv

(* What a container's node is filled with.                                  *)
LEMMA ContainerItems ==
  ASSUME NEW kind, NEW body, InPlace(body, kind), body \notin HeadOnly \cup {"end", "file", "chain"}
  PROVE  LET items == <<"type_name", "{", body, "}">> IN
         /\ Calm(items, kind) /\ items # <<>> /\ items[1] = "type_name"
         /\ \A i \in 1 .. Len(items) : items[i] # "chain"
<1> DEFINE items == <<"type_name", "{", body, "}">>
<1>1. items \in Seq({"type_name", "{", body, "}"}) /\ Len(items) = 4 /\ items # <<>>
  OBVIOUS
<1>2. items[1] = "type_name" /\ items[2] = "{" /\ items[3] = body /\ items[4] = "}"
  OBVIOUS
<1>3. /\ InPlace("type_name", kind) /\ InPlace("{", kind) /\ InPlace("}", kind)
      /\ "{" \notin HeadOnly /\ "}" \notin HeadOnly
  BY DEF InPlace, ModuleItems, ComponentItems, StructItems, BodyItems, HeadOnly
<1> HIDE DEF items
<1>4. IsSeq(items)
  BY <1>1, SeqOfItsOwn
<1>5. \A i \in 1 .. Len(items) : i = 1 \/ i = 2 \/ i = 3 \/ i = 4
  <2>1. \A i \in 1 .. 4 : i = 1 \/ i = 2 \/ i = 3 \/ i = 4
    OBVIOUS
  <2> QED
    BY <1>1, <2>1, Zenon
<1>6. ASSUME NEW i \in 1 .. Len(items)
      PROVE  /\ items[i] \notin {"end", "file", "chain"} /\ InPlace(items[i], kind)
             /\ i > 1 => items[i] \notin HeadOnly
  <2>1. CASE i = 1
    <3>1. items[i] = "type_name"
      BY <2>1, <1>2, Zenon
    <3>2. ~(i > 1)
      BY <2>1
    <3> QED
      BY <3>1, <3>2, <1>3
  <2>2. CASE i # 1
    <3>1. items[i] \in {"{", body, "}"}
      BY <2>2, <1>2, <1>5, Zenon
    <3>2. \A x \in {"{", body, "}"} :
             x \notin {"end", "file", "chain"} \cup HeadOnly /\ InPlace(x, kind)
      BY <1>3
    <3> QED
      BY <3>1, <3>2
  <2> QED
    BY <2>1, <2>2
<1> QED
  BY <1>1, <1>2, <1>4, <1>6 DEF Calm, items

(* A struct or component, where one is called for.                          *)
LEMMA ContainerKeeps ==
  ASSUME DInv, ParseContainer
  PROVE  DInv'
<1>1. CASE Exit
  BY <1>1, ExitKeeps
<1>2. CASE /\ At("struct") \/ At("container")
           /\ Peek = "struct"
           /\ Advance /\ DoNode("STRUCT", is_pub, <<"type_name", "{", "struct_body", "}">>)
  <2>1. /\ InPlace("struct_body", "STRUCT")
        /\ "struct_body" \notin HeadOnly \cup {"end", "file", "chain"} /\ "STRUCT" \in Containers
    BY DEF InPlace, ModuleItems, ComponentItems, StructItems, BodyItems, HeadOnly, Containers
  <2>2. PICK items : items = <<"type_name", "{", "struct_body", "}">>
    OBVIOUS
  <2>3. /\ Calm(items, "STRUCT") /\ items # <<>> /\ items[1] = "type_name"
        /\ \A i \in 1 .. Len(items) : items[i] # "chain"
    BY <2>1, <2>2, ContainerItems
  <2>4. DoNode("STRUCT", is_pub, items)
    BY <1>2, <2>2
  <2>5. PICK h \in {"struct", "container"} : At(h)
    BY <1>2
  <2> QED
    BY <1>2, <2>1, <2>3, <2>4, <2>5, NewContainer
<1>3. CASE /\ At("container") /\ Peek = "component"
           /\ Advance /\ DoNode("COMPONENT", is_pub, <<"type_name", "{", "component_body", "}">>)
  <2>1. /\ InPlace("component_body", "COMPONENT")
        /\ "component_body" \notin HeadOnly \cup {"end", "file", "chain"} /\ "COMPONENT" \in Containers
    BY DEF InPlace, ModuleItems, ComponentItems, StructItems, BodyItems, HeadOnly, Containers
  <2>2. PICK items : items = <<"type_name", "{", "component_body", "}">>
    OBVIOUS
  <2>3. /\ Calm(items, "COMPONENT") /\ items # <<>> /\ items[1] = "type_name"
        /\ \A i \in 1 .. Len(items) : items[i] # "chain"
    BY <2>1, <2>2, ContainerItems
  <2>4. DoNode("COMPONENT", is_pub, items)
    BY <1>3, <2>2
  <2> QED
    BY <1>3, <2>1, <2>3, <2>4, NewContainer
<1> QED
  BY <1>1, <1>2, <1>3 DEF ParseContainer

----------------------------------------------------------------------------
(* Where a chain may go on once the next item is replaced.                  *)
LEMMA ChainsAre ==
  ASSUME NEW td, IsSeq(td), td # <<>>, NEW nodes, ChainFits(td, nodes),
         NEW items, IsSeq(items), NEW i \in 1 .. Len(items \o Tail(td)),
         (items \o Tail(td))[i] = "chain"
  PROVE  \/ i \in 1 .. Len(items) /\ items[i] = "chain"
         \/ /\ nodes # <<>> /\ nodes[Len(nodes)].node = "MODULE"
            /\ \/ i = Len(items) + 1 /\ td[1] = "name" /\ td[2] = "chain"
               \/ i = Len(items) + 2 /\ td[1] = "chain_module" /\ td[2] = "name"
<1> DEFINE u == items \o Tail(td)
           n == Len(td)
           m == Len(items)
<1>1. n \in Nat /\ m \in Nat
  BY SeqFacts
<1>2. /\ Len(u) = m + (n - 1)
      /\ \A j \in 1 .. m : u[j] = items[j]
      /\ \A j \in 1 .. (n - 1) : u[m + j] = td[j + 1]
  BY ThenSeq
<1>3. \A j \in 1 .. n : td[j] = "chain" =>
        /\ nodes # <<>> /\ nodes[Len(nodes)].node = "MODULE"
        /\ j = 1 \/ (j = 2 /\ td[1] = "name") \/ (j = 3 /\ td[1] = "chain_module" /\ td[2] = "name")
  BY DEF ChainFits
<1>4. i \in 1 .. Len(u) /\ u[i] = "chain"
  OBVIOUS
<1> HIDE DEF n, m, u
<1>5. CASE i \in 1 .. m
  BY <1>2, <1>4, <1>5 DEF m
<1>6. CASE i \notin 1 .. m
  <2>1. i - m \in 1 .. (n - 1) /\ m + (i - m) = i /\ (i - m) + 1 \in 1 .. n
    BY <1>1, <1>2, <1>4, <1>6
  <2>2. u[m + (i - m)] = td[(i - m) + 1]
    BY <2>1, <1>2
  <2>3. td[(i - m) + 1] = "chain" /\ (i - m) + 1 # 1
    BY <2>1, <2>2, <1>1, <1>4
  <2>4. /\ nodes # <<>> /\ nodes[Len(nodes)].node = "MODULE"
        /\ \/ (i - m) + 1 = 2 /\ td[1] = "name"
           \/ (i - m) + 1 = 3 /\ td[1] = "chain_module" /\ td[2] = "name"
    BY <2>1, <2>3, <1>3
  <2>5. CASE (i - m) + 1 = 2 /\ td[1] = "name"
    BY <2>3, <2>4, <2>5, <1>1, <1>4 DEF m
  <2>6. CASE (i - m) + 1 = 3 /\ td[1] = "chain_module" /\ td[2] = "name"
    BY <2>3, <2>4, <2>6, <1>1, <1>4 DEF m
  <2> QED
    BY <2>4, <2>5, <2>6
<1> QED
  BY <1>5, <1>6

(* parse_module: its node, which a chain may go on from.                    *)
LEMMA ModuleKeeps ==
  ASSUME DInv, ParseModule
  PROVE  DInv'
<1> DEFINE items == <<"name", "chain", "{", "module_body", "}">>
<1>1. At("module") /\ Stay /\ DoNode("MODULE", FALSE, items)
  BY DEF ParseModule
<1>2. Next1 = "module" /\ Next1 \notin Special
  BY <1>1 DEF At, Special
<1>3. /\ items \in Seq({"name", "chain", "{", "module_body", "}"}) /\ items # <<>>
      /\ Len(items) = 5 /\ items[1] = "name" /\ items[2] = "chain"
      /\ items[3] = "{" /\ items[4] = "module_body" /\ items[5] = "}"
  OBVIOUS
<1> HIDE DEF items
<1>4. IsSeq(items) /\ \A i \in 1 .. Len(items) : items[i] \in {"name", "chain", "{", "module_body", "}"}
  <2>1. IsSeq(items)
    BY <1>3, SeqOfItsOwn
  <2>2. \A i \in 1 .. 5 : i = 1 \/ i = 2 \/ i = 3 \/ i = 4 \/ i = 5
    OBVIOUS
  <2>3. \A i \in 1 .. Len(items) : i = 1 \/ i = 2 \/ i = 3 \/ i = 4 \/ i = 5
    BY <1>3, <2>2, Zenon
  <2> QED
    BY <1>3, <2>1, <2>3, Zenon
<1>5. Calm(items, "MODULE")
  <2>1. \A x \in {"name", "chain", "{", "module_body", "}"} :
           x \notin {"end", "file"} \cup HeadOnly /\ InPlace(x, "MODULE")
    BY DEF InPlace, ModuleItems, ComponentItems, StructItems, BodyItems, HeadOnly
  <2> QED
    BY <1>4, <2>1 DEF Calm
<1>6. Before(current_token_idx) = "module" /\ KindOf(ast, Innermost) = "MODULE"
  BY <1>2, HeadInPlace DEF DInv, TokenFits, InPlace, ModuleItems
<1>7. Shows("MODULE", Innermost, FALSE)
  <2>1. "MODULE" \in ChildrenOf("MODULE") /\ "MODULE" \in NodeKinds /\ "MODULE" \notin Containers
    BY ChildrenAre DEF NodeKinds, Containers
  <2> QED
    BY <1>6, <2>1 DEF Shows
<1>8. /\ type' \in TypeKinds /\ is_pub' \in BOOLEAN /\ defined_types' = defined_types
      /\ ast' = Append(ast, Node("MODULE", Innermost, FALSE))
      /\ open' = Append(open, Len(ast) + 1) /\ Then(Append(items, "end"))
  BY <1>1 DEF DoNode, DInv, TokensFit
<1>9. Moves
  BY <1>1, <1>8, StepMoves
<1>10. /\ TokensFit' /\ NodesFit' /\ CallsFit(todo, open, ast)' /\ Next1' = "name"
  BY <1>2, <1>3, <1>5, <1>7, <1>8, <1>9, NodeKeeps DEF Special
<1>11. /\ Extends(ast', ast) /\ IsSeq(ast') /\ Len(ast') = Len(ast) + 1 /\ Len(ast') \in Nat
       /\ ast'[Len(ast) + 1].node = "MODULE"
  BY <1>7, <1>8, <1>9, InnermostIs, NodeMade
<1>12. NamesFit'
  BY <1>2, <1>8, <1>9, <1>10, <1>11, NodeNames DEF Special, Containers
<1>13. ChainFits(todo, ast)'
  <2>1. PICK its : its = Append(items, "end")
    OBVIOUS
  <2>0. IsSeq(items)
    BY <1>4
  <2>2. /\ IsSeq(its) /\ Len(its) = Len(items) + 1 /\ its[Len(items) + 1] = "end"
        /\ \A i \in 1 .. Len(items) : its[i] = items[i]
    BY <2>0, <2>1, AppendSeq
  <2>3. \A i \in 1 .. Len(its) : its[i] = "chain" => i = 2
    <3>0. Len(items) = 5
      BY <1>3
    <3>1. Len(items) + 1 = 6 /\ Len(items) = 5
      BY <3>0
    <3>2. Len(its) = 6 /\ its[6] = "end" /\ \A i \in 1 .. 5 : its[i] = items[i]
      BY <2>2, <3>1, Zenon
    <3>3. \A i \in 1 .. 6 : i = 1 \/ i = 2 \/ i = 3 \/ i = 4 \/ i = 5 \/ i = 6
      OBVIOUS
    <3>4. /\ its[1] = "name" /\ its[3] = "{" /\ its[4] = "module_body" /\ its[5] = "}"
          /\ its[6] = "end"
      <4>1. 1 \in 1 .. 5 /\ 3 \in 1 .. 5 /\ 4 \in 1 .. 5 /\ 5 \in 1 .. 5
        OBVIOUS
      <4> QED
        BY <3>2, <4>1, <1>3, Zenon
    <3>5. \A i \in 1 .. Len(its) : i = 2 \/ its[i] \in {"name", "{", "module_body", "}", "end"}
      BY <3>2, <3>3, <3>4, Zenon
    <3> QED
      BY <3>5
  <2>4. IsSeq(todo) /\ todo # <<>> /\ ChainFits(todo, ast) /\ todo' = its \o Tail(todo)
    BY <2>1, <1>8 DEF DInv, CallsFit, Then
  <2>5. ast' # <<>> /\ ast'[Len(ast')].node = "MODULE"
    BY <1>11, SeqFacts, InnermostIs
  <2>6. ASSUME NEW i \in 1 .. Len(todo'), todo'[i] = "chain"
        PROVE  i = 2
    <3>1. i \in 1 .. Len(its) /\ its[i] = "chain"
      BY <2>2, <2>4, <2>6, <1>2, ChainsAre DEF Next1, Special
    <3> QED
      BY <2>3, <3>1
  <2> QED
    BY <2>5, <2>6, <1>10 DEF ChainFits, Next1
<1>14. MarkFits' /\ TokenFits'
  <2>1. Before(current_token_idx)' = "module"
    BY <1>1, <1>6 DEF Stay, source, Before
  <2> QED
    BY <2>1, <1>10 DEF MarkFits, TokenFits
<1> QED
  BY <1>10, <1>12, <1>13, <1>14 DEF DInv

(* parse_module's loop over "::".                                           *)
LEMMA ChainKeeps ==
  ASSUME DInv, ParseChain
  PROVE  DInv'
<1>1. At("chain") /\ Next1 = "chain" /\ (Stay \/ (Advance /\ Peek = "::"))
  BY DEF ParseChain, At
<1>2. /\ IsSeq(todo) /\ todo # <<>> /\ ChainFits(todo, ast) /\ Len(todo) \in Nat /\ Len(todo) >= 1
      /\ todo[1] = "chain"
  BY <1>1, SeqFacts DEF DInv, CallsFit, Next1
<1>3. ast # <<>> /\ ast[Len(ast)].node = "MODULE"
  BY <1>2 DEF ChainFits
<1>4. KindOf(ast, Innermost) = "MODULE"
  BY <1>1, HeadInPlace DEF InPlace, ModuleItems
<1>5. \A items : Do(items) => /\ Then(items) /\ UNCHANGED <<ast, open, defined_types>>
                             /\ type' \in TypeKinds /\ is_pub' \in BOOLEAN
  BY DEF Do, DInv, TokensFit
<1>6. CASE Peek = "::" /\ Advance /\ Do(<<"chain_module", "name", "chain">>)
  <2> DEFINE items == <<"chain_module", "name", "chain">>
  <2>1. /\ items \in Seq({"chain_module", "name", "chain"}) /\ items # <<>>
        /\ Len(items) = 3 /\ items[1] = "chain_module" /\ items[2] = "name" /\ items[3] = "chain"
    OBVIOUS
  <2>2. Then(items)
    BY <1>5, <1>6
  <2> HIDE DEF items
  <2>3. IsSeq(items)
    BY <2>1, SeqOfItsOwn
  <2>4. Calm(items, "MODULE")
    <3>1. \A x \in {"chain_module", "name", "chain"} :
             x \notin {"end", "file"} /\ InPlace(x, "MODULE")
      BY DEF InPlace, ModuleItems, ComponentItems, StructItems, BodyItems
    <3>2. "name" \notin HeadOnly /\ "chain" \notin HeadOnly
      BY DEF HeadOnly
    <3>3. \A i \in 1 .. Len(items) : i = 1 \/ i = 2 \/ i = 3
      BY <2>1
    <3>4. ASSUME NEW i \in 1 .. Len(items)
          PROVE  /\ items[i] \in {"chain_module", "name", "chain"}
                 /\ i > 1 => items[i] \notin HeadOnly
      <4>1. CASE i = 1
        BY <4>1, <2>1
      <4>2. CASE i # 1
        BY <4>2, <3>2, <3>3, <2>1
      <4> QED
        BY <4>1, <4>2
    <3> QED
      BY <2>3, <3>1, <3>4 DEF Calm
  <2>5. Moves
    BY <1>1, <1>5, <1>6, StepMoves
  <2>6. todo'[1] = "chain_module" /\ todo'[2] = "name"
    BY <1>2, <2>1, <2>2, <2>3, ThenSeq DEF Then
  <2>7. TokensFit' /\ NodesFit' /\ CallsFit(todo, open, ast)' /\ NamesFit'
    BY <1>1, <1>4, <1>5, <1>6, <2>2, <2>4, <2>5, <2>6, DoKeeps DEF Next1
  <2>8. ChainFits(todo, ast)'
    <3>1. ASSUME NEW i \in 1 .. Len(todo'), todo'[i] = "chain"
          PROVE  i = 3
      <4>1. i \in 1 .. Len(items) /\ items[i] = "chain"
        BY <1>2, <2>2, <2>3, <3>1, ChainsAre DEF Then
      <4> QED
        BY <4>1, <2>1
    <3>2. ast' = ast
      BY <1>5, <1>6
    <3> QED
      BY <1>3, <2>6, <3>1, <3>2 DEF ChainFits
  <2>9. Before(current_token_idx)' = "::"
    <3>1. current_token_idx \in Nat /\ current_token_idx >= 1
      BY DEF DInv, TokensFit
    <3> QED
      BY <1>6, <3>1 DEF Before, Advance, source, Peek
  <2>10. MarkFits' /\ TokenFits'
    BY <1>3, <1>5, <1>6, <2>6, <2>9 DEF MarkFits, TokenFits, Next1
  <2> QED
    BY <2>7, <2>8, <2>10 DEF DInv
<1>7. CASE Stay /\ Do(<<>>)
  <2>1. PICK items : items = <<>>
    OBVIOUS
  <2>2. <<>> \in Seq(Harmless)
    OBVIOUS
  <2>3. Quiet(items, "MODULE") /\ IsSeq(items) /\ \A i \in 1 .. Len(items) : items[i] \notin HeadOnly
    BY <2>1, <2>2, HarmlessIsQuiet DEF Quiet, IsQuiet
  <2>4. Then(items) /\ Len(items) = 0
    BY <1>5, <1>7, <2>1
  <2>5. Moves /\ LeavesNoMark
    BY <1>1, <1>5, <1>7, StepMoves DEF LeavesNoMark, Stay
  <2>6. Next1' \notin HeadOnly /\ Next1' # "type_name"
    BY <1>1, <2>3, <2>4, QuietNext DEF Then, HeadOnly
  <2>7. TokensFit' /\ NodesFit' /\ CallsFit(todo, open, ast)' /\ NamesFit'
    BY <1>1, <1>4, <1>5, <1>7, <2>3, <2>4, <2>5, <2>6, QuietIsCalm, DoKeeps
  <2>8. ChainFits(todo, ast)'
    <3>1. ASSUME NEW i \in 1 .. Len(todo'), todo'[i] = "chain"
          PROVE  FALSE
      <4>1. todo' = items \o Tail(todo)
        BY <2>4 DEF Then
      <4>2. \/ i \in 1 .. Len(items)
            \/ todo[1] \in {"name", "chain_module"}
        BY <1>2, <2>3, <3>1, <4>1, ChainsAre
      <4>3. i \notin 1 .. Len(items)
        BY <2>4
      <4> QED
        BY <1>2, <4>2, <4>3
    <3> QED
      BY <3>1 DEF ChainFits
  <2>9. MarkFits' /\ TokenFits'
    BY <2>5, <2>6, NoMark, QuietHead
  <2> QED
    BY <2>7, <2>8, <2>9 DEF DInv
<1> QED
  BY <1>6, <1>7 DEF ParseChain

(* A chain's next module is put into the one before it.                     *)
LEMMA ChainModuleKeeps ==
  ASSUME DInv, ChainModule
  PROVE  DInv'
<1>1. /\ At("chain_module") /\ Stay /\ Next1 = "chain_module"
      /\ UNCHANGED <<open, defined_types, is_pub, type>>
  BY DEF ChainModule, At
<1>2. PICK items : items = <<>>
  OBVIOUS
<1>3. <<>> \in Seq(Harmless)
  OBVIOUS
<1>4. /\ \A kind : Calm(items, kind)
      /\ IsSeq(items) /\ \A i \in 1 .. Len(items) : items[i] \notin HeadOnly
  BY <1>2, <1>3, HarmlessIsQuiet, QuietIsCalm DEF Quiet, IsQuiet
<1>5. Then(items) /\ Len(items) = 0
  BY <1>2 DEF ChainModule
<1>6. type' \in TypeKinds /\ is_pub' \in BOOLEAN /\ defined_types' = defined_types
  BY <1>1 DEF DInv, TokensFit
<1>7. Moves /\ LeavesNoMark
  BY <1>1, <1>6, StepMoves DEF LeavesNoMark, Stay
<1>8. Next1' \notin HeadOnly /\ Next1' # "type_name"
  BY <1>1, <1>4, <1>5, QuietNext DEF Then, HeadOnly
<1>9. PICK last : last = Len(ast)
  OBVIOUS
<1>10. /\ ast # <<>> /\ ast[last].node = "MODULE" /\ Before(current_token_idx) = "::"
       /\ last \in Nat /\ last # 0
  BY <1>1, <1>9, InnermostIs, SeqFacts DEF DInv, TokenFits
<1>11. Shows("MODULE", last, FALSE)
  <2>1. KindOf(ast, last) = "MODULE"
    BY <1>10 DEF KindOf
  <2>2. "MODULE" \in ChildrenOf("MODULE") /\ "MODULE" \in NodeKinds /\ "MODULE" \notin Containers
    BY ChildrenAre DEF NodeKinds, Containers
  <2> QED
    BY <1>10, <2>1, <2>2 DEF Shows
<1>12. last \in 0 .. Len(ast) /\ ast' = Append(ast, Node("MODULE", last, FALSE))
  BY <1>9, <1>10 DEF ChainModule
<1>13. /\ Extends(ast', ast) /\ IsSeq(ast') /\ Len(ast') = Len(ast) + 1 /\ Len(ast') \in Nat
       /\ ast'[Len(ast) + 1].node = "MODULE" /\ NodesFit'
  BY <1>7, <1>11, <1>12, NodeMade
<1>14. CallsFit(todo', open', ast')
  <2>1. CallsFit(todo, open, ast')
    BY <1>13, MoreNodes DEF DInv
  <2>2. todo[1] \notin {"end", "file"}
    BY <1>1 DEF Next1
  <2>3. CallsFit(items \o Tail(todo), open, ast')
    BY <1>4, <2>1, <2>2, DoFits
  <2> QED
    BY <1>1, <1>5, <2>3 DEF Then
<1>15. TokensFit' /\ NamesFit'
  BY <1>1, <1>7, <1>8, <1>13, MovesKeep, NodeNames DEF Containers
<1>16. ChainFits(todo, ast)'
  <2>1. IsSeq(todo) /\ todo # <<>> /\ ChainFits(todo, ast) /\ todo[1] = "chain_module"
    BY <1>1 DEF DInv, CallsFit, Next1
  <2>2. Len(todo) \in Nat /\ Len(todo) >= 2
    BY <2>1, MoreToDo DEF DInv
  <2>3. todo'[1] = todo[2]
    <3>1. todo'[0 + 1] = todo[1 + 1]
      BY <1>4, <1>5, <2>1, <2>2, ThenSeq DEF Then
    <3> QED
      BY <3>1
  <2>4. ast' # <<>> /\ ast'[Len(ast')].node = "MODULE"
    BY <1>13, SeqFacts, InnermostIs
  <2>5. ASSUME NEW i \in 1 .. Len(todo'), todo'[i] = "chain"
        PROVE  i = 2 /\ todo[2] = "name"
    <3>1. todo' = items \o Tail(todo)
      BY <1>5 DEF Then
    <3>2. \/ i \in 1 .. Len(items)
          \/ todo[1] = "name"
          \/ i = Len(items) + 2 /\ todo[2] = "name"
      BY <1>4, <2>1, <2>5, <3>1, ChainsAre
    <3>3. i \notin 1 .. Len(items) /\ Len(items) + 2 = 2
      BY <1>5
    <3> QED
      BY <2>1, <3>2, <3>3
  <2> QED
    BY <2>3, <2>4, <2>5 DEF ChainFits
<1>17. MarkFits' /\ TokenFits'
  BY <1>7, <1>8, NoMark, QuietHead
<1> QED
  BY <1>13, <1>14, <1>15, <1>16, <1>17 DEF DInv

(* expect, of a name: a chain may go on after it.                           *)
LEMMA NameKeeps ==
  ASSUME DInv, Expect, Next1 = "name"
  PROVE  DInv'
<1>1. CASE Exit
  BY <1>1, ExitKeeps
<1>2. CASE Peek \in Expected(Next1) /\ Advance /\ Do(<<>>)
  <2>1. At("name")
    BY DEF Expect, At
  <2>2. Peek \in Identifiers
    BY <1>2 DEF Expected
  <2>3. Peek # "eof" /\ Peek # "pub"
    BY <2>2 DEF Identifiers, Builtins
  <2>4. PICK items : items = <<>>
    OBVIOUS
  <2>5. <<>> \in Seq(Harmless)
    OBVIOUS
  <2>6. /\ \A kind : Calm(items, kind)
        /\ IsSeq(items) /\ \A i \in 1 .. Len(items) : items[i] \notin HeadOnly
    BY <2>4, <2>5, HarmlessIsQuiet, QuietIsCalm DEF Quiet, IsQuiet
  <2>7. /\ Then(items) /\ Len(items) = 0 /\ UNCHANGED <<ast, open, defined_types>>
        /\ type' \in TypeKinds /\ is_pub' \in BOOLEAN
    BY <1>2, <2>4 DEF Do, DInv, TokensFit
  <2>8. Moves /\ LeavesNoMark
    BY <1>2, <2>1, <2>3, <2>7, StepMoves DEF LeavesNoMark, Advance
  <2>9. Next1' \notin HeadOnly /\ Next1' # "type_name"
    BY <2>6, <2>7, QuietNext DEF Then, HeadOnly
  <2>10. TokensFit' /\ NodesFit' /\ CallsFit(todo, open, ast)' /\ NamesFit'
    BY <2>6, <2>7, <2>8, <2>9, DoKeeps
  <2>11. ChainFits(todo, ast)'
    <3>1. IsSeq(todo) /\ todo # <<>> /\ ChainFits(todo, ast) /\ todo[1] = "name"
      BY DEF DInv, CallsFit, Next1
    <3>2. ASSUME NEW i \in 1 .. Len(todo'), todo'[i] = "chain"
          PROVE  i = 1 /\ ast # <<>> /\ ast[Len(ast)].node = "MODULE"
      <4>1. todo' = items \o Tail(todo)
        BY <2>7 DEF Then
      <4>2. \/ i \in 1 .. Len(items)
            \/ /\ i = Len(items) + 1
               /\ ast # <<>> /\ ast[Len(ast)].node = "MODULE"
            \/ todo[1] = "chain_module"
        BY <2>6, <3>1, <3>2, <4>1, ChainsAre
      <4>3. i \notin 1 .. Len(items) /\ Len(items) + 1 = 1
        BY <2>7
      <4> QED
        BY <3>1, <4>2, <4>3
    <3> QED
      BY <2>7, <3>2 DEF ChainFits
  <2>12. MarkFits' /\ TokenFits'
    BY <2>8, <2>9, NoMark, QuietHead
  <2> QED
    BY <2>10, <2>11, <2>12 DEF DInv
<1> QED
  BY <1>1, <1>2 DEF Expect

(* consume_if: the mark may still be read over a missing "mut".             *)
LEMMA ConsumeIfKeeps ==
  ASSUME DInv, ConsumeIf
  PROVE  DInv'
<1>0. <<>> \in Seq(Harmless)
  OBVIOUS
<1>1. /\ Next1 \in {"mut?", "::?", ";?"} /\ At(Next1)
      /\ Do(<<>>) /\ <<>> \in Seq(Harmless) /\ Next1 \notin Special
  <2>1. PICK item \in {"mut?", "::?", ";?"} : At(item)
    BY DEF ConsumeIf, OptionalToken
  <2>2. Next1 = item /\ Do(<<>>)
    BY <2>1 DEF At, ConsumeIf
  <2>4. item \notin Special
    BY DEF Special
  <2> QED
    BY <1>0, <2>1, <2>2, <2>4
<1>2. CASE Peek = OptionalToken[Next1] /\ Advance
  <2>1. Peek \notin {"eof", "pub"}
    BY <1>1, <1>2 DEF OptionalToken
  <2> QED
    BY <1>1, <1>2, <2>1, HarmlessAdvance
<1>3. CASE Next1 # "mut?" /\ Stay
  <2>1. Next1 \notin Special \cup MayFollowPub
    BY <1>1, <1>3 DEF MayFollowPub
  <2> QED
    BY <1>1, <1>3, <2>1, HarmlessStay
<1>4. CASE Next1 = "mut?" /\ Stay
  <2>1. PICK items : items = <<>>
    OBVIOUS
  <2>2. /\ \A kind : Calm(items, kind) /\ IsSeq(items) /\ Len(items) = 0
        /\ \A i \in 1 .. Len(items) : items[i] \notin HeadOnly /\ items[i] # "chain"
    BY <1>1, <2>1, HarmlessIsQuiet, QuietIsCalm DEF Quiet, IsQuiet
  <2>3. /\ Then(items) /\ UNCHANGED <<ast, open, defined_types>>
        /\ type' \in TypeKinds /\ is_pub' \in BOOLEAN
    BY <1>1, <2>1 DEF Do, DInv, TokensFit
  <2>4. Moves
    BY <1>1, <1>4, <2>3, StepMoves
  <2>5. Next1' \notin HeadOnly /\ Next1' # "type_name"
    BY <1>4, <2>2, <2>3, QuietNext DEF Then, HeadOnly
  <2>6. TokensFit' /\ NodesFit' /\ CallsFit(todo, open, ast)' /\ NamesFit'
    BY <1>4, <2>2, <2>3, <2>4, <2>5, DoKeeps
  <2>7. IsSeq(todo) /\ todo # <<>> /\ ChainFits(todo, ast)
    BY DEF DInv, CallsFit
  <2>8. ChainFits(todo', ast')
    BY <1>4, <2>2, <2>3, <2>7, NoChain DEF Then, Next1
  <2>9. Next1' = todo[2]
    <3>1. Len(todo) \in Nat /\ Len(todo) >= 2
      BY <1>4, MoreToDo DEF DInv, Next1
    <3>2. todo'[0 + 1] = todo[1 + 1]
      BY <2>2, <2>3, <2>7, <3>1, ThenSeq DEF Then
    <3> QED
      BY <3>2 DEF Next1
  <2>10. Before(current_token_idx)' = Before(current_token_idx)
    BY <1>4 DEF Stay, source, Before
  <2>11. Before(current_token_idx) = "pub" => todo[2] = "name"
    BY <1>4 DEF DInv, MarkFits
  <2>12. MarkFits' /\ TokenFits'
    BY <2>5, <2>9, <2>10, <2>11 DEF MarkFits, TokenFits, HeadOnly
  <2> QED
    BY <2>6, <2>8, <2>12 DEF DInv
<1> QED
  BY <1>2, <1>3, <1>4 DEF ConsumeIf

(* The node on top is complete.                                             *)
LEMMA EndNodeKeeps ==
  ASSUME DInv, EndNode
  PROVE  DInv'
<1>1. /\ Next1 = "end" /\ open' = SubSeq(open, 1, Len(open) - 1) /\ Then(<<>>)
      /\ UNCHANGED <<tokens, current_token_idx, ast, defined_types, is_pub, type, status>>
  BY DEF EndNode, source
<1>2. PICK items : items = <<>>
  OBVIOUS
<1>3. <<>> \in Seq(Harmless)
  OBVIOUS
<1>4. IsSeq(items) /\ \A i \in 1 .. Len(items) : items[i] \notin HeadOnly /\ items[i] # "chain"
  BY <1>2, <1>3, HarmlessIsQuiet DEF Quiet, IsQuiet
<1>5. todo' = items \o Tail(todo)
  BY <1>1, <1>2 DEF Then
<1>6. Moves /\ LeavesNoMark
  BY <1>1 DEF Moves, LeavesNoMark, DInv, TokensFit
<1>7. Next1' \notin HeadOnly /\ Next1' # "type_name"
  BY <1>1, <1>4, <1>5, QuietNext DEF HeadOnly
<1>8. Extends(ast', ast)
  BY <1>1, InnermostIs DEF Extends
<1>9. NodesFit'
  BY <1>1, <1>6, <1>8, NodesKeep DEF NodesFit
<1>10. CallsFit(todo', open', ast')
  <2>1. CallsFit(<<>> \o Tail(todo), SubSeq(open, 1, Len(open) - 1), ast)
    BY <1>1, EndFits DEF DInv, Next1
  <2> QED
    BY <1>1, <2>1 DEF Then
<1>11. ChainFits(todo', ast')
  <2>1. IsSeq(todo) /\ todo # <<>> /\ ChainFits(todo, ast)
    BY DEF DInv, CallsFit
  <2> QED
    BY <1>1, <1>4, <1>5, <2>1, NoChain DEF Next1
<1>12. TokensFit' /\ NamesFit'
  BY <1>1, <1>6, <1>7, MovesKeep, NamesKeep
<1>13. MarkFits' /\ TokenFits'
  BY <1>6, <1>7, NoMark, QuietHead
<1> QED
  BY <1>9, <1>10, <1>11, <1>12, <1>13 DEF DInv

(* parse's loop                                                             *)
LEMMA FileKeeps ==
  ASSUME DInv, File
  PROVE  DInv'
<1> DEFINE items == <<"top_level", "file">>
<1>1. /\ At("file") /\ Next1 = "file" /\ Stay /\ Then(items)
      /\ UNCHANGED <<ast, open, defined_types>>
      /\ type' \in TypeKinds /\ is_pub' \in BOOLEAN
  BY DEF File, At, Do, DInv, TokensFit
<1>2. items \in Seq({"top_level", "file"}) /\ Len(items) = 2 /\ items[1] = "top_level"
  OBVIOUS
<1> HIDE DEF items
<1>3. IsSeq(items) /\ \A i \in 1 .. Len(items) : items[i] # "chain"
  BY <1>2, SeqOfItsOwn
<1>4. Moves /\ LeavesNoMark
  BY <1>1, StepMoves DEF LeavesNoMark, Stay
<1>5. IsSeq(todo) /\ todo # <<>> /\ ChainFits(todo, ast) /\ todo' = items \o Tail(todo)
  BY <1>1 DEF DInv, CallsFit, Then
<1>6. Next1' = "top_level"
  <2>1. \A i \in 1 .. Len(items) : (items \o Tail(todo))[i] = items[i]
    BY <1>3, <1>5, ThenSeq
  <2>2. Len(items) = 2
    BY <1>2
  <2>3. 1 \in 1 .. Len(items)
    BY <2>2
  <2> QED
    BY <1>2, <1>5, <2>1, <2>3, Zenon DEF Next1
<1>7. Extends(ast', ast)
  BY <1>1, InnermostIs DEF Extends
<1>8. NodesFit'
  BY <1>1, <1>4, <1>7, NodesKeep DEF NodesFit
<1>9. CallsFit(todo', open', ast')
  <2>1. CallsFit(<<"top_level", "file">> \o Tail(todo), open, ast)
    BY <1>1, FileFits DEF DInv, Next1
  <2> QED
    BY <1>1, <1>5, <2>1 DEF items
<1>10. ChainFits(todo', ast')
  BY <1>1, <1>3, <1>5, NoChain DEF Next1
<1>11. TokensFit' /\ NamesFit'
  BY <1>1, <1>4, <1>6, MovesKeep, NamesKeep
<1>12. MarkFits' /\ TokenFits'
  <2>1. Next1' \notin HeadOnly
    BY <1>6 DEF HeadOnly
  <2> QED
    BY <1>4, <2>1, NoMark, QuietHead
<1> QED
  BY <1>8, <1>9, <1>10, <1>11, <1>12 DEF DInv

(* The end of the source ends the file, or the compiler.                    *)
LEMMA EndOfFileKeeps ==
  ASSUME DInv, EndOfFile
  PROVE  DInv'
<1>1. status' \in Statuses
  BY DEF EndOfFile, Statuses
<1> QED
  BY <1>1, StopKeeps DEF EndOfFile

(* handle_register_type: the name is none of those before.                  *)
LEMMA RegisterTypeKeeps ==
  ASSUME DInv, RegisterType
  PROVE  DInv'
<1>1. CASE Exit
  BY <1>1, ExitKeeps
<1>2. CASE /\ Peek \in Identifiers \ defined_types
           /\ defined_types' = defined_types \cup {Peek}
           /\ Advance /\ Then(<<>>) /\ UNCHANGED <<ast, open, is_pub, type>>
  <2>1. At("type_name") /\ Next1 = "type_name" /\ current_token_idx <= Len(tokens)
    BY DEF RegisterType, At
  <2>2. Peek # "eof" /\ Peek # "pub"
    BY <1>2 DEF Identifiers, Builtins
  <2>3. Builtins \subseteq defined_types /\ defined_types \subseteq Identifiers
    BY DEF DInv, TokensFit
  <2>4. Moves /\ LeavesNoMark
    BY <1>2, <2>1, <2>2, <2>3 DEF Moves, LeavesNoMark, Advance, source, DInv, TokensFit
  <2>5. PICK items : items = <<>>
    OBVIOUS
  <2>6. <<>> \in Seq(Harmless)
    OBVIOUS
  <2>7. /\ \A kind : Calm(items, kind)
        /\ IsSeq(items) /\ \A i \in 1 .. Len(items) : items[i] \notin HeadOnly /\ items[i] # "chain"
    BY <2>5, <2>6, HarmlessIsQuiet, QuietIsCalm DEF Quiet, IsQuiet
  <2>8. todo' = items \o Tail(todo)
    BY <1>2, <2>5 DEF Then
  <2>9. Next1' \notin HeadOnly /\ Next1' # "type_name"
    BY <2>1, <2>7, <2>8, QuietNext DEF HeadOnly
  <2>10. NodesFit'
    <3>1. Extends(ast', ast)
      BY <1>2, InnermostIs DEF Extends
    <3> QED
      BY <1>2, <2>4, <3>1, NodesKeep DEF NodesFit
  <2>11. CallsFit(todo', open', ast')
    <3>1. CallsFit(items \o Tail(todo), open, ast)
      BY <2>1, <2>7, DoFits DEF DInv, Next1
    <3> QED
      BY <1>2, <2>8, <3>1
  <2>12. ChainFits(todo', ast')
    <3>1. IsSeq(todo) /\ todo # <<>> /\ ChainFits(todo, ast)
      BY DEF DInv, CallsFit
    <3> QED
      BY <2>1, <2>7, <2>8, <3>1, NoChain DEF Next1
  <2>13. MarkFits' /\ TokenFits'
    BY <2>4, <2>9, NoMark, QuietHead
  <2>14. NamesFit'
    <3>0. PICK n : n = Len(ast)
      OBVIOUS
    <3>1. /\ n \in Nat /\ n >= 1 /\ IsNamed(n) /\ ast[n].pos + 1 = current_token_idx
          /\ NameOf(n) = Peek
      BY <2>1, <3>0, InnermostIs, SeqFacts DEF DInv, NamesFit, AwaitsName, NameOf, Peek
    <3>2. \A k \in 1 .. n : k # n /\ IsNamed(k) =>
            /\ ast[k].pos + 1 < current_token_idx /\ NameOf(k) \in defined_types \ Builtins
      BY <3>0 DEF DInv, NamesFit, AwaitsName
    <3>3. current_token_idx \in Nat /\ current_token_idx' = current_token_idx + 1
      BY <1>2 DEF DInv, TokensFit, Advance
    <3>4. \A k \in 1 .. n : ast[k].pos \in Nat
      BY <3>0 DEF DInv, NodesFit, NodeFits
    <3>5. \A k \in 1 .. n : IsNamed(k) =>
            /\ ast[k].pos + 1 < current_token_idx' /\ NameOf(k) \in defined_types' \ Builtins
      <4>1. Peek \in defined_types' \ Builtins
        BY <1>2, <2>3
      <4>2. ASSUME NEW k \in 1 .. n, IsNamed(k), k # n
            PROVE  /\ ast[k].pos + 1 < current_token_idx'
                   /\ NameOf(k) \in defined_types' \ Builtins
        <5>1. ast[k].pos + 1 < current_token_idx /\ NameOf(k) \in defined_types \ Builtins
          BY <3>2, <4>2
        <5>2. NameOf(k) \in defined_types' \ Builtins
          BY <1>2, <5>1
        <5>3. ast[k].pos + 1 < current_token_idx'
          BY <3>3, <3>4, <5>1
        <5> QED
          BY <5>2, <5>3
      <4>3. ast[n].pos + 1 < current_token_idx' /\ NameOf(n) \in defined_types' \ Builtins
        BY <3>1, <3>3, <4>1
      <4> QED
        BY <4>2, <4>3
    <3>6. \A j, k \in 1 .. n : IsNamed(j) /\ IsNamed(k) /\ NameOf(j) = NameOf(k) => j = k
      <4> SUFFICES ASSUME NEW j \in 1 .. n, NEW k \in 1 .. n, IsNamed(j), IsNamed(k),
                          NameOf(j) = NameOf(k)
                   PROVE  j = k
        OBVIOUS
      <4>1. CASE j # n /\ k # n
        BY <3>0, <4>1 DEF DInv, NamesFit, AwaitsName
      <4>2. CASE j = n \/ k = n
        BY <1>2, <3>1, <3>2, <4>2
      <4> QED
        BY <4>1, <4>2
    <3>7. \A k : (IsNamed(k)' <=> IsNamed(k)) /\ NameOf(k)' = NameOf(k) /\ ~AwaitsName(k)'
      BY <1>2, <2>9 DEF IsNamed, NameOf, AwaitsName, Advance, source
    <3>8. Len(ast') = n /\ ast' = ast
      BY <1>2, <3>0
    <3> HIDE DEF IsNamed, NameOf, AwaitsName
    <3> QED
      BY <2>9, <3>5, <3>6, <3>7, <3>8 DEF NamesFit
  <2> QED
    BY <2>4, <2>10, <2>11, <2>12, <2>13, <2>14, MovesKeep DEF DInv
<1> QED
  BY <1>1, <1>2 DEF RegisterType

----------------------------------------------------------------------------
(* A token that is looked at for the first time is behind none.             *)
LEMMA NextTokenKeeps ==
  ASSUME DInv, NextToken
  PROVE  DInv'
<1>1. PICK tok : tokens' = Append(tokens, tok)
  BY DEF NextToken
<1>2. UNCHANGED <<current_token_idx, todo, ast, open, defined_types, is_pub, type, status>>
  BY DEF NextToken, locals
<1>3. PICK n : n = Len(tokens)
  OBVIOUS
<1>4. TokensFit /\ n \in Nat /\ IsSeq(tokens)
  BY <1>3, SeqFacts DEF DInv, TokensFit
<1>5. current_token_idx = n + 1
  BY <1>3, <1>4 DEF TokensFit, NextToken
<1>6. /\ IsSeq(tokens') /\ Len(tokens') = n + 1
      /\ \A i \in 1 .. n : tokens'[i] = tokens[i]
  BY <1>1, <1>3, <1>4, AppendSeq
<1>7. TokensFit'
  <2>1. DOMAIN tokens' = 1 .. (n + 1) /\ DOMAIN tokens = 1 .. n
    BY <1>3, <1>4, <1>6, SeqFacts
  <2>2. \A i \in 1 .. n : tokens[i] = "eof" => i >= current_token_idx
    BY <1>4, <2>1 DEF TokensFit, EndIsNeverConsumed
  <2>3. EndIsNeverConsumed'
    BY <1>2, <1>4, <1>5, <1>6, <2>1, <2>2 DEF EndIsNeverConsumed
  <2>4. current_token_idx' \in 1 .. (Len(tokens') + 1)
    BY <1>2, <1>4, <1>5, <1>6
  <2> QED
    BY <1>2, <1>4, <1>6, <2>3, <2>4 DEF TokensFit
<1>8. \A p \in 0 .. current_token_idx : Before(p)' = Before(p)
  <2> SUFFICES ASSUME NEW p \in 0 .. current_token_idx
               PROVE  Before(p)' = Before(p)
    OBVIOUS
  <2>1. CASE p > 1
    <3>1. p - 1 \in 1 .. n
      BY <2>1, <1>4, <1>5
    <3> QED
      BY <3>1, <1>6 DEF Before
  <2>2. CASE ~(p > 1)
    BY <2>2 DEF Before
  <2> QED
    BY <2>1, <2>2
<1>9. NodesFit'
  <2> SUFFICES ASSUME NEW k \in 1 .. Len(ast)
               PROVE  NodeFits(k)'
    BY <1>2 DEF NodesFit
  <2>1. NodeFits(k)
    BY DEF DInv, NodesFit
  <2>2. ast[k].pos \in 0 .. current_token_idx /\ ast[k].pos - 1 \in 0 .. current_token_idx
    BY <2>1, <1>4, <1>5 DEF NodeFits
  <2>3. IsMarked(k)' <=> IsMarked(k)
    BY <1>2, <1>8, <2>2 DEF IsMarked
  <2> QED
    BY <1>2, <2>1, <2>3 DEF NodeFits
<1>10. CallsFit(todo, open, ast)' /\ ChainFits(todo, ast)'
  BY <1>2 DEF DInv
<1>11. /\ Before(current_token_idx)' = Before(current_token_idx)
       /\ Before(current_token_idx - 1)' = Before(current_token_idx - 1)
  <2>1. PICK p \in 0 .. current_token_idx : p = current_token_idx
    BY <1>4, <1>5
  <2>2. PICK q \in 0 .. current_token_idx : q = current_token_idx - 1
    BY <1>4, <1>5
  <2>3. p = current_token_idx' /\ q = current_token_idx' - 1
    BY <1>2, <2>1, <2>2
  <2> QED
    BY <1>8, <2>1, <2>2, <2>3 DEF Before
<1>12. MarkFits'
  <2>1. KindOf(ast, Innermost)' = KindOf(ast, Innermost) /\ Next1' = Next1 /\ todo' = todo
    BY <1>2 DEF KindOf, Innermost, Next1
  <2> QED
    BY <1>2, <1>11, <2>1 DEF DInv, MarkFits
<1>13. TokenFits'
  <2>1. Next1 # "function"
    BY <1>3, <1>4, <1>5 DEF DInv, TokenFits
  <2>2. Next1' = Next1
    BY <1>2 DEF Next1
  <2> QED
    BY <1>2, <1>11, <2>1, <2>2 DEF DInv, TokenFits
<1>14. NamesFit'
  <2>1. \A k : (IsNamed(k)' <=> IsNamed(k)) /\ (AwaitsName(k)' <=> AwaitsName(k))
    BY <1>2 DEF IsNamed, AwaitsName, Next1
  <2>2. \A k \in 1 .. Len(ast) : IsNamed(k) /\ ~AwaitsName(k) => NameOf(k)' = NameOf(k)
    <3> SUFFICES ASSUME NEW k \in 1 .. Len(ast), IsNamed(k), ~AwaitsName(k)
                 PROVE  NameOf(k)' = NameOf(k)
      OBVIOUS
    <3>1. ast[k].pos \in 1 .. current_token_idx
      BY DEF DInv, NodesFit, NodeFits
    <3>2. ast[k].pos + 1 < current_token_idx
      BY DEF DInv, NamesFit
    <3>3. ast[k].pos + 1 \in 1 .. n
      BY <3>1, <3>2, <1>4, <1>5
    <3> QED
      BY <1>2, <1>6, <3>3 DEF NameOf
  <2>3. NamesFit /\ Next1' = Next1
    BY <1>2 DEF DInv, Next1
  <2> HIDE DEF IsNamed, AwaitsName, NameOf
  <2> QED
    BY <1>2, <2>1, <2>2, <2>3 DEF NamesFit
<1> QED
  BY <1>7, <1>9, <1>10, <1>12, <1>13, <1>14 DEF DInv

----------------------------------------------------------------------------
(* Nothing is parsed yet: one call, in no node.                             *)
LEMMA InitFits ==
  ASSUME Init
  PROVE  DInv
<1>1. /\ tokens = <<>> /\ current_token_idx = 1 /\ todo = <<"file">> /\ ast = <<>> /\ open = <<>>
      /\ defined_types = Builtins /\ is_pub = FALSE /\ type = "none" /\ status = "parsing"
  BY DEF Init
<1>2. IsSeq(<<>>) /\ Len(<<>>) = 0 /\ DOMAIN <<>> = {}
  <2>1. <<>> \in Seq({}) /\ Len(<<>>) = 0
    OBVIOUS
  <2>2. IsSeq(<<>>)
    BY <2>1, SeqOfItsOwn
  <2>3. DOMAIN <<>> = 1 .. Len(<<>>)
    BY <2>2, SeqFacts
  <2> QED
    BY <2>1, <2>2, <2>3
<1>3. IsSeq(todo) /\ Len(todo) = 1 /\ todo[1] = "file" /\ todo # <<>>
  <2>1. todo \in Seq({"file"}) /\ Len(todo) = 1 /\ todo[1] = "file" /\ todo # <<>>
    BY <1>1
  <2> QED
    BY <2>1, SeqOfItsOwn
<1>4. TokensFit
  <2>1. EndIsNeverConsumed
    BY <1>1, <1>2 DEF EndIsNeverConsumed
  <2>2. Len(tokens) = 0 /\ IsSeq(tokens)
    BY <1>1, <1>2
  <2>3. current_token_idx \in 1 .. (Len(tokens) + 1)
    BY <1>1, <2>2
  <2>4. status \in Statuses /\ type \in TypeKinds /\ Builtins \subseteq Identifiers
    BY <1>1 DEF Statuses, TypeKinds, Identifiers
  <2> QED
    BY <1>1, <2>1, <2>2, <2>3, <2>4 DEF TokensFit
<1>5. NodesFit /\ ChainFits(todo, ast)
  BY <1>1, <1>2, <1>3 DEF NodesFit, ChainFits
<1>6. CallsFit(todo, open, ast)
  <2> DEFINE level == [i \in 1 .. 1 |-> 0]
  <2>1. level \in [1 .. 1 -> 0 .. 0] /\ level[1] = 0
    OBVIOUS
  <2> HIDE DEF level
  <2>2. (\A kind : InPlace("file", kind)) /\ "file" \notin HeadOnly
    BY DEF InPlace, ModuleItems, ComponentItems, StructItems, BodyItems, HeadOnly
  <2>3. \A i \in 1 .. 1 : i = 1
    OBVIOUS
  <2>4. 1 .. (1 - 1) = {}
    OBVIOUS
  <2>5. LevelsFit(todo, open, ast, level)
    BY <1>1, <1>2, <1>3, <2>1, <2>2, <2>3, <2>4 DEF LevelsFit
  <2> QED
    BY <1>1, <1>2, <1>3, <2>5 DEF CallsFit
<1>7. MarkFits /\ TokenFits
  BY <1>1, <1>3 DEF MarkFits, TokenFits, Next1, Before
<1>8. NamesFit
  BY <1>1, <1>2, <1>3 DEF NamesFit, Next1
<1> QED
  BY <1>4, <1>5, <1>6, <1>7, <1>8 DEF DInv

(* Every step of the parser keeps the invariant.                            *)
LEMMA StepKeeps ==
  ASSUME DInv, Step
  PROVE  DInv'
<1>1. CASE NextToken
  BY <1>1, NextTokenKeeps
<1>2. CASE Expect
  BY <1>2, ExpectKeeps, NameKeeps
<1>3. CASE ConsumeIf \/ EndNode \/ File \/ EndOfFile
  BY <1>3, ConsumeIfKeeps, EndNodeKeeps, FileKeeps, EndOfFileKeeps
<1>4. CASE ParseTopLevel \/ ParseDeclaration \/ ParseModuleBody
  BY <1>4, TopLevelKeeps, DeclarationKeeps, ModuleBodyKeeps
<1>5. CASE ParseModule \/ ParseChain \/ ChainModule
  BY <1>5, ModuleKeeps, ChainKeeps, ChainModuleKeeps
<1>6. CASE ParseFunction \/ ParseReceiver \/ ParseParams \/ ParseParam
  BY <1>6, FunctionKeeps, ReceiverKeeps, ParamsKeep, ParamKeeps
<1>7. CASE ParseContainer \/ RegisterType \/ ParseStructBody \/ ParseComponentBody
  BY <1>7, ContainerKeeps, RegisterTypeKeeps, StructBodyKeeps, ComponentBodyKeeps
<1>8. CASE ParseMember \/ ParseField
  BY <1>8, MemberKeeps, FieldKeeps
<1>9. CASE ParseScope \/ ParseStatement
  BY <1>9, ScopeKeeps, StatementKeeps, LocalTypeKeeps
<1>10. CASE ReturnExpression \/ ElseBranch \/ ForParts \/ ParseVarDecl
  BY <1>10, PartsKeep, VarDeclKeeps
<1>11. CASE ParseTypeDecl \/ ParseTypeKind \/ ParseTypePath \/ EndPointer \/ EndReference
  BY <1>11, TypeDeclKeeps, TypeKindKeeps, TypePathKeeps, PointersKeep
<1>12. CASE ParseFunctionPointer \/ ParseArraySizes
  BY <1>12, FunctionPointerKeeps, ArraySizesKeep
<1> QED
  BY <1>1, <1>2, <1>3, <1>4, <1>5, <1>6, <1>7, <1>8, <1>9, <1>10, <1>11, <1>12 DEF Step

(* The items of the active calls are in their place, what they rely on was  *)
(* just read, and every node is what its place calls for, of every source.  *)
THEOREM CallsAreInPlace == Spec => []DInv
<1>1. Init => DInv
  BY InitFits
<1>2. DInv /\ [Next]_vars => DInv'
  <2> SUFFICES ASSUME DInv, [Next]_vars
               PROVE  DInv'
    OBVIOUS
  <2>1. CASE Step
    BY <2>1, StepKeeps
  <2>2. CASE UNCHANGED vars
    <3>1. UNCHANGED <<source, current_token_idx, locals, status>>
      BY <2>2 DEF vars
    <3>2. status' \in Statuses
      BY <3>1 DEF DInv, TokensFit
    <3> QED
      BY <3>1, <3>2, StopKeeps
  <2> QED
    BY <2>1, <2>2 DEF Next, Ended
<1> QED
  BY <1>1, <1>2, PTL DEF Spec

(* Every variable stays in its domain: in particular a node is put into one *)
(* that was made before it, and a call is never missing when the parser     *)
(* looks for one.                                                           *)
THEOREM ParserTypeCorrect == Spec => []TypeOK
<1>1. DInv => TypeOK
  <2> SUFFICES ASSUME DInv
               PROVE  TypeOK
    OBVIOUS
  <2>1. IsSeq(ast) /\ IsSeq(open) /\ todo # <<>> /\ \A i \in 1 .. Len(open) : open[i] \in 1 .. Len(ast)
    BY DEF DInv, CallsFit
  <2>2. DOMAIN ast = 1 .. Len(ast) /\ DOMAIN open = 1 .. Len(open)
    BY <2>1, SeqFacts
  <2>3. \A k \in 1 .. Len(ast) : /\ ast[k].node \in NodeKinds
                                 /\ ast[k].pos \in 1 .. current_token_idx
                                 /\ ast[k].into \in 0 .. (k - 1)
    BY DEF DInv, NodesFit, NodeFits
  <2> QED
    BY <2>1, <2>2, <2>3 DEF DInv, TokensFit, TypeOK, Statuses, TypeKinds
<1> QED
  BY <1>1, CallsAreInPlace, PTL

(* The end of the source is never gone past, in whatever construct it comes *)
(* (advance, expect and the loops that look for a closing token).           *)
THEOREM EndIsKept == Spec => []EndIsNeverConsumed
<1>1. DInv => EndIsNeverConsumed
  BY DEF DInv, TokensFit
<1> QED
  BY <1>1, CallsAreInPlace, PTL

(* The mark "pub" reaches the declaration it stands before, and no other:   *)
(* what parse_top_level and parse_component read is what the node made      *)
(* some calls later is given.                                               *)
THEOREM MarksAreKept == Spec => []PublicAsMarked
<1>1. DInv => PublicAsMarked
  <2> SUFFICES ASSUME DInv, NEW k \in DOMAIN ast
               PROVE  LET around == IF ast[k].into = 0 THEN "MODULE" ELSE ast[ast[k].into].node IN
                      CASE around \in {"MODULE", "COMPONENT"} -> ast[k].is_pub = IsMarked(k)
                        [] around = "STRUCT" -> ast[k].is_pub
                        [] OTHER -> ast[k].is_pub = (ast[k].node \in {"STRUCT", "COMPONENT"})
    BY DEF PublicAsMarked
  <2>1. k \in 1 .. Len(ast)
    BY SeqFacts DEF DInv, CallsFit
  <2> DEFINE around == KindOf(ast, ast[k].into)
  <2>2. /\ ast[k].is_pub \in BOOLEAN
        /\ around \in {"MODULE", "COMPONENT"} => (ast[k].is_pub <=> IsMarked(k))
        /\ around = "STRUCT" => ast[k].is_pub
        /\ around \notin {"STRUCT", "COMPONENT"} \cup {"MODULE"} =>
             (ast[k].is_pub <=> ast[k].node \in {"STRUCT", "COMPONENT"})
    BY <2>1 DEF DInv, NodesFit, NodeFits, Containers
  <2>3. around = IF ast[k].into = 0 THEN "MODULE" ELSE ast[ast[k].into].node
    BY DEF KindOf
  <2>4. IsMarked(k) \in BOOLEAN
    BY DEF IsMarked
  <2> DEFINE pub == ast[k].is_pub
             marked == IsMarked(k)
             container == ast[k].node \in {"STRUCT", "COMPONENT"}
             Right == CASE around \in {"MODULE", "COMPONENT"} -> pub = marked
                        [] around = "STRUCT" -> pub
                        [] OTHER -> pub = container
  <2>5. /\ pub \in BOOLEAN /\ marked \in BOOLEAN /\ container \in BOOLEAN
        /\ around \in {"MODULE", "COMPONENT"} => (pub <=> marked)
        /\ around = "STRUCT" => pub
        /\ around \notin {"MODULE", "COMPONENT"} /\ around # "STRUCT" => (pub <=> container)
    BY <2>2, <2>4
  <2> HIDE DEF pub, marked, container, around
  <2>6. CASE around \in {"MODULE", "COMPONENT"}
    <3>1. pub = marked
      BY <2>5, <2>6
    <3>2. around # "STRUCT"
      BY <2>6
    <3>3. Right
      BY <2>6, <3>1, <3>2, Zenon
    <3> QED
      BY <2>3, <3>3 DEF pub, marked, container
  <2>7. CASE around = "STRUCT"
    <3>1. pub /\ around \notin {"MODULE", "COMPONENT"}
      BY <2>5, <2>7
    <3>2. Right
      BY <2>7, <3>1, Zenon
    <3> QED
      BY <2>3, <3>2 DEF pub, marked, container
  <2>8. CASE around \notin {"MODULE", "COMPONENT"} /\ around # "STRUCT"
    <3>1. pub = container
      BY <2>5, <2>8
    <3>2. Right
      BY <2>8, <3>1, Zenon
    <3> QED
      BY <2>3, <3>2 DEF pub, marked, container
  <2> QED
    BY <2>6, <2>7, <2>8
<1> QED
  BY <1>1, CallsAreInPlace, PTL

(* The symbol table builder may walk whatever AST it is given: each node is *)
(* of a kind its parent's loop has a case for, and no two types of the whole*)
(* program have one name (handle_register_type).                            *)
THEOREM BuilderWalks == Spec => []BuilderMayWalk
<1>1. DInv => BuilderMayWalk
  <2> SUFFICES ASSUME DInv
               PROVE  BuilderMayWalk
    OBVIOUS
  <2>1. DOMAIN ast = 1 .. Len(ast)
    BY SeqFacts DEF DInv, CallsFit
  <2>2. \A k \in 1 .. Len(ast) :
          ast[k].node \in ChildrenOf(IF ast[k].into = 0 THEN "MODULE" ELSE ast[ast[k].into].node)
    BY DEF DInv, NodesFit, NodeFits, KindOf
  <2>3. \A k \in NamedTypes : k \in 1 .. Len(ast) /\ IsNamed(k) /\ ~AwaitsName(k)
    <3> SUFFICES ASSUME NEW k \in NamedTypes
                 PROVE  k \in 1 .. Len(ast) /\ IsNamed(k) /\ ~AwaitsName(k)
      OBVIOUS
    <3>1. k \in 1 .. Len(ast) /\ IsNamed(k) /\ ast[k].pos + 1 < current_token_idx
      BY <2>1 DEF NamedTypes, IsNamed, Containers
    <3>2. current_token_idx \in Nat
      BY DEF DInv, TokensFit
    <3>3. AwaitsName(k) => ast[k].pos + 1 = current_token_idx
      BY <3>1 DEF DInv, NamesFit
    <3> QED
      BY <3>1, <3>2, <3>3
  <2>4. \A j, k \in NamedTypes : NameOf(j) = NameOf(k) => j = k
    BY <2>3 DEF DInv, NamesFit
  <2>5. \A k \in NamedTypes : NameOf(k) \notin Builtins
    BY <2>3 DEF DInv, NamesFit
  <2> QED
    BY <2>1, <2>2, <2>4, <2>5 DEF BuilderMayWalk
<1> QED
  BY <1>1, CallsAreInPlace, PTL
=============================================================================
