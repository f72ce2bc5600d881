---------------------------- MODULE SymbolTable ----------------------------
(***************************************************************************)
(* The symbol table builder of the Serac compiler, SymbolTBlder: one       *)
(* recursive walk over the AST the parser produced, which allocates the    *)
(* symbols and the scopes that the later phases search.                    *)
(*                                                                         *)
(* The recursion of the build_* functions is an explicit stack of frames.  *)
(* A frame is the loop of one call over the children of one AST node; each *)
(* step visits the next child of the node on top, or ends its loop.  The   *)
(* AST itself is not a constant: the next child is any one that the        *)
(* parser's grammar allows there, so a behaviour is the walk over one AST  *)
(* and the behaviours are the walks over all of them.                      *)
(*                                                                         *)
(* Indices start at 1 here and at 0 in the code; 0 stands for an empty     *)
(* std::optional, and for "not found" in a scope's name lookup.  Symbol    *)
(* indices are given out in the order of the source text, so they also     *)
(* order the declarations by line and column.                              *)
(***************************************************************************)
EXTENDS Naturals, Sequences

CONSTANTS
  Names,             \* the identifiers of the program, the builtin ones included
  ReadableToBuiltin, \* the table of builtin type names, in its order
  MaxSymbols,        \* bound on the symbols of the program
  MaxScopes,         \* bound on the scopes of the program
  MaxDepth           \* bound on the nesting of the builder's calls

BuiltinNames == {ReadableToBuiltin[i] : i \in DOMAIN ReadableToBuiltin}

(* The table holds each name once, and "int" after the "i32" it stands for. *)
ASSUME BuiltinAssumption ==
  /\ ReadableToBuiltin \in Seq(Names)
  /\ \A i, j \in DOMAIN ReadableToBuiltin :
        ReadableToBuiltin[i] = ReadableToBuiltin[j] => i = j
  /\ \A i \in DOMAIN ReadableToBuiltin :
        ReadableToBuiltin[i] = "int" =>
          \E j \in 1 .. (i - 1) : ReadableToBuiltin[j] = "i32"
  /\ "i32" \in Names

ASSUME BoundAssumption ==
  MaxSymbols \in Nat /\ MaxScopes \in Nat /\ MaxDepth \in Nat

VARIABLES
  symbols,              \* the symbols, in the order they were allocated
  scopes,               \* the scopes, in the order they were allocated
  chain,                \* chain[s]: the scopes a walk up the parents of s visits
  builtin_to_symbol_id, \* builtin name -> symbol, 0 when it has none yet
  type_symbol_ids,      \* the symbols that are types
  builtin_symbol_ids,   \* the symbols that are builtin types
  next_builtin,         \* the entry add_builtin_symbols handles next
  stack,                \* the active build_* calls, the innermost last
  status                \* "building", "done", "exited", or the bad cast reached

vars == <<symbols, scopes, chain, builtin_to_symbol_id, type_symbol_ids,
          builtin_symbol_ids, next_builtin, stack, status>>

ids == <<builtin_to_symbol_id, type_symbol_ids, builtin_symbol_ids>>

SymbolTypes == {"BUILTIN", "STRUCT", "COMPONENT", "FN", "VAR", "PARAM",
                "MODULE", "FIELD"}
ScopeTypes == {"MODULE", "STRUCT", "COMPONENT", "FN", "SCOPE"}

(* What a frame loops over: the declarations of a module, a struct or a    *)
(* component; the parameters of a function; the init of a for statement;   *)
(* the statements of a body; or the else branch that an if statement has   *)
(* left after its then body.                                               *)
Nodes == {"MODULE", "STRUCT", "COMPONENT", "PARAMS", "FOR", "BODY", "ELSE"}

Symbol(t, n, s, c) ==
  [sym_type |-> t, name |-> n, scope_idx |-> s, created_scope_idx |-> c]

Scope(owner, parent) ==
  [owning_symbol_type |-> owner, parent_scope_idx |-> parent,
   sym_idx |-> [n \in Names |-> 0]]

Frame(node, s, k) == [node |-> node, scope |-> s, sym |-> k]

Top == stack[Len(stack)]
Push(f) == Append(stack, f)
ReplaceTop(f) == [stack EXCEPT ![Len(stack)] = f]
Pop == SubSeq(stack, 1, Len(stack) - 1)

NextSymbol == Len(symbols) + 1
NextScope == Len(scopes) + 1

----------------------------------------------------------------------------
(* add_symbol_to_scope: a variable must be new in the scope and in every   *)
(* scope above it, any other symbol in the scope alone.                    *)
(* Mutant: variables are treated as all others.                             *)
IsDefinedHere(n, s, isVariable) == scopes[s].sym_idx[n] # 0

IsDefined(n, s, isVariable) ==
  \E a \in (IF isVariable THEN chain[s] ELSE {s}) : scopes[a].sym_idx[n] # 0

Bind(scs, s, n, k) == [scs EXCEPT ![s].sym_idx[n] = k]

IsFresh(s) == \A n \in Names : scopes[s].sym_idx[n] = 0

(* get_next_scope_idx and the parent pointer every caller sets after it.    *)
(* Mutant: the caller leaves the parent pointer empty.                      *)
AllocateRootScope(scs, owner, parent) ==
  /\ scopes' = Append(scs, Scope(owner, 0))
  /\ chain' = Append(chain, {NextScope})

AllocateScope(scs, owner, parent) ==
  /\ scopes' = Append(scs, Scope(owner, parent))
  /\ chain' = Append(chain, chain[parent] \cup {NextScope})

(* exit(1): the process ends, and what it built for this child with it.     *)
Stop(reason) ==
  /\ status' = reason
  /\ UNCHANGED <<symbols, scopes, chain, ids, next_builtin, stack>>

(* The builder is in the loop of a node of one of these kinds, and the      *)
(* program has room for k more symbols and c more scopes.                   *)
Visiting(nodes, k, c) ==
  /\ status = "building"
  /\ next_builtin > Len(ReadableToBuiltin)
  /\ Top.node \in nodes
  /\ Len(symbols) + k <= MaxSymbols
  /\ Len(scopes) + c <= MaxScopes
  /\ Len(stack) < MaxDepth

(* A symbol that owns no scope: allocated, filled in and bound.  where is   *)
(* the scope_idx it is given.                                               *)
(* Mutant: a name is bound whether or not it is defined.                    *)
DeclareLeafAnyway(t, n, where, isVariable) ==
  /\ symbols' = Append(symbols, Symbol(t, n, where, 0))
  /\ scopes' = Bind(scopes, Top.scope, n, NextSymbol)
  /\ UNCHANGED <<chain, ids, next_builtin, stack, status>>

DeclareLeaf(t, n, where, isVariable) ==
  \/ /\ IsDefined(n, Top.scope, isVariable)
     /\ Stop("exited")
  \/ /\ ~IsDefined(n, Top.scope, isVariable)
     /\ symbols' = Append(symbols, Symbol(t, n, where, 0))
     /\ scopes' = Bind(scopes, Top.scope, n, NextSymbol)
     /\ UNCHANGED <<chain, ids, next_builtin, stack, status>>

(* A symbol with a scope of its own, whose children are visited next.       *)
(* Mutants: the index of the scope to come, and the new scope's index taken *)
(* for the current one's.                                                   *)
DeclareOwnerOfNext(t, n, node) ==
  /\ ~IsDefined(n, Top.scope, FALSE)
  /\ symbols' = Append(symbols, Symbol(t, n, Top.scope, NextScope + 1))
  /\ AllocateScope(Bind(scopes, Top.scope, n, NextSymbol), t, Top.scope)
  /\ stack' = Push(Frame(node, NextScope, NextSymbol))
  /\ UNCHANGED <<ids, next_builtin, status>>

DeclareOwnerInItself(t, n, node) ==
  /\ ~IsDefined(n, Top.scope, FALSE)
  /\ symbols' = Append(symbols, Symbol(t, n, NextScope, NextScope))
  /\ AllocateScope(Bind(scopes, Top.scope, n, NextSymbol), t, Top.scope)
  /\ stack' = Push(Frame(node, NextScope, NextSymbol))
  /\ UNCHANGED <<ids, next_builtin, status>>

DeclareOwner(t, n, node) ==
  \/ /\ IsDefined(n, Top.scope, FALSE)
     /\ Stop("exited")
  \/ /\ ~IsDefined(n, Top.scope, FALSE)
     /\ symbols' = Append(symbols, Symbol(t, n, Top.scope, NextScope))
     /\ AllocateScope(Bind(scopes, Top.scope, n, NextSymbol), t, Top.scope)
     /\ stack' = Push(Frame(node, NextScope, NextSymbol))
     /\ type_symbol_ids' = IF t \in {"STRUCT", "COMPONENT"}
                           THEN type_symbol_ids \cup {NextSymbol}
                           ELSE type_symbol_ids
     /\ UNCHANGED <<builtin_to_symbol_id, builtin_symbol_ids, next_builtin, status>>

----------------------------------------------------------------------------
(* build_top_level up to its loop: the global module and its scope.         *)
Init ==
  /\ symbols = <<Symbol("MODULE", "global", 1, 1)>>
  /\ scopes = <<Scope("MODULE", 0)>>
  /\ chain = <<{1}>>
  /\ builtin_to_symbol_id = [n \in BuiltinNames |-> 0]
  /\ type_symbol_ids = {}
  /\ builtin_symbol_ids = {}
  /\ next_builtin = 1
  /\ stack = <<Frame("MODULE", 1, 1)>>
  /\ status = "building"

(* One round of add_builtin_symbols: "int" is a second name of i32's symbol *)
AddBuiltinSymbol ==
  /\ status = "building"
  /\ next_builtin <= Len(ReadableToBuiltin)
  /\ LET n == ReadableToBuiltin[next_builtin]
         k == IF n = "int" THEN builtin_to_symbol_id["i32"] ELSE NextSymbol
     IN  /\ IF n = "int"
            THEN UNCHANGED <<symbols, type_symbol_ids, builtin_symbol_ids>>
            ELSE /\ symbols' = Append(symbols, Symbol("BUILTIN", n, 0, 0))
                 /\ type_symbol_ids' = type_symbol_ids \cup {k}
                 /\ builtin_symbol_ids' = builtin_symbol_ids \cup {k}
         /\ builtin_to_symbol_id' = [builtin_to_symbol_id EXCEPT ![n] = k]
         /\ scopes' = Bind(scopes, 1, n, k)
  /\ next_builtin' = next_builtin + 1
  /\ UNCHANGED <<chain, stack, status>>

(* Struct and component names are unique in a program, and none is a        *)
(* builtin's: the parser has registered them all in one defined_types map.  *)
IsNewType(n) ==
  /\ n \notin BuiltinNames
  /\ \A k \in DOMAIN symbols :
        symbols[k].sym_type \in {"STRUCT", "COMPONENT"} => symbols[k].name # n

BuildField(n) ==
  /\ Visiting({"MODULE", "STRUCT", "COMPONENT"}, 1, 0)
  /\ DeclareLeaf("FIELD", n, Top.scope, FALSE)

BuildStruct(n) ==
  /\ Visiting({"MODULE", "STRUCT", "COMPONENT", "BODY"}, 1, 1)
  /\ IsNewType(n)
  /\ DeclareOwner("STRUCT", n, "STRUCT")

BuildComponent(n) ==
  /\ Visiting({"MODULE", "COMPONENT", "BODY"}, 1, 1)
  /\ IsNewType(n)
  /\ DeclareOwner("COMPONENT", n, "COMPONENT")

(* build_module: a name bound in this scope is taken for a module declared  *)
(* before, and its scope_idx for the scope of its declarations.  The cast   *)
(* of the symbol found is not checked: on any other symbol it is undefined. *)
BuildModule(n) ==
  LET existing == scopes[Top.scope].sym_idx[n] IN
  \/ /\ Visiting({"MODULE"}, 1, 1)
     /\ existing = 0
     /\ DeclareOwner("MODULE", n, "MODULE")
  \/ /\ Visiting({"MODULE"}, 0, 0)
     /\ existing # 0
     /\ symbols[existing].sym_type = "MODULE"
     /\ stack' = Push(Frame("MODULE", symbols[existing].scope_idx, existing))
     /\ UNCHANGED <<symbols, scopes, chain, ids, next_builtin, status>>
  \/ /\ Visiting({"MODULE"}, 0, 0)
     /\ existing # 0
     /\ symbols[existing].sym_type # "MODULE"
     /\ Stop("module_cast")

----------------------------------------------------------------------------
(* build_function: the symbol and the body scope, then the parameters.      *)
BuildFunction(n) ==
  /\ Visiting({"MODULE", "COMPONENT"}, 1, 1)
  /\ DeclareOwner("FN", n, "PARAMS")

(* The receiver, if there is one, precedes the parameters.  Its symbol's    *)
(* scope_idx is left empty.                                                 *)
BuildReceiver(n) ==
  /\ Visiting({"PARAMS"}, 1, 0)
  /\ IsFresh(Top.scope)
  /\ DeclareLeaf("PARAM", n, 0, FALSE)

(* Mutant: the scope the function is in.                                    *)
BuildParamOutside(n) ==
  /\ Visiting({"PARAMS"}, 1, 0)
  /\ DeclareLeaf("PARAM", n, scopes[Top.scope].parent_scope_idx, FALSE)

BuildParam(n) ==
  /\ Visiting({"PARAMS"}, 1, 0)
  /\ DeclareLeaf("PARAM", n, Top.scope, FALSE)

(* build_scope_body in the existing scope of a function or a for statement. *)
BeginBody ==
  /\ status = "building"
  /\ Top.node \in {"PARAMS", "FOR"}
  /\ stack' = ReplaceTop([Top EXCEPT !.node = "BODY"])
  /\ UNCHANGED <<symbols, scopes, chain, ids, next_builtin, status>>

----------------------------------------------------------------------------
(* build_statement *)
BuildVarDecl(n) ==
  /\ Visiting({"BODY"}, 1, 0)
  /\ DeclareLeaf("VAR", n, Top.scope, TRUE)

(* build_scope_body without an existing scope: a new one, in the current.   *)
OpenBody(frames, node) ==
  /\ AllocateScope(scopes, "SCOPE", Top.scope)
  /\ stack' = Append(frames, Frame(node, NextScope, 0))
  /\ UNCHANGED <<symbols, ids, next_builtin, status>>

(* A block or a while statement.                                            *)
BuildBlock ==
  /\ Visiting({"BODY"}, 0, 1)
  /\ OpenBody(stack, "BODY")

(* A for statement: its scope, which the body shares with the init.         *)
BuildFor ==
  /\ Visiting({"BODY"}, 0, 1)
  /\ OpenBody(stack, "FOR")

BuildForInit(n) ==
  /\ Visiting({"FOR"}, 1, 0)
  /\ IsFresh(Top.scope)
  /\ DeclareLeaf("VAR", n, Top.scope, TRUE)

(* The init of a for may be any statement, and is cast to a variable        *)
(* declaration unchecked: on any other statement that is undefined.         *)
BuildForOtherInit ==
  /\ Visiting({"FOR"}, 1, 0)
  /\ IsFresh(Top.scope)
  /\ Stop("for_cast")

(* Mutant: the else branch in the scope of the then body.                   *)
BuildIfElseInside ==
  /\ Visiting({"BODY"}, 0, 1)
  /\ OpenBody(Push(Frame("ELSE", NextScope, 0)), "BODY")

(* The then body, with the else branch left for later in this scope.        *)
BuildIf ==
  /\ Visiting({"BODY"}, 0, 1)
  /\ OpenBody(Push(Frame("ELSE", Top.scope, 0)), "BODY")

(* "else if": another then body; its own else branch takes the same place.  *)
BuildElseIf ==
  /\ Visiting({"ELSE"}, 0, 1)
  /\ OpenBody(stack, "BODY")

BuildElseBlock ==
  /\ Visiting({"ELSE"}, 0, 1)
  /\ OpenBody(Pop, "BODY")

(* The loop of the innermost call ends; the outermost hands the table on.   *)
Return ==
  /\ status = "building"
  /\ next_builtin > Len(ReadableToBuiltin)
  /\ Top.node \notin {"PARAMS", "FOR"}
  /\ IF Len(stack) = 1
     THEN status' = "done" /\ UNCHANGED stack
     ELSE stack' = Pop /\ UNCHANGED status
  /\ UNCHANGED <<symbols, scopes, chain, ids, next_builtin>>

(* Nothing follows the end of the build: the only states without a step.    *)
Ended == status # "building" /\ UNCHANGED vars

Declare(n) ==
  \/ BuildField(n) \/ BuildStruct(n) \/ BuildComponent(n) \/ BuildModule(n)
  \/ BuildFunction(n) \/ BuildReceiver(n) \/ BuildParam(n)
  \/ BuildVarDecl(n) \/ BuildForInit(n)

Step ==
  \/ AddBuiltinSymbol
  \/ \E n \in Names : Declare(n)
  \/ BeginBody \/ BuildBlock \/ BuildFor \/ BuildForOtherInit
  \/ BuildIf \/ BuildElseIf \/ BuildElseBlock
  \/ Return

Next == Step \/ Ended

Spec == Init /\ [][Next]_vars
----------------------------------------------------------------------------
SymbolIds == 1 .. Len(symbols)
ScopeIds == 1 .. Len(scopes)
Statuses == {"building", "done", "exited", "module_cast", "for_cast"}

SymbolRecords == [sym_type : SymbolTypes, name : Names \cup {"global"},
                  scope_idx : Nat, created_scope_idx : Nat]
ScopeRecords == [owning_symbol_type : ScopeTypes, parent_scope_idx : Nat,
                 sym_idx : [Names -> Nat]]
FrameRecords == [node : Nodes, scope : Nat, sym : Nat]

(* Every index stored anywhere is that of a symbol or scope that exists.    *)
TypeOK ==
  /\ symbols \in Seq(SymbolRecords)
  /\ \A k \in SymbolIds : /\ symbols[k].scope_idx \in {0} \cup ScopeIds
                          /\ symbols[k].created_scope_idx \in {0} \cup ScopeIds
  /\ scopes \in Seq(ScopeRecords)
  /\ \A s \in ScopeIds : /\ scopes[s].parent_scope_idx \in {0} \cup ScopeIds
                         /\ \A n \in Names : scopes[s].sym_idx[n] \in {0} \cup SymbolIds
  /\ chain \in Seq(SUBSET Nat) /\ Len(chain) = Len(scopes)
  /\ \A s \in ScopeIds : chain[s] \subseteq ScopeIds
  /\ builtin_to_symbol_id \in [BuiltinNames -> {0} \cup SymbolIds]
  /\ type_symbol_ids \subseteq SymbolIds
  /\ builtin_symbol_ids \subseteq SymbolIds
  /\ next_builtin \in 1 .. (Len(ReadableToBuiltin) + 1)
  /\ stack \in Seq(FrameRecords) /\ stack # <<>>
  /\ \A i \in DOMAIN stack : /\ stack[i].scope \in ScopeIds
                             /\ stack[i].sym \in {0} \cup SymbolIds
  /\ status \in Statuses

(* The parent pointers form a tree rooted in the global scope: every other  *)
(* scope hangs below an older one, so each upward walk over them ends, and  *)
(* chain is what such a walk visits.  This is about the loops of            *)
(* add_symbol_to_scope, find_symbol_idx and check_private_access, which     *)
(* stop at an empty parent_scope_idx and nowhere else.                      *)
ScopeTree ==
  /\ scopes[1].parent_scope_idx = 0
  /\ chain[1] = {1}
  /\ \A s \in ScopeIds \ {1} :
       LET p == scopes[s].parent_scope_idx
       IN  p \in 1 .. (s - 1) /\ chain[s] = chain[p] \cup {s}

(* The two directions of the table agree: a name leads to a symbol of that  *)
(* name which says it is in that scope (a receiver says nothing, and "int"  *)
(* leads to i32), and every symbol but the global module is bound once.     *)
NamesLeadToSymbols ==
  \A s \in ScopeIds, n \in Names :
    LET k == scopes[s].sym_idx[n] IN
    k # 0 => \/ symbols[k].name = n /\ symbols[k].scope_idx \in {0, s}
             \/ n = "int" /\ symbols[k].name = "i32" /\ s = 1

SymbolsAreBoundOnce ==
  \A k \in SymbolIds \ {1} :
    \E s \in ScopeIds : \A t \in ScopeIds :
      scopes[t].sym_idx[symbols[k].name] = k <=> t = s

BindingsAgree == NamesLeadToSymbols /\ SymbolsAreBoundOnce

(* A scope that a symbol created is that symbol's alone: of its type, and   *)
(* directly below the scope the symbol is in.  A receiver or parameter is   *)
(* bound nowhere but in a function's body scope.                            *)
OwnersMatch ==
  \A k \in SymbolIds : symbols[k].created_scope_idx # 0 =>
    LET c == scopes[symbols[k].created_scope_idx] IN
    /\ c.owning_symbol_type = symbols[k].sym_type
    /\ k # 1 => c.parent_scope_idx = symbols[k].scope_idx

OwnersAreUnique ==
  \A j, k \in SymbolIds :
    symbols[j].created_scope_idx = symbols[k].created_scope_idx =>
      j = k \/ symbols[k].created_scope_idx = 0

ParametersInBodies ==
  \A s \in ScopeIds, n \in Names :
    LET k == scopes[s].sym_idx[n] IN
    k # 0 /\ symbols[k].sym_type = "PARAM" => scopes[s].owning_symbol_type = "FN"

OwnersAgree == OwnersMatch /\ OwnersAreUnique /\ ParametersInBodies

(* A variable never hides a declaration that precedes it: whatever its name *)
(* means in a scope above it was declared later.  This is the check that    *)
(* add_symbol_to_scope makes for variables, which a later declaration in an *)
(* outer scope or a parameter does not go through.                          *)
VariablesHideNothingEarlier ==
  \A s \in ScopeIds, n \in Names :
    LET k == scopes[s].sym_idx[n] IN
    k # 0 /\ symbols[k].sym_type = "VAR" =>
      \A a \in chain[s] \ {s} : scopes[a].sym_idx[n] \notin 1 .. k

(* The calls under way nest as the scopes do: each frame works in a scope   *)
(* directly below that of the frame that called it, or in that scope itself *)
(* for an else branch - or in the scope of a module being reopened.         *)
FramesNest ==
  \A i \in 2 .. Len(stack) :
    LET outer == stack[i - 1]
        inner == stack[i]
    IN  \/ inner.node # "ELSE"
           /\ scopes[inner.scope].parent_scope_idx = outer.scope
        \/ inner.node = "ELSE" /\ inner.scope = outer.scope
        \/ inner.node = "MODULE" /\ outer.node = "MODULE"
           /\ inner.sym # 0 /\ inner.scope = symbols[inner.sym].scope_idx

(* No step rebinds or unbinds a name, or touches a symbol already in the    *)
(* table: a second declaration ends the program instead of replacing the    *)
(* first (add_symbol_to_scope assigns with operator[], which would).        *)
TableOnlyGrows ==
  [][/\ \A s \in ScopeIds, n \in Names :
          scopes[s].sym_idx[n] # 0 => scopes'[s].sym_idx[n] = scopes[s].sym_idx[n]
     /\ \A k \in SymbolIds : symbols'[k] = symbols[k]]_vars

(* What a comment of the builder says, and the code does not do.            *)
(* A module defined again is addressed where it already is: its             *)
(* declarations go to the scope the module created.                         *)
ReopenedModuleKeepsItsScope ==
  \A i \in DOMAIN stack : stack[i].node = "MODULE" =>
    stack[i].scope = symbols[stack[i].sym].created_scope_idx
=============================================================================
