--------------------------- MODULE SymbolResolver ---------------------------
(***************************************************************************)
(* The symbol resolver of the Serac compiler, run on the table that        *)
(* SymbolTBlder hands on: it walks the same AST and looks up every         *)
(* identifier.  It changes nothing that a later lookup reads, so a         *)
(* behaviour follows one identifier of the program, met at some point of   *)
(* the builder's walk and looked up when the table is finished.            *)
(*                                                                         *)
(* A position in the source is the number of symbols declared before it;   *)
(* symbol k is declared at position k.                                     *)
(***************************************************************************)
EXTENDS SymbolTable

CONSTANTS
  Paths,  \* the identifier paths to look up, each a sequence of names
  NoUse   \* there is no such identifier

ASSUME PathsAssumption == Paths \subseteq Seq(Names) /\ <<>> \notin Paths

VARIABLES
  use,                   \* where the identifier is, and the scope passed for it
  ident_path,            \* the path looked up, <<>> before
  level,                 \* the component of a longer path looked up next
  parsed_scope,          \* the scope find_symbol_idx searches next
  catch_use_before_decl, \* whether the declaration must precede the use
  outcome                \* how the lookup ended, "none" before

lookup == <<ident_path, level, parsed_scope, catch_use_before_decl, outcome>>
resolverVars == <<vars, use, lookup>>

Owner(s) == scopes[s].owning_symbol_type
BodyOwners == {"FN", "SCOPE"}

Outcome(v, k) == [verdict |-> v, sym |-> k]
None == Outcome("none", 0)

----------------------------------------------------------------------------
ResolverInit ==
  /\ Init
  /\ use = NoUse
  /\ ident_path = <<>>
  /\ level = 1
  /\ parsed_scope = 1
  /\ catch_use_before_decl = FALSE
  /\ outcome = None

Build == Step /\ UNCHANGED <<use, lookup>>

(* An identifier in the source here, for which the resolver will start in   *)
(* the scope passed; by the nesting of the source it is in the scope here.  *)
Meet(passed, here, isNull) ==
  /\ use' = [scope |-> passed, here |-> here, pos |-> Len(symbols),
             node |-> Top.node, isNull |-> isNull]
  /\ UNCHANGED <<vars, lookup>>

Unmet(nodes) ==
  /\ use = NoUse
  /\ status = "building"
  /\ next_builtin > Len(ReadableToBuiltin)
  /\ Top.node \in nodes

(* In a statement of a body: the scope the builder noted in the body.       *)
MeetInStatement ==
  /\ Unmet({"BODY", "ELSE"})
  /\ Meet(Top.scope, Top.scope, FALSE)

(* In the init, condition or increment of a for statement: the scope of the *)
(* statement itself.  Any of them may be absent and is followed all the     *)
(* same.                                                                    *)
MeetInFor(isNull) ==
  /\ Unmet({"FOR"})
  /\ Meet(scopes[Top.scope].parent_scope_idx, Top.scope, isNull)

(* In the type of a field: the scope of the field's symbol.                 *)
MeetInField ==
  /\ Unmet({"MODULE", "STRUCT", "COMPONENT"})
  /\ Meet(Top.scope, Top.scope, FALSE)

(* In the type of a parameter, a receiver or a return value: the scope_idx  *)
(* of the module or component around the function.                          *)
MeetInSignature ==
  LET caller == stack[Len(stack) - 1] IN
  /\ Unmet({"PARAMS"})
  /\ Meet(symbols[caller.sym].scope_idx, scopes[Top.scope].parent_scope_idx, FALSE)

----------------------------------------------------------------------------
(* find_symbol_idx *)
Resolving == status = "done" /\ use # NoUse /\ outcome = None

End(v, k) ==
  /\ outcome' = Outcome(v, k)
  /\ UNCHANGED <<vars, use, ident_path, level, parsed_scope, catch_use_before_decl>>

FollowNull ==
  /\ Resolving /\ use.isNull
  /\ End("null_pointer", 0)

StartLookup(path) ==
  /\ Resolving /\ ~use.isNull
  /\ ident_path = <<>>
  /\ ident_path' = path
  /\ parsed_scope' = IF Len(path) = 1 THEN use.scope ELSE symbols[1].scope_idx
  /\ catch_use_before_decl' = (Len(path) = 1 /\ Owner(use.scope) \in BodyOwners)
  /\ UNCHANGED <<vars, use, level, outcome>>

(* A single name, in the scope searched now: components are skipped.        *)
(* Mutant: components are searched too.                                     *)
MatchAnywhere == scopes[parsed_scope].sym_idx[ident_path[1]]

Match == IF Owner(parsed_scope) = "COMPONENT" THEN 0
         ELSE scopes[parsed_scope].sym_idx[ident_path[1]]

(* get_symbol_pos has no answer for a module, and (0, 0) for a builtin.     *)
(* Mutant: one declaration too many.                                        *)
IsDeclaredMuchLater(k) == symbols[k].sym_type # "BUILTIN" /\ k > use.pos + 1

IsDeclaredLater(k) == symbols[k].sym_type # "BUILTIN" /\ k > use.pos

FoundInScope ==
  /\ Resolving /\ Len(ident_path) = 1 /\ Match # 0
  /\ \/ /\ catch_use_before_decl
        /\ symbols[Match].sym_type = "MODULE"
        /\ End("no_position", Match)
     \/ /\ catch_use_before_decl
        /\ symbols[Match].sym_type # "MODULE"
        /\ IsDeclaredLater(Match)
        /\ End("used_before_declaration", Match)
     \/ /\ catch_use_before_decl =>
             symbols[Match].sym_type # "MODULE" /\ ~IsDeclaredLater(Match)
        /\ End("found", Match)

(* Mutants: the search does not end at the global scope, and the flag is    *)
(* kept on the way out of the function.                                     *)
ClimbForever ==
  /\ Resolving /\ Len(ident_path) = 1 /\ Match = 0
  /\ parsed_scope' = scopes[parsed_scope].parent_scope_idx
  /\ catch_use_before_decl' =
       (catch_use_before_decl /\ Owner(parsed_scope') \in BodyOwners)
  /\ UNCHANGED <<vars, use, ident_path, level, outcome>>

ClimbWithFlag ==
  /\ Resolving /\ Len(ident_path) = 1 /\ Match = 0
  /\ LET parent == scopes[parsed_scope].parent_scope_idx IN
     IF parent = 0 THEN End("undefined", 0)
     ELSE /\ parsed_scope' = parent
          /\ UNCHANGED <<vars, use, ident_path, level, catch_use_before_decl, outcome>>

(* The flag is dropped for good on the way out of the function.             *)
ClimbToParent ==
  /\ Resolving /\ Len(ident_path) = 1 /\ Match = 0
  /\ LET parent == scopes[parsed_scope].parent_scope_idx IN
     \/ /\ parent = 0
        /\ End("undefined", 0)
     \/ /\ parent # 0
        /\ parsed_scope' = parent
        /\ catch_use_before_decl' =
             (catch_use_before_decl /\ Owner(parent) \in BodyOwners)
        /\ UNCHANGED <<vars, use, ident_path, level, outcome>>

(* A path: down from the global scope through the scopes modules created.   *)
(* Mutant: the first component again.                                       *)
FoundFirst == scopes[parsed_scope].sym_idx[ident_path[1]]

Found == scopes[parsed_scope].sym_idx[ident_path[level]]

EnterModule ==
  /\ Resolving /\ level < Len(ident_path)
  /\ \/ /\ Found = 0
        /\ End("no_such_module", 0)
     \/ /\ Found # 0 /\ symbols[Found].sym_type # "MODULE"
        /\ End("not_a_module", Found)
     \/ /\ Found # 0 /\ symbols[Found].sym_type = "MODULE"
        /\ parsed_scope' = symbols[Found].created_scope_idx
        /\ level' = level + 1
        /\ UNCHANGED <<vars, use, ident_path, catch_use_before_decl, outcome>>

EndOfPath ==
  /\ Resolving /\ Len(ident_path) > 1 /\ level = Len(ident_path)
  /\ IF Found = 0 THEN End("undefined", 0) ELSE End("found", Found)

Resolve ==
  \/ FollowNull
  \/ \E path \in Paths : StartLookup(path)
  \/ FoundInScope \/ ClimbToParent \/ EnterModule \/ EndOfPath

Settled ==
  /\ \/ status \notin {"building", "done"}
     \/ status = "done" /\ (use = NoUse \/ outcome # None)
  /\ UNCHANGED resolverVars

ResolverNext ==
  \/ Build
  \/ MeetInStatement \/ MeetInField \/ MeetInSignature
  \/ \E isNull \in BOOLEAN : MeetInFor(isNull)
  \/ Resolve
  \/ Settled

(* The lookup is a loop of a sequential program: it is not abandoned.       *)
ResolverSpec == ResolverInit /\ [][ResolverNext]_resolverVars /\ WF_resolverVars(Resolve)
----------------------------------------------------------------------------
Verdicts == {"none", "found", "undefined", "used_before_declaration", "no_position",
             "no_such_module", "not_a_module", "null_pointer"}

ResolverTypeOK ==
  /\ use # NoUse =>
       /\ use.scope \in ScopeIds /\ use.here \in ScopeIds
       /\ use.pos \in SymbolIds /\ use.node \in Nodes /\ use.isNull \in BOOLEAN
  /\ ident_path \in Paths \cup {<<>>}
  /\ level \in 1 .. (IF ident_path = <<>> THEN 1 ELSE Len(ident_path))
  /\ parsed_scope \in ScopeIds
  /\ catch_use_before_decl \in BOOLEAN
  /\ outcome.verdict \in Verdicts /\ outcome.sym \in {0} \cup SymbolIds

(* What an identifier means, read off the whole table: a single name is the *)
(* innermost binding of it around, components aside, and must precede the   *)
(* use when no scope but bodies and blocks lies between; a path leads from  *)
(* the global scope through modules.                                        *)
Binders(n, s) == {a \in chain[s] : Owner(a) # "COMPONENT" /\ scopes[a].sym_idx[n] # 0}

Innermost(S) == CHOOSE a \in S : \A b \in S : b <= a

SameFunction(s, a) == \A b \in chain[s] : b >= a => Owner(b) \in BodyOwners

MeaningOfName(n) ==
  LET B == Binders(n, use.scope)
      a == Innermost(B)
      k == scopes[a].sym_idx[n]
  IN  IF B = {} THEN Outcome("undefined", 0)
      ELSE IF SameFunction(use.scope, a) /\ k > use.pos
           THEN Outcome("used_before_declaration", k)
           ELSE Outcome("found", k)

(* The name is, in the scope, that of a module that created the other scope. *)
Leads(n, s, created) ==
  LET k == scopes[s].sym_idx[n] IN
  k # 0 /\ symbols[k].sym_type = "MODULE" /\ created = symbols[k].created_scope_idx

(* The scopes a path is followed through, from the global scope on.         *)
Trails(path) ==
  {trail \in [1 .. Len(path) -> ScopeIds] :
     trail[1] = 1 /\ \A i \in 1 .. (Len(path) - 1) : Leads(path[i], trail[i], trail[i + 1])}

EndsOf(path) == {scopes[trail[Len(path)]].sym_idx[path[Len(path)]] : trail \in Trails(path)} \ {0}

MeaningOfPath(path) ==
  IF EndsOf(path) = {} THEN Outcome("undefined", 0)
  ELSE Outcome("found", CHOOSE k \in EndsOf(path) : TRUE)

(* The three ways in which a path can fail are one; a null pointer that is  *)
(* followed is no identifier at all.                                        *)
Answered ==
  CASE outcome.verdict \in {"no_such_module", "not_a_module"} -> Outcome("undefined", 0)
    [] outcome.verdict = "null_pointer" -> None
    [] OTHER -> outcome

Promise ==
  INSTANCE NameLookup WITH
    NoQuestion <- <<>>,
    NoAnswer <- None,
    question <- ident_path,
    answer <- Answered,
    meaning <- IF Len(ident_path) = 1 THEN MeaningOfName(ident_path[1])
               ELSE MeaningOfPath(ident_path)

(* The loops of find_symbol_idx implement the promise: the walk that drops  *)
(* a flag as it climbs answers, once and in the end, with the innermost     *)
(* binding.                                                                 *)
KeepsPromise == Promise!Spec

(* A local declaration is only ever found below it: no use in a function    *)
(* resolves to a later variable, parameter or local type of that function.  *)
NoUseBeforeDeclaration ==
  outcome.verdict = "found" /\ Len(ident_path) = 1 =>
    \A a \in chain[use.scope] :
      /\ scopes[a].sym_idx[ident_path[1]] = outcome.sym
      /\ SameFunction(use.scope, a)
      => outcome.sym <= use.pos

(* The search for the position of a module, which has none, never comes up: *)
(* a name is still checked for its position only in scopes modules are not  *)
(* declared in.                                                             *)
ModulePositionNeverNeeded == outcome.verdict # "no_position"

(* Every symbol that an identifier resolves to can be stored: it is the     *)
(* symbol of that name, or i32 for "int", and not the global module.        *)
ResolvesToItsName ==
  outcome.verdict = "found" =>
    LET n == ident_path[Len(ident_path)] IN
    /\ outcome.sym # 1
    /\ \/ symbols[outcome.sym].name = n
       \/ (n = "int" /\ symbols[outcome.sym].name = "i32")

(* What a comment says, and the code does not do.                           *)
(* The variable of a for statement, added inside the scope of its body, is  *)
(* what its name means in the statement's condition and increment.          *)
ForSeesItsVariable ==
  outcome # None /\ use.node = "FOR" /\ Len(ident_path) = 1 =>
    LET k == scopes[use.here].sym_idx[ident_path[1]] IN
    k # 0 /\ k <= use.pos => outcome = Outcome("found", k)
=============================================================================
