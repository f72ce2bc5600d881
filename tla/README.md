# Verification of the Serac compiler

Serac is a compiler for a small statically typed language. The repository holds
two of them: a complete front end in C++ (`Archive/`), and the beginning of a
rewrite in C (`src/`, `include/`), of which the lexer, the token and AST
declarations and a driver exist. Both are sequential programs that read one file
and end; nothing is persisted, nothing runs concurrently. What is hard in them
is the *order* of things: long sequences of legal constructs, walked recursively,
that build a shared table another phase then reads under its own idea of scope;
loops whose progress depends on every branch; positions and indices kept by hand.

Paths below are those of the repository. A behaviour of every specification here
is one run of one phase, and the specifications are of all runs: over all sources
(up to a bound) or over all ASTs the parser can produce.

## 1. Inventory

The C++ driver (`Archive/src/Seracc.cpp`) runs the phases one after the other,
each in full: `Lexer` → `Parser` → `SymbolTBlder` → `SymbolResolver` →
`TypeChecker`. Any error prints a message and calls `exit(1)`. The phases share
the AST (`ASTDeclarations.hpp`) and, from the builder on, the symbol table
(`SymbolDeclarations.hpp`).

| Component | State | Operations | Talks to | Correct when |
|---|---|---|---|---|
| Symbol table builder, `Archive/src/SymbolTBlder.cpp` | symbols, scopes (parent pointer, owner, name → symbol), builtin ids, type ids | `build_*` for every declaration and statement, `add_symbol_to_scope`, `add_builtin_symbols` | reads the AST, writes scope and symbol indices into it, hands the table to the resolver and the checker | scopes form a tree, the two directions of every binding agree, an owner and its scope point at each other, nothing bound is replaced, a variable hides nothing before it |
| Symbol resolver, `Archive/src/SymbolResolver.cpp` | the table, the scope searched, the use-before-declaration flag | `resolve_*` over the AST, `find_symbol_idx`, `get_symbol_pos` | reads the finished table, writes symbol indices into identifiers | each identifier gets the innermost binding around it, locals only after their declaration, and each search ends |
| Expression parser, `Archive/src/Parser.cpp` 716-1371 | tokens, index, the recursion with its least precedence | `parse_expression`, `pratt_parse`, prefix, infix and postfix forms, initializers | reads tokens, returns trees to the statement parser | the tree is the one precedence and associativity give, no token is read past the end, parsing ends |
| Declaration, statement and type parser, `Archive/src/Parser.cpp` | tokens, index, `defined_types` | `parse_module`, `parse_function`, `parse_struct`, `parse_component`, `parse_statement`, `parse_type_decl`, ... | produces the AST | each declaration lands in the node it is written in; type names are unique |
| Type checker, `Archive/src/TypeChecker.cpp` | table, AST, the function being checked, a `CheckExprResult` per expression | `check_type`, `check_statement`, `check_expression` with a function per kind, array and struct initializers | reads the resolved AST | only what was declared mutable counts as mutable, literals fit where they go, initializers have the shape of their type, private members stay private, references are not nested |
| Lexer of the C++ compiler, `Archive/src/Lexer.cpp` | source, index, line, column, the text copied so far | `next_token`, `skip_trivia`, the `parse_*` functions | produces the token vector | tokens with their copied texts are the source, each ends where the longest does, lexing ends and asks for nothing past the end |
| Lexer of the C rewrite, `src/Lexer.c` | `src_str`, `src_idx`, `line`, `col` | `Lexer_get_next_token` and the `lex_*` functions it calls | returns tokens to its caller | tokens cover the source, are whole, bear true positions; no read past the end; lexing ends |
| AST of the C rewrite, `src/ASTDecl.c` | nodes owning nested types | constructors, printers | none yet | constructors leave no field unset, printing ends |
| Drivers, printers, build files | none | | | |

Two libraries are outside: the C++ standard library and, in the rewrite,
TundraContainers (a submodule, absent from the tree). The models use what the
calling code relies on (a dynamic string, a view of it, `at` with a check).

The behaviours that are hard to test, each with its line, are listed under
`hazards` in `PROJECT.json`. They fall into these groups:

* sequences of declarations whose kinds and order decide what may hide what, and
  which lookups a later declaration changes (builder, resolver);
* indices that agree in the common case and not in general: `scope_idx` and
  `created_scope_idx` of a module are the same for the global module only;
* flags carried through loops: use before declaration, escaped backslash, first dot;
* progress of every loop, at the end of the source in particular;
* precedence levels, associativity and brackets meeting in one recursion;
* results passed up through expressions (a type, an lvalue, mutability, the types a
  literal can still take on), each operator with its own rule of what it passes on;
* null pointees, empty optionals and wrapped depths that some nesting of types meets.

There are no threads, no timeouts, no messages and no recovery to model.

## 2. Plan

In order of importance; all of these are written, checked and, where said, proved about.

1. `SymbolTable` (builder) and its proofs: the table is what all later phases trust.
2. `SymbolResolver` on top of it (it EXTENDS the builder's module: the resolver
   runs on the tables the builder really makes), against the abstract `NameLookup`.
3. `Lexer` of the C rewrite.
4. `ExpressionParser`, against a declarative meaning of a token sequence.
5. `DeclarationParser`: modules (with the `A::B` chains), functions, structs,
   components, statements and types, with `defined_types`; the builder's walk takes
   its AST for granted.
6. `Types` and `TypeChecker`: the checks of whole function bodies, against what the
   declarations say (mutability, sizes, visibility) and what the literals are worth.
7. `ArchiveLexer`, beside `Lexer`: the two share no code, and differ in what becomes
   of a token's text and of the end of the file.

Each of these modules has proofs (section 5), except `Types`, which is
operators only, and `NameLookup`, the abstract specification. Every safety property a
passing run checks is proved.

## 3. Modules and how they correspond to the code

`PROJECT.json` maps every definition to the lines it models. Indices start at 1
in the modules and at 0 in the code; 0 stands for an empty `std::optional`.

### SymbolTable

`symbols` and `scopes` are the two vectors of the table. The recursion of the
`build_*` functions is the variable `stack`: a frame is the loop of one active
call over the children of one AST node. The AST is not a constant. An action
visits the *next* child of the node on top, which may be any child the grammar of
`Parser.cpp` allows there, so one behaviour is the walk over one AST, and all
ASTs (within the bounds) are covered. `AddBuiltinSymbol` is one round of
`add_builtin_symbols`; `BuildField` ... `BuildElseBlock` are the cases of the
declaration loops and of `build_statement`; `Return` is the end of a loop.
`chain[s]` is the set of scopes a walk up the parent pointers of `s` visits; it
is kept as the scopes are made, so that it needs no recursion, and `ScopeTree`
states that it agrees with the parent pointers.

An `exit(1)` is the status `"exited"`. Two unchecked `static_cast`s, of a symbol
to a module (`SymbolTBlder.cpp:575`) and of a statement to a variable declaration
(line 236), are undefined for anything else; they are the statuses
`"module_cast"` and `"for_cast"`, in which the model stops.

The one guard that comes from another phase is `IsNewType`: the parser's
`handle_register_type` has already made sure that the names of structs and
components are unique in the program and differ from the builtins'.

### SymbolResolver and NameLookup

The resolver changes nothing a lookup reads. A behaviour therefore picks one
identifier at some point of the builder's walk (`MeetInStatement`, `MeetInFor`,
`MeetInField`, `MeetInSignature`; `use` records the scope the resolver will pass
for it and the scope it is written in), lets the builder finish, and then runs
`find_symbol_idx` loop by loop: `StartLookup`, `FoundInScope`, `ClimbToParent` for a
single name, `EnterModule`, `EndOfPath` for a path. Source positions are counted in
declarations, which orders them as line and column do.

`NameLookup` is the promise: a question is answered once, by the meaning of the
identifier in the finished table, and it is answered. `KeepsPromise` is the
refinement: the climbing loop with its flag implements it, with
`MeaningOfName`/`MeaningOfPath` as the meaning, which are read off the whole table at
once: the greatest of the scopes around that bind the name (`Binders`, `Innermost`),
refused when it comes later and only bodies lie between (`SameFunction`); the symbols at
the ends of all trails of scopes that a path leads along (`Trails`, `EndsOf`). Neither
climbs, descends or keeps a flag. `Answered` maps the ways in which a path can fail to one.

### Lexer

One action per round of a loop of `Lexer_get_next_token` and the functions it
calls; `mode` names the loop. A unit of the source is a character, or a run of
letters the lexer has a case for (`fn` for all keywords, `true`, `null_ptr`), so
offsets and columns count units. A token keeps the bounds of its view and not its
text; the id of an operator is written as `Token.h` spells it in its comments.
Error messages with `exit(-1)` are `"exited"`; the internal error of `peek` past
the end is a mode of its own, `"peeked_past_end"`.

### ExpressionParser

`at` is the point reached in the active call, `stack` the calls that wait for an
expression, `lhs` the tree parsed so far. Tokens come into being when they are
first looked at (`NextToken`), which makes the behaviours the parses of all sources
in a vocabulary. `"x"` is any identifier, `"1"` any literal and `"#cast<T>"` a
whole cast directive with its type (types are in `DeclarationParser`). `Meaning` is the
reference: it finds the root of a span of tokens from precedences and brackets,
without a stack or a least precedence. Its operators take the source as a parameter,
because the proof is about sources that have more tokens than have been looked at.

### DeclarationParser

The rest of `Parser.cpp`. The active calls are the sequence `todo`: what is left of
the body of each function, the innermost first. An action takes the first item and
puts in its place what the function does on the token it sees; a token that must
come is an item that `Expect` takes. `ast` holds the nodes in the order they are
begun, each with the node it goes `into`, its position and its visibility; `open` is
the chain of nodes being filled. The code hangs a node into its parent when the call
returns; that parent is settled when the call is made. `type` is the kind of the
type last returned, which the initializer of a variable depends on.

An expression is one token and so is an initializer in braces: the sources are those
in which expressions are spelled so, and a token that only an expression could begin
with is refused where the code would parse it. Besides `"done"` and `"exited"` a
parse may end as `"null_type_read"` (a null type followed, line 535) or
`"bad_optional_access"` (the size of an array, line 1506).

The references for `NestingIsTrue` and `PublicAsMarked` read the tokens alone:
`Bracket` finds the brace or parenthesis around a token, `Parent` the node it
belongs to, `IsMarked` the `pub` before it.

### Types and TypeChecker

A `TypeDecl` has at most one other under it, so a type in `Types` is the sequence of
its layers, outermost first; a null `TypeDecl`, which is what a builtin pointer points
to, is the empty sequence. `Compared` is `cmp_types` with its third outcome, a null
pointer followed (`TypeChecker.cpp:588`); `Acceptable` is the set of types a literal can
take on.

`TypeChecker` walks the declarations of a symbol table that is a constant; the bodies of
the functions come into being as the checker meets them, so the behaviours are the
checks of all bodies in a vocabulary. The recursion of `check_expression` is `stack`: a
frame is a call that waits for a child, `parts` the results of the children it has had,
and an action is what the code does between two of them. `result` is the
`CheckExprResult` just returned, which also remembers the node it is for and the results
under it: the properties compare it with what was declared down there. A node is met
before its children, so an error the code raises before it looks at the right side of
an assignment comes before the right side exists.

Only what the code handles is accepted: of the statements, expressions, returns and
variables; no call, since `get_func_decl` (line 1361) asks the callee to be of two kinds
at once. What the build does where the code has no answer has a status of its own:
`"null_pointer"`, `"bad_optional_access"` (the value of an empty optional),
`"bad_cast"` (a declaration cast to a field that is none) and `"out_of_range"` (`at` on
the sizes of an array that has none). `UINT8_VALUES` scales the depth of initializers,
which wraps, down from 256 to 4.

Two things the model shows that no property is about: a reference is not stripped
before a comparison, a shift, a logical operator or a member access, so that `self.v` on
a receiver, which is always a reference, is always refused; and line 885 of
`ASTDeclarations.hpp` is a stray `3`, which was read as absent.

### ArchiveLexer

One action per round of a loop, and one per branch of `next_token`; `mode` is where the
lexer is, `t` the token it is copying the text of. The text of an operator stays empty
in the code, so the id of its token is the spelling. A call to `peek` past the end is
the mode `"peeked_outside"`, every other `exit(1)` is `"exited"`.

Where the lexer looks at the end of the file is the difference to the rewrite: a file
may not end in a zero (`handle_unexpected_eof` before the prefix is asked for), in `/`,
`-` or any operator with a longer form (`peek` without a question), or in a quote.
`LexingEnds` shows that a newline at the end of the file is enough to be spared that.

### MC modules

The modules `MC...` only give values to constants. `MCTypeChecker` holds the symbol
tables: local variables of every kind of type, a struct and one with a struct inside, a
component with private members used from inside it, deeper, around it and below, and
declarations that are refused.

## 4. Runs

| Run | Bounds | What it shows |
|---|---|---|
| `symbol_table` | 4 names, two of them builtin (`i32` and its alias `int`); 6 symbols, 4 scopes, 4 nested calls | every walk keeps the table consistent, and nothing is replaced |
| `symbol_resolver` | 3 names, 1 builtin; 5 symbols, 4 scopes, 4 nested calls; paths of 1 to 3 names | every identifier of every such program resolves to its meaning, locals after their declaration, and each lookup ends |
| `type_checker` | ten vocabularies of 10 to 27 nodes; bodies of up to 5 or 6 nodes | mutability, lvalues, literals, shapes and visibility are as declared in every accepted expression, and the undefined outcomes happen only where they are described |
| `archive_lexer` | all files of up to 2 to 5 units, in six mixes | the tokens and their texts are the file, each is the longest, and lexing ends without a peek outside a file that ends in a newline |
| `lexer` | all sources of up to 4 units from 12 and from 15, and up to 5 from the units of quoted literals | positions, coverage, wholeness, no read past the end, termination |
| `expression_parser` | ten vocabularies, up to 7 to 9 tokens | the tree is the declarative meaning, the end is not consumed, termination |
| `declaration_parser` | thirteen bags of 10 to 27 tokens; a source takes its tokens from one of them | nodes land where they are written, visibility is as marked, the builder can walk the AST, the end is not consumed, termination |

Why the bounds are enough to meet the interesting cases. The table has room for
the global module, one or two builtins and three or four declarations: a
declaration, another of its name in an inner scope and one in an outer scope after
it; a module, its second definition and a declaration in between. Four scopes are
the global one, a function, a block in it and one beside it, so both climbing and
sibling scopes occur; a path of three names goes through two modules. Four units
let every operator of three characters be followed by another unit, and every
literal be cut off by the end at each of its points; five units hold a string with
two escapes. Nine tokens are the nested ternary `x ? x : x ? x : x` in either
position; seven hold three binary operators of mixed levels; every form of postfix,
bracket and initializer fits with an operator around it. The bags of
`MCDeclarationParser` limit how often each token occurs instead of the length: two
nested chains of modules, containers in containers, two `if`s with two `else`s, a
`for` in the body and in the init of a `for` all fit, and a source cut off or wrong
at any token is included. A body of six nodes is an assignment through a
dereferenced ternary, a sum of three literals in an initializer, or an initializer in
braces of two levels and one value too many. The files of five units hold a
string with two escapes or a number with a prefix, a dot and a sign; the mixes of one
or two units have every operator beside every other.

Deadlock is checked in all of them: the states in which a program has ended have
a step that changes nothing (`Ended`, `Settled`), and no other state may lack one.

Each property has a mutant in `PROJECT.json`: a changed form of a mapped
definition, as a plausible slip in that code would be (a parent pointer left
unset, a check dropped, a flag kept, an associativity ignored), under which the
property fails in its own run.

### Where the code and its comments disagree

Each of these runs checks one property that a comment of the code states and
that the code breaks; `findings` in `PROJECT.json` quotes the lines.

| Run | Disagreement |
|---|---|
| `reopened_module` | a module defined again adds its declarations to the scope *around* the module (`SymbolTBlder.cpp:581`) |
| `for_variable` | the condition and increment of a `for` do not see its variable (`SymbolResolver.cpp:246`) |
| `module_chain` | the declarations of `module A::B { ... }` go to `A`, and `B` stays empty (`Parser.cpp:333`) |
| `lexer_string_escape` | a string that ends in an escaped backslash is not ended by its quote (`Lexer.c:390`) |
| `ref_to_ref` | `$r` of a reference `r` is a reference to a reference (`TypeChecker.cpp:1935`), for the reason given for avoiding one |

More are in the models without a run of their own. A `for` without an init,
condition or increment dereferences null (`SymbolResolver.cpp:245`; the verdict
`"null_pointer"` of `SymbolResolver`). Another is named by no comment: the types in
the signatures of a module's functions are looked up in the scope *around* the module
(`SymbolResolver.cpp:36`; `MeetInSignature`), where the types declared beside the
functions are not found, while those of fields are looked up inside. (Functions of a
component are treated alike, where it makes no difference: components are skipped.) The C lexer gives `^=` the id of `|=`
(`Lexer.c:654`; `OperatorId` of `Lexer`), and takes `null_ptr_x` for the literal
`null_ptr` and `true_x` for `true` (`Lexer.c:281` and 291; `LexIdent`).

The properties of the passing runs hold *with* these behaviours in the model:
`FramesNest`, for instance, has a third case for a reopened module, and `NestingIsTrue`
puts the body of a chain of modules into the first of them (`Filled`).

### Fairness

The phases are sequential loops with no waiting, so a phase that can take a step
takes it: weak fairness of the phase's own actions (`Resolve`, `GetNextToken`,
`NextToken`, the parsers' `Step`), and of nothing else. The builder's walk in `SymbolResolver` has no
fairness, since the AST it walks is an arbitrary choice; liveness there is about
the lookup, once it has begun. The type checker has none: its walk follows a finite tree,
which in the model is finite by the bound alone, so that it ends would show nothing.

## 5. Proofs

Each module of proofs is about one component (`SymbolProofs` about the builder and then
the resolver, whose proof goes on from the builder's invariant; the declaration parser has
two), and holds for all values of its constants:
sources and bodies of every length, tables and bounds of every size, where the runs
have small ones. The shape is the same everywhere. An inductive invariant is found
that says what the properties leave out. The steps of the program are sorted by *kind*,
each with a lemma of what it keeps; there is a lemma per action, which finds the action to
be one of these kinds; and the properties follow from the invariant. No assumption is made
but those the specifications state about their constants, which TLC evaluates in every run.

`SequenceFacts` holds what all of them need of sequences, place by place: of `Append`,
`SubSeq`, `\o`, `Head`, `Tail` and `ToSet`, for sequences of anything (`IsSeq`).

### SymbolProofs: the builder

Proved, for every set of names, every builtin table and all
bounds, of `Spec` of `SymbolTable`:

* `TypeCorrect` - every stored index is that of an existing symbol or scope;
* `ScopesFormATree` - parent pointers lead to older scopes, so upward walks end;
* `TableIsConsistent` - names lead to symbols that say they are there, and each
  symbol but the global module is bound exactly once;
* `ScopesHaveOneOwner` - an owner and the scope it created point at each other;
* `VariablesNeverHideEarlier` - a variable hides no earlier declaration;
* `CallsNestAsScopes` - active calls nest as the scopes they work in;
* `NothingIsReplaced` - the action property that bound names and symbols are never
  changed.

Assumptions: `BuiltinAssumption` (the builtin names are distinct identifiers, and
`int` comes after `i32`) and
`BoundAssumption` (the bounds are natural numbers; the proofs use nothing else of
them). TLC evaluates both in the runs.

None of these invariants is inductive alone: that a declaration keeps the bindings
in agreement needs the scope of the frame on top to exist, that it goes into the
right scope needs the frames to nest, and so on round. `IInv` is their conjunction
and what they rest on besides (`Bookkeeping`): a module's symbol knows the scope it
is in, which is where a reopened one is looked for; a frame over parameters works in
a function's scope; the entry of `i32` is the symbol of `i32`, to which `int` is
bound; and while builtins are added there is one scope, in which the names still to
come are free. The step of the proof that matters is that of a
declaration, so the argument is laid out by *kind of step* first: `LeafStep` for any
symbol without a scope of its own, `OwnerStep` for any with one, `OpenStep` for a
body with a new scope, `BuiltinStep` for a builtin, `StackStep` for a push or a pop
alone, `StopStep` for an exit. `NextIInv` then goes through the actions one by one
and finds each to be one of these. `BindFacts` and `AppendFacts` say once what
an update and an append do.

### SymbolProofs: the resolver

Proved of `ResolverSpec`, for every table the builder can make: `ResolverTypeOK`,
`ModulePositionNeverNeeded`, `NoUseBeforeDeclaration`, `ResolvesToItsName`, and
`LookupIsMeaning`, that the lookup implements `Safety` of `NameLookup`: the initial
states map to its initial states and every step of `find_symbol_idx` to a stutter or
to the one answer, which is what the identifier means.
The one assumption beside the builder's is `PathsAssumption`: paths are not empty and
consist of names, which is what the parser makes.

`RInv` takes over the builder's `IInv`, which the walk goes on changing until
the lookup starts, and adds `Placement`: what a resolver relies on and no
property of the builder says (only modules lie around a module, builtins are in the
global scope, climbing meets the scopes above one in the order of their indices).
Of the lookup it says what the loops have already established: `NameSearched`, that
every binding of the name below the scope reached has been passed, and that the flag is
set exactly while the search has not left the function; `PathFollowed`, that every
trail the path leads along goes through the scope reached. Without either, that
the loop stops with the *innermost* binding or the end of *the* path
would be a fact about the last step only.

### LexerProofs

Proved of `Lexer`: `TypeOK`, `NeverPeeksPastEnd`, `PositionsAreTrue`,
`TokensCoverTheSource`, `TokensAreWhole`. Assumed: sources are sequences of units
(`SourcesAssumption`). `LInv` has four parts. `Cursor`: the line and column are those
of the next unit. `Current`: what has been lexed of a token, loop by loop, e.g. that
a number has as many dots as the flag says and that a loop that does not ask
for the end has a unit before it, which is what makes `peek` safe. `Returned`: each token is
sound. `Covered`: only trivia lies between the last token and the current one, a comment
being trivia from its two slashes on. The steps are those that go on, skip, begin a token,
take a unit, return or exit.

### TypeCheckerProofs

Proved of `TypeChecker`: `TypeOK`, `FailsOnlyOn`, `NoPointerToReference`,
`LvaluesAreObjects`, `MutableAsDeclared`, `PrivateStaysInside`, `LiteralsFit` and
`ShapeMatches`, all its safety properties. Assumed:

* `BoundsAssumption`: a `uint8_t` has a value, the bounds on nodes are numbers;
* `NodesAssumption`: the nodes are those the parser makes (lists in braces and subscripts
  are not empty, a cast has a written type, an identifier has been resolved);
* `DeclarationsAssumption`: containers hold declarations, and what is used has a type its
  declaration was accepted with. The last leaves programs aside that are refused anyway:
  the checker walks all declarations, and one with an illegal type ends it, if not before
  then after the use;
* `ScopesAssumption`: what is declared in a scope is in its container, and a container has
  one field of a name, as `TableIsConsistent` proves of the builder's table.

`TCInv` says of the stack (`StackFits`) that it is a walk over declarations and at most one
function's body, that a call waiting for the value of a field has a field to wait
for, and that a created struct is followed by its initializer; and of each
result under way that its type is *derived* (`IsDerived`): a reference lies in an
array or below nothing but references, a literal's layer below nothing, and
only a dereferenced string has no type at all (`NullIsOfString`). What is an lvalue has
moreover the type of an object (`IsObject`): no literal's layer, and a reference only
outermost or in an array. It is this one that keeps `&` from pointing to a
reference and a literal from being mutable. The first four properties follow from it.

The other four are about all that lies under a result, and rest on a second
invariant, `GInv`. A result `IsGood` within a depth if, so many results down, what it
may stand for was declared mutable if it is, its literals all have the types it may
still take on, and what it uses is used inside. The depth is what an induction over the
tree of a result would go over, and the bound on the nodes of a body has to be
enough for it; so every call that waits has a *room*, a number of operators that the
results it has taken stay within. An operator leaves one less than the call below it has,
the outermost call has no more than the nodes met so far, and meeting an operator,
which adds a node, makes room for it (`RoomsFit`, `HasRoom`). `ArrayHolds` and `IsLinked`
do the same for initializers of arrays: one is met only by a call that waits for it, at the
depth that call waits for, and `IsShaped` from there down. `StatementHolds` is what a
statement still is when the function has taken it.

The levels under a result, and the scopes around one, are recursive functions. The
library's induction over numbers cannot be used (it takes an operator), so `AllNat` gets
it from the least element a set of numbers has, and `Repeats` shows once, for
all the recursions used, that such functions exist and agree.

The proof found one flaw, in the model: two arms of the `CASE` in `ArithType` overlapped,
so that for two literals the formula did not say which one counts (TLC takes the
first). It is a chain of `IF` now, as in the code.

### DeclarationParserProofs

Proved of `DeclarationParser`: `TypeOK`, `EndIsNeverConsumed`, `PublicAsMarked`,
`BuilderMayWalk`; the last is what the builder's model takes for granted of the AST it
walks, apart from the names. Nothing is assumed of the vocabularies.

`DInv` relates the three sequences the parser's state is made of. `CallsFit`: what the
active calls have left to do can be divided into levels, one per open node and an
`"end"` where each stops, and every item is in a node whose loop has a case for what the
item adds (`InPlace`). Some items are only ever the *next* one (`HeadOnly`), because
they rely on the token just read: `MarkFits` says that the flag `is_pub` is then the
mark in the tokens, `TokenFits` which token it was, and `NamesFit` that a type's name
is registered right after its node is made, so that no two nodes have the same.
`ChainFits` is about `A::B` alone, whose nodes hang where the code hangs them. An
action replaces the first item by others, begins a node or ends one; what each
of these keeps is proved once.

### DeclarationNestingProofs

Proved of `DeclarationParser`: `NestingIsTrue`, on top of `DInv`. The property counts the
brackets of the tokens from the left; the parser never does, it goes by the calls it is in.
`NInv` is the bridge. For every place up to the current token it has the brackets open there
(`IsStacks`, which is proved to be what the property computes, by induction on the
place), every node made so far is where the property wants it (`NodesNest`), and
each call that is left has two numbers: how many of the open nodes it is inside
(`LevelsUp`) and how many brackets will be open when it is come back to (`DepthsFit`). What
ties the two together is `Placed`: in that bracket, an item that makes nodes adds to the node
the bracket is the body of (`Holder`), a body that is still to begin belongs to the node
made last there (`Latest`), an `else` to the `if` made last there (`LatestIf`). For the
last two it matters that no other node comes between: whatever may make one is deeper than
all that waits below it for the node made last. The calls are counted from the bottom,
so that the numbers of a call stay while others are pushed above it, and a step is one
lemma (`Pushed`): the next item is replaced by others, at most one token is read, at most
one node is made.

Two things had to be known besides. A parenthesis opens a bracket unless it is one
of the two of a function's type, and the parser decides that by where it is, the property
by the tokens before; `HInv` says what the tokens before the next item are, and
which items may follow each other, so that the two agree. And a function's type is never
accepted: it must be and must not be followed by an arrow. The parse is then
`Doomed`, its brackets no longer match the calls, and what is proved of it instead is that
no other node is made before the error.

### ExpressionParserProofs

Proved of `ExpressionParser`: `TypeOK`, `EndIsNeverConsumed` and `TreeIsMeaning`. Nothing is
assumed of the vocabularies or of their bound. `EInv` says of every call that waits how many trees its
kind may hold there (`FramesFit`) and of every point of a call what is there when it is
reached (`PointFits`): a tree to go on with, the call whose list is being parsed, the
token that is looked back at. That a call is found when one returns, and the
right one, is what makes `TypeOK` more than a statement about domains.

`TreeIsMeaning` compares two things that have nothing in common: the reference looks at a
whole span, finds its root and cuts it there; the parser goes from left to right and
never sees a span. `MInv` says what the one has to do with the other at every point.
The module has it in four parts.

* Spans. What brackets do when a span is cut or joined (`Depth`, `Even`, `Group`,
  `OutsideJoins`), which operators are then outside of all brackets (`InfixJoins`) and
  which of them is the root (`RootIs`). `Meanings` is a recursive function over spans;
  that there is one, and that it is the `Reading` of the spans inside, is shown by
  induction on the size of a span (`MeaningsStep`, `MeaningsAre`), built on the least
  element of a set of numbers because the library's induction cannot be used.
* Expressions. A span `Fits` a least precedence if its brackets match, no comma is
  outside them, every operator outside them binds tighter than that, and the token behind
  the span binds no tighter than what the span ends in would take; `Reads` says in addition
  that a tree is its meaning. One lemma for each way the parser makes a tree says that the
  joined span fits and what it reads as. The hard one is `InfixFits`, which is where the
  recursion with `MinRhsPrec` has to agree with the choice of the root: of operators
  of one precedence the rightmost is the root if they associate to the left, and the
  leftmost if to the right, and no precedence has both (`LevelsAgree`). Lists and runs of
  subscripts are read one item at a time (`NextItem`, `ItemRead`, `RunGrows`).
* Calls. Each call that waits began at a place and has read what it holds from there
  (`Waits`), and the call above it was asked for the part that is missing, with the
  precedence that part needs (`Chain`, `PartMin`). `PState` adds the active call: what it
  has parsed is what was read since it began.
* Steps. One lemma per action. `MInv` speaks not of the tokens looked at but of every source
  that goes on as they do (`Extends`): whether a span fits depends on the token behind it,
  which may not have been looked at, and nothing that comes may change what was read
  before. Looking at one more token then leaves fewer sources to speak of and
  changes nothing else. `TreeIsMeaning` is `MInv` of the tokens themselves, once
  the first call has returned.

TLC checks `TreeIsMeaning` itself and `EInv`'s consequences; `MInv`, which ranges over
all sources, is beyond it.

### ArchiveLexerProofs

Proved of `ArchiveLexer`: `TypeOK`, `TokensSpellTheSource`, `TokensAreWhole`. Assumed: sources
are sequences of units (`SourcesAssumption`). The tokens of this lexer do not know where they
stand: a token has a line, a column and a copy of its text. `Scene` therefore says that
there *are* `places` at which the tokens lie one behind the other, each text copied from its
place, only trivia in between (`Gap`), and a `start` from which the current text is
copied (`Begun`); that a line and a column belong to one unit only (`OnePlace`) turns
this into what the properties state. `Shape` has what each loop knows of its text
(`TextFits`): the parity of the backslashes at the end of a string, the one dot of a number,
that a `-` which became an operator had no digit after it. `Cursor` and `Finished` are about
the counters and the last token.

The proof found one flaw, in the model: two arms of the `CASE` in `NeverAfter` overlapped,
so that the formula did not say which one counts (TLC takes the first). They are
disjoint now.

## 6. What is only model-checked

* All liveness, which is out of the prover's reach: `KeepsPromise` (its second half),
  both `LexingEnds`, both `ParsingEnds`.
* The properties of the five runs that expect a violation, which are false.

## 7. What is not modelled

* The AST of the C rewrite (`ASTDecl.c`): constructors of types and a printer for
  them. Nothing in the repository calls either yet, so there is no state the program
  can be in to start a model from. Read as it stands, the printer would not do: the
  loop of `stdout_lit_type` (line 252) has no end but the check in `at`, and an opaque
  pointer, which "does not point to a type" (`ASTDecl.h:69`), meets the assertion
  against null in `stdout_type`.
* Text: names, literals' values, messages and the positions kept only for
  messages.
  Of a literal's value only whether it is an integer and not 0 (`expr_to_u64`), and,
  in the type checker, its sign and the length of it in binary. The texts of messages
  include `print_type`, which follows null pointees too.
* `ast_node_ptrs` of module symbols: written by the builder and read by no
  decision of the phases modelled.
* Drivers, printers and build files, which keep no state and decide nothing.
* Memory exhaustion and the overflow of 32- and 64-bit indices: no source of
  practical size reaches them.
