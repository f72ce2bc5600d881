---------------------------- MODULE SymbolProofs ----------------------------
(***************************************************************************)
(* Proofs about the symbol table builder, for every set of names, every    *)
(* builtin table and every bound; and then about the symbol resolver, which*)
(* runs on the table the builder hands on, for every set of paths as well. *)
(***************************************************************************)
EXTENDS SymbolResolver, SequenceTheorems, TLAPS

----------------------------------------------------------------------------
(* The builder (SymbolTable).                                               *)
(*                                                                          *)
(* What the invariants rest on besides each other: a module knows the scope *)
(* it is in (a reopened one is looked for there); i32's entry is i32's      *)
(* symbol; parameters are added to a function's body scope; and while the   *)
(* builtin names are added there is one scope, in which those to come are   *)
(* still free.                                                              *)
Bookkeeping ==
  /\ Len(scopes) >= 1 /\ Len(symbols) >= 1
  /\ symbols[1].created_scope_idx = 1 /\ symbols[1].scope_idx = 1
  /\ \A k \in SymbolIds : symbols[k].sym_type = "MODULE" => symbols[k].scope_idx # 0
  /\ \A k \in SymbolIds \ {1} : symbols[k].name \in Names
  /\ "i32" \in BuiltinNames /\ builtin_to_symbol_id["i32"] # 0 =>
       LET k == builtin_to_symbol_id["i32"]
       IN  k # 1 /\ symbols[k].sym_type = "BUILTIN" /\ symbols[k].name = "i32"
  /\ \A i \in DOMAIN stack : stack[i].node = "PARAMS" =>
       scopes[stack[i].scope].owning_symbol_type = "FN"
  /\ next_builtin <= Len(ReadableToBuiltin) =>
       /\ Len(scopes) = 1
       /\ \A i \in next_builtin .. Len(ReadableToBuiltin) :
            scopes[1].sym_idx[ReadableToBuiltin[i]] = 0

IInv ==
  /\ TypeOK
  /\ ScopeTree
  /\ BindingsAgree
  /\ OwnersAgree
  /\ VariablesHideNothingEarlier
  /\ FramesNest
  /\ Bookkeeping

(* What TableOnlyGrows says of a step. *)
Grows ==
  /\ \A s \in ScopeIds, n \in Names :
       scopes[s].sym_idx[n] # 0 => scopes'[s].sym_idx[n] = scopes[s].sym_idx[n]
  /\ \A k \in SymbolIds : symbols'[k] = symbols[k]

(* The initial table satisfies the invariant. *)
LEMMA InitIInv == Init => IInv
<1> SUFFICES ASSUME Init PROVE IInv
  OBVIOUS
<1> USE DEF Init, Symbol, Scope, Frame, SymbolIds, ScopeIds
<1>0. ReadableToBuiltin \in Seq(Names)
  BY BuiltinAssumption
<1>1. TypeOK
  <2>1. symbols \in Seq(SymbolRecords) /\ scopes \in Seq(ScopeRecords)
        /\ stack \in Seq(FrameRecords) /\ chain \in Seq(SUBSET Nat)
    BY DEF SymbolRecords, ScopeRecords, FrameRecords, SymbolTypes, ScopeTypes, Nodes
  <2>2. builtin_to_symbol_id \in [BuiltinNames -> {0} \cup SymbolIds]
    OBVIOUS
  <2>3. next_builtin \in 1 .. (Len(ReadableToBuiltin) + 1)
    BY <1>0
  <2> QED
    BY <2>1, <2>2, <2>3 DEF TypeOK, Statuses
<1>2. ScopeTree
  BY DEF ScopeTree
<1>3. BindingsAgree
  BY DEF BindingsAgree, NamesLeadToSymbols, SymbolsAreBoundOnce
<1>4. OwnersAgree
  BY DEF OwnersAgree, OwnersMatch, OwnersAreUnique, ParametersInBodies
<1>5. VariablesHideNothingEarlier
  BY DEF VariablesHideNothingEarlier
<1>6. FramesNest
  BY DEF FramesNest
<1>7. Bookkeeping
  <2>1. \A i \in DOMAIN ReadableToBuiltin : ReadableToBuiltin[i] \in Names
    BY <1>0
  <2> QED
    BY <1>0, <2>1 DEF Bookkeeping
<1> QED
  BY <1>1, <1>2, <1>3, <1>4, <1>5, <1>6, <1>7 DEF IInv

(* Binding a name changes that entry of that scope and nothing else.         *)
LEMMA BindFacts ==
  ASSUME NEW scs \in Seq(ScopeRecords), NEW s0 \in 1 .. Len(scs),
         NEW n \in Names, NEW k \in Nat
  PROVE  /\ Bind(scs, s0, n, k) \in Seq(ScopeRecords)
         /\ Len(Bind(scs, s0, n, k)) = Len(scs)
         /\ \A s \in 1 .. Len(scs) :
              /\ Bind(scs, s0, n, k)[s].owning_symbol_type = scs[s].owning_symbol_type
              /\ Bind(scs, s0, n, k)[s].parent_scope_idx = scs[s].parent_scope_idx
              /\ \A m \in Names : Bind(scs, s0, n, k)[s].sym_idx[m] =
                    IF s = s0 /\ m = n THEN k ELSE scs[s].sym_idx[m]
<1> DEFINE r == [scs[s0] EXCEPT !.sym_idx = [scs[s0].sym_idx EXCEPT ![n] = k]]
<1>1. Bind(scs, s0, n, k) = [scs EXCEPT ![s0] = r]
  BY DEF Bind
<1>2. scs[s0] \in ScopeRecords
  OBVIOUS
<1>3. /\ r \in ScopeRecords
      /\ r.owning_symbol_type = scs[s0].owning_symbol_type
      /\ r.parent_scope_idx = scs[s0].parent_scope_idx
      /\ \A m \in Names : r.sym_idx[m] = IF m = n THEN k ELSE scs[s0].sym_idx[m]
  BY <1>2 DEF ScopeRecords
<1> HIDE DEF r
<1> QED
  BY <1>1, <1>3

(* Appending adds the last element and keeps the others.                     *)
LEMMA AppendFacts ==
  ASSUME NEW S, NEW q \in Seq(S), NEW e \in S
  PROVE  /\ Append(q, e) \in Seq(S)
         /\ Len(Append(q, e)) = Len(q) + 1
         /\ Append(q, e)[Len(q) + 1] = e
         /\ \A i \in 1 .. Len(q) : Append(q, e)[i] = q[i]
         /\ 1 .. (Len(q) + 1) = (1 .. Len(q)) \cup {Len(q) + 1}
         /\ Len(q) + 1 \notin 1 .. Len(q)
OBVIOUS

(* The parts of the invariant on indices, with the sequences out of the way. *)
LEMMA Ranges ==
  ASSUME IInv
  PROVE  /\ symbols \in Seq(SymbolRecords) /\ scopes \in Seq(ScopeRecords)
         /\ stack \in Seq(FrameRecords) /\ chain \in Seq(SUBSET Nat)
         /\ Len(symbols) \in Nat /\ Len(scopes) \in Nat /\ Len(stack) \in Nat
         /\ Len(chain) = Len(scopes)
         /\ 1 \in ScopeIds /\ 1 \in SymbolIds /\ Len(stack) \in DOMAIN stack
         /\ Top.scope \in ScopeIds /\ Top \in FrameRecords
         /\ \A s \in ScopeIds : s \in chain[s] /\ chain[s] \subseteq ScopeIds
         /\ \A s \in ScopeIds, n \in Names : scopes[s].sym_idx[n] \in {0} \cup SymbolIds
         /\ \A k \in SymbolIds : symbols[k].created_scope_idx \in {0} \cup ScopeIds
<1>1. TypeOK /\ ScopeTree /\ Bookkeeping
  BY DEF IInv
<1>2. /\ symbols \in Seq(SymbolRecords) /\ scopes \in Seq(ScopeRecords)
      /\ stack \in Seq(FrameRecords) /\ chain \in Seq(SUBSET Nat)
      /\ Len(symbols) \in Nat /\ Len(scopes) \in Nat /\ Len(stack) \in Nat
      /\ Len(chain) = Len(scopes) /\ stack # <<>>
  BY <1>1 DEF TypeOK
<1>3. 1 \in ScopeIds /\ 1 \in SymbolIds /\ Len(stack) \in DOMAIN stack
  BY <1>1, <1>2 DEF Bookkeeping, ScopeIds, SymbolIds
<1>4. Top.scope \in ScopeIds /\ Top \in FrameRecords
  BY <1>1, <1>2, <1>3 DEF TypeOK, Top
<1>5. \A s \in ScopeIds : s \in chain[s] /\ chain[s] \subseteq ScopeIds
  BY <1>1 DEF TypeOK, ScopeTree
<1>6. /\ \A s \in ScopeIds, n \in Names : scopes[s].sym_idx[n] \in {0} \cup SymbolIds
      /\ \A k \in SymbolIds : symbols[k].created_scope_idx \in {0} \cup ScopeIds
  BY <1>1 DEF TypeOK
<1> QED
  BY <1>2, <1>3, <1>4, <1>5, <1>6

(* The parts of the invariant about the builtin types.                       *)
BuiltinsOK ==
  /\ builtin_to_symbol_id \in [BuiltinNames -> {0} \cup SymbolIds]
  /\ type_symbol_ids \subseteq SymbolIds
  /\ builtin_symbol_ids \subseteq SymbolIds
  /\ next_builtin \in 1 .. (Len(ReadableToBuiltin) + 1)
  /\ "i32" \in BuiltinNames /\ builtin_to_symbol_id["i32"] # 0 =>
       LET k == builtin_to_symbol_id["i32"]
       IN  k # 1 /\ symbols[k].sym_type = "BUILTIN" /\ symbols[k].name = "i32"
  /\ next_builtin <= Len(ReadableToBuiltin) =>
       /\ Len(scopes) = 1
       /\ \A i \in next_builtin .. Len(ReadableToBuiltin) :
            scopes[1].sym_idx[ReadableToBuiltin[i]] = 0

(* Declaring a symbol that owns no scope adds one symbol and one binding, of *)
(* the name n in the current scope.                                          *)
LEMMA LeafStep ==
  ASSUME IInv, NEW t \in SymbolTypes \ {"MODULE"}, NEW n \in Names,
         NEW where, where \in {0, Top.scope},
         NEW isVariable \in BOOLEAN,
         t = "VAR" => isVariable,
         t = "PARAM" => scopes[Top.scope].owning_symbol_type = "FN",
         ~IsDefined(n, Top.scope, isVariable),
         symbols' = Append(symbols, Symbol(t, n, where, 0)),
         scopes' = Bind(scopes, Top.scope, n, NextSymbol),
         UNCHANGED <<chain, stack, status>>,
         BuiltinsOK'
  PROVE  IInv' /\ Grows
<1> DEFINE s0 == Top.scope
           k0 == Len(symbols) + 1
           new == Symbol(t, n, where, 0)
<1>0. TypeOK /\ ScopeTree /\ BindingsAgree /\ OwnersAgree
      /\ VariablesHideNothingEarlier /\ FramesNest /\ Bookkeeping
  BY DEF IInv
<1>m. /\ \A k \in SymbolIds : symbols[k].sym_type = "MODULE" => symbols[k].scope_idx # 0
      /\ \A k \in SymbolIds \ {1} : symbols[k].name \in Names
      /\ \A i \in DOMAIN stack : stack[i].node = "PARAMS" =>
           scopes[stack[i].scope].owning_symbol_type = "FN"
      /\ \A i \in DOMAIN stack : stack[i].scope \in ScopeIds
  BY <1>0 DEF Bookkeeping, TypeOK
<1>1. /\ s0 \in ScopeIds /\ Len(symbols) \in Nat /\ Len(scopes) \in Nat
      /\ symbols \in Seq(SymbolRecords) /\ scopes \in Seq(ScopeRecords)
      /\ 1 \in ScopeIds /\ 1 \in SymbolIds
      /\ \A s \in ScopeIds, m \in Names : scopes[s].sym_idx[m] \in {0} \cup SymbolIds
  BY Ranges
<1>a. /\ new.sym_type = t /\ new.name = n /\ t # "MODULE"
      /\ new.scope_idx \in {0, s0} /\ new.created_scope_idx = 0
  BY DEF Symbol
<1>2. /\ Len(symbols') = k0
      /\ symbols'[k0] = new
      /\ \A k \in SymbolIds : symbols'[k] = symbols[k]
      /\ symbols' \in Seq(SymbolRecords)
      /\ SymbolIds' = SymbolIds \cup {k0}
      /\ k0 \notin SymbolIds
  <2>1. new \in SymbolRecords
    BY <1>1 DEF SymbolRecords, ScopeIds, Symbol
  <2>2. symbols' = Append(symbols, new)
    OBVIOUS
  <2> HIDE DEF new
  <2> QED
    BY <2>1, <2>2, <1>1, AppendFacts DEF SymbolIds
<1>3. /\ Len(scopes') = Len(scopes)
      /\ ScopeIds' = ScopeIds
      /\ scopes' \in Seq(ScopeRecords)
      /\ \A s \in ScopeIds :
           /\ scopes'[s].owning_symbol_type = scopes[s].owning_symbol_type
           /\ scopes'[s].parent_scope_idx = scopes[s].parent_scope_idx
           /\ \A m \in Names : scopes'[s].sym_idx[m] =
                 IF s = s0 /\ m = n THEN k0 ELSE scopes[s].sym_idx[m]
  <2>1. scopes' = Bind(scopes, s0, n, k0)
    BY DEF NextSymbol
  <2>a. /\ k0 \in Nat /\ s0 \in 1 .. Len(scopes) /\ n \in Names
        /\ scopes \in Seq(ScopeRecords)
    BY <1>1 DEF ScopeIds
  <2> DEFINE bound == Bind(scopes, s0, n, k0)
  <2> HIDE DEF s0, k0, new
  <2>2. /\ bound \in Seq(ScopeRecords)
        /\ Len(bound) = Len(scopes)
        /\ \A s \in 1 .. Len(scopes) :
             /\ bound[s].owning_symbol_type = scopes[s].owning_symbol_type
             /\ bound[s].parent_scope_idx = scopes[s].parent_scope_idx
             /\ \A m \in Names : bound[s].sym_idx[m] =
                   IF s = s0 /\ m = n THEN k0 ELSE scopes[s].sym_idx[m]
    BY ONLY <2>a, BindFacts
  <2>3. scopes' = bound
    BY <2>1
  <2> HIDE DEF bound
  <2> QED
    BY <2>2, <2>3 DEF ScopeIds
<1>v. \A s \in ScopeIds, m \in Names :
        /\ scopes[s].sym_idx[m] \in {0} \cup SymbolIds
        /\ s = s0 /\ m = n => scopes'[s].sym_idx[m] = k0
        /\ ~(s = s0 /\ m = n) => scopes'[s].sym_idx[m] = scopes[s].sym_idx[m]
  BY <1>1, <1>3
<1>4. s0 \in chain[s0] /\ scopes[s0].sym_idx[n] = 0
  BY Ranges DEF IsDefined
<1>b. chain' = chain /\ stack' = stack /\ status' = status
  OBVIOUS
<1>d. SymbolIds' = SymbolIds \cup {k0} /\ ScopeIds' = ScopeIds
  BY <1>2, <1>3
<1>c. k0 \in SymbolIds' /\ k0 # 0 /\ SymbolIds \subseteq SymbolIds'
  BY <1>1, <1>2
<1> HIDE DEF new, s0, k0
<1>5. TypeOK'
  <2>1. ASSUME NEW k \in SymbolIds'
        PROVE  /\ symbols'[k].scope_idx \in {0} \cup ScopeIds
               /\ symbols'[k].created_scope_idx \in {0} \cup ScopeIds
    <3>1. CASE k = k0
      BY <3>1, <1>1, <1>2, <1>a
    <3>2. CASE k \in SymbolIds
      BY <3>2, <1>0, <1>2 DEF TypeOK
    <3> QED
      BY <3>1, <3>2, <1>2
  <2>2. ASSUME NEW s \in ScopeIds
        PROVE  /\ scopes'[s].parent_scope_idx \in {0} \cup ScopeIds
               /\ \A m \in Names : scopes'[s].sym_idx[m] \in {0} \cup SymbolIds'
    <3>1. scopes[s].parent_scope_idx \in {0} \cup ScopeIds
      BY <1>0 DEF TypeOK
    <3>2. scopes'[s].parent_scope_idx = scopes[s].parent_scope_idx
      BY <1>3
    <3>3. \A m \in Names : scopes'[s].sym_idx[m] \in {0} \cup SymbolIds'
      BY <1>v, <1>c
    <3> QED
      BY <3>1, <3>2, <3>3
  <2>3. /\ chain' \in Seq(SUBSET Nat) /\ Len(chain') = Len(scopes')
        /\ \A s \in ScopeIds' : chain'[s] \subseteq ScopeIds'
    BY <1>0, <1>3, <1>b DEF TypeOK
  <2>4. /\ builtin_to_symbol_id' \in [BuiltinNames -> {0} \cup SymbolIds']
        /\ type_symbol_ids' \subseteq SymbolIds'
        /\ builtin_symbol_ids' \subseteq SymbolIds'
        /\ next_builtin' \in 1 .. (Len(ReadableToBuiltin) + 1)
        /\ status' \in Statuses
    BY <1>0, <1>b DEF TypeOK, BuiltinsOK
  <2>5. /\ stack' \in Seq(FrameRecords) /\ stack' # <<>>
        /\ \A i \in DOMAIN stack' : /\ stack'[i].scope \in ScopeIds'
                                    /\ stack'[i].sym \in {0} \cup SymbolIds'
    BY <1>0, <1>c, <1>3, <1>b DEF TypeOK
  <2> QED
    BY <2>1, <2>2, <2>3, <2>4, <2>5, <1>2, <1>3 DEF TypeOK
<1>6. ScopeTree'
  <2>1. scopes'[1].parent_scope_idx = 0
    BY <1>0, <1>1, <1>3, <1>b DEF ScopeTree, ScopeIds
  <2>2. chain'[1] = {1}
    BY <1>0, <1>b DEF ScopeTree
  <2>3. ASSUME NEW s \in ScopeIds \ {1} PROVE scopes'[s].parent_scope_idx \in 1 .. (s - 1) /\ chain'[s] = chain'[scopes'[s].parent_scope_idx] \cup {s}
    BY <1>0, <1>3, <1>b DEF ScopeTree
  <2>4. QED
    BY <2>1, <2>2, <2>3, <1>3 DEF ScopeTree
<1>7. BindingsAgree'
  <2>1. ASSUME NEW s \in ScopeIds, NEW m \in Names, scopes'[s].sym_idx[m] # 0
        PROVE  LET k == scopes'[s].sym_idx[m] IN
               \/ symbols'[k].name = m /\ symbols'[k].scope_idx \in {0, s}
               \/ m = "int" /\ symbols'[k].name = "i32" /\ s = 1
    <3>1. CASE s = s0 /\ m = n
      BY <3>1, <1>2, <1>3, <1>a
    <3>2. CASE ~(s = s0 /\ m = n)
      <4>1. scopes'[s].sym_idx[m] = scopes[s].sym_idx[m]
            /\ scopes[s].sym_idx[m] \in SymbolIds /\ scopes[s].sym_idx[m] # 0
        BY <3>2, <2>1, <1>1, <1>3
      <4> DEFINE k == scopes[s].sym_idx[m]
      <4>2. \/ symbols[k].name = m /\ symbols[k].scope_idx \in {0, s}
            \/ m = "int" /\ symbols[k].name = "i32" /\ s = 1
        BY <4>1, <1>0 DEF BindingsAgree, NamesLeadToSymbols
      <4>3. symbols'[k] = symbols[k]
        BY <4>1, <1>2
      <4> QED
        BY <4>1, <4>2, <4>3
    <3> QED
      BY <3>1, <3>2
  <2>2. ASSUME NEW k \in SymbolIds \ {1}
        PROVE  \E s \in ScopeIds : \A u \in ScopeIds :
                  scopes'[u].sym_idx[symbols'[k].name] = k <=> u = s
    <3>1. PICK s \in ScopeIds : \A u \in ScopeIds :
                  scopes[u].sym_idx[symbols[k].name] = k <=> u = s
      BY <1>0 DEF BindingsAgree, SymbolsAreBoundOnce
    <3>2. symbols[k].name \in Names /\ k # 0 /\ k # k0 /\ symbols'[k] = symbols[k]
      BY <1>0, <1>1, <1>2 DEF Bookkeeping, SymbolIds
    <3>3. ASSUME NEW u \in ScopeIds
          PROVE  scopes'[u].sym_idx[symbols[k].name] = k
                   <=> scopes[u].sym_idx[symbols[k].name] = k
      <4>1. CASE u = s0 /\ symbols[k].name = n
        BY <4>1, <3>2, <1>1, <1>3, <1>4
      <4>2. CASE ~(u = s0 /\ symbols[k].name = n)
        BY <4>2, <3>2, <1>3
      <4> QED
        BY <4>1, <4>2
    <3> QED
      BY <3>1, <3>2, <3>3
  <2>3. \A u \in ScopeIds : scopes'[u].sym_idx[n] = k0 <=> u = s0
    <3>1. k0 \notin {0} \cup SymbolIds /\ n \in Names
      BY <1>2, <1>c
    <3> QED
      BY <3>1, <1>1, <1>v
  <2>4. \E s \in ScopeIds : \A u \in ScopeIds :
          scopes'[u].sym_idx[symbols'[k0].name] = k0 <=> u = s
    BY <2>3, <1>1, <1>2, <1>a
  <2>5. NamesLeadToSymbols'
    BY <2>1, <1>3 DEF NamesLeadToSymbols
  <2>6. SymbolsAreBoundOnce'
    <3> SUFFICES ASSUME NEW k \in SymbolIds' \ {1}
                 PROVE  \E s \in ScopeIds' : \A u \in ScopeIds' :
                          scopes'[u].sym_idx[symbols'[k].name] = k <=> u = s
      BY DEF SymbolsAreBoundOnce
    <3>1. CASE k = k0
      BY <3>1, <2>4, <1>d
    <3>2. CASE k \in SymbolIds
      BY <3>2, <2>2, <1>d
    <3> QED
      BY <3>1, <3>2, <1>d
  <2> QED
    BY <2>5, <2>6 DEF BindingsAgree
<1>8. OwnersAgree'
  <2>1. symbols'[k0].created_scope_idx = 0
    BY <1>2, <1>a
  <2>2. OwnersMatch'
    <3> SUFFICES ASSUME NEW k \in SymbolIds', symbols'[k].created_scope_idx # 0
                 PROVE  LET c == scopes'[symbols'[k].created_scope_idx] IN
                        /\ c.owning_symbol_type = symbols'[k].sym_type
                        /\ k # 1 => c.parent_scope_idx = symbols'[k].scope_idx
      BY DEF OwnersMatch
    <3>1. k \in SymbolIds /\ symbols'[k] = symbols[k]
      BY <2>1, <1>2, <1>d
    <3>2. symbols[k].created_scope_idx \in ScopeIds
      BY <3>1, Ranges
    <3>3. LET c == scopes[symbols[k].created_scope_idx] IN
          /\ c.owning_symbol_type = symbols[k].sym_type
          /\ k # 1 => c.parent_scope_idx = symbols[k].scope_idx
      BY <3>1, <1>0 DEF OwnersAgree, OwnersMatch
    <3> QED
      BY <3>1, <3>2, <3>3, <1>3
  <2>3. OwnersAreUnique'
    <3>1. \A j, k \in SymbolIds :
            symbols[j].created_scope_idx = symbols[k].created_scope_idx =>
              j = k \/ symbols[k].created_scope_idx = 0
      BY <1>0 DEF OwnersAgree, OwnersAreUnique
    <3> QED
      <4> SUFFICES ASSUME NEW j \in SymbolIds', NEW k \in SymbolIds',
                          symbols'[j].created_scope_idx = symbols'[k].created_scope_idx
                   PROVE  j = k \/ symbols'[k].created_scope_idx = 0
        BY DEF OwnersAreUnique
      <4>1. CASE j = k0 \/ k = k0
        BY <4>1, <2>1
      <4>2. CASE j \in SymbolIds /\ k \in SymbolIds
        BY <4>2, <3>1, <1>2
      <4> QED
        BY <4>1, <4>2, <1>d
  <2>4. ASSUME NEW s \in ScopeIds, NEW m \in Names, scopes'[s].sym_idx[m] # 0,
               symbols'[scopes'[s].sym_idx[m]].sym_type = "PARAM"
        PROVE  scopes'[s].owning_symbol_type = "FN"
    <3>1. CASE s = s0 /\ m = n
      BY <3>1, <2>4, <1>2, <1>3, <1>a DEF s0
    <3>2. CASE ~(s = s0 /\ m = n)
      <4>1. scopes[s].sym_idx[m] \in SymbolIds /\ scopes'[s].sym_idx[m] = scopes[s].sym_idx[m]
        BY <3>2, <2>4, <1>1, <1>3
      <4>2. symbols[scopes[s].sym_idx[m]].sym_type = "PARAM" /\ scopes[s].sym_idx[m] # 0
        BY <4>1, <2>4, <1>2
      <4> QED
        BY <4>2, <1>0, <1>3 DEF OwnersAgree, ParametersInBodies
    <3> QED
      BY <3>1, <3>2
  <2>5. ParametersInBodies'
    BY <2>4, <1>3 DEF ParametersInBodies
  <2> QED
    BY <2>2, <2>3, <2>5 DEF OwnersAgree
<1>9. VariablesHideNothingEarlier'
  <2> SUFFICES ASSUME NEW s \in ScopeIds, NEW m \in Names,
                      scopes'[s].sym_idx[m] # 0,
                      symbols'[scopes'[s].sym_idx[m]].sym_type = "VAR",
                      NEW a \in chain[s] \ {s}
               PROVE  scopes'[a].sym_idx[m] \notin 1 .. scopes'[s].sym_idx[m]
    BY <1>3, <1>b DEF VariablesHideNothingEarlier
  <2>1. a \in ScopeIds
    BY <1>0 DEF TypeOK
  <2>2. CASE s = s0 /\ m = n
    <3>1. t = "VAR"
      BY <2>2, <1>2, <1>3, <1>a
    <3>2. scopes[a].sym_idx[n] = 0
      BY <2>1, <2>2, <3>1 DEF IsDefined, s0
    <3> QED
      BY <2>1, <2>2, <3>2, <1>3
  <2>3. CASE ~(s = s0 /\ m = n)
    <3>1. scopes'[s].sym_idx[m] = scopes[s].sym_idx[m]
          /\ scopes[s].sym_idx[m] \in SymbolIds
      BY <2>3, <1>0, <1>3 DEF TypeOK
    <3>2. scopes[a].sym_idx[m] \notin 1 .. scopes[s].sym_idx[m]
      BY <3>1, <1>0, <1>2 DEF VariablesHideNothingEarlier
    <3>3. CASE a = s0 /\ m = n
      BY <3>1, <3>3, <2>1, <1>1, <1>3 DEF k0, SymbolIds
    <3>4. CASE ~(a = s0 /\ m = n)
      BY <3>1, <3>2, <3>4, <2>1, <1>3
    <3> QED
      BY <3>3, <3>4
  <2> QED
    BY <2>2, <2>3
<1>10. FramesNest'
  <2> SUFFICES ASSUME NEW i \in 2 .. Len(stack)
               PROVE  LET outer == stack[i - 1]
                          inner == stack[i]
                      IN  \/ inner.node # "ELSE"
                             /\ scopes'[inner.scope].parent_scope_idx = outer.scope
                          \/ inner.node = "ELSE" /\ inner.scope = outer.scope
                          \/ inner.node = "MODULE" /\ outer.node = "MODULE"
                             /\ inner.sym # 0
                             /\ inner.scope = symbols'[inner.sym].scope_idx
    BY <1>b DEF FramesNest
  <2>1. stack[i].scope \in ScopeIds /\ stack[i].sym \in {0} \cup SymbolIds
    BY <1>0 DEF TypeOK
  <2>2. scopes'[stack[i].scope].parent_scope_idx = scopes[stack[i].scope].parent_scope_idx
    BY <2>1, <1>3
  <2>3. stack[i].sym # 0 => symbols'[stack[i].sym] = symbols[stack[i].sym]
    BY <2>1, <1>2
  <2> QED
    BY <2>2, <2>3, <1>0 DEF FramesNest
<1>11. Bookkeeping'
  <2>1. ASSUME NEW k \in SymbolIds'
        PROVE  /\ symbols'[k].sym_type = "MODULE" => symbols'[k].scope_idx # 0
               /\ k # 1 => symbols'[k].name \in Names
    <3>1. CASE k = k0
      BY <3>1, <1>2, <1>a
    <3>2. CASE k \in SymbolIds
      <4>1. symbols'[k] = symbols[k]
        BY <3>2, <1>2
      <4> QED
        BY <3>2, <4>1, <1>m
    <3> QED
      BY <3>1, <3>2, <1>d
  <2>2. \A k \in SymbolIds' \ {1} : symbols'[k].name \in Names
    BY <2>1
  <2>4. ASSUME NEW i \in DOMAIN stack, stack[i].node = "PARAMS"
        PROVE  scopes'[stack[i].scope].owning_symbol_type = "FN"
    <3>1. stack[i].scope \in ScopeIds /\ scopes[stack[i].scope].owning_symbol_type = "FN"
      BY <2>4, <1>m
    <3> QED
      BY <3>1, <1>3
  <2>6. /\ Len(scopes') >= 1 /\ Len(symbols') >= 1
        /\ symbols'[1].created_scope_idx = 1 /\ symbols'[1].scope_idx = 1
    BY <1>0, <1>1, <1>2, <1>3 DEF Bookkeeping, k0
  <2> QED
    BY <2>1, <2>2, <2>4, <2>6, <1>b DEF Bookkeeping, BuiltinsOK
<1>12. Grows
  <2>1. ASSUME NEW s \in ScopeIds, NEW m \in Names, scopes[s].sym_idx[m] # 0
        PROVE  scopes'[s].sym_idx[m] = scopes[s].sym_idx[m]
    <3>1. ~(s = s0 /\ m = n)
      BY <2>1, <1>4
    <3> QED
      BY <3>1, <1>3
  <2> QED
    BY <2>1, <1>2 DEF Grows
<1> QED
  BY <1>5, <1>6, <1>7, <1>8, <1>9, <1>10, <1>11, <1>12 DEF IInv

(* Declaring a symbol with a scope adds both, one binding and one frame.     *)
LEMMA OwnerStep ==
  ASSUME IInv, NEW t \in {"STRUCT", "COMPONENT", "MODULE", "FN"}, NEW n \in Names,
         NEW node \in Nodes \ {"ELSE"},
         node = "PARAMS" => t = "FN",
         next_builtin > Len(ReadableToBuiltin),
         ~IsDefined(n, Top.scope, FALSE),
         symbols' = Append(symbols, Symbol(t, n, Top.scope, NextScope)),
         AllocateScope(Bind(scopes, Top.scope, n, NextSymbol), t, Top.scope),
         stack' = Push(Frame(node, NextScope, NextSymbol)),
         type_symbol_ids' \in {type_symbol_ids, type_symbol_ids \cup {NextSymbol}},
         UNCHANGED <<builtin_to_symbol_id, builtin_symbol_ids, next_builtin, status>>
  PROVE  IInv' /\ Grows
<1> DEFINE s0 == Top.scope
           s1 == Len(scopes) + 1
           k0 == Len(symbols) + 1
           new == Symbol(t, n, s0, s1)
           frame == Frame(node, s1, k0)
           bound == Bind(scopes, s0, n, k0)
<1>0. TypeOK /\ ScopeTree /\ BindingsAgree /\ OwnersAgree
      /\ VariablesHideNothingEarlier /\ FramesNest /\ Bookkeeping
  BY DEF IInv
<1>1. /\ s0 \in ScopeIds /\ Len(symbols) \in Nat /\ Len(scopes) \in Nat
      /\ symbols \in Seq(SymbolRecords) /\ scopes \in Seq(ScopeRecords)
      /\ stack \in Seq(FrameRecords) /\ chain \in Seq(SUBSET Nat)
      /\ Len(chain) = Len(scopes) /\ Len(stack) \in Nat /\ Len(stack) \in DOMAIN stack
      /\ 1 \in ScopeIds /\ 1 \in SymbolIds
      /\ \A s \in ScopeIds, m \in Names : scopes[s].sym_idx[m] \in {0} \cup SymbolIds
  BY Ranges
<1>a. /\ new.sym_type = t /\ new.name = n /\ t \notin {"VAR", "PARAM"}
      /\ new.scope_idx = s0 /\ new.created_scope_idx = s1
      /\ frame.node = node /\ frame.scope = s1 /\ frame.sym = k0
  BY DEF Symbol, Frame
<1>2. /\ Len(symbols') = k0
      /\ symbols'[k0] = new
      /\ \A k \in SymbolIds : symbols'[k] = symbols[k]
      /\ symbols' \in Seq(SymbolRecords)
      /\ SymbolIds' = SymbolIds \cup {k0}
      /\ k0 \notin SymbolIds
  <2>1. new \in SymbolRecords
    BY <1>1 DEF SymbolRecords, ScopeIds, Symbol, SymbolTypes
  <2>2. symbols' = Append(symbols, new)
    BY DEF NextScope
  <2> HIDE DEF new
  <2> QED
    BY <2>1, <2>2, <1>1, AppendFacts DEF SymbolIds
<1>3. /\ Len(scopes') = s1
      /\ ScopeIds' = ScopeIds \cup {s1}
      /\ s1 \notin ScopeIds
      /\ scopes' \in Seq(ScopeRecords)
      /\ \A s \in ScopeIds :
           /\ scopes'[s].owning_symbol_type = scopes[s].owning_symbol_type
           /\ scopes'[s].parent_scope_idx = scopes[s].parent_scope_idx
           /\ \A m \in Names : scopes'[s].sym_idx[m] =
                 IF s = s0 /\ m = n THEN k0 ELSE scopes[s].sym_idx[m]
      /\ scopes'[s1].owning_symbol_type = t
      /\ scopes'[s1].parent_scope_idx = s0
      /\ \A m \in Names : scopes'[s1].sym_idx[m] = 0
  <2>1. k0 \in Nat /\ s0 \in 1 .. Len(scopes)
    BY <1>1 DEF ScopeIds
  <2>2. scopes' = Append(bound, Scope(t, s0))
    BY DEF AllocateScope, NextSymbol
  <2>3. /\ Scope(t, s0) \in ScopeRecords
        /\ Scope(t, s0).owning_symbol_type = t /\ Scope(t, s0).parent_scope_idx = s0
        /\ \A m \in Names : Scope(t, s0).sym_idx[m] = 0
    BY <2>1 DEF Scope, ScopeRecords, ScopeTypes
  <2>4. /\ bound \in Seq(ScopeRecords)
        /\ Len(bound) = Len(scopes)
        /\ \A s \in ScopeIds :
             /\ bound[s].owning_symbol_type = scopes[s].owning_symbol_type
             /\ bound[s].parent_scope_idx = scopes[s].parent_scope_idx
             /\ \A m \in Names : bound[s].sym_idx[m] =
                   IF s = s0 /\ m = n THEN k0 ELSE scopes[s].sym_idx[m]
    <3> HIDE DEF s0, k0
    <3> QED
      BY <2>1, <1>1, BindFacts DEF ScopeIds
  <2> HIDE DEF bound
  <2>5. /\ scopes' \in Seq(ScopeRecords)
        /\ Len(scopes') = s1 /\ scopes'[s1] = Scope(t, s0)
        /\ \A s \in ScopeIds : scopes'[s] = bound[s]
        /\ ScopeIds' = ScopeIds \cup {s1} /\ s1 \notin ScopeIds
    BY <2>2, <2>3, <2>4, <1>1, AppendFacts DEF ScopeIds
  <2> QED
    BY <2>3, <2>4, <2>5
<1>v. \A s \in ScopeIds, m \in Names :
        /\ scopes[s].sym_idx[m] \in {0} \cup SymbolIds
        /\ s = s0 /\ m = n => scopes'[s].sym_idx[m] = k0
        /\ ~(s = s0 /\ m = n) => scopes'[s].sym_idx[m] = scopes[s].sym_idx[m]
  BY <1>1, <1>3
<1>b. /\ chain' \in Seq(SUBSET Nat) /\ Len(chain') = s1
      /\ \A s \in ScopeIds : chain'[s] = chain[s]
      /\ chain'[s1] = chain[s0] \cup {s1}
  <2>1. chain' = Append(chain, chain[s0] \cup {s1})
    BY DEF AllocateScope, NextScope
  <2>2. chain[s0] \cup {s1} \in SUBSET Nat
    BY Ranges, <1>1 DEF ScopeIds
  <2> QED
    BY <2>1, <2>2, <1>1, AppendFacts DEF ScopeIds
<1>c. /\ stack' \in Seq(FrameRecords) /\ Len(stack') = Len(stack) + 1
      /\ \A i \in 1 .. Len(stack) : stack'[i] = stack[i]
      /\ stack'[Len(stack) + 1] = frame
  <2>1. stack' = Append(stack, frame)
    BY DEF Push, NextScope, NextSymbol
  <2>2. frame \in FrameRecords
    BY <1>1 DEF Frame, FrameRecords
  <2> HIDE DEF frame
  <2> QED
    BY <2>1, <2>2, <1>1, AppendFacts
<1>d. SymbolIds' = SymbolIds \cup {k0} /\ ScopeIds' = ScopeIds \cup {s1}
  BY <1>2, <1>3
<1>g. Len(stack) \in Nat /\ 1 \notin 2 .. Len(stack)
      /\ 2 .. (Len(stack) + 1) \subseteq (2 .. Len(stack)) \cup {Len(stack) + 1}
      /\ \A i \in 2 .. Len(stack) : i \in 1 .. Len(stack) /\ i - 1 \in 1 .. Len(stack)
  BY Ranges
<1>e. k0 # 0 /\ s1 # 0 /\ scopes[s0].sym_idx[n] = 0 /\ s0 # s1 /\ s0 # 0
  BY <1>1 DEF IsDefined, ScopeIds
<1>f. /\ builtin_to_symbol_id' = builtin_to_symbol_id
      /\ builtin_symbol_ids' = builtin_symbol_ids
      /\ next_builtin' = next_builtin /\ status' = status
      /\ type_symbol_ids' \subseteq type_symbol_ids \cup {k0}
  BY DEF NextSymbol
<1> HIDE DEF new, s0, k0, s1, frame, bound
<1>5. TypeOK'
  <2>1. ASSUME NEW k \in SymbolIds'
        PROVE  /\ symbols'[k].scope_idx \in {0} \cup ScopeIds'
               /\ symbols'[k].created_scope_idx \in {0} \cup ScopeIds'
    <3>1. CASE k = k0
      BY <3>1, <1>1, <1>2, <1>a, <1>d
    <3>2. CASE k \in SymbolIds
      BY <3>2, <1>0, <1>2, <1>d DEF TypeOK
    <3> QED
      BY <3>1, <3>2, <1>d
  <2>2. ASSUME NEW s \in ScopeIds'
        PROVE  /\ scopes'[s].parent_scope_idx \in {0} \cup ScopeIds'
               /\ \A m \in Names : scopes'[s].sym_idx[m] \in {0} \cup SymbolIds'
    <3>1. CASE s = s1
      BY <3>1, <1>1, <1>3
    <3>2. CASE s \in ScopeIds
      <4>1. scopes'[s].parent_scope_idx \in {0} \cup ScopeIds
        BY <3>2, <1>0, <1>3 DEF TypeOK
      <4>2. ASSUME NEW m \in Names
            PROVE  scopes'[s].sym_idx[m] \in {k0} \cup {0} \cup SymbolIds
        <5>1. scopes[s].sym_idx[m] \in {0} \cup SymbolIds
          BY <3>2, <1>1
        <5>2. scopes'[s].sym_idx[m] = IF s = s0 /\ m = n THEN k0 ELSE scopes[s].sym_idx[m]
          BY <3>2, <1>3
        <5> QED
          BY <5>1, <5>2
      <4> QED
        BY <4>1, <4>2, <1>d
    <3> QED
      BY <3>1, <3>2, <1>d
  <2>3. \A s \in ScopeIds' : chain'[s] \subseteq ScopeIds'
    BY Ranges, <1>1, <1>b, <1>d
  <2>4. /\ builtin_to_symbol_id' \in [BuiltinNames -> {0} \cup SymbolIds']
        /\ type_symbol_ids' \subseteq SymbolIds'
        /\ builtin_symbol_ids' \subseteq SymbolIds'
        /\ next_builtin' \in 1 .. (Len(ReadableToBuiltin) + 1)
        /\ status' \in Statuses
    BY <1>0, <1>d, <1>f DEF TypeOK
  <2>5. ASSUME NEW i \in DOMAIN stack'
        PROVE  stack'[i].scope \in ScopeIds' /\ stack'[i].sym \in {0} \cup SymbolIds'
    <3>1. CASE i = Len(stack) + 1
      BY <3>1, <1>a, <1>c, <1>d
    <3>2. CASE i \in DOMAIN stack
      <4>1. stack'[i] = stack[i]
        BY <3>2, <1>1, <1>c
      <4> QED
        BY <3>2, <4>1, <1>0, <1>d DEF TypeOK
    <3> QED
      BY <3>1, <3>2, <1>1, <1>c
  <2>6. stack' # <<>>
    BY <1>1, <1>c
  <2> QED
    BY <2>1, <2>2, <2>3, <2>4, <2>5, <2>6, <1>2, <1>3, <1>b, <1>c DEF TypeOK
<1>6. ScopeTree'
  <2>1. scopes'[1].parent_scope_idx = 0 /\ chain'[1] = {1}
    BY <1>0, <1>1, <1>3, <1>b DEF ScopeTree
  <2>2. ASSUME NEW s \in ScopeIds \ {1}
        PROVE  LET p == scopes'[s].parent_scope_idx
               IN  p \in 1 .. (s - 1) /\ chain'[s] = chain'[p] \cup {s}
    <3>1. scopes[s].parent_scope_idx \in 1 .. (s - 1)
          /\ chain[s] = chain[scopes[s].parent_scope_idx] \cup {s}
      BY <1>0 DEF ScopeTree
    <3>2. scopes[s].parent_scope_idx \in ScopeIds
      BY <3>1, <1>1 DEF ScopeIds
    <3> QED
      BY <3>1, <3>2, <1>3, <1>b
  <2>3. s0 \in 1 .. (s1 - 1) /\ chain'[s1] = chain'[s0] \cup {s1}
    BY <1>1, <1>b DEF ScopeIds, s1
  <2> QED
    BY <2>1, <2>2, <2>3, <1>3, <1>d DEF ScopeTree
<1>7. BindingsAgree'
  <2>1. ASSUME NEW s \in ScopeIds', NEW m \in Names, scopes'[s].sym_idx[m] # 0
        PROVE  LET k == scopes'[s].sym_idx[m] IN
               \/ symbols'[k].name = m /\ symbols'[k].scope_idx \in {0, s}
               \/ m = "int" /\ symbols'[k].name = "i32" /\ s = 1
    <3>1. CASE s = s0 /\ m = n
      BY <3>1, <1>1, <1>2, <1>3, <1>a
    <3>2. CASE ~(s = s0 /\ m = n)
      <4>1. /\ s \in ScopeIds
            /\ scopes'[s].sym_idx[m] = scopes[s].sym_idx[m]
            /\ scopes[s].sym_idx[m] \in SymbolIds /\ scopes[s].sym_idx[m] # 0
        BY <3>2, <2>1, <1>1, <1>3, <1>d
      <4> DEFINE k == scopes[s].sym_idx[m]
      <4>2. \/ symbols[k].name = m /\ symbols[k].scope_idx \in {0, s}
            \/ m = "int" /\ symbols[k].name = "i32" /\ s = 1
        BY <4>1, <1>0 DEF BindingsAgree, NamesLeadToSymbols
      <4>3. symbols'[k] = symbols[k]
        BY <4>1, <1>2
      <4> QED
        BY <4>1, <4>2, <4>3
    <3> QED
      BY <3>1, <3>2
  <2>2. ASSUME NEW k \in SymbolIds \ {1}
        PROVE  \E s \in ScopeIds' : \A u \in ScopeIds' :
                  scopes'[u].sym_idx[symbols'[k].name] = k <=> u = s
    <3>1. PICK s \in ScopeIds : \A u \in ScopeIds :
                  scopes[u].sym_idx[symbols[k].name] = k <=> u = s
      BY <1>0 DEF BindingsAgree, SymbolsAreBoundOnce
    <3>2. symbols[k].name \in Names /\ k # 0 /\ k # k0 /\ symbols'[k] = symbols[k]
      BY <1>0, <1>1, <1>2 DEF Bookkeeping, SymbolIds
    <3>3. ASSUME NEW u \in ScopeIds
          PROVE  scopes'[u].sym_idx[symbols[k].name] = k
                   <=> scopes[u].sym_idx[symbols[k].name] = k
      BY <3>2, <1>3, <1>e
    <3>4. scopes'[s1].sym_idx[symbols[k].name] # k /\ s # s1
      BY <3>1, <3>2, <1>3
    <3> QED
      BY <3>1, <3>2, <3>3, <3>4, <1>d
  <2>3. ASSUME NEW u \in ScopeIds'
        PROVE  scopes'[u].sym_idx[n] = k0 <=> u = s0
    <3>1. CASE u = s1
      BY <3>1, <1>3, <1>e
    <3>2. CASE u \in ScopeIds
      <4>1. scopes[u].sym_idx[n] # k0
        BY <3>2, <1>1, <1>2, <1>e
      <4> QED
        BY <3>2, <4>1, <1>3
    <3> QED
      BY <3>1, <3>2, <1>d
  <2>4. \E s \in ScopeIds' : \A u \in ScopeIds' :
          scopes'[u].sym_idx[symbols'[k0].name] = k0 <=> u = s
    BY <2>3, <1>1, <1>2, <1>a, <1>d
  <2>5. NamesLeadToSymbols'
    BY <2>1 DEF NamesLeadToSymbols
  <2>6. SymbolsAreBoundOnce'
    <3> SUFFICES ASSUME NEW k \in SymbolIds' \ {1}
                 PROVE  \E s \in ScopeIds' : \A u \in ScopeIds' :
                          scopes'[u].sym_idx[symbols'[k].name] = k <=> u = s
      BY DEF SymbolsAreBoundOnce
    <3>1. CASE k = k0
      BY <3>1, <2>4
    <3>2. CASE k \in SymbolIds
      BY <3>2, <2>2
    <3> QED
      BY <3>1, <3>2, <1>d
  <2> QED
    BY <2>5, <2>6 DEF BindingsAgree
<1>8. OwnersAgree'
  <2>1. symbols'[k0].created_scope_idx = s1 /\ symbols'[k0].scope_idx = s0
        /\ symbols'[k0].sym_type = t
    BY <1>2, <1>a
  <2>2. OwnersMatch'
    <3> SUFFICES ASSUME NEW k \in SymbolIds', symbols'[k].created_scope_idx # 0
                 PROVE  LET c == scopes'[symbols'[k].created_scope_idx] IN
                        /\ c.owning_symbol_type = symbols'[k].sym_type
                        /\ k # 1 => c.parent_scope_idx = symbols'[k].scope_idx
      BY DEF OwnersMatch
    <3>1. CASE k = k0
      BY <3>1, <2>1, <1>3
    <3>2. CASE k \in SymbolIds
      <4>1. symbols'[k] = symbols[k] /\ symbols[k].created_scope_idx \in ScopeIds
        BY <3>1, <3>2, <1>2, Ranges
      <4> DEFINE c == symbols[k].created_scope_idx
      <4>2. scopes[c].owning_symbol_type = symbols[k].sym_type
            /\ (k # 1 => scopes[c].parent_scope_idx = symbols[k].scope_idx)
        BY <3>2, <4>1, <1>0, <1>e DEF OwnersAgree, OwnersMatch
      <4>3. scopes'[c].owning_symbol_type = scopes[c].owning_symbol_type
            /\ scopes'[c].parent_scope_idx = scopes[c].parent_scope_idx
        BY <4>1, <1>3
      <4> QED
        BY <4>1, <4>2, <4>3
    <3> QED
      BY <3>1, <3>2, <1>d
  <2>3. OwnersAreUnique'
    <3>1. \A j, k \in SymbolIds :
            symbols[j].created_scope_idx = symbols[k].created_scope_idx =>
              j = k \/ symbols[k].created_scope_idx = 0
      BY <1>0 DEF OwnersAgree, OwnersAreUnique
    <3>2. ASSUME NEW k \in SymbolIds
          PROVE  symbols'[k] = symbols[k] /\ symbols'[k].created_scope_idx # s1
      <4>1. symbols'[k] = symbols[k] /\ symbols[k].created_scope_idx \in {0} \cup ScopeIds
        BY <1>2, Ranges
      <4>2. s1 \notin ScopeIds
        BY <1>3
      <4> QED
        BY <4>1, <4>2, <1>e
    <3> SUFFICES ASSUME NEW j \in SymbolIds', NEW k \in SymbolIds',
                        symbols'[j].created_scope_idx = symbols'[k].created_scope_idx
                 PROVE  j = k \/ symbols'[k].created_scope_idx = 0
      BY DEF OwnersAreUnique
    <3>3. CASE j = k0 \/ k = k0
      BY <3>2, <3>3, <2>1, <1>d
    <3>4. CASE j \in SymbolIds /\ k \in SymbolIds
      BY <3>1, <3>2, <3>4
    <3> QED
      BY <3>3, <3>4, <1>d
  <2>4. ASSUME NEW s \in ScopeIds', NEW m \in Names, scopes'[s].sym_idx[m] # 0,
               symbols'[scopes'[s].sym_idx[m]].sym_type = "PARAM"
        PROVE  scopes'[s].owning_symbol_type = "FN"
    <3>1. ~(s = s0 /\ m = n) /\ s \in ScopeIds
      BY <2>4, <1>1, <1>2, <1>3, <1>a, <1>d
    <3>2. scopes[s].sym_idx[m] \in SymbolIds /\ scopes'[s].sym_idx[m] = scopes[s].sym_idx[m]
      BY <3>1, <2>4, <1>1, <1>3
    <3>3. symbols[scopes[s].sym_idx[m]].sym_type = "PARAM" /\ scopes[s].sym_idx[m] # 0
      BY <3>2, <2>4, <1>2
    <3> QED
      BY <3>1, <3>3, <1>0, <1>3 DEF OwnersAgree, ParametersInBodies
  <2>5. ParametersInBodies'
    BY <2>4 DEF ParametersInBodies
  <2> QED
    BY <2>2, <2>3, <2>5 DEF OwnersAgree
<1>9. VariablesHideNothingEarlier'
  <2> SUFFICES ASSUME NEW s \in ScopeIds', NEW m \in Names,
                      scopes'[s].sym_idx[m] # 0,
                      symbols'[scopes'[s].sym_idx[m]].sym_type = "VAR",
                      NEW a \in chain'[s] \ {s}
               PROVE  scopes'[a].sym_idx[m] \notin 1 .. scopes'[s].sym_idx[m]
    BY DEF VariablesHideNothingEarlier
  <2>1. ~(s = s0 /\ m = n) /\ s \in ScopeIds
    BY <1>1, <1>2, <1>3, <1>a, <1>d
  <2>2. a \in ScopeIds /\ a \in chain[s] \ {s}
    BY <2>1, <1>b, Ranges
  <2>3. scopes'[s].sym_idx[m] = scopes[s].sym_idx[m]
        /\ scopes[s].sym_idx[m] \in SymbolIds
    <3>1. scopes'[s].sym_idx[m] = scopes[s].sym_idx[m]
      BY <2>1, <1>3
    <3>2. scopes[s].sym_idx[m] \in {0} \cup SymbolIds
      BY <2>1, <1>1
    <3> QED
      BY <3>1, <3>2
  <2>4. scopes[a].sym_idx[m] \notin 1 .. scopes[s].sym_idx[m]
    BY <2>1, <2>2, <2>3, <1>0, <1>2 DEF VariablesHideNothingEarlier
  <2>5. CASE a = s0 /\ m = n
    <3>1. scopes'[a].sym_idx[m] = k0
      BY <2>2, <2>5, <1>v
    <3>2. k0 \notin 1 .. scopes[s].sym_idx[m]
      BY <2>3, <1>1 DEF k0, SymbolIds
    <3> QED
      BY <2>3, <3>1, <3>2
  <2>6. CASE ~(a = s0 /\ m = n)
    BY <2>2, <2>3, <2>4, <2>6, <1>v
  <2> QED
    BY <2>5, <2>6
<1>10. FramesNest'
  <2> SUFFICES ASSUME NEW i \in 2 .. Len(stack')
               PROVE  LET outer == stack'[i - 1]
                          inner == stack'[i]
                      IN  \/ inner.node # "ELSE"
                             /\ scopes'[inner.scope].parent_scope_idx = outer.scope
                          \/ inner.node = "ELSE" /\ inner.scope = outer.scope
                          \/ inner.node = "MODULE" /\ outer.node = "MODULE"
                             /\ inner.sym # 0
                             /\ inner.scope = symbols'[inner.sym].scope_idx
    BY DEF FramesNest
  <2>1. CASE i = Len(stack) + 1
    <3>0. stack'[i] = frame
      BY <2>1, <1>c
    <3>1. stack'[i] = frame /\ stack'[i - 1] = stack[Len(stack)]
      <4>1. i - 1 = Len(stack) /\ Len(stack) \in 1 .. Len(stack)
        BY <2>1, <1>1
      <4> QED
        BY <4>1, <3>0, <1>c
    <3>2. stack[Len(stack)].scope = s0
      BY DEF Top, s0
    <3> QED
      BY <3>1, <3>2, <1>3, <1>a
  <2>2. CASE i \in 2 .. Len(stack)
    <3>1. stack'[i] = stack[i] /\ stack'[i - 1] = stack[i - 1]
      BY <2>2, <1>g, <1>c
    <3>2. stack[i].scope \in ScopeIds /\ stack[i].sym \in {0} \cup SymbolIds
      BY <2>2, <1>0 DEF TypeOK
    <3>3. scopes'[stack[i].scope].parent_scope_idx = scopes[stack[i].scope].parent_scope_idx
      BY <3>2, <1>3
    <3>4. stack[i].sym # 0 => symbols'[stack[i].sym] = symbols[stack[i].sym]
      BY <3>2, <1>2
    <3>5. LET outer == stack[i - 1]
              inner == stack[i]
          IN  \/ inner.node # "ELSE"
                 /\ scopes[inner.scope].parent_scope_idx = outer.scope
              \/ inner.node = "ELSE" /\ inner.scope = outer.scope
              \/ inner.node = "MODULE" /\ outer.node = "MODULE"
                 /\ inner.sym # 0 /\ inner.scope = symbols[inner.sym].scope_idx
      BY <2>2, <1>0 DEF FramesNest
    <3> QED
      BY <3>1, <3>3, <3>4, <3>5
  <2> QED
    BY <2>1, <2>2, <1>g, <1>c
<1>11. Bookkeeping'
  <2>1. ASSUME NEW k \in SymbolIds', symbols'[k].sym_type = "MODULE"
        PROVE  symbols'[k].scope_idx # 0
    <3>1. CASE k = k0
      BY <3>1, <1>2, <1>a, <1>e
    <3>2. CASE k \in SymbolIds
      BY <2>1, <3>2, <1>0, <1>2 DEF Bookkeeping
    <3> QED
      BY <3>1, <3>2, <1>d
  <2>2. \A k \in SymbolIds' \ {1} : symbols'[k].name \in Names
    BY <1>0, <1>2, <1>a DEF Bookkeeping
  <2>3. "i32" \in BuiltinNames /\ builtin_to_symbol_id["i32"] # 0 =>
          LET k == builtin_to_symbol_id["i32"]
          IN  k # 1 /\ symbols'[k].sym_type = "BUILTIN" /\ symbols'[k].name = "i32"
    BY <1>0, <1>2 DEF Bookkeeping, TypeOK
  <2>4. ASSUME NEW i \in DOMAIN stack', stack'[i].node = "PARAMS"
        PROVE  scopes'[stack'[i].scope].owning_symbol_type = "FN"
    <3>1. CASE i = Len(stack) + 1
      BY <2>4, <3>1, <1>3, <1>a, <1>c
    <3>2. CASE i \in DOMAIN stack
      <4>1. stack'[i] = stack[i] /\ stack[i].scope \in ScopeIds
        BY <3>2, <1>0, <1>1, <1>c DEF TypeOK
      <4> QED
        BY <2>4, <3>2, <4>1, <1>0, <1>3 DEF Bookkeeping
    <3> QED
      BY <3>1, <3>2, <1>1, <1>c
  <2>5. ~(next_builtin' <= Len(ReadableToBuiltin))
    BY <1>f, <1>0, BuiltinAssumption DEF TypeOK
  <2>6. /\ Len(scopes') >= 1 /\ Len(symbols') >= 1
        /\ symbols'[1].created_scope_idx = 1 /\ symbols'[1].scope_idx = 1
    BY <1>0, <1>1, <1>2, <1>3 DEF Bookkeeping, k0, s1
  <2> QED
    BY <2>1, <2>2, <2>3, <2>4, <2>5, <2>6, <1>f DEF Bookkeeping
<1>12. Grows
  <2>1. ASSUME NEW s \in ScopeIds, NEW m \in Names, scopes[s].sym_idx[m] # 0
        PROVE  scopes'[s].sym_idx[m] = scopes[s].sym_idx[m]
    <3>1. ~(s = s0 /\ m = n)
      BY <2>1, <1>e
    <3> QED
      BY <3>1, <1>3
  <2> QED
    BY <2>1, <1>2 DEF Grows
<1> QED
  BY <1>5, <1>6, <1>7, <1>8, <1>9, <1>10, <1>11, <1>12 DEF IInv
(* One call under way may have made another: what FramesNest says of two     *)
(* neighbouring frames.                                                      *)
Nests(outer, inner) ==
  \/ inner.node # "ELSE" /\ scopes[inner.scope].parent_scope_idx = outer.scope
  \/ inner.node = "ELSE" /\ inner.scope = outer.scope
  \/ inner.node = "MODULE" /\ outer.node = "MODULE"
     /\ inner.sym # 0 /\ inner.scope = symbols[inner.sym].scope_idx

(* What the invariant says of one frame, and of all of the stack.            *)
CallOK(f) ==
  /\ f \in FrameRecords
  /\ f.scope \in ScopeIds /\ f.sym \in {0} \cup SymbolIds
  /\ f.node = "PARAMS" => scopes[f.scope].owning_symbol_type = "FN"

Calls(q) ==
  /\ q \in Seq(FrameRecords)
  /\ \A i \in 1 .. Len(q) : CallOK(q[i])
  /\ \A i \in 2 .. Len(q) : Nests(q[i - 1], q[i])

(* The stack of a state of the invariant is such a sequence of calls.        *)
LEMMA CallsOfStack ==
  ASSUME IInv
  PROVE  Calls(stack) /\ CallOK(Top) /\ Len(stack) \in Nat \ {0}
<1>0. TypeOK /\ FramesNest /\ Bookkeeping
  BY DEF IInv
<1>1. stack \in Seq(FrameRecords) /\ Len(stack) \in DOMAIN stack
      /\ Len(stack) \in Nat \ {0}
  BY Ranges, <1>0 DEF TypeOK
<1>2. \A i \in 1 .. Len(stack) : CallOK(stack[i])
  BY <1>0, <1>1 DEF TypeOK, Bookkeeping, CallOK
<1>3. \A i \in 2 .. Len(stack) : Nests(stack[i - 1], stack[i])
  BY <1>0 DEF FramesNest, Nests
<1>4. CallOK(Top)
  BY <1>1, <1>2 DEF Top
<1> QED
  BY <1>1, <1>2, <1>3, <1>4 DEF Calls

(* A call may be pushed where its frame nests in the one that makes it.      *)
LEMMA CallsPush ==
  ASSUME NEW q, Calls(q), NEW f, CallOK(f), q # <<>> => Nests(q[Len(q)], f)
  PROVE  Calls(Append(q, f))
<1>1. q \in Seq(FrameRecords) /\ f \in FrameRecords
  BY DEF Calls, CallOK
<1>2. /\ Append(q, f) \in Seq(FrameRecords) /\ Len(Append(q, f)) = Len(q) + 1
      /\ Append(q, f)[Len(q) + 1] = f
      /\ \A i \in 1 .. Len(q) : Append(q, f)[i] = q[i]
      /\ Len(q) \in Nat
  BY <1>1
<1>3. ASSUME NEW i \in 1 .. (Len(q) + 1) PROVE CallOK(Append(q, f)[i])
  <2>1. CASE i = Len(q) + 1
    BY <2>1, <1>2
  <2>2. CASE i \in 1 .. Len(q)
    BY <2>2, <1>2 DEF Calls
  <2> QED
    BY <2>1, <2>2, <1>2
<1>4. ASSUME NEW i \in 2 .. (Len(q) + 1)
      PROVE  Nests(Append(q, f)[i - 1], Append(q, f)[i])
  <2>1. CASE i = Len(q) + 1
    <3>1. q # <<>> /\ Append(q, f)[i - 1] = q[Len(q)] /\ Append(q, f)[i] = f
      BY <2>1, <1>2
    <3> QED
      BY <3>1
  <2>2. CASE i \in 2 .. Len(q)
    <3>1. Append(q, f)[i - 1] = q[i - 1] /\ Append(q, f)[i] = q[i]
      BY <2>2, <1>2
    <3> QED
      BY <2>2, <3>1 DEF Calls
  <2> QED
    BY <2>1, <2>2, <1>2
<1> QED
  BY <1>2, <1>3, <1>4 DEF Calls

(* The innermost call may end.                                               *)
LEMMA CallsPop ==
  ASSUME NEW q, Calls(q), q # <<>>
  PROVE  /\ Calls(SubSeq(q, 1, Len(q) - 1))
         /\ Len(SubSeq(q, 1, Len(q) - 1)) = Len(q) - 1
         /\ \A i \in 1 .. (Len(q) - 1) : SubSeq(q, 1, Len(q) - 1)[i] = q[i]
<1>1. q \in Seq(FrameRecords) /\ Len(q) \in Nat \ {0}
  BY DEF Calls
<1> DEFINE r == SubSeq(q, 1, Len(q) - 1)
<1>2. /\ r \in Seq(FrameRecords) /\ Len(r) = Len(q) - 1
      /\ \A i \in 1 .. Len(r) : r[i] = q[i]
  <2> DEFINE m == Len(q) - 1
  <2>1. 1 \in Int /\ m \in Int /\ m >= 0 /\ \A i \in 1 .. m : q[i] \in FrameRecords
    BY <1>1
  <2> HIDE DEF m
  <2>2. /\ SubSeq(q, 1, m) \in Seq(FrameRecords)
        /\ Len(SubSeq(q, 1, m)) = IF 1 <= m THEN m - 1 + 1 ELSE 0
        /\ \A i \in 1 .. (m - 1 + 1) : SubSeq(q, 1, m)[i] = q[1 + i - 1]
    BY <2>1, SubSeqProperties
  <2>3. r = SubSeq(q, 1, m)
    BY DEF m
  <2>4. Len(r) = m
    BY <2>1, <2>2, <2>3
  <2>5. \A i \in 1 .. m : 1 + i - 1 = i /\ m - 1 + 1 = m
    BY <2>1
  <2>6. \A i \in 1 .. Len(r) : r[i] = q[i]
    BY <2>1, <2>2, <2>3, <2>4, <2>5
  <2> QED
    BY <2>2, <2>3, <2>4, <2>6 DEF m
<1> HIDE DEF r
<1>3. \A i \in 1 .. Len(r) : CallOK(r[i])
  BY <1>1, <1>2 DEF Calls
<1>4. ASSUME NEW i \in 2 .. Len(r) PROVE Nests(r[i - 1], r[i])
  <2>1. r[i - 1] = q[i - 1] /\ r[i] = q[i] /\ i \in 2 .. Len(q)
    BY <1>1, <1>2
  <2> QED
    BY <2>1 DEF Calls
<1>5. Calls(r)
  BY <1>2, <1>3, <1>4 DEF Calls
<1> QED
  BY <1>2, <1>5 DEF r

(* A step that leaves the table alone keeps what is said of it.              *)
LEMMA StackStep ==
  ASSUME IInv, UNCHANGED <<symbols, scopes, chain, ids, next_builtin>>,
         Calls(stack'), stack' # <<>>, status' \in Statuses
  PROVE  IInv' /\ Grows
<1>0. TypeOK /\ ScopeTree /\ BindingsAgree /\ OwnersAgree
      /\ VariablesHideNothingEarlier /\ FramesNest /\ Bookkeeping
  BY DEF IInv
<1>1. /\ symbols' = symbols /\ scopes' = scopes /\ chain' = chain
      /\ builtin_to_symbol_id' = builtin_to_symbol_id
      /\ type_symbol_ids' = type_symbol_ids
      /\ builtin_symbol_ids' = builtin_symbol_ids
      /\ next_builtin' = next_builtin
      /\ SymbolIds' = SymbolIds /\ ScopeIds' = ScopeIds
  BY DEF ids, SymbolIds, ScopeIds
<1>2. /\ stack' \in Seq(FrameRecords) /\ DOMAIN stack' = 1 .. Len(stack')
      /\ \A i \in 1 .. Len(stack') : CallOK(stack'[i])
      /\ \A i \in 2 .. Len(stack') : Nests(stack'[i - 1], stack'[i])
  BY DEF Calls
<1>3. TypeOK'
  <2>1. \A i \in DOMAIN stack' : stack'[i].scope \in ScopeIds
                                 /\ stack'[i].sym \in {0} \cup SymbolIds
    BY <1>2 DEF CallOK
  <2> QED
    BY <2>1, <1>0, <1>1, <1>2 DEF TypeOK
<1>4. ScopeTree'
  BY <1>0, <1>1 DEF ScopeTree
<1>5. BindingsAgree'
  BY <1>0, <1>1 DEF BindingsAgree, NamesLeadToSymbols, SymbolsAreBoundOnce
<1>6. OwnersAgree'
  BY <1>0, <1>1 DEF OwnersAgree, OwnersMatch, OwnersAreUnique, ParametersInBodies
<1>7. VariablesHideNothingEarlier'
  BY <1>0, <1>1 DEF VariablesHideNothingEarlier
<1>8. FramesNest'
  BY <1>1, <1>2 DEF FramesNest, Nests
<1>9. Bookkeeping'
  <2>1. \A i \in DOMAIN stack' : stack'[i].node = "PARAMS" =>
          scopes[stack'[i].scope].owning_symbol_type = "FN"
    BY <1>2 DEF CallOK
  <2> QED
    BY <2>1, <1>0, <1>1 DEF Bookkeeping
<1>10. Grows
  BY <1>1 DEF Grows
<1> QED
  BY <1>3, <1>4, <1>5, <1>6, <1>7, <1>8, <1>9, <1>10 DEF IInv
(* Opening a scope without a symbol adds that scope, in which nothing is     *)
(* bound yet, and one frame on top of calls that end in the current scope.   *)
LEMMA OpenStep ==
  ASSUME IInv, next_builtin > Len(ReadableToBuiltin),
         NEW frames, Calls(frames),
         frames # <<>> => frames[Len(frames)].scope = Top.scope,
         NEW node \in {"BODY", "FOR"}, OpenBody(frames, node)
  PROVE  IInv' /\ Grows
<1> DEFINE s0 == Top.scope
           s1 == Len(scopes) + 1
           frame == Frame(node, s1, 0)
           new == Scope("SCOPE", s0)
<1>0. TypeOK /\ ScopeTree /\ BindingsAgree /\ OwnersAgree
      /\ VariablesHideNothingEarlier /\ FramesNest /\ Bookkeeping
  BY DEF IInv
<1>1. /\ s0 \in ScopeIds /\ Len(scopes) \in Nat /\ 1 \in ScopeIds
      /\ scopes \in Seq(ScopeRecords) /\ chain \in Seq(SUBSET Nat)
      /\ Len(chain) = Len(scopes)
      /\ \A s \in ScopeIds : chain[s] \subseteq ScopeIds
  BY Ranges
<1>2. /\ symbols' = symbols /\ SymbolIds' = SymbolIds
      /\ builtin_to_symbol_id' = builtin_to_symbol_id
      /\ type_symbol_ids' = type_symbol_ids
      /\ builtin_symbol_ids' = builtin_symbol_ids
      /\ next_builtin' = next_builtin /\ status' = status
  BY DEF OpenBody, ids, SymbolIds
<1>a. /\ new \in ScopeRecords
      /\ new.owning_symbol_type = "SCOPE" /\ new.parent_scope_idx = s0
      /\ \A m \in Names : new.sym_idx[m] = 0
  BY <1>1 DEF Scope, ScopeRecords, ScopeTypes, ScopeIds
<1>3. /\ Len(scopes') = s1 /\ scopes'[s1] = new
      /\ \A s \in ScopeIds : scopes'[s] = scopes[s]
      /\ scopes' \in Seq(ScopeRecords)
      /\ ScopeIds' = ScopeIds \cup {s1}
      /\ s1 \notin ScopeIds
  <2>1. scopes' = Append(scopes, new)
    BY DEF OpenBody, AllocateScope
  <2> HIDE DEF new
  <2> QED
    BY <2>1, <1>1, <1>a, AppendFacts DEF ScopeIds
<1>4. /\ chain' \in Seq(SUBSET Nat) /\ Len(chain') = s1
      /\ \A s \in ScopeIds : chain'[s] = chain[s]
      /\ chain'[s1] = chain[s0] \cup {s1}
  <2>1. chain' = Append(chain, chain[s0] \cup {s1})
    BY DEF OpenBody, AllocateScope, NextScope
  <2>2. chain[s0] \cup {s1} \in SUBSET Nat
    BY <1>1 DEF ScopeIds
  <2> QED
    BY <2>1, <2>2, <1>1, AppendFacts DEF ScopeIds
<1>d. ScopeIds' = ScopeIds \cup {s1} /\ s1 \notin ScopeIds
  BY <1>3
<1>5. /\ stack' \in Seq(FrameRecords) /\ Len(stack') = Len(frames) + 1
      /\ \A i \in 1 .. Len(frames) : stack'[i] = frames[i]
      /\ stack'[Len(frames) + 1] = frame
      /\ Len(frames) \in Nat
  <2>1. stack' = Append(frames, frame)
    BY DEF OpenBody, NextScope
  <2>2. frame \in FrameRecords /\ frames \in Seq(FrameRecords)
    BY <1>1 DEF Frame, FrameRecords, Nodes, Calls
  <2> HIDE DEF frame
  <2> QED
    BY <2>1, <2>2, AppendFacts
<1>b. frame.node = node /\ frame.scope = s1 /\ frame.sym = 0
  BY DEF Frame
<1>c. \A i \in 1 .. Len(frames) : CallOK(frames[i])
  BY DEF Calls
<1>e. DOMAIN stack' \subseteq (1 .. Len(frames)) \cup {Len(frames) + 1}
  BY <1>5
<1>n. \A s \in ScopeIds', m \in Names : scopes'[s].sym_idx[m] # 0 =>
        s \in ScopeIds /\ scopes'[s] = scopes[s]
  BY <1>a, <1>3, <1>d
<1> HIDE DEF new, s0, s1, frame
<1>6. TypeOK'
  <2>1. \A k \in SymbolIds : /\ symbols[k].scope_idx \in {0} \cup ScopeIds'
                             /\ symbols[k].created_scope_idx \in {0} \cup ScopeIds'
    BY <1>0, <1>d DEF TypeOK
  <2>2. ASSUME NEW s \in ScopeIds'
        PROVE  /\ scopes'[s].parent_scope_idx \in {0} \cup ScopeIds'
               /\ \A m \in Names : scopes'[s].sym_idx[m] \in {0} \cup SymbolIds
    <3>1. CASE s = s1
      BY <3>1, <1>1, <1>3, <1>a, <1>d
    <3>2. CASE s \in ScopeIds
      BY <3>2, <1>0, <1>3, <1>d DEF TypeOK
    <3> QED
      BY <3>1, <3>2, <1>d
  <2>3. \A s \in ScopeIds' : chain'[s] \subseteq ScopeIds'
    BY <1>1, <1>4, <1>d
  <2>4. ASSUME NEW i \in DOMAIN stack'
        PROVE  stack'[i].scope \in ScopeIds' /\ stack'[i].sym \in {0} \cup SymbolIds
    <3>1. CASE i = Len(frames) + 1
      BY <3>1, <1>5, <1>b, <1>d
    <3>2. CASE i \in 1 .. Len(frames)
      BY <3>2, <1>5, <1>c, <1>d DEF CallOK
    <3> QED
      BY <3>1, <3>2, <1>e
  <2>5. stack' # <<>>
    BY <1>5
  <2>6. /\ symbols \in Seq(SymbolRecords)
        /\ builtin_to_symbol_id \in [BuiltinNames -> {0} \cup SymbolIds]
        /\ type_symbol_ids \subseteq SymbolIds
        /\ builtin_symbol_ids \subseteq SymbolIds
        /\ next_builtin \in 1 .. (Len(ReadableToBuiltin) + 1)
        /\ status \in Statuses
    BY <1>0 DEF TypeOK
  <2> QED
    BY <2>1, <2>2, <2>3, <2>4, <2>5, <2>6, <1>2, <1>3, <1>4, <1>5 DEF TypeOK
<1>7. ScopeTree'
  <2>1. scopes'[1].parent_scope_idx = 0 /\ chain'[1] = {1}
    BY <1>0, <1>1, <1>3, <1>4 DEF ScopeTree
  <2>2. ASSUME NEW s \in ScopeIds \ {1}
        PROVE  LET p == scopes'[s].parent_scope_idx
               IN  p \in 1 .. (s - 1) /\ chain'[s] = chain'[p] \cup {s}
    <3>1. scopes[s].parent_scope_idx \in 1 .. (s - 1)
          /\ chain[s] = chain[scopes[s].parent_scope_idx] \cup {s}
      BY <1>0 DEF ScopeTree
    <3>2. scopes[s].parent_scope_idx \in ScopeIds
      BY <3>1, <1>1 DEF ScopeIds
    <3> QED
      BY <3>1, <3>2, <1>3, <1>4
  <2>3. s0 \in 1 .. (s1 - 1) /\ chain'[s1] = chain'[s0] \cup {s1}
    BY <1>1, <1>4 DEF ScopeIds, s1
  <2> QED
    BY <2>1, <2>2, <2>3, <1>3, <1>a, <1>d DEF ScopeTree
<1>8. BindingsAgree'
  <2>1. NamesLeadToSymbols'
    BY <1>0, <1>2, <1>n DEF BindingsAgree, NamesLeadToSymbols
  <2>2. ASSUME NEW k \in SymbolIds \ {1}
        PROVE  \E s \in ScopeIds' : \A u \in ScopeIds' :
                  scopes'[u].sym_idx[symbols[k].name] = k <=> u = s
    <3>1. PICK s \in ScopeIds : \A u \in ScopeIds :
                  scopes[u].sym_idx[symbols[k].name] = k <=> u = s
      BY <1>0 DEF BindingsAgree, SymbolsAreBoundOnce
    <3>2. symbols[k].name \in Names /\ k # 0
      BY <1>0 DEF Bookkeeping, SymbolIds
    <3>3. ASSUME NEW u \in ScopeIds
          PROVE  scopes'[u].sym_idx[symbols[k].name] = k <=> u = s
      BY <3>1, <1>3
    <3>4. scopes'[s1].sym_idx[symbols[k].name] # k /\ s # s1
      BY <3>1, <3>2, <1>3, <1>a
    <3> QED
      BY <3>3, <3>4, <1>d
  <2>3. SymbolsAreBoundOnce'
    BY <2>2, <1>2 DEF SymbolsAreBoundOnce
  <2> QED
    BY <2>1, <2>3 DEF BindingsAgree
<1>9. OwnersAgree'
  <2>1. OwnersMatch'
    <3> SUFFICES ASSUME NEW k \in SymbolIds, symbols[k].created_scope_idx # 0
                 PROVE  LET c == scopes'[symbols[k].created_scope_idx] IN
                        /\ c.owning_symbol_type = symbols[k].sym_type
                        /\ k # 1 => c.parent_scope_idx = symbols[k].scope_idx
      BY <1>2 DEF OwnersMatch
    <3>1. symbols[k].created_scope_idx \in ScopeIds
      BY Ranges
    <3> QED
      BY <3>1, <1>0, <1>3 DEF OwnersAgree, OwnersMatch
  <2>2. OwnersAreUnique'
    BY <1>0, <1>2 DEF OwnersAgree, OwnersAreUnique
  <2>3. ParametersInBodies'
    BY <1>0, <1>2, <1>n DEF OwnersAgree, ParametersInBodies
  <2> QED
    BY <2>1, <2>2, <2>3 DEF OwnersAgree
<1>10. VariablesHideNothingEarlier'
  <2> SUFFICES ASSUME NEW s \in ScopeIds', NEW m \in Names,
                      scopes'[s].sym_idx[m] # 0,
                      symbols[scopes'[s].sym_idx[m]].sym_type = "VAR",
                      NEW a \in chain'[s] \ {s}
               PROVE  scopes'[a].sym_idx[m] \notin 1 .. scopes'[s].sym_idx[m]
    BY <1>2 DEF VariablesHideNothingEarlier
  <2>1. s \in ScopeIds /\ scopes'[s] = scopes[s]
    BY <1>n
  <2>2. a \in chain[s] \ {s} /\ a \in ScopeIds /\ scopes'[a] = scopes[a]
    BY <2>1, <1>1, <1>3, <1>4
  <2> QED
    BY <2>1, <2>2, <1>0 DEF VariablesHideNothingEarlier
<1>11. FramesNest'
  <2> SUFFICES ASSUME NEW i \in 2 .. Len(stack')
               PROVE  LET outer == stack'[i - 1]
                          inner == stack'[i]
                      IN  \/ inner.node # "ELSE"
                             /\ scopes'[inner.scope].parent_scope_idx = outer.scope
                          \/ inner.node = "ELSE" /\ inner.scope = outer.scope
                          \/ inner.node = "MODULE" /\ outer.node = "MODULE"
                             /\ inner.sym # 0
                             /\ inner.scope = symbols'[inner.sym].scope_idx
    BY DEF FramesNest
  <2>1. CASE i = Len(frames) + 1
    <3>1. stack'[i] = frame /\ stack'[i - 1] = frames[Len(frames)]
          /\ frames # <<>>
      BY <2>1, <1>5
    <3>2. frames[Len(frames)].scope = s0
      BY <3>1 DEF s0
    <3>3. scopes'[frame.scope].parent_scope_idx = s0 /\ frame.node # "ELSE"
      BY <1>3, <1>a, <1>b
    <3> QED
      BY <3>1, <3>2, <3>3
  <2>2. CASE i \in 2 .. Len(frames)
    <3>1. stack'[i] = frames[i] /\ stack'[i - 1] = frames[i - 1]
      BY <2>2, <1>5
    <3>2. frames[i].scope \in ScopeIds /\ Nests(frames[i - 1], frames[i])
      BY <2>2, <1>5, <1>c DEF Calls, CallOK
    <3> QED
      BY <3>1, <3>2, <1>2, <1>3 DEF Nests
  <2> QED
    BY <2>1, <2>2, <1>5
<1>12. Bookkeeping'
  <2>1. ASSUME NEW i \in DOMAIN stack', stack'[i].node = "PARAMS"
        PROVE  scopes'[stack'[i].scope].owning_symbol_type = "FN"
    <3>1. CASE i = Len(frames) + 1
      BY <2>1, <3>1, <1>5, <1>b
    <3>2. CASE i \in 1 .. Len(frames)
      BY <2>1, <3>2, <1>3, <1>5, <1>c DEF CallOK
    <3> QED
      BY <3>1, <3>2, <1>e
  <2>2. ~(next_builtin' <= Len(ReadableToBuiltin))
    BY <1>2, <1>0, BuiltinAssumption DEF TypeOK
  <2>3. Len(scopes') >= 1
    BY <1>1, <1>3 DEF s1
  <2> QED
    BY <2>1, <2>2, <2>3, <1>0, <1>2 DEF Bookkeeping
<1>13. Grows
  BY <1>2, <1>3 DEF Grows
<1> QED
  BY <1>6, <1>7, <1>8, <1>9, <1>10, <1>11, <1>12, <1>13 DEF IInv
(* The table's entry of the next builtin is a name, not declared before.     *)
LEMMA BuiltinFacts ==
  ASSUME IInv, next_builtin <= Len(ReadableToBuiltin)
  PROVE  /\ ReadableToBuiltin[next_builtin] \in Names
         /\ ReadableToBuiltin[next_builtin] \in BuiltinNames
         /\ scopes[1].sym_idx[ReadableToBuiltin[next_builtin]] = 0
         /\ Len(scopes) = 1 /\ ScopeIds = {1} /\ Top.scope = 1 /\ chain[1] = {1}
         /\ next_builtin \in DOMAIN ReadableToBuiltin
         /\ \A i \in (next_builtin + 1) .. Len(ReadableToBuiltin) :
              /\ i \in next_builtin .. Len(ReadableToBuiltin)
              /\ ReadableToBuiltin[i] \in Names
              /\ ReadableToBuiltin[i] # ReadableToBuiltin[next_builtin]
<1>1. TypeOK /\ Bookkeeping /\ ScopeTree
  BY DEF IInv
<1>2. ReadableToBuiltin \in Seq(Names) /\ Len(ReadableToBuiltin) \in Nat
  BY BuiltinAssumption
<1>3. next_builtin \in DOMAIN ReadableToBuiltin /\ next_builtin \in Nat
  BY <1>1, <1>2 DEF TypeOK
<1>4. ReadableToBuiltin[next_builtin] \in Names
      /\ ReadableToBuiltin[next_builtin] \in BuiltinNames
  BY <1>2, <1>3 DEF BuiltinNames
<1>5. scopes[1].sym_idx[ReadableToBuiltin[next_builtin]] = 0
      /\ Len(scopes) = 1 /\ ScopeIds = {1} /\ chain[1] = {1}
  <2>1. next_builtin \in next_builtin .. Len(ReadableToBuiltin)
    BY <1>2, <1>3
  <2>2. scopes[1].sym_idx[ReadableToBuiltin[next_builtin]] = 0 /\ Len(scopes) = 1
    BY <2>1, <1>1 DEF Bookkeeping
  <2>3. ScopeIds = {1}
    BY <2>2 DEF ScopeIds
  <2>4. chain[1] = {1}
    BY <1>1 DEF ScopeTree
  <2> QED
    BY <2>2, <2>3, <2>4
<1>6. Top.scope = 1
  BY <1>5, Ranges
<1>7. ASSUME NEW i \in (next_builtin + 1) .. Len(ReadableToBuiltin)
      PROVE  /\ i \in next_builtin .. Len(ReadableToBuiltin)
             /\ ReadableToBuiltin[i] \in Names
             /\ ReadableToBuiltin[i] # ReadableToBuiltin[next_builtin]
  <2>1. i \in DOMAIN ReadableToBuiltin /\ i # next_builtin
        /\ i \in next_builtin .. Len(ReadableToBuiltin)
    BY <1>2, <1>3
  <2> QED
    BY <2>1, <1>2, <1>3, BuiltinAssumption
<1> QED
  BY <1>3, <1>4, <1>5, <1>6, <1>7

(* A round of add_builtin_symbols keeps the invariant: a declaration in the  *)
(* global scope, or for "int" a binding of a symbol that has a name already. *)
LEMMA BuiltinStep ==
  ASSUME IInv, AddBuiltinSymbol
  PROVE  IInv' /\ Grows
<1> DEFINE n == ReadableToBuiltin[next_builtin]
           k0 == Len(symbols) + 1
<1>0. TypeOK /\ ScopeTree /\ BindingsAgree /\ OwnersAgree
      /\ VariablesHideNothingEarlier /\ FramesNest /\ Bookkeeping
  BY DEF IInv
<1>1. /\ next_builtin <= Len(ReadableToBuiltin)
      /\ next_builtin' = next_builtin + 1
      /\ chain' = chain /\ stack' = stack /\ status' = status
  BY DEF AddBuiltinSymbol
<1>2. /\ n \in Names /\ n \in BuiltinNames /\ scopes[1].sym_idx[n] = 0
      /\ Len(scopes) = 1 /\ ScopeIds = {1} /\ Top.scope = 1 /\ chain[1] = {1}
      /\ next_builtin \in DOMAIN ReadableToBuiltin
      /\ \A i \in (next_builtin + 1) .. Len(ReadableToBuiltin) :
           /\ i \in next_builtin .. Len(ReadableToBuiltin)
           /\ ReadableToBuiltin[i] \in Names /\ ReadableToBuiltin[i] # n
  BY <1>1, BuiltinFacts
<1>3. next_builtin' \in 1 .. (Len(ReadableToBuiltin) + 1)
  BY <1>1, <1>2, BuiltinAssumption
<1>4. /\ scopes \in Seq(ScopeRecords) /\ symbols \in Seq(SymbolRecords)
      /\ Len(symbols) \in Nat /\ 1 \in SymbolIds
  BY Ranges
<1>5. ASSUME NEW k \in Nat, scopes' = Bind(scopes, 1, n, k)
      PROVE  /\ Len(scopes') = 1 /\ scopes' \in Seq(ScopeRecords)
             /\ scopes'[1].owning_symbol_type = scopes[1].owning_symbol_type
             /\ scopes'[1].parent_scope_idx = scopes[1].parent_scope_idx
             /\ \A m \in Names : scopes'[1].sym_idx[m] =
                   IF m = n THEN k ELSE scopes[1].sym_idx[m]
             /\ \A i \in next_builtin' .. Len(ReadableToBuiltin) :
                  scopes'[1].sym_idx[ReadableToBuiltin[i]] = 0
  <2>1. /\ Len(scopes') = 1 /\ scopes' \in Seq(ScopeRecords)
        /\ scopes'[1].owning_symbol_type = scopes[1].owning_symbol_type
        /\ scopes'[1].parent_scope_idx = scopes[1].parent_scope_idx
        /\ \A m \in Names : scopes'[1].sym_idx[m] =
              IF m = n THEN k ELSE scopes[1].sym_idx[m]
    <3>1. 1 \in 1 .. Len(scopes)
      BY <1>2
    <3>2. n \in Names
      BY <1>2
    <3> HIDE DEF n
    <3>3. /\ Bind(scopes, 1, n, k) \in Seq(ScopeRecords)
          /\ Len(Bind(scopes, 1, n, k)) = Len(scopes)
          /\ \A s \in 1 .. Len(scopes) :
               /\ Bind(scopes, 1, n, k)[s].owning_symbol_type = scopes[s].owning_symbol_type
               /\ Bind(scopes, 1, n, k)[s].parent_scope_idx = scopes[s].parent_scope_idx
               /\ \A m \in Names : Bind(scopes, 1, n, k)[s].sym_idx[m] =
                     IF s = 1 /\ m = n THEN k ELSE scopes[s].sym_idx[m]
      BY <3>1, <3>2, <1>4, BindFacts
    <3>4. scopes' = Bind(scopes, 1, n, k) /\ Len(scopes) = 1
      BY <1>2, <1>5
    <3> QED
      BY <3>1, <3>3, <3>4
  <2>2. ASSUME NEW i \in next_builtin' .. Len(ReadableToBuiltin)
        PROVE  scopes'[1].sym_idx[ReadableToBuiltin[i]] = 0
    <3>1. i \in next_builtin .. Len(ReadableToBuiltin)
          /\ ReadableToBuiltin[i] \in Names /\ ReadableToBuiltin[i] # n
      BY <1>1, <1>2
    <3>2. scopes[1].sym_idx[ReadableToBuiltin[i]] = 0
      BY <3>1, <1>0, <1>1 DEF Bookkeeping
    <3> QED
      BY <3>1, <3>2, <2>1
  <2> QED
    BY <2>1, <2>2
<1> HIDE DEF n
<1>6. CASE n # "int"
  <2>1. /\ symbols' = Append(symbols, Symbol("BUILTIN", n, 0, 0))
        /\ scopes' = Bind(scopes, 1, n, k0)
        /\ builtin_to_symbol_id' = [builtin_to_symbol_id EXCEPT ![n] = k0]
        /\ type_symbol_ids' = type_symbol_ids \cup {k0}
        /\ builtin_symbol_ids' = builtin_symbol_ids \cup {k0}
    BY <1>6 DEF AddBuiltinSymbol, NextSymbol, n
  <2>2. SymbolIds' = SymbolIds \cup {k0}
        /\ symbols'[k0].sym_type = "BUILTIN" /\ symbols'[k0].name = n
        /\ (\A k \in SymbolIds : symbols'[k] = symbols[k])
    <3> DEFINE new == Symbol("BUILTIN", n, 0, 0)
    <3>1. new \in SymbolRecords /\ new.sym_type = "BUILTIN" /\ new.name = n
      BY <1>2 DEF Symbol, SymbolRecords, SymbolTypes
    <3>2. symbols' = Append(symbols, new)
      BY <2>1
    <3> HIDE DEF new
    <3> QED
      BY <3>1, <3>2, <1>4, AppendFacts DEF SymbolIds
  <2>3. BuiltinsOK'
    <3>1. builtin_to_symbol_id' \in [BuiltinNames -> {0} \cup SymbolIds']
          /\ type_symbol_ids' \subseteq SymbolIds'
          /\ builtin_symbol_ids' \subseteq SymbolIds'
      BY <2>1, <2>2, <1>0 DEF TypeOK
    <3>2. ASSUME "i32" \in BuiltinNames, builtin_to_symbol_id'["i32"] # 0
          PROVE  LET k == builtin_to_symbol_id'["i32"]
                 IN  k # 1 /\ symbols'[k].sym_type = "BUILTIN" /\ symbols'[k].name = "i32"
      <4>1. CASE n = "i32"
        <5>1. builtin_to_symbol_id'["i32"] = k0
          BY <4>1, <3>2, <2>1, <1>0 DEF TypeOK
        <5>2. k0 # 1
          BY <1>4 DEF SymbolIds
        <5> QED
          BY <5>1, <5>2, <4>1, <2>2
      <4>2. CASE n # "i32"
        <5>1. builtin_to_symbol_id'["i32"] = builtin_to_symbol_id["i32"]
              /\ builtin_to_symbol_id["i32"] \in {0} \cup SymbolIds
          BY <4>2, <3>2, <2>1, <1>0 DEF TypeOK
        <5> DEFINE k == builtin_to_symbol_id["i32"]
        <5>2. k # 1 /\ symbols[k].sym_type = "BUILTIN" /\ symbols[k].name = "i32"
          BY <5>1, <3>2, <1>0 DEF Bookkeeping
        <5>3. symbols'[k] = symbols[k]
          BY <5>1, <3>2, <2>2
        <5> QED
          BY <5>1, <5>2, <5>3
      <4> QED
        BY <4>1, <4>2
    <3>3. /\ Len(scopes') = 1
          /\ \A i \in next_builtin' .. Len(ReadableToBuiltin) :
               scopes'[1].sym_idx[ReadableToBuiltin[i]] = 0
      BY <2>1, <1>4, <1>5
    <3> QED
      BY <3>1, <3>2, <3>3, <1>3 DEF BuiltinsOK
  <2>4. ~IsDefined(n, Top.scope, FALSE)
    BY <1>2 DEF IsDefined
  <2>5. "BUILTIN" \in SymbolTypes \ {"MODULE"} /\ 0 \in {0, Top.scope}
        /\ scopes' = Bind(scopes, Top.scope, n, NextSymbol)
    BY <2>1, <1>2 DEF SymbolTypes, NextSymbol
  <2> QED
    BY <2>1, <2>3, <2>4, <2>5, <1>1, <1>2, LeafStep
<1>7. CASE n = "int"
  <2> DEFINE k1 == builtin_to_symbol_id["i32"]
  <2>1. "i32" \in BuiltinNames
    BY <1>2, <1>7, BuiltinAssumption DEF BuiltinNames, n
  <2>2. k1 \in {0} \cup SymbolIds
    BY <2>1, <1>0 DEF TypeOK
  <2>3. /\ symbols' = symbols /\ SymbolIds' = SymbolIds
        /\ type_symbol_ids' = type_symbol_ids
        /\ builtin_symbol_ids' = builtin_symbol_ids
        /\ builtin_to_symbol_id' = [builtin_to_symbol_id EXCEPT ![n] = k1]
        /\ scopes' = Bind(scopes, 1, n, k1)
    BY <1>7 DEF AddBuiltinSymbol, SymbolIds, n
  <2>4. k1 # 0 => symbols[k1].sym_type = "BUILTIN" /\ symbols[k1].name = "i32"
    BY <2>1, <1>0 DEF Bookkeeping
  <2>5. builtin_to_symbol_id'["i32"] = k1
        /\ builtin_to_symbol_id' \in [BuiltinNames -> {0} \cup SymbolIds]
    BY <2>1, <2>2, <2>3, <1>0, <1>7 DEF TypeOK
  <2>6. k1 \in Nat
    BY <2>2 DEF SymbolIds
  <2>7. /\ Len(scopes') = 1 /\ scopes' \in Seq(ScopeRecords)
        /\ scopes'[1].owning_symbol_type = scopes[1].owning_symbol_type
        /\ scopes'[1].parent_scope_idx = scopes[1].parent_scope_idx
        /\ \A m \in Names : scopes'[1].sym_idx[m] =
              IF m = n THEN k1 ELSE scopes[1].sym_idx[m]
        /\ \A i \in next_builtin' .. Len(ReadableToBuiltin) :
             scopes'[1].sym_idx[ReadableToBuiltin[i]] = 0
    <3> HIDE DEF k1
    <3> QED
      BY <2>3, <2>6, <1>5
  <2>8. ScopeIds' = {1} /\ ScopeIds = {1}
    BY <2>7, <1>2 DEF ScopeIds
  <2>9. \A k \in SymbolIds \ {1} : k # 0 /\ symbols[k].name # "int"
          /\ symbols[k].name \in Names
    <3> SUFFICES ASSUME NEW k \in SymbolIds \ {1}
                 PROVE  k # 0 /\ symbols[k].name # "int" /\ symbols[k].name \in Names
      OBVIOUS
    <3>1. k # 0 /\ symbols[k].name \in Names
      BY <1>0 DEF Bookkeeping, SymbolIds
    <3>2. scopes[1].sym_idx[symbols[k].name] = k
      BY <1>0, <2>8 DEF BindingsAgree, SymbolsAreBoundOnce
    <3> QED
      BY <3>1, <3>2, <1>2, <1>7
  <2> HIDE DEF k1
  <2>10. TypeOK'
    <3>1. scopes'[1].parent_scope_idx \in {0} \cup ScopeIds'
          /\ \A m \in Names : scopes'[1].sym_idx[m] \in {0} \cup SymbolIds
      BY <2>2, <2>7, <2>8, <1>0 DEF TypeOK
    <3>2. \A k \in SymbolIds' : /\ symbols'[k].scope_idx \in {0} \cup ScopeIds'
                                /\ symbols'[k].created_scope_idx \in {0} \cup ScopeIds'
      BY <2>3, <2>8, <1>0 DEF TypeOK
    <3>3. /\ builtin_to_symbol_id' \in [BuiltinNames -> {0} \cup SymbolIds']
          /\ type_symbol_ids' \subseteq SymbolIds'
          /\ builtin_symbol_ids' \subseteq SymbolIds'
          /\ symbols' \in Seq(SymbolRecords)
      BY <2>3, <2>5, <1>0 DEF TypeOK
    <3>4. /\ stack' \in Seq(FrameRecords) /\ stack' # <<>>
          /\ \A i \in DOMAIN stack' : /\ stack'[i].scope \in ScopeIds'
                                      /\ stack'[i].sym \in {0} \cup SymbolIds'
      BY <2>3, <2>8, <1>0, <1>1 DEF TypeOK
    <3>5. /\ chain' \in Seq(SUBSET Nat) /\ Len(chain') = Len(scopes')
          /\ \A s \in ScopeIds' : chain'[s] \subseteq ScopeIds'
          /\ status' \in Statuses
      BY <2>7, <2>8, <1>0, <1>1, <1>2 DEF TypeOK
    <3>6. \A s \in ScopeIds' : s = 1
      BY <2>8
    <3> QED
      BY <3>1, <3>2, <3>3, <3>4, <3>5, <3>6, <2>3, <2>7, <1>3 DEF TypeOK
  <2>11. ScopeTree'
    BY <2>7, <2>8, <1>0, <1>1 DEF ScopeTree
  <2>12. BindingsAgree'
    <3>1. NamesLeadToSymbols'
      BY <2>3, <2>4, <2>7, <2>8, <1>0, <1>7 DEF BindingsAgree, NamesLeadToSymbols
    <3>2. ASSUME NEW k \in SymbolIds \ {1}
          PROVE  scopes'[1].sym_idx[symbols[k].name] = k
      <4>1. scopes[1].sym_idx[symbols[k].name] = k
        BY <1>0, <2>8 DEF BindingsAgree, SymbolsAreBoundOnce
      <4> QED
        BY <4>1, <2>7, <2>9, <1>7
    <3>3. SymbolsAreBoundOnce'
      BY <3>2, <2>3, <2>8 DEF SymbolsAreBoundOnce
    <3> QED
      BY <3>1, <3>3 DEF BindingsAgree
  <2>13. OwnersAgree'
    <3>1. \A k \in SymbolIds : symbols[k].created_scope_idx \in {0, 1}
      BY <2>8, <1>0 DEF TypeOK
    <3>2. OwnersMatch'
      BY <3>1, <2>3, <2>7, <1>0 DEF OwnersAgree, OwnersMatch
    <3>3. OwnersAreUnique'
      BY <2>3, <1>0 DEF OwnersAgree, OwnersAreUnique
    <3>4. ParametersInBodies'
      BY <2>3, <2>4, <2>7, <2>8, <1>0, <1>7 DEF OwnersAgree, ParametersInBodies
    <3> QED
      BY <3>2, <3>3, <3>4 DEF OwnersAgree
  <2>14. VariablesHideNothingEarlier'
    BY <2>8, <1>1, <1>2 DEF VariablesHideNothingEarlier
  <2>15. FramesNest'
    <3>1. \A i \in DOMAIN stack : stack[i].scope = 1
      BY <2>8, <1>0 DEF TypeOK
    <3>2. \A i \in 2 .. Len(stack) : i \in DOMAIN stack
      BY <1>0 DEF TypeOK
    <3> QED
      BY <3>1, <3>2, <2>3, <2>7, <1>0, <1>1 DEF FramesNest
  <2>16. Bookkeeping'
    <3>1. \A i \in DOMAIN stack : stack[i].scope = 1
      BY <2>8, <1>0 DEF TypeOK
    <3>2. \A i \in DOMAIN stack' : stack'[i].node = "PARAMS" =>
            scopes'[stack'[i].scope].owning_symbol_type = "FN"
      BY <3>1, <2>7, <1>0, <1>1 DEF Bookkeeping
    <3>3. "i32" \in BuiltinNames /\ builtin_to_symbol_id'["i32"] # 0 =>
            LET k == builtin_to_symbol_id'["i32"]
            IN  k # 1 /\ symbols'[k].sym_type = "BUILTIN" /\ symbols'[k].name = "i32"
      BY <2>3, <2>5, <1>0 DEF Bookkeeping, k1
    <3> QED
      BY <3>2, <3>3, <2>3, <2>7, <1>0 DEF Bookkeeping
  <2>17. Grows
    BY <2>3, <2>7, <2>8, <1>2 DEF Grows
  <2> QED
    BY <2>10, <2>11, <2>12, <2>13, <2>14, <2>15, <2>16, <2>17 DEF IInv
<1> QED
  BY <1>6, <1>7
(* The end of the program, successful or not, keeps the invariant.           *)
LEMMA StopStep ==
  ASSUME IInv, NEW reason \in Statuses, Stop(reason)
  PROVE  IInv' /\ Grows
<1>1. Calls(stack) /\ stack # <<>>
  BY CallsOfStack
<1>2. stack' = stack /\ status' \in Statuses
      /\ UNCHANGED <<symbols, scopes, chain, ids, next_builtin>>
  BY DEF Stop
<1> QED
  BY <1>1, <1>2, StackStep

(* With the builtin names all added, what is said of them stays so when a    *)
(* symbol is appended.                                                       *)
LEMMA BuiltinsStay ==
  ASSUME IInv, next_builtin > Len(ReadableToBuiltin), UNCHANGED <<ids, next_builtin>>,
         NEW e \in SymbolRecords, symbols' = Append(symbols, e)
  PROVE  BuiltinsOK'
<1>1. TypeOK /\ Bookkeeping
  BY DEF IInv
<1>2. SymbolIds \subseteq SymbolIds' /\ \A k \in SymbolIds : symbols'[k] = symbols[k]
  BY Ranges, AppendFacts DEF SymbolIds
<1>3. /\ builtin_to_symbol_id' = builtin_to_symbol_id
      /\ type_symbol_ids' = type_symbol_ids
      /\ builtin_symbol_ids' = builtin_symbol_ids
      /\ next_builtin' = next_builtin
  BY DEF ids
<1>4. ~(next_builtin' <= Len(ReadableToBuiltin))
  BY <1>1, <1>3, BuiltinAssumption DEF TypeOK
<1>5. ASSUME "i32" \in BuiltinNames, builtin_to_symbol_id["i32"] # 0
      PROVE  LET k == builtin_to_symbol_id["i32"]
             IN  k # 1 /\ symbols'[k].sym_type = "BUILTIN" /\ symbols'[k].name = "i32"
  <2>1. builtin_to_symbol_id["i32"] \in SymbolIds
    BY <1>1, <1>5 DEF TypeOK
  <2> QED
    BY <2>1, <1>1, <1>2, <1>5 DEF Bookkeeping
<1>6. /\ builtin_to_symbol_id \in [BuiltinNames -> {0} \cup SymbolIds']
      /\ type_symbol_ids \subseteq SymbolIds' /\ builtin_symbol_ids \subseteq SymbolIds'
      /\ next_builtin \in 1 .. (Len(ReadableToBuiltin) + 1)
  BY <1>1, <1>2 DEF TypeOK
<1> QED
  BY <1>3, <1>4, <1>5, <1>6 DEF BuiltinsOK

(* A declaration without a scope, accepted or refused.                       *)
LEMMA DeclareLeafStep ==
  ASSUME IInv, next_builtin > Len(ReadableToBuiltin),
         NEW t \in SymbolTypes \ {"MODULE"}, NEW n \in Names,
         NEW where, where \in {0, Top.scope}, NEW isVariable \in BOOLEAN,
         t = "VAR" => isVariable,
         t = "PARAM" => scopes[Top.scope].owning_symbol_type = "FN",
         DeclareLeaf(t, n, where, isVariable)
  PROVE  IInv' /\ Grows
<1>1. CASE Stop("exited")
  BY <1>1, StopStep DEF Statuses
<1>2. CASE ~Stop("exited")
  <2>1. /\ ~IsDefined(n, Top.scope, isVariable)
        /\ symbols' = Append(symbols, Symbol(t, n, where, 0))
        /\ scopes' = Bind(scopes, Top.scope, n, NextSymbol)
        /\ UNCHANGED <<chain, ids, next_builtin, stack, status>>
    BY <1>2 DEF DeclareLeaf
  <2>2. Symbol(t, n, where, 0) \in SymbolRecords
    BY Ranges DEF Symbol, SymbolRecords, ScopeIds
  <2>3. BuiltinsOK'
    BY <2>1, <2>2, BuiltinsStay
  <2> QED
    BY <2>1, <2>3, LeafStep
<1> QED
  BY <1>1, <1>2

(* A declaration with a scope, accepted or refused.                          *)
LEMMA DeclareOwnerStep ==
  ASSUME IInv, next_builtin > Len(ReadableToBuiltin),
         NEW t \in {"STRUCT", "COMPONENT", "MODULE", "FN"}, NEW n \in Names,
         NEW node \in Nodes \ {"ELSE"}, node = "PARAMS" => t = "FN",
         DeclareOwner(t, n, node)
  PROVE  IInv' /\ Grows
<1>1. CASE Stop("exited")
  BY <1>1, StopStep DEF Statuses
<1>2. CASE ~Stop("exited")
  <2>1. /\ ~IsDefined(n, Top.scope, FALSE)
        /\ symbols' = Append(symbols, Symbol(t, n, Top.scope, NextScope))
        /\ AllocateScope(Bind(scopes, Top.scope, n, NextSymbol), t, Top.scope)
        /\ stack' = Push(Frame(node, NextScope, NextSymbol))
        /\ type_symbol_ids' \in {type_symbol_ids, type_symbol_ids \cup {NextSymbol}}
        /\ UNCHANGED <<builtin_to_symbol_id, builtin_symbol_ids, next_builtin, status>>
    BY <1>2 DEF DeclareOwner
  <2> QED
    BY <2>1, OwnerStep
<1> QED
  BY <1>1, <1>2

(* Every step keeps the invariant, and the table but for what it adds.       *)
LEMMA NextIInv ==
  ASSUME IInv, [Next]_vars
  PROVE  IInv' /\ Grows
<1> USE DEF Visiting
<1>0. /\ Calls(stack) /\ CallOK(Top) /\ Len(stack) \in Nat \ {0}
      /\ Top = stack[Len(stack)] /\ stack # <<>>
      /\ Top.scope \in ScopeIds
      /\ stack \in Seq(FrameRecords)
  BY CallsOfStack, Ranges DEF Top
<1>1. CASE AddBuiltinSymbol
  BY <1>1, BuiltinStep
<1>2. ASSUME NEW n \in Names, BuildField(n)
      PROVE  IInv' /\ Grows
  <2>1. /\ DeclareLeaf("FIELD", n, Top.scope, FALSE)
        /\ next_builtin > Len(ReadableToBuiltin)
        /\ "FIELD" \in SymbolTypes \ {"MODULE"} /\ FALSE \in BOOLEAN
    BY <1>2 DEF BuildField, SymbolTypes
  <2> QED
    BY <2>1, DeclareLeafStep
<1>3. ASSUME NEW n \in Names, BuildStruct(n)
      PROVE  IInv' /\ Grows
  BY <1>3, DeclareOwnerStep DEF BuildStruct, Nodes
<1>4. ASSUME NEW n \in Names, BuildComponent(n)
      PROVE  IInv' /\ Grows
  BY <1>4, DeclareOwnerStep DEF BuildComponent, Nodes
<1>5. ASSUME NEW n \in Names, BuildModule(n)
      PROVE  IInv' /\ Grows
  <2> DEFINE existing == scopes[Top.scope].sym_idx[n]
             f == Frame("MODULE", symbols[existing].scope_idx, existing)
  <2>1. CASE Visiting({"MODULE"}, 1, 1) /\ DeclareOwner("MODULE", n, "MODULE")
    BY <2>1, DeclareOwnerStep DEF Nodes
  <2>2. CASE /\ Top.node = "MODULE"
             /\ existing # 0
             /\ symbols[existing].sym_type = "MODULE"
             /\ stack' = Push(f)
             /\ UNCHANGED <<symbols, scopes, chain, ids, next_builtin, status>>
    <3>1. existing \in SymbolIds
      BY <2>2, Ranges
    <3>2. symbols[existing].scope_idx \in ScopeIds
      BY <2>2, <3>1 DEF IInv, TypeOK, Bookkeeping
    <3>3. /\ f.node = "MODULE" /\ f.scope = symbols[existing].scope_idx
          /\ f.sym = existing /\ f \in FrameRecords
      BY <3>1, <3>2 DEF Frame, FrameRecords, Nodes, ScopeIds, SymbolIds
    <3> HIDE DEF f
    <3>4. CallOK(f)
      BY <3>1, <3>2, <3>3 DEF CallOK
    <3>5. Nests(stack[Len(stack)], f)
      BY <2>2, <3>3, <1>0 DEF Nests
    <3>6. stack' = Append(stack, f)
      BY <2>2 DEF Push
    <3>7. Calls(stack')
      BY <3>4, <3>5, <3>6, <1>0, CallsPush
    <3>8. stack' # <<>>
      BY <3>6, <1>0
    <3>9. status' \in Statuses
      BY <2>2 DEF IInv, TypeOK
    <3> QED
      BY <2>2, <3>7, <3>8, <3>9, StackStep
  <2>3. CASE Stop("module_cast")
    BY <2>3, StopStep DEF Statuses
  <2> QED
    BY <1>5, <2>1, <2>2, <2>3 DEF BuildModule
<1>6. ASSUME NEW n \in Names, BuildFunction(n)
      PROVE  IInv' /\ Grows
  BY <1>6, DeclareOwnerStep DEF BuildFunction, Nodes
<1>7. ASSUME NEW n \in Names, BuildReceiver(n)
      PROVE  IInv' /\ Grows
  <2>1. scopes[Top.scope].owning_symbol_type = "FN"
    BY <1>7, <1>0 DEF BuildReceiver, CallOK
  <2>2. /\ DeclareLeaf("PARAM", n, 0, FALSE)
        /\ next_builtin > Len(ReadableToBuiltin)
        /\ "PARAM" \in SymbolTypes \ {"MODULE"} /\ FALSE \in BOOLEAN
    BY <1>7 DEF BuildReceiver, SymbolTypes
  <2> QED
    BY <2>1, <2>2, DeclareLeafStep
<1>8. ASSUME NEW n \in Names, BuildParam(n)
      PROVE  IInv' /\ Grows
  <2>1. scopes[Top.scope].owning_symbol_type = "FN"
    BY <1>8, <1>0 DEF BuildParam, CallOK
  <2>2. /\ DeclareLeaf("PARAM", n, Top.scope, FALSE)
        /\ next_builtin > Len(ReadableToBuiltin)
        /\ "PARAM" \in SymbolTypes \ {"MODULE"} /\ FALSE \in BOOLEAN
    BY <1>8 DEF BuildParam, SymbolTypes
  <2> QED
    BY <2>1, <2>2, DeclareLeafStep
<1>9. ASSUME NEW n \in Names, BuildVarDecl(n)
      PROVE  IInv' /\ Grows
  BY <1>9, DeclareLeafStep DEF BuildVarDecl, SymbolTypes
<1>10. ASSUME NEW n \in Names, BuildForInit(n)
       PROVE  IInv' /\ Grows
  BY <1>10, DeclareLeafStep DEF BuildForInit, SymbolTypes
<1>11. CASE BeginBody
  <2> DEFINE f == [Top EXCEPT !.node = "BODY"]
  <2>1. Top \in FrameRecords
    BY Ranges
  <2>2. f \in FrameRecords /\ f.node = "BODY" /\ f.scope = Top.scope /\ f.sym = Top.sym
    BY <2>1 DEF FrameRecords, Nodes
  <2> HIDE DEF f
  <2>3. CallOK(f)
    BY <2>2, <1>0 DEF CallOK
  <2>4. stack' = [stack EXCEPT ![Len(stack)] = f]
    BY <1>11 DEF BeginBody, ReplaceTop, f
  <2>5. /\ stack' \in Seq(FrameRecords) /\ Len(stack') = Len(stack)
        /\ \A i \in 1 .. Len(stack) : stack'[i] = IF i = Len(stack) THEN f ELSE stack[i]
    BY <2>2, <2>4, <1>0
  <2>6. \A i \in 1 .. Len(stack') : CallOK(stack'[i])
    BY <2>3, <2>5, <1>0 DEF Calls
  <2>7. ASSUME NEW i \in 2 .. Len(stack')
        PROVE  Nests(stack'[i - 1], stack'[i])
    <3>1. Nests(stack[i - 1], stack[i]) /\ stack'[i - 1] = stack[i - 1]
      BY <2>5, <1>0 DEF Calls
    <3>2. CASE i = Len(stack)
      <4>1. Top.node \notin {"ELSE", "MODULE"} /\ stack'[i] = f /\ stack[i] = Top
        BY <3>2, <2>5, <1>0, <1>11 DEF BeginBody
      <4> QED
        BY <4>1, <3>1, <2>2 DEF Nests
    <3>3. CASE i # Len(stack)
      BY <3>1, <3>3, <2>5
    <3> QED
      BY <3>2, <3>3
  <2>8. Calls(stack') /\ stack' # <<>>
    BY <2>5, <2>6, <2>7, <1>0 DEF Calls
  <2>9. UNCHANGED <<symbols, scopes, chain, ids, next_builtin>> /\ status' \in Statuses
    BY <1>11 DEF BeginBody, IInv, TypeOK
  <2> QED
    BY <2>8, <2>9, StackStep
<1>12. CASE BuildBlock
  BY <1>12, <1>0, OpenStep DEF BuildBlock
<1>13. CASE BuildFor
  BY <1>13, <1>0, OpenStep DEF BuildFor
<1>14. CASE BuildForOtherInit
  BY <1>14, StopStep DEF BuildForOtherInit, Statuses
<1>15. CASE BuildIf
  <2> DEFINE f == Frame("ELSE", Top.scope, 0)
  <2>1. f.node = "ELSE" /\ f.scope = Top.scope /\ f.sym = 0 /\ f \in FrameRecords
    BY <1>0 DEF Frame, FrameRecords, Nodes, ScopeIds
  <2> HIDE DEF f
  <2>2. CallOK(f) /\ Nests(stack[Len(stack)], f)
    BY <2>1, <1>0 DEF CallOK, Nests
  <2>3. Calls(Append(stack, f))
    BY <2>2, <1>0, CallsPush
  <2>4. Append(stack, f)[Len(Append(stack, f))].scope = Top.scope
    BY <2>1, <1>0
  <2>5. OpenBody(Append(stack, f), "BODY") /\ next_builtin > Len(ReadableToBuiltin)
    BY <1>15 DEF BuildIf, Push, f
  <2> QED
    BY <2>3, <2>4, <2>5, OpenStep
<1>16. CASE BuildElseIf
  BY <1>16, <1>0, OpenStep DEF BuildElseIf
<1>17. CASE BuildElseBlock
  <2> DEFINE q == SubSeq(stack, 1, Len(stack) - 1)
  <2>1. /\ Calls(q) /\ Len(q) = Len(stack) - 1
        /\ \A i \in 1 .. (Len(stack) - 1) : q[i] = stack[i]
    BY <1>0, CallsPop
  <2>2. OpenBody(q, "BODY") /\ next_builtin > Len(ReadableToBuiltin)
        /\ Top.node = "ELSE"
    BY <1>17 DEF BuildElseBlock, Pop
  <2> HIDE DEF q
  <2>3. ASSUME q # <<>> PROVE q[Len(q)].scope = Top.scope
    <3>1. Len(q) # 0
      BY <2>1, <2>3 DEF Calls
    <3>2. Len(stack) \in 2 .. Len(stack) /\ q[Len(q)] = stack[Len(stack) - 1]
      BY <3>1, <2>1, <1>0
    <3>3. Nests(stack[Len(stack) - 1], stack[Len(stack)])
      BY <3>2, <1>0 DEF Calls
    <3> QED
      BY <3>2, <3>3, <2>2, <1>0 DEF Nests
  <2> QED
    BY <2>1, <2>2, <2>3, OpenStep
<1>18. CASE Return
  <2>1. UNCHANGED <<symbols, scopes, chain, ids, next_builtin>>
    BY <1>18 DEF Return
  <2>2. CASE Len(stack) = 1
    <3>1. stack' = stack /\ status' \in Statuses
      BY <2>2, <1>18 DEF Return, Statuses
    <3> QED
      BY <2>1, <3>1, <1>0, StackStep
  <2>3. CASE Len(stack) # 1
    <3>1. stack' = SubSeq(stack, 1, Len(stack) - 1) /\ status' = status
      BY <2>3, <1>18 DEF Return, Pop
    <3>2. Calls(stack') /\ Len(stack') = Len(stack) - 1
      BY <3>1, <1>0, CallsPop
    <3>3. stack' # <<>> /\ status' \in Statuses
      BY <2>3, <3>1, <3>2, <1>0 DEF IInv, TypeOK
    <3> QED
      BY <2>1, <3>2, <3>3, StackStep
  <2> QED
    BY <2>2, <2>3
<1>19. CASE UNCHANGED vars
  <2>1. stack' = stack /\ status' \in Statuses
        /\ UNCHANGED <<symbols, scopes, chain, ids, next_builtin>>
    BY <1>19 DEF vars, ids, IInv, TypeOK
  <2> QED
    BY <2>1, <1>0, StackStep
<1> QED
  BY <1>1, <1>2, <1>3, <1>4, <1>5, <1>6, <1>7, <1>8, <1>9, <1>10, <1>11, <1>12,
     <1>13, <1>14, <1>15, <1>16, <1>17, <1>18, <1>19
  DEF Next, Step, Declare, Ended

(* The invariant holds in every state the builder reaches.                   *)
LEMMA Invariance == Spec => []IInv
<1>1. Init => IInv
  BY InitIInv
<1>2. IInv /\ [Next]_vars => IInv'
  BY NextIInv
<1> QED
  BY <1>1, <1>2, PTL DEF Spec

(* Whatever the program, every symbol or scope index that the table, the     *)
(* builtin id sets or a build_* call holds is that of an allocated symbol or *)
(* scope.                                                                    *)
THEOREM TypeCorrect == Spec => []TypeOK
<1>1. IInv => TypeOK
  BY DEF IInv
<1> QED
  BY <1>1, Invariance, PTL

(* The parent pointers of the scopes always form a tree rooted in the global *)
(* scope, so the loops that climb them end.                                  *)
THEOREM ScopesFormATree == Spec => []ScopeTree
<1>1. IInv => ScopeTree
  BY DEF IInv
<1> QED
  BY <1>1, Invariance, PTL

(* A scope's name lookup and the symbols always agree: on the name, on the   *)
(* scope, and on there being one binding for each symbol.                    *)
THEOREM TableIsConsistent == Spec => []BindingsAgree
<1>1. IInv => BindingsAgree
  BY DEF IInv
<1> QED
  BY <1>1, Invariance, PTL

(* A scope created for a symbol is always that symbol's alone, below the     *)
(* scope the symbol is in, and parameters are only ever in function bodies.  *)
THEOREM ScopesHaveOneOwner == Spec => []OwnersAgree
<1>1. IInv => OwnersAgree
  BY DEF IInv
<1> QED
  BY <1>1, Invariance, PTL

(* No variable ever hides a declaration that precedes it in the source.      *)
THEOREM VariablesNeverHideEarlier == Spec => []VariablesHideNothingEarlier
<1>1. IInv => VariablesHideNothingEarlier
  BY DEF IInv
<1> QED
  BY <1>1, Invariance, PTL

(* The active build_* calls always nest as the scopes they fill do.          *)
THEOREM CallsNestAsScopes == Spec => []FramesNest
<1>1. IInv => FramesNest
  BY DEF IInv
<1> QED
  BY <1>1, Invariance, PTL

(* No step replaces or removes a binding or a symbol.                        *)
THEOREM NothingIsReplaced == Spec => TableOnlyGrows
<1>1. IInv /\ [Next]_vars =>
        [/\ \A s \in ScopeIds, n \in Names :
              scopes[s].sym_idx[n] # 0 => scopes'[s].sym_idx[n] = scopes[s].sym_idx[n]
         /\ \A k \in SymbolIds : symbols'[k] = symbols[k]]_vars
  BY NextIInv DEF Grows
<1> QED
  BY <1>1, Invariance, PTL DEF Spec, TableOnlyGrows

----------------------------------------------------------------------------
(* The resolver (SymbolResolver).                                           *)
(*                                                                          *)
(* What the resolver relies on of the table, and no invariant of the        *)
(* builder says: modules, structs and components know their two scopes, and *)
(* a module is in a module's scope; the global module is bound nowhere, and *)
(* builtin types are bound in the global scope alone; the scopes above one  *)
(* are met in the order of their indices by climbing parent after parent.   *)
SymbolPlaced(syms, scs, k) ==
  /\ syms[k].sym_type \in {"MODULE", "STRUCT", "COMPONENT"} =>
       syms[k].scope_idx \in 1 .. Len(scs) /\ syms[k].created_scope_idx \in 1 .. Len(scs)
  /\ syms[k].sym_type = "MODULE" => scs[syms[k].scope_idx].owning_symbol_type = "MODULE"

BindingPlaced(syms, s, k) == k # 1 /\ (k # 0 /\ syms[k].sym_type = "BUILTIN" => s = 1)

ChainClimbs(scs, above) ==
  \A a \in above :
    a # 1 => /\ scs[a].parent_scope_idx \in above
             /\ \A b \in above : b < a => b <= scs[a].parent_scope_idx

(* What a frame knows of its node: the symbol of a module, a struct or a    *)
(* component, whose scope a module's frame works in; a function's caller.   *)
FrameKnows(syms, scs, q, i) ==
  /\ q[i].node \in {"MODULE", "STRUCT", "COMPONENT"} =>
       q[i].sym \in 1 .. Len(syms) /\ syms[q[i].sym].sym_type = q[i].node
  /\ q[i].node = "MODULE" => scs[q[i].scope].owning_symbol_type = "MODULE"
  /\ q[i].node = "PARAMS" => i > 1 /\ q[i - 1].node \in {"MODULE", "COMPONENT"}
  /\ i = 1 => q[i].node = "MODULE"

FramesKnow(syms, scs, q) == \A i \in 1 .. Len(q) : FrameKnows(syms, scs, q, i)

Placement ==
  /\ symbols[1].sym_type = "MODULE" /\ Owner(1) = "MODULE"
  /\ \A k \in SymbolIds : SymbolPlaced(symbols, scopes, k)
  /\ \A s \in ScopeIds, n \in Names : BindingPlaced(symbols, s, scopes[s].sym_idx[n])
  /\ \A s \in ScopeIds : ChainClimbs(scopes, chain[s]) /\ \A a \in chain[s] : a <= s
  /\ FramesKnow(symbols, scopes, stack)

(* The lookup: nothing is looked up before the table is finished; the       *)
(* search for a single name has passed every binding of it below the scope  *)
(* it has come to, and the flag says whether it is still in the function;   *)
(* every trail of a longer path goes through the scope the search is in.    *)
LookupWaits ==
  /\ ident_path # <<>> \/ outcome # None => status = "done" /\ use # NoUse
  /\ ident_path = <<>> => outcome \in {None, Outcome("null_pointer", 0)}
  /\ ident_path # <<>> => ~use.isNull

NameSearched ==
  Len(ident_path) = 1 =>
    /\ parsed_scope \in chain[use.scope]
    /\ \A a \in Binders(ident_path[1], use.scope) : a <= parsed_scope
    /\ catch_use_before_decl <=> SameFunction(use.scope, parsed_scope)

PathFollowed ==
  Len(ident_path) > 1 =>
    /\ \E trail \in [1 .. Len(ident_path) -> ScopeIds] :
         /\ trail[1] = 1 /\ trail[level] = parsed_scope
         /\ \A i \in 1 .. (level - 1) : Leads(ident_path[i], trail[i], trail[i + 1])
    /\ \A trail \in Trails(ident_path) : trail[level] = parsed_scope

Meaning(path) == IF Len(path) = 1 THEN MeaningOfName(path[1]) ELSE MeaningOfPath(path)

(* The symbol found is bound to the last component of the path in the scope *)
(* searched last, and precedes the use if that scope is in the function.    *)
FoundHere(k) ==
  /\ level = Len(ident_path) /\ ident_path # <<>>
  /\ k # 0 /\ k = scopes[parsed_scope].sym_idx[ident_path[level]]
  /\ Len(ident_path) = 1 /\ catch_use_before_decl => k <= use.pos

AnsweredRight ==
  /\ ident_path # <<>> /\ outcome # None => Answered = Meaning(ident_path)
  /\ outcome.verdict # "no_position"
  /\ outcome.verdict = "found" => FoundHere(outcome.sym)

RInv ==
  /\ IInv /\ Placement
  /\ ResolverTypeOK /\ LookupWaits /\ NameSearched /\ PathFollowed /\ AnsweredRight

----------------------------------------------------------------------------
(* The table of a step holds all that the table before it held.             *)
Kept(syms, scs, syms2, scs2) ==
  /\ Len(syms) \in Nat /\ Len(scs) \in Nat
  /\ 1 .. Len(syms) \subseteq 1 .. Len(syms2) /\ 1 .. Len(scs) \subseteq 1 .. Len(scs2)
  /\ \A k \in 1 .. Len(syms) : syms2[k] = syms[k]
  /\ \A s \in 1 .. Len(scs) :
       /\ scs2[s].owning_symbol_type = scs[s].owning_symbol_type
       /\ scs2[s].parent_scope_idx = scs[s].parent_scope_idx

(* What a frame knows it knows in a larger table.                           *)
LEMMA FramesKnowKept ==
  ASSUME NEW syms, NEW scs, NEW syms2, NEW scs2, Kept(syms, scs, syms2, scs2),
         NEW q, FramesKnow(syms, scs, q),
         \A i \in 1 .. Len(q) : q[i].scope \in 1 .. Len(scs)
  PROVE  FramesKnow(syms2, scs2, q)
BY DEF Kept, FramesKnow, FrameKnows

(* A call may be pushed whose frame knows its node.                         *)
LEMMA FramesKnowPush ==
  ASSUME NEW syms, NEW scs, NEW q \in Seq(FrameRecords), FramesKnow(syms, scs, q), q # <<>>,
         NEW f \in FrameRecords,
         f.node \in {"MODULE", "STRUCT", "COMPONENT"} =>
           f.sym \in 1 .. Len(syms) /\ syms[f.sym].sym_type = f.node,
         f.node = "MODULE" => scs[f.scope].owning_symbol_type = "MODULE",
         f.node = "PARAMS" => q[Len(q)].node \in {"MODULE", "COMPONENT"}
  PROVE  FramesKnow(syms, scs, Append(q, f))
<1> DEFINE r == Append(q, f)
<1>1. /\ Len(r) = Len(q) + 1 /\ r[Len(q) + 1] = f
      /\ \A i \in 1 .. Len(q) : r[i] = q[i]
      /\ Len(q) \in Nat \ {0}
  BY AppendFacts
<1> HIDE DEF r
<1> SUFFICES ASSUME NEW i \in 1 .. Len(r) PROVE FrameKnows(syms, scs, r, i)
  BY DEF FramesKnow, r
<1>2. CASE i = Len(q) + 1
  <2>1. i # 1 /\ i > 1 /\ r[i] = f /\ r[i - 1] = q[Len(q)]
    BY <1>1, <1>2
  <2> QED
    BY <2>1 DEF FrameKnows
<1>3. CASE i \in 1 .. Len(q)
  <2>1. FrameKnows(syms, scs, q, i) /\ r[i] = q[i] /\ (i > 1 => r[i - 1] = q[i - 1])
    BY <1>1, <1>3 DEF FramesKnow
  <2> QED
    BY <2>1 DEF FrameKnows
<1> QED
  BY <1>1, <1>2, <1>3

(* The calls left when the innermost ends know what they knew.              *)
LEMMA FramesKnowPop ==
  ASSUME NEW syms, NEW scs, NEW q, Calls(q), q # <<>>, FramesKnow(syms, scs, q)
  PROVE  FramesKnow(syms, scs, SubSeq(q, 1, Len(q) - 1))
<1> DEFINE r == SubSeq(q, 1, Len(q) - 1)
<1>1. Len(r) = Len(q) - 1 /\ (\A i \in 1 .. (Len(q) - 1) : r[i] = q[i]) /\ Len(q) \in Nat
  BY CallsPop DEF Calls
<1> HIDE DEF r
<1> SUFFICES ASSUME NEW i \in 1 .. Len(r) PROVE FrameKnows(syms, scs, r, i)
  BY DEF FramesKnow, r
<1>2. FrameKnows(syms, scs, q, i) /\ r[i] = q[i] /\ (i > 1 => r[i - 1] = q[i - 1])
  BY <1>1 DEF FramesKnow
<1> QED
  BY <1>2 DEF FrameKnows

(* The tables before and after a step of the builder, and what it adds: any *)
(* symbol, binding and scope it adds being where it should, so are all.     *)
LEMMA PlacementKept ==
  ASSUME IInv, IInv', Placement,
         Kept(symbols, scopes, symbols', scopes'),
         \A k \in SymbolIds' \ SymbolIds : SymbolPlaced(symbols', scopes', k),
         \A s \in ScopeIds', n \in Names :
           \/ s \in ScopeIds /\ scopes'[s].sym_idx[n] = scopes[s].sym_idx[n]
           \/ BindingPlaced(symbols', s, scopes'[s].sym_idx[n]),
         \A s \in ScopeIds : chain'[s] = chain[s],
         \A s \in ScopeIds' \ ScopeIds :
           /\ \A a \in ScopeIds : a <= s
           /\ scopes'[s].parent_scope_idx \in ScopeIds
           /\ chain'[s] = chain[scopes'[s].parent_scope_idx] \cup {s},
         FramesKnow(symbols', scopes', stack')
  PROVE  Placement' /\ Kept(symbols, scopes, symbols', scopes')
<1>0. /\ Len(symbols) \in Nat /\ Len(scopes) \in Nat /\ 1 \in ScopeIds /\ 1 \in SymbolIds
      /\ SymbolIds \subseteq SymbolIds' /\ ScopeIds \subseteq ScopeIds'
      /\ \A s \in ScopeIds : chain[s] \subseteq ScopeIds /\ s \in chain[s]
      /\ \A s \in ScopeIds, n \in Names : scopes[s].sym_idx[n] \in {0} \cup SymbolIds
      /\ \A k \in SymbolIds : symbols'[k] = symbols[k]
      /\ \A s \in ScopeIds :
           /\ scopes'[s].owning_symbol_type = scopes[s].owning_symbol_type
           /\ scopes'[s].parent_scope_idx = scopes[s].parent_scope_idx
      /\ Len(symbols') \in Nat /\ Len(scopes') \in Nat
      /\ ScopeIds' \subseteq Nat
  <2>1. Len(symbols') \in Nat /\ Len(scopes') \in Nat
    BY DEF IInv, TypeOK
  <2>2. /\ Len(symbols) \in Nat /\ Len(scopes) \in Nat /\ 1 \in ScopeIds /\ 1 \in SymbolIds
        /\ \A s \in ScopeIds : chain[s] \subseteq ScopeIds /\ s \in chain[s]
        /\ \A s \in ScopeIds, n \in Names : scopes[s].sym_idx[n] \in {0} \cup SymbolIds
    BY Ranges
  <2>3. /\ SymbolIds \subseteq SymbolIds' /\ ScopeIds \subseteq ScopeIds'
        /\ \A k \in SymbolIds : symbols'[k] = symbols[k]
        /\ \A s \in ScopeIds :
             /\ scopes'[s].owning_symbol_type = scopes[s].owning_symbol_type
             /\ scopes'[s].parent_scope_idx = scopes[s].parent_scope_idx
    BY DEF Kept, SymbolIds, ScopeIds
  <2>4. ScopeIds' \subseteq Nat
    BY <2>1 DEF ScopeIds
  <2> QED
    BY <2>1, <2>2, <2>3, <2>4
<1>1. symbols'[1].sym_type = "MODULE" /\ Owner(1)' = "MODULE"
  BY <1>0 DEF Placement, Owner
<1>2. ASSUME NEW k \in SymbolIds' PROVE SymbolPlaced(symbols', scopes', k)
  <2>1. CASE k \in SymbolIds
    <3>1. SymbolPlaced(symbols, scopes, k)
      BY <2>1 DEF Placement
    <3> QED
      BY <2>1, <3>1, <1>0 DEF SymbolPlaced, ScopeIds
  <2> QED
    BY <2>1
<1>3. ASSUME NEW s \in ScopeIds', NEW n \in Names
      PROVE  BindingPlaced(symbols', s, scopes'[s].sym_idx[n])
  <2>1. CASE s \in ScopeIds /\ scopes'[s].sym_idx[n] = scopes[s].sym_idx[n]
    <3>1. BindingPlaced(symbols, s, scopes[s].sym_idx[n])
          /\ scopes[s].sym_idx[n] \in {0} \cup SymbolIds
      BY <2>1, <1>0 DEF Placement
    <3> QED
      BY <2>1, <3>1, <1>0 DEF BindingPlaced
  <2> QED
    BY <2>1
<1>4. ASSUME NEW s \in ScopeIds'
      PROVE  ChainClimbs(scopes', chain'[s]) /\ \A a \in chain'[s] : a <= s
  <2>1. ASSUME NEW r \in ScopeIds
        PROVE  /\ \A a \in chain[r] : a <= r /\ a \in ScopeIds /\ a \in Nat
               /\ ChainClimbs(scopes', chain[r])
    <3>1. ChainClimbs(scopes, chain[r]) /\ \A a \in chain[r] : a <= r /\ a \in ScopeIds
      BY <1>0 DEF Placement
    <3>2. ChainClimbs(scopes', chain[r])
      BY <3>1, <1>0 DEF ChainClimbs
    <3> QED
      BY <3>1, <3>2, <1>0
  <2>2. CASE s \in ScopeIds
    BY <2>1, <2>2
  <2>3. CASE s \notin ScopeIds
    <3> DEFINE p == scopes'[s].parent_scope_idx
    <3>1. /\ p \in ScopeIds /\ chain'[s] = chain[p] \cup {s} /\ p \in chain[p]
          /\ \A a \in ScopeIds : a <= s
          /\ s \in Nat
      BY <2>3, <1>0
    <3>2. /\ \A a \in chain[p] : a <= p /\ a \in ScopeIds /\ a \in Nat
          /\ ChainClimbs(scopes', chain[p])
      BY <3>1, <2>1
    <3> HIDE DEF p
    <3>3. scopes'[s].parent_scope_idx = p
      BY DEF p
    <3>4. \A a \in chain'[s] : a <= s
      BY <3>1, <3>2
    <3>5. ASSUME NEW a \in chain'[s], a # 1
          PROVE  /\ scopes'[a].parent_scope_idx \in chain'[s]
                 /\ \A b \in chain'[s] : b < a => b <= scopes'[a].parent_scope_idx
      <4>1. CASE a = s
        BY <4>1, <3>1, <3>2, <3>3
      <4>2. CASE a \in chain[p]
        <5>1. /\ scopes'[a].parent_scope_idx \in chain[p]
              /\ \A b \in chain[p] : b < a => b <= scopes'[a].parent_scope_idx
          BY <4>2, <3>2, <3>5 DEF ChainClimbs
        <5>2. ~(s < a)
          BY <4>2, <3>1, <3>2
        <5> QED
          BY <5>1, <5>2, <3>1
      <4> QED
        BY <4>1, <4>2, <3>1
    <3> QED
      BY <3>4, <3>5 DEF ChainClimbs
  <2> QED
    BY <2>2, <2>3
<1> QED
  BY <1>1, <1>2, <1>3, <1>4 DEF Placement

(* A step that adds nothing to the table.                                   *)
LEMMA StackPlacement ==
  ASSUME IInv, IInv', Placement, UNCHANGED <<symbols, scopes, chain>>,
         FramesKnow(symbols, scopes, stack')
  PROVE  Placement' /\ Kept(symbols, scopes, symbols', scopes')
<1>1. /\ symbols' = symbols /\ scopes' = scopes /\ chain' = chain
      /\ SymbolIds' = SymbolIds /\ ScopeIds' = ScopeIds
  BY DEF SymbolIds, ScopeIds
<1>2. Kept(symbols, scopes, symbols', scopes')
  BY <1>1, Ranges DEF Kept
<1>3. FramesKnow(symbols', scopes', stack')
  BY <1>1
<1> QED
  BY <1>1, <1>2, <1>3, PlacementKept

(* What appending a symbol and binding its name do to the table.            *)
LEMMA BoundFacts ==
  ASSUME IInv, NEW e \in SymbolRecords, NEW n \in Names, NEW s0 \in ScopeIds,
         symbols' = Append(symbols, e)
  PROVE  LET k0 == Len(symbols) + 1
             scs == Bind(scopes, s0, n, k0)
         IN
         /\ SymbolIds' = SymbolIds \cup {k0} /\ k0 \notin SymbolIds
         /\ k0 # 1 /\ symbols'[k0] = e
         /\ \A k \in SymbolIds : symbols'[k] = symbols[k]
         /\ scs \in Seq(ScopeRecords) /\ Len(scs) = Len(scopes)
         /\ \A s \in ScopeIds :
              /\ scs[s].owning_symbol_type = scopes[s].owning_symbol_type
              /\ scs[s].parent_scope_idx = scopes[s].parent_scope_idx
              /\ \A m \in Names : scs[s].sym_idx[m] =
                    IF s = s0 /\ m = n THEN k0 ELSE scopes[s].sym_idx[m]
<1> DEFINE k0 == Len(symbols) + 1
           scs == Bind(scopes, s0, n, k0)
<1>1. /\ symbols \in Seq(SymbolRecords) /\ Len(symbols) \in Nat /\ 1 \in SymbolIds
      /\ scopes \in Seq(ScopeRecords)
  BY Ranges
<1>2. /\ SymbolIds' = SymbolIds \cup {k0} /\ k0 \notin SymbolIds
      /\ k0 # 1 /\ symbols'[k0] = e
      /\ \A k \in SymbolIds : symbols'[k] = symbols[k]
  BY <1>1, AppendFacts DEF SymbolIds
<1>3. k0 \in Nat /\ s0 \in 1 .. Len(scopes)
  BY <1>1 DEF ScopeIds
<1> HIDE DEF k0
<1>4. /\ scs \in Seq(ScopeRecords) /\ Len(scs) = Len(scopes)
      /\ \A s \in 1 .. Len(scopes) :
           /\ scs[s].owning_symbol_type = scopes[s].owning_symbol_type
           /\ scs[s].parent_scope_idx = scopes[s].parent_scope_idx
           /\ \A m \in Names : scs[s].sym_idx[m] =
                 IF s = s0 /\ m = n THEN k0 ELSE scopes[s].sym_idx[m]
  BY <1>1, <1>3, BindFacts
<1> HIDE DEF scs
<1>5. /\ SymbolIds' = SymbolIds \cup {k0} /\ k0 \notin SymbolIds
      /\ k0 # 1 /\ symbols'[k0] = e
      /\ \A k \in SymbolIds : symbols'[k] = symbols[k]
      /\ scs \in Seq(ScopeRecords) /\ Len(scs) = Len(scopes)
      /\ \A s \in ScopeIds :
           /\ scs[s].owning_symbol_type = scopes[s].owning_symbol_type
           /\ scs[s].parent_scope_idx = scopes[s].parent_scope_idx
           /\ \A m \in Names : scs[s].sym_idx[m] =
                 IF s = s0 /\ m = n THEN k0 ELSE scopes[s].sym_idx[m]
  BY <1>2, <1>4 DEF ScopeIds
<1> QED
  BY <1>5 DEF k0, scs

(* A symbol without a scope of its own.                                     *)
LEMMA LeafPlacement ==
  ASSUME IInv, IInv', Placement, NEW t \in {"FIELD", "PARAM", "VAR"}, NEW n \in Names,
         NEW where, where \in {0, Top.scope},
         symbols' = Append(symbols, Symbol(t, n, where, 0)),
         scopes' = Bind(scopes, Top.scope, n, NextSymbol), UNCHANGED <<chain, stack>>
  PROVE  Placement' /\ Kept(symbols, scopes, symbols', scopes')
<1> DEFINE e == Symbol(t, n, where, 0)
           s0 == Top.scope
           k0 == Len(symbols) + 1
           bound == Bind(scopes, s0, n, k0)
<1>0. chain' = chain /\ stack' = stack
  OBVIOUS
<1>1. e \in SymbolRecords /\ e.sym_type = t /\ s0 \in ScopeIds
  BY Ranges DEF Symbol, SymbolRecords, SymbolTypes, ScopeIds
<1>2. symbols' = Append(symbols, e) /\ scopes' = bound
  BY DEF NextSymbol
<1> HIDE DEF e, s0
<1>3. /\ SymbolIds' = SymbolIds \cup {k0} /\ k0 \notin SymbolIds
      /\ k0 # 1 /\ symbols'[k0] = e
      /\ \A k \in SymbolIds : symbols'[k] = symbols[k]
  BY ONLY IInv, n \in Names, <1>1, <1>2, BoundFacts
<1>a. /\ Len(bound) = Len(scopes)
      /\ \A s \in ScopeIds :
           /\ bound[s].owning_symbol_type = scopes[s].owning_symbol_type
           /\ bound[s].parent_scope_idx = scopes[s].parent_scope_idx
  BY ONLY IInv, n \in Names, <1>1, <1>2, BoundFacts
<1>b. \A s \in ScopeIds, m \in Names :
        bound[s].sym_idx[m] = IF s = s0 /\ m = n THEN k0 ELSE scopes[s].sym_idx[m]
  BY ONLY IInv, n \in Names, <1>1, <1>2, BoundFacts
<1> HIDE DEF k0, bound
<1>4. ScopeIds' = ScopeIds
  BY <1>2, <1>a DEF ScopeIds
<1>5. Kept(symbols, scopes, symbols', scopes')
  <2>1. Len(symbols) \in Nat /\ Len(scopes) \in Nat
    BY Ranges
  <2> QED
    BY <2>1, <1>2, <1>3, <1>a, <1>4 DEF Kept, SymbolIds, ScopeIds
<1>6. \A k \in SymbolIds' \ SymbolIds : SymbolPlaced(symbols', scopes', k)
  BY <1>1, <1>3 DEF SymbolPlaced
<1>7. ASSUME NEW s \in ScopeIds', NEW m \in Names
      PROVE  \/ s \in ScopeIds /\ scopes'[s].sym_idx[m] = scopes[s].sym_idx[m]
             \/ BindingPlaced(symbols', s, scopes'[s].sym_idx[m])
  <2>1. scopes'[s].sym_idx[m] = IF s = s0 /\ m = n THEN k0 ELSE scopes[s].sym_idx[m]
    BY <1>2, <1>4, <1>b
  <2>2. BindingPlaced(symbols', s, k0)
    BY <1>1, <1>3 DEF BindingPlaced
  <2> QED
    BY <2>1, <2>2, <1>4
<1>8. FramesKnow(symbols', scopes', stack')
  <2>1. \A i \in 1 .. Len(stack) : stack[i].scope \in 1 .. Len(scopes)
    BY CallsOfStack DEF Calls, CallOK, ScopeIds
  <2>2. FramesKnow(symbols, scopes, stack)
    BY DEF Placement
  <2> QED
    BY <2>1, <2>2, <1>0, <1>5, FramesKnowKept
<1> QED
  BY <1>0, <1>4, <1>5, <1>6, <1>7, <1>8, PlacementKept

(* One more scope, below the current one, and its frame on the stack.       *)
LEMMA ScopePlacement ==
  ASSUME IInv, IInv', Placement, NEW owner \in ScopeTypes,
         NEW scs \in Seq(ScopeRecords), Len(scs) = Len(scopes),
         \A s \in ScopeIds :
           /\ scs[s].owning_symbol_type = scopes[s].owning_symbol_type
           /\ scs[s].parent_scope_idx = scopes[s].parent_scope_idx,
         AllocateScope(scs, owner, Top.scope)
  PROVE  /\ ScopeIds' = ScopeIds \cup {NextScope} /\ NextScope \notin ScopeIds
         /\ \A s \in ScopeIds : scopes'[s] = scs[s] /\ chain'[s] = chain[s]
         /\ scopes'[NextScope].owning_symbol_type = owner
         /\ scopes'[NextScope].parent_scope_idx = Top.scope
         /\ \A n \in Names : scopes'[NextScope].sym_idx[n] = 0
         /\ chain'[NextScope] = chain[Top.scope] \cup {NextScope}
         /\ \A a \in ScopeIds : a <= NextScope
<1> DEFINE new == Scope(owner, Top.scope)
<1>1. /\ Len(scopes) \in Nat /\ Top.scope \in ScopeIds /\ chain \in Seq(SUBSET Nat)
      /\ Len(chain) = Len(scopes) /\ chain[Top.scope] \subseteq ScopeIds
  BY Ranges
<1>2. /\ new \in ScopeRecords /\ new.owning_symbol_type = owner
      /\ new.parent_scope_idx = Top.scope /\ \A n \in Names : new.sym_idx[n] = 0
  BY <1>1 DEF Scope, ScopeRecords, ScopeIds
<1>3. scopes' = Append(scs, new) /\ chain' = Append(chain, chain[Top.scope] \cup {NextScope})
  BY DEF AllocateScope
<1> HIDE DEF new
<1>4. /\ ScopeIds' = ScopeIds \cup {NextScope} /\ NextScope \notin ScopeIds
      /\ (\A s \in ScopeIds : scopes'[s] = scs[s]) /\ scopes'[NextScope] = new
  BY <1>1, <1>2, <1>3, AppendFacts DEF ScopeIds, NextScope
<1>5. chain[Top.scope] \cup {NextScope} \in SUBSET Nat
  BY <1>1 DEF ScopeIds, NextScope
<1>6. /\ \A s \in ScopeIds : chain'[s] = chain[s]
      /\ chain'[NextScope] = chain[Top.scope] \cup {NextScope}
  BY <1>1, <1>3, <1>5, AppendFacts DEF ScopeIds, NextScope
<1>7. \A a \in ScopeIds : a <= NextScope
  BY <1>1 DEF ScopeIds, NextScope
<1> QED
  BY <1>2, <1>4, <1>6, <1>7

(* A symbol with a scope of its own, and the call for its children.         *)
LEMMA OwnerPlacement ==
  ASSUME IInv, IInv', Placement,
         NEW t \in {"STRUCT", "COMPONENT", "MODULE", "FN"}, NEW n \in Names,
         NEW node, node = IF t = "FN" THEN "PARAMS" ELSE t,
         t = "MODULE" => Top.node = "MODULE",
         t = "FN" => Top.node \in {"MODULE", "COMPONENT"},
         symbols' = Append(symbols, Symbol(t, n, Top.scope, NextScope)),
         AllocateScope(Bind(scopes, Top.scope, n, NextSymbol), t, Top.scope),
         stack' = Push(Frame(node, NextScope, NextSymbol))
  PROVE  Placement' /\ Kept(symbols, scopes, symbols', scopes')
<1> DEFINE e == Symbol(t, n, Top.scope, NextScope)
           f == Frame(node, NextScope, NextSymbol)
           s0 == Top.scope
           k0 == Len(symbols) + 1
           bound == Bind(scopes, s0, n, k0)
<1>1. /\ s0 \in ScopeIds /\ Len(symbols) \in Nat /\ Len(scopes) \in Nat
      /\ stack \in Seq(FrameRecords) /\ stack # <<>> /\ Top = stack[Len(stack)]
      /\ NextScope \in Nat /\ NextScope # 1 /\ k0 = NextSymbol
      /\ 1 \in ScopeIds
  BY Ranges, CallsOfStack DEF Top, NextScope, NextSymbol, ScopeIds
<1>2. /\ e \in SymbolRecords /\ e.sym_type = t
      /\ e.scope_idx = s0 /\ e.created_scope_idx = NextScope
  BY <1>1 DEF Symbol, SymbolRecords, SymbolTypes, ScopeIds
<1>3. f \in FrameRecords /\ f.node = node /\ f.scope = NextScope /\ f.sym = k0
  BY <1>1 DEF Frame, FrameRecords, Nodes
<1>4. symbols' = Append(symbols, e) /\ stack' = Append(stack, f)
      /\ AllocateScope(bound, t, Top.scope) /\ Top.scope = s0
  BY <1>1 DEF Push, NextSymbol
<1>5. t = "MODULE" => Owner(s0) = "MODULE"
  <2>1. FrameKnows(symbols, scopes, stack, Len(stack))
    BY <1>1 DEF Placement, FramesKnow
  <2> QED
    BY <2>1, <1>1 DEF FrameKnows, Owner
<1> HIDE DEF e, f, s0
<1>6. /\ SymbolIds' = SymbolIds \cup {k0} /\ k0 \notin SymbolIds
      /\ k0 # 1 /\ symbols'[k0] = e
      /\ \A k \in SymbolIds : symbols'[k] = symbols[k]
  BY ONLY IInv, n \in Names, <1>1, <1>2, <1>4, BoundFacts
<1>7. /\ bound \in Seq(ScopeRecords) /\ Len(bound) = Len(scopes)
      /\ \A s \in ScopeIds :
           /\ bound[s].owning_symbol_type = scopes[s].owning_symbol_type
           /\ bound[s].parent_scope_idx = scopes[s].parent_scope_idx
  BY ONLY IInv, n \in Names, <1>1, <1>2, <1>4, BoundFacts
<1>8. \A s \in ScopeIds, m \in Names :
        bound[s].sym_idx[m] = IF s = s0 /\ m = n THEN k0 ELSE scopes[s].sym_idx[m]
  BY ONLY IInv, n \in Names, <1>1, <1>2, <1>4, BoundFacts
<1> HIDE DEF k0, bound
<1>9. /\ ScopeIds' = ScopeIds \cup {NextScope} /\ NextScope \notin ScopeIds
      /\ \A s \in ScopeIds : scopes'[s] = bound[s] /\ chain'[s] = chain[s]
      /\ scopes'[NextScope].owning_symbol_type = t
      /\ scopes'[NextScope].parent_scope_idx = s0
      /\ \A m \in Names : scopes'[NextScope].sym_idx[m] = 0
      /\ chain'[NextScope] = chain[s0] \cup {NextScope}
      /\ \A a \in ScopeIds : a <= NextScope
  BY <1>4, <1>7, ScopePlacement DEF ScopeTypes
<1>10. Kept(symbols, scopes, symbols', scopes')
  BY <1>1, <1>6, <1>7, <1>9 DEF Kept, SymbolIds, ScopeIds
<1>11. \A k \in SymbolIds' \ SymbolIds : SymbolPlaced(symbols', scopes', k)
  <2>1. s0 \in ScopeIds' /\ NextScope \in ScopeIds'
        /\ (t = "MODULE" => scopes'[s0].owning_symbol_type = "MODULE")
    BY <1>1, <1>5, <1>7, <1>9 DEF Owner
  <2> QED
    BY <2>1, <1>2, <1>6 DEF SymbolPlaced, ScopeIds
<1>12. ASSUME NEW s \in ScopeIds', NEW m \in Names
       PROVE  \/ s \in ScopeIds /\ scopes'[s].sym_idx[m] = scopes[s].sym_idx[m]
              \/ BindingPlaced(symbols', s, scopes'[s].sym_idx[m])
  <2>1. s \in ScopeIds =>
          scopes'[s].sym_idx[m] = IF s = s0 /\ m = n THEN k0 ELSE scopes[s].sym_idx[m]
    BY <1>8, <1>9
  <2>2. BindingPlaced(symbols', s, k0) /\ BindingPlaced(symbols', s, 0)
    BY <1>2, <1>6 DEF BindingPlaced
  <2> QED
    BY <2>1, <2>2, <1>9
<1>13. FramesKnow(symbols', scopes', stack')
  <2>1. FramesKnow(symbols', scopes', stack)
    <3>1. \A i \in 1 .. Len(stack) : stack[i].scope \in 1 .. Len(scopes)
      BY CallsOfStack DEF Calls, CallOK, ScopeIds
    <3>2. FramesKnow(symbols, scopes, stack)
      BY DEF Placement
    <3> QED
      BY <3>1, <3>2, <1>10, FramesKnowKept
  <2>2. /\ f.sym \in 1 .. Len(symbols') /\ (t # "FN" => symbols'[f.sym].sym_type = f.node)
        /\ scopes'[f.scope].owning_symbol_type = t
    BY <1>2, <1>3, <1>6, <1>9 DEF SymbolIds
  <2>3. f.node = "PARAMS" => stack[Len(stack)].node \in {"MODULE", "COMPONENT"}
    BY <1>1, <1>3
  <2>4. f.node = IF t = "FN" THEN "PARAMS" ELSE t
    BY <1>3
  <2> QED
    BY <2>1, <2>2, <2>3, <2>4, <1>1, <1>3, <1>4, FramesKnowPush
<1> QED
  BY <1>1, <1>9, <1>10, <1>11, <1>12, <1>13, PlacementKept

(* A scope without a symbol, and the call for the statements in it.         *)
LEMMA OpenPlacement ==
  ASSUME IInv, IInv', Placement, NEW node \in {"BODY", "FOR"},
         NEW frames, Calls(frames), frames # <<>>, FramesKnow(symbols, scopes, frames),
         OpenBody(frames, node)
  PROVE  Placement' /\ Kept(symbols, scopes, symbols', scopes')
<1> DEFINE f == Frame(node, NextScope, 0)
<1>1. /\ symbols' = symbols /\ SymbolIds' = SymbolIds /\ stack' = Append(frames, f)
      /\ AllocateScope(scopes, "SCOPE", Top.scope)
  BY DEF OpenBody, SymbolIds
<1>2. /\ Len(symbols) \in Nat /\ Len(scopes) \in Nat /\ scopes \in Seq(ScopeRecords)
      /\ NextScope \in Nat /\ Top.scope \in ScopeIds
  BY Ranges DEF NextScope
<1>3. f \in FrameRecords /\ f.node = node
  BY <1>2 DEF Frame, FrameRecords, Nodes
<1> HIDE DEF f
<1>4. /\ ScopeIds' = ScopeIds \cup {NextScope} /\ NextScope \notin ScopeIds
      /\ \A s \in ScopeIds : scopes'[s] = scopes[s] /\ chain'[s] = chain[s]
      /\ scopes'[NextScope].parent_scope_idx = Top.scope
      /\ \A m \in Names : scopes'[NextScope].sym_idx[m] = 0
      /\ chain'[NextScope] = chain[Top.scope] \cup {NextScope}
      /\ \A a \in ScopeIds : a <= NextScope
  BY <1>1, <1>2, ScopePlacement DEF ScopeTypes
<1>5. Kept(symbols, scopes, symbols', scopes')
  BY <1>1, <1>2, <1>4 DEF Kept, ScopeIds
<1>6. ASSUME NEW s \in ScopeIds', NEW m \in Names
      PROVE  \/ s \in ScopeIds /\ scopes'[s].sym_idx[m] = scopes[s].sym_idx[m]
             \/ BindingPlaced(symbols', s, scopes'[s].sym_idx[m])
  BY <1>4 DEF BindingPlaced
<1>7. FramesKnow(symbols', scopes', stack')
  <2>1. frames \in Seq(FrameRecords) /\ \A i \in 1 .. Len(frames) : frames[i].scope \in 1 .. Len(scopes)
    BY DEF Calls, CallOK, ScopeIds
  <2>2. FramesKnow(symbols', scopes', frames)
    BY <2>1, <1>5, FramesKnowKept
  <2> QED
    BY <2>1, <2>2, <1>1, <1>3, FramesKnowPush
<1> QED
  BY <1>1, <1>2, <1>4, <1>5, <1>6, <1>7, PlacementKept

(* A builtin name, of a new symbol or of i32's.                             *)
LEMMA BuiltinPlacement ==
  ASSUME IInv, IInv', Placement, AddBuiltinSymbol
  PROVE  Placement' /\ Kept(symbols, scopes, symbols', scopes')
<1> DEFINE n == ReadableToBuiltin[next_builtin]
           e == Symbol("BUILTIN", n, 0, 0)
           k0 == Len(symbols) + 1
           alias == builtin_to_symbol_id["i32"]
<1>1. /\ n \in Names /\ n \in BuiltinNames /\ next_builtin \in DOMAIN ReadableToBuiltin
      /\ 1 \in ScopeIds /\ 1 \in 1 .. Len(scopes)
      /\ Len(symbols) \in Nat /\ Len(scopes) \in Nat /\ scopes \in Seq(ScopeRecords)
      /\ chain' = chain /\ stack' = stack
  BY BuiltinFacts, Ranges DEF AddBuiltinSymbol, ScopeIds
<1>2. e \in SymbolRecords /\ e.sym_type = "BUILTIN"
  BY <1>1 DEF Symbol, SymbolRecords, SymbolTypes
<1> HIDE DEF e
<1>3. \A i \in 1 .. Len(stack) : stack[i].scope \in 1 .. Len(scopes)
  BY CallsOfStack DEF Calls, CallOK, ScopeIds
<1>4. FramesKnow(symbols, scopes, stack)
  BY DEF Placement
<1>5. CASE n # "int"
  <2> DEFINE bound == Bind(scopes, 1, n, k0)
  <2>1. symbols' = Append(symbols, e) /\ scopes' = bound
    BY <1>5 DEF AddBuiltinSymbol, NextSymbol, e
  <2> HIDE DEF n
  <2>2. /\ SymbolIds' = SymbolIds \cup {k0} /\ k0 \notin SymbolIds
        /\ k0 # 1 /\ symbols'[k0] = e
        /\ \A k \in SymbolIds : symbols'[k] = symbols[k]
    BY ONLY IInv, <1>1, <1>2, <2>1, BoundFacts
  <2>3. /\ Len(bound) = Len(scopes)
        /\ \A s \in ScopeIds :
             /\ bound[s].owning_symbol_type = scopes[s].owning_symbol_type
             /\ bound[s].parent_scope_idx = scopes[s].parent_scope_idx
    BY ONLY IInv, <1>1, <1>2, <2>1, BoundFacts
  <2>4. \A s \in ScopeIds, m \in Names :
          bound[s].sym_idx[m] = IF s = 1 /\ m = n THEN k0 ELSE scopes[s].sym_idx[m]
    BY ONLY IInv, <1>1, <1>2, <2>1, BoundFacts
  <2> HIDE DEF k0, bound
  <2>5. ScopeIds' = ScopeIds
    BY <2>1, <2>3 DEF ScopeIds
  <2>6. Kept(symbols, scopes, symbols', scopes')
    BY <1>1, <2>1, <2>2, <2>3, <2>5 DEF Kept, SymbolIds, ScopeIds
  <2>7. \A k \in SymbolIds' \ SymbolIds : SymbolPlaced(symbols', scopes', k)
    BY <1>2, <2>2 DEF SymbolPlaced
  <2>8. ASSUME NEW s \in ScopeIds', NEW m \in Names
        PROVE  \/ s \in ScopeIds /\ scopes'[s].sym_idx[m] = scopes[s].sym_idx[m]
               \/ BindingPlaced(symbols', s, scopes'[s].sym_idx[m])
    <3>1. scopes'[s].sym_idx[m] = IF s = 1 /\ m = n THEN k0 ELSE scopes[s].sym_idx[m]
      BY <2>1, <2>4, <2>5
    <3>2. BindingPlaced(symbols', 1, k0)
      BY <2>2 DEF BindingPlaced
    <3> QED
      BY <3>1, <3>2, <2>5
  <2>9. FramesKnow(symbols', scopes', stack')
    BY <1>1, <1>3, <1>4, <2>6, FramesKnowKept
  <2> QED
    BY <1>1, <2>5, <2>6, <2>7, <2>8, <2>9, PlacementKept
<1>6. CASE n = "int"
  <2> DEFINE bound == Bind(scopes, 1, n, alias)
  <2>1. symbols' = symbols /\ SymbolIds' = SymbolIds /\ scopes' = bound
    BY <1>6 DEF AddBuiltinSymbol, SymbolIds
  <2>2. "i32" \in BuiltinNames
    BY <1>1, <1>6, BuiltinAssumption DEF BuiltinNames
  <2>3. alias \in Nat /\ alias # 1
    BY <2>2, Ranges DEF IInv, TypeOK, Bookkeeping, SymbolIds
  <2> HIDE DEF n, alias
  <2>4. /\ Len(bound) = Len(scopes)
        /\ \A s \in 1 .. Len(scopes) :
             /\ bound[s].owning_symbol_type = scopes[s].owning_symbol_type
             /\ bound[s].parent_scope_idx = scopes[s].parent_scope_idx
    BY <1>1, <2>3, BindFacts
  <2>5. \A s \in 1 .. Len(scopes), m \in Names :
          bound[s].sym_idx[m] = IF s = 1 /\ m = n THEN alias ELSE scopes[s].sym_idx[m]
    BY <1>1, <2>3, BindFacts
  <2> HIDE DEF bound
  <2>6. ScopeIds' = ScopeIds
    BY <2>1, <2>4 DEF ScopeIds
  <2>7. Kept(symbols, scopes, symbols', scopes')
    BY <1>1, <2>1, <2>4, <2>6 DEF Kept, ScopeIds
  <2>8. ASSUME NEW s \in ScopeIds', NEW m \in Names
        PROVE  \/ s \in ScopeIds /\ scopes'[s].sym_idx[m] = scopes[s].sym_idx[m]
               \/ BindingPlaced(symbols', s, scopes'[s].sym_idx[m])
    <3>1. scopes'[s].sym_idx[m] = IF s = 1 /\ m = n THEN alias ELSE scopes[s].sym_idx[m]
      BY <2>1, <2>5, <2>6 DEF ScopeIds
    <3>2. BindingPlaced(symbols', 1, alias)
      BY <2>3 DEF BindingPlaced
    <3> QED
      BY <3>1, <3>2, <2>6
  <2>9. FramesKnow(symbols', scopes', stack')
    BY <1>1, <1>3, <1>4, <2>7, FramesKnowKept
  <2> QED
    BY <1>1, <2>1, <2>6, <2>7, <2>8, <2>9, PlacementKept
<1> QED
  BY <1>5, <1>6

(* A declaration without a scope, accepted or refused.                      *)
LEMMA DeclareLeafPlacement ==
  ASSUME IInv, IInv', Placement, NEW t \in {"FIELD", "PARAM", "VAR"}, NEW n \in Names,
         NEW where, where \in {0, Top.scope}, NEW isVariable,
         DeclareLeaf(t, n, where, isVariable)
  PROVE  Placement' /\ Kept(symbols, scopes, symbols', scopes')
<1>1. CASE Stop("exited")
  BY <1>1, StackPlacement DEF Stop, Placement
<1>2. CASE ~Stop("exited")
  BY <1>2, LeafPlacement DEF DeclareLeaf
<1> QED
  BY <1>1, <1>2

(* A declaration with a scope, accepted or refused.                         *)
LEMMA DeclareOwnerPlacement ==
  ASSUME IInv, IInv', Placement,
         NEW t \in {"STRUCT", "COMPONENT", "MODULE", "FN"}, NEW n \in Names,
         NEW node, node = IF t = "FN" THEN "PARAMS" ELSE t,
         t = "MODULE" => Top.node = "MODULE",
         t = "FN" => Top.node \in {"MODULE", "COMPONENT"},
         DeclareOwner(t, n, node)
  PROVE  Placement' /\ Kept(symbols, scopes, symbols', scopes')
<1>1. CASE Stop("exited")
  BY <1>1, StackPlacement DEF Stop, Placement
<1>2. CASE ~Stop("exited")
  BY <1>2, OwnerPlacement DEF DeclareOwner
<1> QED
  BY <1>1, <1>2

(* The initial table has everything in its place.                           *)
LEMMA InitPlacement == Init => Placement
<1> SUFFICES ASSUME Init PROVE Placement
  OBVIOUS
<1>1. /\ SymbolIds = {1} /\ ScopeIds = {1} /\ chain[1] = {1}
      /\ symbols[1].sym_type = "MODULE" /\ symbols[1].scope_idx = 1
      /\ symbols[1].created_scope_idx = 1 /\ Owner(1) = "MODULE"
      /\ (\A n \in Names : scopes[1].sym_idx[n] = 0) /\ Len(scopes) = 1 /\ Len(symbols) = 1
  BY DEF Init, SymbolIds, ScopeIds, Symbol, Scope, Owner
<1>2. Len(stack) = 1 /\ stack[1].node = "MODULE" /\ stack[1].scope = 1 /\ stack[1].sym = 1
  BY DEF Init, Frame
<1>3. SymbolPlaced(symbols, scopes, 1)
  BY <1>1 DEF SymbolPlaced, Owner
<1>4. \A n \in Names : BindingPlaced(symbols, 1, scopes[1].sym_idx[n])
  <2>1. BindingPlaced(symbols, 1, 0)
    BY DEF BindingPlaced
  <2> QED
    BY <2>1, <1>1
<1>5. ChainClimbs(scopes, chain[1]) /\ \A a \in chain[1] : a <= 1
  BY <1>1 DEF ChainClimbs
<1>6. FramesKnow(symbols, scopes, stack)
  BY <1>1, <1>2 DEF FramesKnow, FrameKnows, Owner
<1> QED
  BY <1>1, <1>3, <1>4, <1>5, <1>6 DEF Placement

(* Every step of the builder keeps everything in its place.                 *)
LEMMA NextPlacement ==
  ASSUME IInv, Placement, [Next]_vars
  PROVE  Placement' /\ Kept(symbols, scopes, symbols', scopes')
<1> USE DEF Visiting
<1>0. IInv'
  BY NextIInv
<1>a. /\ Calls(stack) /\ Len(stack) \in Nat \ {0} /\ stack # <<>>
      /\ stack \in Seq(FrameRecords) /\ Top = stack[Len(stack)] /\ Top \in FrameRecords
      /\ FramesKnow(symbols, scopes, stack) /\ FrameKnows(symbols, scopes, stack, Len(stack))
  BY CallsOfStack, Ranges DEF Placement, FramesKnow, Top
<1>1. CASE AddBuiltinSymbol
  BY <1>0, <1>1, BuiltinPlacement
<1>2. ASSUME NEW n \in Names,
             BuildField(n) \/ BuildReceiver(n) \/ BuildParam(n)
             \/ BuildVarDecl(n) \/ BuildForInit(n)
      PROVE  Placement' /\ Kept(symbols, scopes, symbols', scopes')
  <2>1. \E t \in {"FIELD", "PARAM", "VAR"} : \E where \in {0, Top.scope} :
          \E isVariable \in BOOLEAN : DeclareLeaf(t, n, where, isVariable)
    BY <1>2 DEF BuildField, BuildReceiver, BuildParam, BuildVarDecl, BuildForInit
  <2> QED
    BY <2>1, <1>0, DeclareLeafPlacement
<1>3. ASSUME NEW n \in Names, BuildStruct(n)
      PROVE  Placement' /\ Kept(symbols, scopes, symbols', scopes')
  BY <1>3, <1>0, DeclareOwnerPlacement DEF BuildStruct
<1>4. ASSUME NEW n \in Names, BuildComponent(n)
      PROVE  Placement' /\ Kept(symbols, scopes, symbols', scopes')
  BY <1>4, <1>0, DeclareOwnerPlacement DEF BuildComponent
<1>5. ASSUME NEW n \in Names, BuildModule(n)
      PROVE  Placement' /\ Kept(symbols, scopes, symbols', scopes')
  <2> DEFINE existing == scopes[Top.scope].sym_idx[n]
             f == Frame("MODULE", symbols[existing].scope_idx, existing)
  <2>1. CASE Visiting({"MODULE"}, 1, 1) /\ DeclareOwner("MODULE", n, "MODULE")
    BY <2>1, <1>0, DeclareOwnerPlacement
  <2>2. CASE /\ Top.node = "MODULE"
             /\ existing # 0
             /\ symbols[existing].sym_type = "MODULE"
             /\ stack' = Push(f)
             /\ UNCHANGED <<symbols, scopes, chain, ids, next_builtin, status>>
    <3>1. existing \in SymbolIds
      BY <2>2, Ranges
    <3>2. SymbolPlaced(symbols, scopes, existing)
      BY <3>1 DEF Placement
    <3>3. /\ f.node = "MODULE" /\ f.scope = symbols[existing].scope_idx
          /\ f.sym = existing /\ f \in FrameRecords
      BY <2>2, <3>1, <3>2 DEF Frame, FrameRecords, Nodes, SymbolIds, SymbolPlaced
    <3> HIDE DEF f
    <3>4. stack' = Append(stack, f)
      BY <2>2 DEF Push
    <3>5. scopes[f.scope].owning_symbol_type = "MODULE"
      BY <2>2, <3>2, <3>3 DEF SymbolPlaced
    <3>6. f.sym \in 1 .. Len(symbols) /\ symbols[f.sym].sym_type = f.node
      BY <2>2, <3>1, <3>3 DEF SymbolIds
    <3>7. FramesKnow(symbols, scopes, stack')
      BY <1>a, <3>3, <3>4, <3>5, <3>6, FramesKnowPush
    <3> QED
      BY <2>2, <3>7, <1>0, StackPlacement
  <2>3. CASE Stop("module_cast")
    BY <2>3, <1>0, <1>a, StackPlacement DEF Stop
  <2> QED
    BY <1>5, <2>1, <2>2, <2>3 DEF BuildModule
<1>6. ASSUME NEW n \in Names, BuildFunction(n)
      PROVE  Placement' /\ Kept(symbols, scopes, symbols', scopes')
  BY <1>6, <1>0, DeclareOwnerPlacement DEF BuildFunction
<1>7. CASE BeginBody
  <2> DEFINE f == [Top EXCEPT !.node = "BODY"]
  <2>1. f.node = "BODY" /\ f \in FrameRecords /\ Top.node \in {"PARAMS", "FOR"}
    BY <1>7, <1>a DEF FrameRecords, Nodes, BeginBody
  <2> HIDE DEF f
  <2>2. stack' = [stack EXCEPT ![Len(stack)] = f]
    BY <1>7 DEF BeginBody, ReplaceTop, f
  <2>3. /\ Len(stack') = Len(stack)
        /\ \A i \in 1 .. Len(stack) : stack'[i] = IF i = Len(stack) THEN f ELSE stack[i]
    BY <2>1, <2>2, <1>a
  <2>4. ASSUME NEW i \in 1 .. Len(stack') PROVE FrameKnows(symbols, scopes, stack', i)
    <3>1. FrameKnows(symbols, scopes, stack, i)
      BY <2>3, <1>a DEF FramesKnow
    <3>2. CASE i = Len(stack)
      <4>1. i # 1 /\ stack'[i] = f
        BY <3>1, <3>2, <2>1, <2>3, <1>a DEF FrameKnows
      <4> QED
        BY <4>1, <2>1 DEF FrameKnows
    <3>3. CASE i # Len(stack)
      <4>1. stack'[i] = stack[i] /\ (i > 1 => stack'[i - 1] = stack[i - 1])
        BY <3>3, <2>3, <1>a
      <4> QED
        BY <4>1, <3>1 DEF FrameKnows
    <3> QED
      BY <3>2, <3>3
  <2>5. FramesKnow(symbols, scopes, stack')
    BY <2>4 DEF FramesKnow
  <2>6. UNCHANGED <<symbols, scopes, chain>>
    BY <1>7 DEF BeginBody
  <2> QED
    BY <2>5, <2>6, <1>0, StackPlacement
<1>8. CASE BuildBlock
  BY <1>8, <1>0, <1>a, OpenPlacement DEF BuildBlock
<1>9. CASE BuildFor
  BY <1>9, <1>0, <1>a, OpenPlacement DEF BuildFor
<1>10. CASE BuildForOtherInit
  BY <1>10, <1>0, <1>a, StackPlacement DEF BuildForOtherInit, Stop
<1>11. CASE BuildIf
  <2> DEFINE f == Frame("ELSE", Top.scope, 0)
  <2>1. /\ f.node = "ELSE" /\ f.scope = Top.scope /\ f \in FrameRecords
        /\ f.sym = 0 /\ f.scope \in ScopeIds
    BY Ranges DEF Frame, FrameRecords, Nodes, ScopeIds
  <2> HIDE DEF f
  <2>2. CallOK(f) /\ Nests(stack[Len(stack)], f)
    BY <2>1, <1>a DEF CallOK, Nests
  <2>3. Calls(Append(stack, f)) /\ Append(stack, f) # <<>>
    BY <2>1, <2>2, <1>a, CallsPush
  <2>4. FramesKnow(symbols, scopes, Append(stack, f))
    BY <2>1, <1>a, FramesKnowPush
  <2>5. OpenBody(Append(stack, f), "BODY")
    BY <1>11 DEF BuildIf, Push, f
  <2> QED
    BY <2>3, <2>4, <2>5, <1>0, OpenPlacement
<1>12. CASE BuildElseIf
  BY <1>12, <1>0, <1>a, OpenPlacement DEF BuildElseIf
<1>13. CASE BuildElseBlock
  <2> DEFINE q == SubSeq(stack, 1, Len(stack) - 1)
  <2>1. Calls(q) /\ Len(q) = Len(stack) - 1
    BY <1>a, CallsPop
  <2>2. FramesKnow(symbols, scopes, q)
    BY <1>a, FramesKnowPop
  <2>3. OpenBody(q, "BODY") /\ Top.node = "ELSE"
    BY <1>13 DEF BuildElseBlock, Pop
  <2> HIDE DEF q
  <2>4. q # <<>>
    BY <2>1, <2>3, <1>a DEF FrameKnows
  <2> QED
    BY <2>1, <2>2, <2>3, <2>4, <1>0, OpenPlacement
<1>14. CASE Return
  <2>1. UNCHANGED <<symbols, scopes, chain>>
    BY <1>14 DEF Return
  <2>2. stack' = stack \/ stack' = SubSeq(stack, 1, Len(stack) - 1)
    BY <1>14 DEF Return, Pop
  <2>3. FramesKnow(symbols, scopes, stack')
    BY <2>2, <1>a, FramesKnowPop
  <2> QED
    BY <2>1, <2>3, <1>0, StackPlacement
<1>15. CASE UNCHANGED vars
  BY <1>15, <1>0, <1>a, StackPlacement DEF vars
<1> QED
  BY <1>1, <1>2, <1>3, <1>4, <1>5, <1>6, <1>7, <1>8, <1>9, <1>10, <1>11, <1>12, <1>13,
     <1>14, <1>15
  DEF Next, Step, Declare, Ended

----------------------------------------------------------------------------
(* The parts of the invariant on indices, with the lookup's own.            *)
LEMMA ResolverRanges ==
  ASSUME RInv
  PROVE  /\ IInv /\ Placement
         /\ ScopeIds \subseteq Nat \ {0} /\ SymbolIds \subseteq Nat \ {0} /\ 1 \in ScopeIds
         /\ Len(symbols) \in SymbolIds
         /\ symbols[1].scope_idx = 1
         /\ parsed_scope \in ScopeIds
         /\ \A s \in ScopeIds :
              /\ s \in chain[s] /\ chain[s] \subseteq ScopeIds
              /\ \A a \in chain[s] : a <= s
         /\ \A s \in ScopeIds, n \in Names :
              /\ scopes[s].sym_idx[n] \in {0} \cup SymbolIds
              /\ BindingPlaced(symbols, s, scopes[s].sym_idx[n])
         /\ ident_path # <<>> => /\ ident_path \in Paths /\ ident_path \in Seq(Names)
                                 /\ Len(ident_path) \in Nat \ {0}
                                 /\ level \in 1 .. Len(ident_path)
                                 /\ \A i \in 1 .. Len(ident_path) : ident_path[i] \in Names
         /\ ident_path = <<>> => Len(ident_path) = 0 /\ level = 1
<1>1. IInv /\ Placement /\ ResolverTypeOK
  BY DEF RInv
<1>2. ScopeIds \subseteq Nat \ {0} /\ SymbolIds \subseteq Nat \ {0} /\ 1 \in ScopeIds
      /\ Len(symbols) \in SymbolIds
  BY <1>1, Ranges DEF ScopeIds, SymbolIds
<1>3. symbols[1].scope_idx = 1
  BY <1>1 DEF IInv, Bookkeeping
<1>4. \A s \in ScopeIds, n \in Names :
        /\ scopes[s].sym_idx[n] \in {0} \cup SymbolIds
        /\ BindingPlaced(symbols, s, scopes[s].sym_idx[n])
  BY <1>1, Ranges DEF Placement
<1>5. \A s \in ScopeIds : /\ s \in chain[s] /\ chain[s] \subseteq ScopeIds
                          /\ \A a \in chain[s] : a <= s
  BY <1>1, Ranges DEF Placement
<1>6. parsed_scope \in ScopeIds
  BY <1>1 DEF ResolverTypeOK
<1>7. ASSUME ident_path # <<>>
      PROVE  /\ ident_path \in Paths /\ ident_path \in Seq(Names)
             /\ Len(ident_path) \in Nat \ {0}
             /\ level \in 1 .. Len(ident_path)
             /\ \A i \in 1 .. Len(ident_path) : ident_path[i] \in Names
  <2>1. ident_path \in Paths /\ level \in 1 .. Len(ident_path)
    BY <1>1, <1>7 DEF ResolverTypeOK
  <2>2. ident_path \in Seq(Names)
    BY <2>1, PathsAssumption
  <2> QED
    BY <2>1, <2>2, <1>7
<1>8. ident_path = <<>> => Len(ident_path) = 0 /\ level = 1
  BY <1>1 DEF ResolverTypeOK
<1> QED
  BY <1>1, <1>2, <1>3, <1>4, <1>5, <1>6, <1>7, <1>8

(* The search for a name has come to a binding of it: the binding is the    *)
(* innermost.                                                               *)
LEMMA InnermostIs ==
  ASSUME NEW S, S \subseteq Nat, NEW a \in S, \A b \in S : b <= a
  PROVE  Innermost(S) = a
<1>1. \A c \in S : (\A b \in S : b <= c) => c = a
  OBVIOUS
<1> QED
  BY <1>1 DEF Innermost

(* What the match in the scope searched says of the meaning of the name.    *)
LEMMA MeaningIfMatch ==
  ASSUME RInv, Resolving, Len(ident_path) = 1, Match # 0
  PROVE  /\ Match \in SymbolIds /\ Match = scopes[parsed_scope].sym_idx[ident_path[1]]
         /\ MeaningOfName(ident_path[1]) =
              IF catch_use_before_decl /\ Match > use.pos
              THEN Outcome("used_before_declaration", Match)
              ELSE Outcome("found", Match)
<1> DEFINE n == ident_path[1]
           B == Binders(n, use.scope)
<1>1. /\ parsed_scope \in ScopeIds /\ use.scope \in ScopeIds /\ use # NoUse
      /\ ident_path # <<>> /\ n \in Names
      /\ parsed_scope \in chain[use.scope]
      /\ \A a \in B : a <= parsed_scope
      /\ catch_use_before_decl <=> SameFunction(use.scope, parsed_scope)
  BY ResolverRanges DEF RInv, NameSearched, Resolving, ResolverTypeOK
<1>2. /\ Match = scopes[parsed_scope].sym_idx[n] /\ Owner(parsed_scope) # "COMPONENT"
      /\ Match \in SymbolIds
  BY <1>1, ResolverRanges DEF Match
<1>3. parsed_scope \in B /\ B \subseteq Nat
  BY <1>1, <1>2, ResolverRanges DEF Binders
<1>4. Innermost(B) = parsed_scope /\ B # {}
  BY <1>1, <1>3, InnermostIs
<1> QED
  BY <1>1, <1>2, <1>4 DEF MeaningOfName

(* A search that has come to its end without a match.                       *)
LEMMA MeaningIfNoMatch ==
  ASSUME RInv, Resolving, Len(ident_path) = 1, Match = 0,
         scopes[parsed_scope].parent_scope_idx = 0
  PROVE  MeaningOfName(ident_path[1]) = Outcome("undefined", 0)
<1> DEFINE n == ident_path[1]
           B == Binders(n, use.scope)
<1>1. /\ parsed_scope \in ScopeIds /\ use.scope \in ScopeIds /\ use # NoUse
      /\ \A a \in B : a <= parsed_scope
  BY ResolverRanges DEF RInv, NameSearched, Resolving, ResolverTypeOK
<1>2. parsed_scope = 1
  BY <1>1, ResolverRanges DEF IInv, ScopeTree
<1>3. parsed_scope \notin B
  BY DEF Match, Binders
<1>4. B \subseteq Nat \ {0}
  BY <1>1, ResolverRanges DEF Binders
<1>5. B = {}
  BY <1>1, <1>2, <1>3, <1>4
<1> QED
  BY <1>5 DEF MeaningOfName

(* What an identifier means depends on the table and the identifier alone.  *)
LEMMA MeaningStays ==
  ASSUME UNCHANGED <<vars, use, ident_path>>
  PROVE  /\ SymbolIds' = SymbolIds /\ ScopeIds' = ScopeIds
         /\ \A n, s : Binders(n, s)' = Binders(n, s)
         /\ \A s, a : SameFunction(s, a)' = SameFunction(s, a)
         /\ \A n, s, c : Leads(n, s, c)' = Leads(n, s, c)
         /\ \A path : Trails(path)' = Trails(path)
         /\ Meaning(ident_path)' = Meaning(ident_path)
<1>1. /\ symbols' = symbols /\ scopes' = scopes /\ chain' = chain
      /\ use' = use /\ ident_path' = ident_path
  BY DEF vars
<1>2. SymbolIds' = SymbolIds /\ ScopeIds' = ScopeIds
  BY <1>1 DEF SymbolIds, ScopeIds
<1>3. \A n, s : Binders(n, s)' = Binders(n, s)
  BY <1>1 DEF Binders, Owner
<1>4. \A s, a : SameFunction(s, a)' = SameFunction(s, a)
  BY <1>1 DEF SameFunction, Owner
<1>5. \A n, s, c : Leads(n, s, c)' = Leads(n, s, c)
  BY <1>1 DEF Leads
<1>6. \A path : Trails(path)' = Trails(path)
  BY <1>1, <1>2, <1>5 DEF Trails
<1>7. \A path : EndsOf(path)' = EndsOf(path)
  BY <1>1, <1>6 DEF EndsOf
<1>8. \A path : MeaningOfPath(path)' = MeaningOfPath(path)
  BY <1>7 DEF MeaningOfPath, Outcome
<1>9. \A n : MeaningOfName(n)' = MeaningOfName(n)
  BY <1>1, <1>3, <1>4 DEF MeaningOfName, Outcome
<1>10. Meaning(ident_path)' = Meaning(ident_path)
  BY <1>1, <1>8, <1>9 DEF Meaning
<1> QED
  BY <1>2, <1>3, <1>4, <1>5, <1>6, <1>10

----------------------------------------------------------------------------
(* A step of the promise, or none of it.                                    *)
Refines == [Promise!Next]_<<ident_path, Answered>>

(* A step of the builder, at which an identifier may be met.                *)
LEMMA IdleStep ==
  ASSUME RInv, [Next]_vars, status = "building", UNCHANGED lookup,
         \/ use' = use
         \/ /\ use'.scope \in ScopeIds /\ use'.here \in ScopeIds
            /\ use'.pos \in SymbolIds /\ use'.node \in Nodes /\ use'.isNull \in BOOLEAN
  PROVE  RInv' /\ Refines
<1>1. /\ ident_path = <<>> /\ outcome = None
      /\ ident_path' = ident_path /\ level' = level /\ parsed_scope' = parsed_scope
      /\ catch_use_before_decl' = catch_use_before_decl /\ outcome' = outcome
  BY DEF RInv, LookupWaits, lookup
<1>2. IInv /\ Placement /\ ResolverTypeOK
  BY DEF RInv
<1>3. IInv' /\ Placement' /\ Kept(symbols, scopes, symbols', scopes')
  BY <1>2, NextIInv, NextPlacement
<1>4. ScopeIds \subseteq ScopeIds' /\ SymbolIds \subseteq SymbolIds'
  BY <1>3 DEF Kept, ScopeIds, SymbolIds
<1>5. ResolverTypeOK'
  BY <1>1, <1>2, <1>4 DEF ResolverTypeOK
<1>6. LookupWaits' /\ NameSearched' /\ PathFollowed' /\ AnsweredRight'
  <2>1. Len(ident_path') = 0 /\ outcome'.verdict = "none"
    BY <1>1 DEF None, Outcome
  <2> QED
    BY <1>1, <2>1 DEF LookupWaits, NameSearched, PathFollowed, AnsweredRight
<1>7. Refines
  BY <1>1 DEF Refines, Answered
<1> QED
  BY <1>3, <1>5, <1>6, <1>7 DEF RInv

(* A step of the lookup leaves the table and the identifier as they are.    *)
LEMMA TableStays ==
  ASSUME RInv, UNCHANGED <<vars, use>>
  PROVE  IInv' /\ Placement' /\ UNCHANGED <<symbols, scopes, chain, status>>
<1>1. IInv' /\ Placement'
  BY NextIInv, NextPlacement DEF RInv
<1> QED
  BY <1>1 DEF vars

(* The answers: an outcome that is the identifier's meaning.                *)
LEMMA EndStep ==
  ASSUME RInv, Resolving, NEW v \in Verdicts \ {"none", "no_position"},
         NEW k \in {0} \cup SymbolIds, End(v, k),
         ident_path = <<>> => v = "null_pointer" /\ k = 0,
         ident_path # <<>> => v # "null_pointer" /\ Answered' = Meaning(ident_path),
         v = "found" => FoundHere(k)
  PROVE  RInv' /\ Refines
<1>1. /\ UNCHANGED <<vars, use, ident_path>>
      /\ ident_path' = ident_path /\ level' = level /\ parsed_scope' = parsed_scope
      /\ catch_use_before_decl' = catch_use_before_decl /\ use' = use
      /\ outcome' = Outcome(v, k) /\ outcome'.verdict = v /\ outcome'.sym = k
      /\ status = "done" /\ use # NoUse /\ outcome = None
  BY DEF End, Outcome, Resolving
<1>2. IInv' /\ Placement' /\ status' = status /\ chain' = chain
  BY <1>1, TableStays
<1>3. /\ SymbolIds' = SymbolIds /\ ScopeIds' = ScopeIds
      /\ \A n, s : Binders(n, s)' = Binders(n, s)
      /\ \A s, a : SameFunction(s, a)' = SameFunction(s, a)
      /\ \A n, s, c : Leads(n, s, c)' = Leads(n, s, c)
      /\ \A path : Trails(path)' = Trails(path)
      /\ Meaning(ident_path)' = Meaning(ident_path)
  BY <1>1, MeaningStays
<1>4. ResolverTypeOK'
  BY <1>1, <1>3 DEF RInv, ResolverTypeOK
<1>5. LookupWaits'
  BY <1>1, <1>2 DEF RInv, LookupWaits
<1>6. NameSearched'
  BY <1>1, <1>2, <1>3 DEF RInv, NameSearched
<1>7. PathFollowed'
  BY <1>1, <1>3 DEF RInv, PathFollowed
<1>8. AnsweredRight'
  <2>1. scopes' = scopes
    BY <1>1 DEF vars
  <2>2. v = "found" => FoundHere(k)'
    BY <1>1, <2>1 DEF FoundHere
  <2> QED
    BY <1>1, <1>3, <2>2 DEF AnsweredRight, FoundHere
<1>9. Refines
  <2>1. Answered = None
    BY <1>1 DEF Answered, None, Outcome
  <2>2. CASE ident_path = <<>>
    <3>1. Answered' = None
      BY <2>2, <1>1 DEF Answered
    <3> QED
      BY <2>1, <3>1, <1>1 DEF Refines
  <2>3. CASE ident_path # <<>>
    <3>1. Promise!Answer
      BY <2>1, <2>3, <1>1 DEF Promise!Answer, Meaning
    <3> QED
      BY <3>1 DEF Refines, Promise!Next
  <2> QED
    BY <2>2, <2>3
<1> QED
  BY <1>2, <1>4, <1>5, <1>6, <1>7, <1>8 , <1>9 DEF RInv

(* What EndStep needs of an answer: the outcome, seen through Answered.     *)
LEMMA AnsweredEnd ==
  ASSUME NEW v, NEW k, End(v, k)
  PROVE  /\ v \in {"no_such_module", "not_a_module"} => Answered' = Outcome("undefined", 0)
         /\ v \in {"found", "undefined", "used_before_declaration"} => Answered' = Outcome(v, k)
BY DEF End, Answered, Outcome

(* A pointer that is null is followed to no identifier.                     *)
LEMMA FollowNullStep ==
  ASSUME RInv, FollowNull
  PROVE  RInv' /\ Refines
<1>1. Resolving /\ End("null_pointer", 0) /\ use.isNull
  BY DEF FollowNull
<1>2. ident_path = <<>>
  BY <1>1 DEF RInv, LookupWaits
<1> QED
  BY <1>1, <1>2, EndStep DEF Verdicts

(* The lookup begins where the whole meaning of the identifier lies ahead.  *)
LEMMA StartLookupStep ==
  ASSUME RInv, NEW path \in Paths, StartLookup(path)
  PROVE  RInv' /\ Refines
<1>1. /\ UNCHANGED <<vars, use>> /\ use' = use /\ outcome' = outcome /\ level' = level
      /\ status = "done" /\ use # NoUse /\ outcome = None /\ ~use.isNull
      /\ ident_path = <<>> /\ ident_path' = path
      /\ parsed_scope' = IF Len(path) = 1 THEN use.scope ELSE symbols[1].scope_idx
      /\ catch_use_before_decl' = (Len(path) = 1 /\ Owner(use.scope) \in BodyOwners)
  BY DEF StartLookup, Resolving
<1>2. /\ IInv' /\ Placement' /\ status' = status /\ chain' = chain
      /\ symbols' = symbols /\ scopes' = scopes
  BY <1>1, TableStays
<1>3. SymbolIds' = SymbolIds /\ ScopeIds' = ScopeIds
  BY <1>2 DEF SymbolIds, ScopeIds
<1>4. /\ path # <<>> /\ path \in Seq(Names) /\ Len(path) \in Nat \ {0}
      /\ \A i \in 1 .. Len(path) : path[i] \in Names
  BY PathsAssumption
<1>5. level = 1 /\ symbols[1].scope_idx = 1 /\ use.scope \in ScopeIds
      /\ 1 \in ScopeIds /\ ScopeIds \subseteq Nat
  BY <1>1, ResolverRanges DEF RInv, ResolverTypeOK
<1>6. ResolverTypeOK'
  BY <1>1, <1>3, <1>4, <1>5 DEF RInv, ResolverTypeOK
<1>7. LookupWaits'
  BY <1>1, <1>2, <1>4 DEF LookupWaits
<1>8. NameSearched'
  <2> SUFFICES ASSUME Len(path) = 1
               PROVE  /\ parsed_scope' \in chain[use.scope]
                      /\ \A a \in Binders(path[1], use.scope)' : a <= parsed_scope'
                      /\ catch_use_before_decl' <=> SameFunction(use.scope, parsed_scope)'
    BY <1>1, <1>2 DEF NameSearched
  <2>1. /\ use.scope \in chain[use.scope] /\ parsed_scope' = use.scope
        /\ \A a \in chain[use.scope] : a <= use.scope /\ a \in Nat
    BY <1>1, <1>5, ResolverRanges
  <2>2. \A a \in Binders(path[1], use.scope)' : a <= parsed_scope'
    BY <1>1, <1>2, <2>1 DEF Binders
  <2>3. \A a \in chain[use.scope] : a >= use.scope => a = use.scope
    BY <2>1, <1>5
  <2>4. catch_use_before_decl' <=> SameFunction(use.scope, parsed_scope)'
    BY <1>1, <1>2, <1>5, <2>1, <2>3 DEF SameFunction, Owner
  <2> QED
    BY <2>1, <2>2, <2>4
<1>9. PathFollowed'
  <2> SUFFICES ASSUME Len(path) > 1
               PROVE  PathFollowed'
    BY <1>1 DEF PathFollowed
  <2>1. parsed_scope' = 1
    BY <1>1, <1>4, <1>5
  <2> DEFINE trail == [i \in 1 .. Len(path) |-> 1]
  <2>2. trail \in [1 .. Len(path) -> ScopeIds] /\ trail[1] = 1
    BY <1>4, <1>5
  <2>3. \A i \in 1 .. (level' - 1) : FALSE
    BY <1>1, <1>5
  <2>4. \A other \in Trails(path)' : other[level'] = parsed_scope'
    BY <1>1, <1>5, <2>1 DEF Trails
  <2> HIDE DEF trail
  <2> QED
    BY <1>1, <1>3, <1>5, <2>1, <2>2, <2>3, <2>4 DEF PathFollowed
<1>10. AnsweredRight'
  BY <1>1 DEF AnsweredRight, None, Outcome
<1>11. Refines
  <2>1. Answered' = Answered
    BY <1>1 DEF Answered
  <2>2. Promise!Ask
    BY <2>1, <1>1, <1>4 DEF Promise!Ask
  <2> QED
    BY <2>2 DEF Refines, Promise!Next
<1> QED
  BY <1>2, <1>6, <1>7, <1>8, <1>9, <1>10, <1>11 DEF RInv

(* A match ends the search for a name with the name's meaning: a symbol     *)
(* bound in a body is neither a module nor a builtin type, so the position  *)
(* of the declaration is known where it is asked for.                       *)
LEMMA FoundInScopeStep ==
  ASSUME RInv, FoundInScope
  PROVE  RInv' /\ Refines
<1>1. Resolving /\ Len(ident_path) = 1 /\ Match # 0 /\ ident_path # <<>>
  BY DEF FoundInScope
<1>2. /\ Match \in SymbolIds /\ Match = scopes[parsed_scope].sym_idx[ident_path[1]]
      /\ Meaning(ident_path) = IF catch_use_before_decl /\ Match > use.pos
                               THEN Outcome("used_before_declaration", Match)
                               ELSE Outcome("found", Match)
  BY <1>1, MeaningIfMatch DEF Meaning
<1>3. /\ parsed_scope \in ScopeIds /\ ident_path[1] \in Names
      /\ BindingPlaced(symbols, parsed_scope, Match)
      /\ parsed_scope \in chain[use.scope]
      /\ catch_use_before_decl <=> SameFunction(use.scope, parsed_scope)
      /\ Match \in Nat \ {0} /\ parsed_scope \in Nat /\ use.pos \in Nat
  BY <1>1, <1>2, ResolverRanges DEF RInv, NameSearched, Resolving, ResolverTypeOK
<1>4. ASSUME catch_use_before_decl
      PROVE  symbols[Match].sym_type \notin {"MODULE", "BUILTIN"}
  <2>1. Owner(parsed_scope) \in {"FN", "SCOPE"}
    BY <1>3, <1>4 DEF SameFunction, BodyOwners
  <2>2. Owner(1) = "MODULE"
    BY DEF RInv, Placement
  <2>3. symbols[Match].sym_type # "BUILTIN"
    BY <1>1, <1>3, <2>1, <2>2 DEF BindingPlaced
  <2>4. SymbolPlaced(symbols, scopes, Match)
    BY <1>2 DEF RInv, Placement
  <2>5. symbols[Match].sym_type = "MODULE" =>
          parsed_scope = 1 \/ symbols[Match].scope_idx = parsed_scope
    BY <1>1, <1>2, <1>3, <2>4, ResolverRanges
       DEF SymbolPlaced, IInv, BindingsAgree, NamesLeadToSymbols
  <2> QED
    BY <2>1, <2>2, <2>3, <2>4, <2>5 DEF SymbolPlaced, Owner
<1>5. CASE /\ catch_use_before_decl
           /\ symbols[Match].sym_type = "MODULE"
           /\ End("no_position", Match)
  BY <1>4, <1>5
<1>6. CASE /\ catch_use_before_decl
           /\ symbols[Match].sym_type # "MODULE"
           /\ IsDeclaredLater(Match)
           /\ End("used_before_declaration", Match)
  <2>1. Meaning(ident_path) = Outcome("used_before_declaration", Match)
    BY <1>2, <1>6 DEF IsDeclaredLater
  <2> QED
    BY <2>1, <1>1, <1>2, <1>6, EndStep, AnsweredEnd DEF Verdicts
<1>7. CASE /\ catch_use_before_decl =>
                symbols[Match].sym_type # "MODULE" /\ ~IsDeclaredLater(Match)
           /\ End("found", Match)
  <2>1. Meaning(ident_path) = Outcome("found", Match)
    BY <1>2, <1>4, <1>7 DEF IsDeclaredLater
  <2>2. FoundHere(Match)
    <3>1. level = 1
      BY <1>1, ResolverRanges
    <3>2. catch_use_before_decl => Match <= use.pos
      BY <1>3, <1>4, <1>7 DEF IsDeclaredLater
    <3> QED
      BY <3>1, <3>2, <1>1, <1>2 DEF FoundHere
  <2> QED
    BY <2>1, <2>2, <1>1, <1>2, <1>7, EndStep, AnsweredEnd DEF Verdicts
<1> QED
  BY <1>5, <1>6, <1>7 DEF FoundInScope

(* The search for a name climbs past a scope that does not bind it, and     *)
(* leaves the function for good when it leaves its scopes.                  *)
LEMMA ClimbToParentStep ==
  ASSUME RInv, ClimbToParent
  PROVE  RInv' /\ Refines
<1> DEFINE parent == scopes[parsed_scope].parent_scope_idx
           n == ident_path[1]
           above == chain[use.scope]
<1>1. Resolving /\ Len(ident_path) = 1 /\ Match = 0 /\ ident_path # <<>>
  BY DEF ClimbToParent
<1>2. CASE parent = 0 /\ End("undefined", 0)
  <2>1. Meaning(ident_path) = Outcome("undefined", 0)
    BY <1>1, <1>2, MeaningIfNoMatch DEF Meaning
  <2> QED
    BY <2>1, <1>1, <1>2, EndStep, AnsweredEnd DEF Verdicts
<1>3. CASE /\ parent # 0
           /\ parsed_scope' = parent
           /\ catch_use_before_decl' =
                (catch_use_before_decl /\ Owner(parent) \in BodyOwners)
           /\ UNCHANGED <<vars, use, ident_path, level, outcome>>
  <2>1. /\ UNCHANGED <<vars, use, ident_path>>
        /\ ident_path' = ident_path /\ level' = level /\ use' = use /\ outcome' = outcome
        /\ status = "done" /\ use # NoUse /\ outcome = None
    BY <1>1, <1>3 DEF Resolving
  <2>2. /\ IInv' /\ Placement' /\ status' = status /\ chain' = chain
        /\ symbols' = symbols /\ scopes' = scopes
    BY <2>1, TableStays
  <2>3. /\ SymbolIds' = SymbolIds /\ ScopeIds' = ScopeIds
        /\ \A m, s : Binders(m, s)' = Binders(m, s)
        /\ \A s, a : SameFunction(s, a)' = SameFunction(s, a)
    BY <2>1, MeaningStays
  <2>4. /\ parsed_scope \in ScopeIds /\ use.scope \in ScopeIds /\ n \in Names
        /\ parsed_scope \in above /\ above \subseteq ScopeIds
        /\ \A a \in Binders(n, use.scope) : a <= parsed_scope
        /\ catch_use_before_decl <=> SameFunction(use.scope, parsed_scope)
        /\ catch_use_before_decl \in BOOLEAN
        /\ ScopeIds \subseteq Nat
    BY <1>1, ResolverRanges DEF RInv, NameSearched, Resolving, ResolverTypeOK
  <2>5. parsed_scope # 1 /\ parent < parsed_scope
    BY <1>3, <2>4, ResolverRanges DEF IInv, ScopeTree
  <2>6. parent \in above /\ \A b \in above : b < parsed_scope => b <= parent
    BY <2>4, <2>5 DEF RInv, Placement, ChainClimbs
  <2>7. \A a \in Binders(n, use.scope) : a \in above /\ a # parsed_scope
    BY <1>1 DEF Binders, Match
  <2>a. /\ parsed_scope \in Nat /\ parent \in Nat
        /\ \A b \in above : b \in Nat
    BY <2>4, <2>6
  <2>8. ASSUME NEW a \in Binders(n, use.scope) PROVE a <= parent
    <3>1. a \in above /\ a # parsed_scope /\ a <= parsed_scope
      BY <2>4, <2>7
    <3>2. a < parsed_scope
      BY <3>1, <2>a
    <3> QED
      BY <3>1, <3>2, <2>6
  <2>9. ASSUME NEW b \in above PROVE b >= parent <=> b >= parsed_scope \/ b = parent
    <3>1. b < parsed_scope => b <= parent
      BY <2>6
    <3> HIDE DEF parent, above
    <3> QED
      BY <3>1, <2>5, <2>a
  <2>10. catch_use_before_decl' <=> SameFunction(use.scope, parent)
    <3>1. SameFunction(use.scope, parsed_scope) <=>
            \A b \in above : b >= parsed_scope => Owner(b) \in BodyOwners
      BY ZenonT(20) DEF SameFunction
    <3>2. SameFunction(use.scope, parent) <=>
            \A b \in above : b >= parent => Owner(b) \in BodyOwners
      BY ZenonT(20) DEF SameFunction
    <3> QED
      BY <3>1, <3>2, <2>4, <2>6, <2>9, <1>3
  <2> HIDE DEF parent
  <2>11. parsed_scope' = parent
    BY <1>3
  <2>12. ResolverTypeOK'
    <3>1. catch_use_before_decl' \in BOOLEAN
      BY <1>3
    <3> QED
      BY <3>1, <2>1, <2>3, <2>4, <2>6, <2>11 DEF RInv, ResolverTypeOK
  <2>13. LookupWaits'
    BY <2>1, <2>2 DEF RInv, LookupWaits
  <2>14. NameSearched'
    BY <2>1, <2>2, <2>3, <2>6, <2>8, <2>10, <2>11 DEF NameSearched
  <2>15. PathFollowed'
    <3>1. ~(Len(ident_path') > 1)
      BY <1>1, <2>1
    <3> QED
      BY <3>1 DEF PathFollowed
  <2>16. AnsweredRight'
    BY <2>1 DEF AnsweredRight, None, Outcome
  <2>17. Refines
    BY <2>1 DEF Refines, Answered
  <2> QED
    BY <2>2, <2>12, <2>13, <2>14, <2>15, <2>16, <2>17 DEF RInv
<1> QED
  BY <1>2, <1>3 DEF ClimbToParent

(* Where the next component of a path is no module, the path means nothing: *)
(* no trail leads on.                                                       *)
LEMMA NoTrail ==
  ASSUME RInv, level \in 1 .. (Len(ident_path) - 1), Len(ident_path) \in Nat \ {0, 1},
         Found = 0 \/ symbols[Found].sym_type # "MODULE"
  PROVE  Meaning(ident_path) = Outcome("undefined", 0)
<1>1. ASSUME NEW trail \in Trails(ident_path)
      PROVE  FALSE
  <2>1. trail[level] = parsed_scope /\ Leads(ident_path[level], trail[level], trail[level + 1])
    BY <1>1 DEF RInv, PathFollowed, Trails
  <2> QED
    BY <2>1 DEF Leads, Found
<1>2. EndsOf(ident_path) = {}
  BY <1>1 DEF EndsOf
<1> QED
  BY <1>2 DEF Meaning, MeaningOfPath

(* One component more of a path: a scope further down, or the end.          *)
LEMMA EnterModuleStep ==
  ASSUME RInv, EnterModule
  PROVE  RInv' /\ Refines
<1>1. Resolving /\ level < Len(ident_path)
  BY DEF EnterModule
<1>2. /\ ident_path # <<>> /\ Len(ident_path) \in Nat \ {0, 1}
      /\ level \in 1 .. (Len(ident_path) - 1) /\ ident_path[level] \in Names
      /\ ident_path \in Paths
      /\ parsed_scope \in ScopeIds /\ Found \in {0} \cup SymbolIds
      /\ 1 .. (level - 1) \subseteq 1 .. (Len(ident_path) - 1)
      /\ ScopeIds \subseteq Nat \ {0}
  <2>1. ident_path # <<>>
    BY <1>1, ResolverRanges
  <2> QED
    BY <2>1, <1>1, ResolverRanges DEF Found
<1>3. CASE Found = 0 /\ End("no_such_module", 0)
  <2>1. Meaning(ident_path) = Outcome("undefined", 0)
    BY <1>2, <1>3, NoTrail
  <2> QED
    BY <2>1, <1>1, <1>2, <1>3, EndStep, AnsweredEnd DEF Verdicts
<1>4. CASE Found # 0 /\ symbols[Found].sym_type # "MODULE" /\ End("not_a_module", Found)
  <2>1. Meaning(ident_path) = Outcome("undefined", 0)
    BY <1>2, <1>4, NoTrail
  <2> QED
    BY <2>1, <1>1, <1>2, <1>4, EndStep, AnsweredEnd DEF Verdicts
<1>5. CASE /\ Found # 0 /\ symbols[Found].sym_type = "MODULE"
           /\ parsed_scope' = symbols[Found].created_scope_idx
           /\ level' = level + 1
           /\ UNCHANGED <<vars, use, ident_path, catch_use_before_decl, outcome>>
  <2> DEFINE created == symbols[Found].created_scope_idx
  <2>1. /\ UNCHANGED <<vars, use, ident_path>>
        /\ ident_path' = ident_path /\ use' = use /\ outcome' = outcome
        /\ catch_use_before_decl' = catch_use_before_decl
        /\ status = "done" /\ use # NoUse /\ outcome = None
    BY <1>1, <1>5 DEF Resolving
  <2>2. /\ IInv' /\ Placement' /\ status' = status /\ chain' = chain
        /\ symbols' = symbols /\ scopes' = scopes
    BY <2>1, TableStays
  <2>3. /\ SymbolIds' = SymbolIds /\ ScopeIds' = ScopeIds
        /\ \A n, s, c : Leads(n, s, c)' = Leads(n, s, c)
        /\ \A path : Trails(path)' = Trails(path)
    BY <2>1, MeaningStays
  <2>4. created \in ScopeIds /\ Leads(ident_path[level], parsed_scope, created)
    <3>1. SymbolPlaced(symbols, scopes, Found)
      BY <1>2, <1>5 DEF RInv, Placement
    <3> QED
      BY <3>1, <1>5 DEF SymbolPlaced, ScopeIds, Leads, Found
  <2>5. \A c : Leads(ident_path[level], parsed_scope, c) => c = created
    BY DEF Leads, Found
  <2> HIDE DEF created
  <2>6. parsed_scope' = created /\ level' = level + 1
    BY <1>5 DEF created
  <2>7. PICK trail \in [1 .. Len(ident_path) -> ScopeIds] :
          /\ trail[1] = 1 /\ trail[level] = parsed_scope
          /\ \A i \in 1 .. (level - 1) : Leads(ident_path[i], trail[i], trail[i + 1])
    BY <1>2 DEF RInv, PathFollowed
  <2> DEFINE further == [trail EXCEPT ![level + 1] = created]
  <2>8. /\ further \in [1 .. Len(ident_path) -> ScopeIds]
        /\ further[1] = 1 /\ further[level + 1] = created
        /\ \A i \in 1 .. level : further[i] = trail[i]
    BY <1>2, <2>4, <2>7
  <2> HIDE DEF further
  <2>9. \A i \in 1 .. ((level + 1) - 1) : Leads(ident_path[i], further[i], further[i + 1])
    <3> SUFFICES ASSUME NEW i \in 1 .. level
                 PROVE  Leads(ident_path[i], further[i], further[i + 1])
      BY <1>2
    <3>1. CASE i = level
      BY <3>1, <2>4, <2>7, <2>8
    <3>2. CASE i \in 1 .. (level - 1)
      <4>1. further[i] = trail[i] /\ further[i + 1] = trail[i + 1]
        BY <3>2, <1>2, <2>8
      <4> QED
        BY <4>1, <3>2, <2>7
    <3> QED
      BY <1>2, <3>1, <3>2
  <2>10. ASSUME NEW other \in Trails(ident_path)
         PROVE  other[level + 1] = created
    <3>1. other[level] = parsed_scope
          /\ Leads(ident_path[level], other[level], other[level + 1])
      BY <1>2 DEF RInv, PathFollowed, Trails
    <3> QED
      BY <3>1, <2>5
  <2>11. ResolverTypeOK'
    <3>1. level' \in 1 .. Len(ident_path)
      BY <1>2, <2>6
    <3> QED
      BY <3>1, <1>2, <2>1, <2>3, <2>4, <2>6 DEF RInv, ResolverTypeOK
  <2>12. LookupWaits'
    BY <2>1, <2>2 DEF RInv, LookupWaits
  <2>13. NameSearched'
    BY <1>2, <2>1 DEF NameSearched
  <2>14. PathFollowed'
    <3>1. \E t \in [1 .. Len(ident_path') -> ScopeIds'] :
            /\ t[1] = 1 /\ t[level'] = parsed_scope'
            /\ \A i \in 1 .. (level' - 1) : Leads(ident_path[i], t[i], t[i + 1])'
      BY <2>1, <2>3, <2>6, <2>8, <2>9
    <3>2. \A t \in Trails(ident_path)' : t[level'] = parsed_scope'
      <4>1. Trails(ident_path)' = Trails(ident_path)
        BY <2>1, <2>3
      <4> QED
        BY <4>1, <2>6, <2>10
    <3> QED
      BY <3>1, <3>2, <2>1, <2>3 DEF PathFollowed
  <2>15. AnsweredRight'
    BY <2>1 DEF AnsweredRight, None, Outcome
  <2>16. Refines
    BY <2>1 DEF Refines, Answered
  <2> QED
    BY <2>2, <2>11, <2>12, <2>13, <2>14, <2>15, <2>16 DEF RInv
<1> QED
  BY <1>3, <1>4, <1>5 DEF EnterModule

(* The last component of a path is searched for where every trail ends.     *)
LEMMA EndOfPathStep ==
  ASSUME RInv, EndOfPath
  PROVE  RInv' /\ Refines
<1>1. /\ Resolving /\ Len(ident_path) > 1 /\ level = Len(ident_path)
      /\ IF Found = 0 THEN End("undefined", 0) ELSE End("found", Found)
  BY DEF EndOfPath
<1>2. /\ ident_path # <<>> /\ Len(ident_path) \in Nat \ {0, 1}
      /\ ident_path[level] \in Names
      /\ parsed_scope \in ScopeIds /\ Found \in {0} \cup SymbolIds
  <2>1. ident_path # <<>>
    BY <1>1, ResolverRanges
  <2> QED
    BY <2>1, <1>1, ResolverRanges DEF Found
<1>3. PICK trail \in [1 .. Len(ident_path) -> ScopeIds] :
        /\ trail[1] = 1 /\ trail[level] = parsed_scope
        /\ \A i \in 1 .. (level - 1) : Leads(ident_path[i], trail[i], trail[i + 1])
  BY <1>1 DEF RInv, PathFollowed
<1>4. trail \in Trails(ident_path) /\ \A t \in Trails(ident_path) : t[level] = parsed_scope
  BY <1>1, <1>3 DEF RInv, PathFollowed, Trails
<1>5. EndsOf(ident_path) = {Found} \ {0}
  BY <1>1, <1>3, <1>4 DEF EndsOf, Found
<1>6. CASE Found = 0
  <2>1. Meaning(ident_path) = Outcome("undefined", 0)
    BY <1>2, <1>5, <1>6 DEF Meaning, MeaningOfPath
  <2> QED
    BY <2>1, <1>1, <1>2, <1>6, EndStep, AnsweredEnd DEF Verdicts
<1>7. CASE Found # 0
  <2>1. Meaning(ident_path) = Outcome("found", Found)
    BY <1>2, <1>5, <1>7 DEF Meaning, MeaningOfPath
  <2>2. FoundHere(Found)
    BY <1>1, <1>2, <1>7 DEF FoundHere, Found
  <2> QED
    BY <2>1, <2>2, <1>1, <1>2, <1>7, EndStep, AnsweredEnd DEF Verdicts
<1> QED
  BY <1>6, <1>7

----------------------------------------------------------------------------
(* Meeting an identifier for which two scopes that exist are noted.         *)
LEMMA MeetStep ==
  ASSUME RInv, NEW nodes, Unmet(nodes), NEW passed \in ScopeIds, NEW here \in ScopeIds,
         NEW isNull \in BOOLEAN, Meet(passed, here, isNull)
  PROVE  RInv' /\ Refines
<1>1. /\ use' = [scope |-> passed, here |-> here, pos |-> Len(symbols),
                 node |-> Top.node, isNull |-> isNull]
      /\ UNCHANGED <<vars, lookup>> /\ status = "building"
  BY DEF Meet, Unmet
<1>2. Top.node \in Nodes /\ Len(symbols) \in SymbolIds
  BY Ranges, ResolverRanges DEF FrameRecords
<1>3. SymbolIds' = SymbolIds /\ ScopeIds' = ScopeIds
  BY <1>1 DEF vars, SymbolIds, ScopeIds
<1> QED
  BY <1>1, <1>2, <1>3, IdleStep

(* The scopes noted when an identifier is met exist: a for statement is not *)
(* the outermost call, and a function is in a module or a component.        *)
LEMMA MeetingStep ==
  ASSUME RInv,
         \/ MeetInStatement \/ MeetInField \/ MeetInSignature
         \/ \E isNull \in BOOLEAN : MeetInFor(isNull)
  PROVE  RInv' /\ Refines
<1>1. /\ IInv /\ Placement /\ Top.scope \in ScopeIds
      /\ Len(stack) \in Nat \ {0} /\ Top = stack[Len(stack)]
      /\ \A i \in 1 .. Len(stack) :
           /\ FrameKnows(symbols, scopes, stack, i)
           /\ stack[i].scope \in ScopeIds
  <2>1. IInv /\ Placement
    BY DEF RInv
  <2>2. stack \in Seq(FrameRecords) /\ DOMAIN stack = 1 .. Len(stack)
        /\ Len(stack) \in DOMAIN stack
    BY <2>1, Ranges
  <2>3. TypeOK
    BY <2>1 DEF IInv
  <2> QED
    BY <2>1, <2>2, <2>3, Ranges DEF TypeOK, Placement, FramesKnow, Top
<1>2. ASSUME Top.node \in {"FOR", "PARAMS"}
      PROVE  /\ Len(stack) - 1 \in 1 .. Len(stack)
             /\ scopes[Top.scope].parent_scope_idx = stack[Len(stack) - 1].scope
  <2>1. Len(stack) # 1
    <3>1. 1 \in 1 .. Len(stack)
      BY <1>1
    <3>2. FrameKnows(symbols, scopes, stack, 1)
      BY <3>1, <1>1
    <3>3. stack[1].node = "MODULE"
      BY <3>2 DEF FrameKnows
    <3>4. Len(stack) = 1 => Top.node = "MODULE"
      BY <3>3, <1>1
    <3> QED
      BY <3>4, <1>2
  <2>a. Len(stack) \in Nat \ {0}
    BY <1>1
  <2>2. Len(stack) \in 2 .. Len(stack) /\ Len(stack) - 1 \in 1 .. Len(stack)
    BY <2>1, <2>a
  <2>3. FramesNest
    BY <1>1 DEF IInv
  <2> QED
    BY <2>2, <2>3, <1>1, <1>2 DEF FramesNest
<1>3. CASE MeetInStatement
  BY <1>1, <1>3, MeetStep DEF MeetInStatement
<1>4. CASE MeetInField
  BY <1>1, <1>4, MeetStep DEF MeetInField
<1>5. CASE MeetInSignature
  <2> DEFINE caller == stack[Len(stack) - 1]
  <2>1. /\ Unmet({"PARAMS"}) /\ Top.node = "PARAMS"
        /\ Meet(symbols[caller.sym].scope_idx, scopes[Top.scope].parent_scope_idx, FALSE)
    BY <1>5 DEF MeetInSignature, Unmet
  <2>2. /\ Len(stack) - 1 \in 1 .. Len(stack)
        /\ scopes[Top.scope].parent_scope_idx \in ScopeIds
    BY <2>1, <1>1, <1>2
  <2>3. caller.node \in {"MODULE", "COMPONENT"}
    BY <2>1, <1>1 DEF FrameKnows
  <2>4. caller.sym \in SymbolIds /\ symbols[caller.sym].sym_type \in {"MODULE", "COMPONENT"}
    BY <2>2, <2>3, <1>1 DEF FrameKnows, SymbolIds
  <2>5. symbols[caller.sym].scope_idx \in ScopeIds
    BY <2>4, <1>1 DEF Placement, SymbolPlaced, ScopeIds
  <2> QED
    BY <2>1, <2>2, <2>5, MeetStep
<1>6. CASE \E isNull \in BOOLEAN : MeetInFor(isNull)
  <2>1. PICK isNull \in BOOLEAN : MeetInFor(isNull)
    BY <1>6
  <2>2. /\ Unmet({"FOR"}) /\ Top.node = "FOR"
        /\ Meet(scopes[Top.scope].parent_scope_idx, Top.scope, isNull)
    BY <2>1 DEF MeetInFor, Unmet
  <2>3. scopes[Top.scope].parent_scope_idx \in ScopeIds
    BY <2>2, <1>1, <1>2
  <2> QED
    BY <2>2, <2>3, <1>1, MeetStep
<1> QED
  BY <1>3, <1>4, <1>5, <1>6

(* Nothing happens, and everything stays true.                              *)
LEMMA StutterStep ==
  ASSUME RInv, UNCHANGED resolverVars
  PROVE  RInv' /\ Refines
<1>1. /\ UNCHANGED <<vars, use, ident_path>>
      /\ ident_path' = ident_path /\ level' = level /\ parsed_scope' = parsed_scope
      /\ catch_use_before_decl' = catch_use_before_decl /\ use' = use /\ outcome' = outcome
  BY DEF resolverVars, lookup
<1>2. /\ IInv' /\ Placement' /\ status' = status /\ chain' = chain
      /\ symbols' = symbols /\ scopes' = scopes
  BY <1>1, TableStays
<1>3. /\ SymbolIds' = SymbolIds /\ ScopeIds' = ScopeIds
      /\ \A n, s : Binders(n, s)' = Binders(n, s)
      /\ \A s, a : SameFunction(s, a)' = SameFunction(s, a)
      /\ \A n, s, c : Leads(n, s, c)' = Leads(n, s, c)
      /\ \A path : Trails(path)' = Trails(path)
      /\ Meaning(ident_path)' = Meaning(ident_path)
  BY <1>1, MeaningStays
<1>4. ResolverTypeOK'
  BY <1>1, <1>3 DEF RInv, ResolverTypeOK
<1>5. LookupWaits'
  BY <1>1, <1>2 DEF RInv, LookupWaits
<1>6. NameSearched'
  BY <1>1, <1>2, <1>3 DEF RInv, NameSearched
<1>7. PathFollowed'
  BY <1>1, <1>3 DEF RInv, PathFollowed
<1>8. Answered' = Answered
  BY <1>1 DEF Answered
<1>9. AnsweredRight'
  <2>1. outcome.verdict = "found" => FoundHere(outcome.sym)'
    BY <1>1, <1>2 DEF RInv, AnsweredRight, FoundHere
  <2> QED
    BY <2>1, <1>1, <1>3, <1>8 DEF RInv, AnsweredRight
<1> QED
  BY <1>1, <1>2, <1>4, <1>5, <1>6, <1>7, <1>8, <1>9 DEF RInv, Refines

(* No step of the builder is taken once it has ended.                       *)
LEMMA BuildingSteps ==
  ASSUME Step
  PROVE  status = "building"
BY DEF Step, Declare, AddBuiltinSymbol, BuildField, BuildStruct, BuildComponent, BuildModule,
       BuildFunction, BuildReceiver, BuildParam, BuildVarDecl, BuildForInit, BeginBody,
       BuildBlock, BuildFor, BuildForOtherInit, BuildIf, BuildElseIf, BuildElseBlock, Return,
       Visiting

(* The invariant is kept by every step, and every step is one of the        *)
(* promise's or none of them.                                               *)
LEMMA NextRInv ==
  ASSUME RInv, [ResolverNext]_resolverVars
  PROVE  RInv' /\ Refines
<1>1. CASE Build
  <2>1. Step /\ status = "building" /\ use' = use /\ UNCHANGED lookup
    BY <1>1, BuildingSteps DEF Build
  <2> QED
    BY <2>1, IdleStep DEF Next
<1>2. CASE \/ MeetInStatement \/ MeetInField \/ MeetInSignature
           \/ \E isNull \in BOOLEAN : MeetInFor(isNull)
  BY <1>2, MeetingStep
<1>3. CASE Resolve
  BY <1>3, FollowNullStep, StartLookupStep, FoundInScopeStep, ClimbToParentStep,
     EnterModuleStep, EndOfPathStep
  DEF Resolve
<1>4. CASE UNCHANGED resolverVars
  BY <1>4, StutterStep
<1> QED
  BY <1>1, <1>2, <1>3, <1>4 DEF ResolverNext, Settled

(* Before the first step.                                                   *)
LEMMA InitRInv ==
  ASSUME ResolverInit
  PROVE  RInv /\ Promise!Init
<1>1. IInv /\ Placement
  BY InitIInv, InitPlacement DEF ResolverInit
<1>2. /\ use = NoUse /\ ident_path = <<>> /\ level = 1 /\ parsed_scope = 1
      /\ catch_use_before_decl = FALSE /\ outcome = None
      /\ Len(ident_path) = 0
      /\ outcome.verdict = "none" /\ outcome.sym = 0
  BY DEF ResolverInit, None, Outcome
<1>3. ResolverTypeOK
  <2>1. level \in 1 .. (IF ident_path = <<>> THEN 1 ELSE Len(ident_path))
    BY <1>2
  <2>2. parsed_scope \in ScopeIds
    BY <1>1, <1>2, Ranges
  <2> QED
    BY <2>1, <2>2, <1>2 DEF ResolverTypeOK, Verdicts
<1>4. LookupWaits /\ NameSearched /\ PathFollowed /\ AnsweredRight
  BY <1>2 DEF LookupWaits, NameSearched, PathFollowed, AnsweredRight
<1>5. Promise!Init
  BY <1>2 DEF Promise!Init, Answered
<1> QED
  BY <1>1, <1>3, <1>4, <1>5 DEF RInv

(* The invariant holds in every reachable state.                            *)
LEMMA ResolverInvariance == ResolverSpec => []RInv
<1>1. ResolverInit => RInv
  BY InitRInv
<1>2. RInv /\ [ResolverNext]_resolverVars => RInv'
  BY NextRInv
<1> QED
  BY <1>1, <1>2, PTL DEF ResolverSpec

----------------------------------------------------------------------------
(* Every scope and every symbol that the lookup comes to exists, for every  *)
(* program: the search never indexes a table with an empty optional, and    *)
(* the level never runs past the end of the path.                           *)
THEOREM ResolverTypeCorrect == ResolverSpec => []ResolverTypeOK
<1>1. RInv => ResolverTypeOK
  BY DEF RInv
<1> QED
  BY <1>1, ResolverInvariance, PTL

(* get_symbol_pos is never asked for the position of a module, where it has *)
(* no answer and ends the compiler.                                         *)
THEOREM ModulePositionsUnneeded == ResolverSpec => []ModulePositionNeverNeeded
<1>1. RInv => ModulePositionNeverNeeded
  BY DEF RInv, AnsweredRight, ModulePositionNeverNeeded
<1> QED
  BY <1>1, ResolverInvariance, PTL

(* A symbol is bound to a name in one scope only: what finds it there finds *)
(* it nowhere else.                                                         *)
LEMMA FoundOnce ==
  ASSUME IInv, Placement, NEW n \in Names, NEW s \in ScopeIds, NEW t \in ScopeIds,
         scopes[s].sym_idx[n] # 0, scopes[s].sym_idx[n] = scopes[t].sym_idx[n]
  PROVE  s = t
<1> DEFINE k == scopes[s].sym_idx[n]
<1>1. k \in SymbolIds \ {1}
  BY Ranges DEF Placement, BindingPlaced
<1>2. \/ symbols[k].name = n
      \/ s = 1 /\ t = 1
  BY DEF IInv, BindingsAgree, NamesLeadToSymbols
<1>3. CASE symbols[k].name = n
  BY <1>1, <1>3 DEF IInv, BindingsAgree, SymbolsAreBoundOnce
<1> QED
  BY <1>2, <1>3

(* No use in a function resolves to a later declaration of that function,   *)
(* although the search compares positions only until it leaves the bodies.  *)
THEOREM DeclaredBeforeUse == ResolverSpec => []NoUseBeforeDeclaration
<1>1. ASSUME RInv
      PROVE  NoUseBeforeDeclaration
  <2> SUFFICES ASSUME outcome.verdict = "found", Len(ident_path) = 1,
                      NEW a \in chain[use.scope],
                      scopes[a].sym_idx[ident_path[1]] = outcome.sym,
                      SameFunction(use.scope, a)
               PROVE  outcome.sym <= use.pos
    BY DEF NoUseBeforeDeclaration
  <2>1. FoundHere(outcome.sym) /\ level = 1
    BY <1>1 DEF RInv, AnsweredRight, FoundHere
  <2>2. use # NoUse /\ use.scope \in ScopeIds /\ ident_path[1] \in Names
    BY <1>1, <2>1, ResolverRanges DEF RInv, LookupWaits, ResolverTypeOK, FoundHere
  <2>3. a \in ScopeIds /\ parsed_scope \in ScopeIds
    BY <1>1, <2>2, ResolverRanges
  <2>4. a = parsed_scope
    BY <1>1, <2>1, <2>2, <2>3, FoundOnce DEF RInv, FoundHere
  <2> QED
    BY <1>1, <2>1, <2>4 DEF RInv, NameSearched, FoundHere
<1> QED
  BY <1>1, ResolverInvariance, PTL

(* Every symbol stored for an identifier is the symbol of the last name of  *)
(* its path, or i32 for "int", and never the global module, which no name   *)
(* leads to.                                                                *)
THEOREM ResolvesToNamed == ResolverSpec => []ResolvesToItsName
<1>1. ASSUME RInv
      PROVE  ResolvesToItsName
  <2> SUFFICES ASSUME outcome.verdict = "found"
               PROVE  LET n == ident_path[Len(ident_path)] IN
                      /\ outcome.sym # 1
                      /\ \/ symbols[outcome.sym].name = n
                         \/ (n = "int" /\ symbols[outcome.sym].name = "i32")
    BY DEF ResolvesToItsName
  <2>1. FoundHere(outcome.sym)
    BY <1>1 DEF RInv, AnsweredRight
  <2>2. ident_path[level] \in Names /\ parsed_scope \in ScopeIds
    BY <1>1, <2>1, ResolverRanges DEF FoundHere
  <2>3. BindingPlaced(symbols, parsed_scope, outcome.sym)
    BY <1>1, <2>1, <2>2, ResolverRanges DEF FoundHere
  <2> QED
    BY <1>1, <2>1, <2>2, <2>3
    DEF FoundHere, BindingPlaced, RInv, IInv, BindingsAgree, NamesLeadToSymbols
<1> QED
  BY <1>1, ResolverInvariance, PTL

(* The loops of find_symbol_idx implement the promise of NameLookup, but    *)
(* for its liveness: they answer at most once, with what the identifier     *)
(* means in the whole table - the innermost binding, components aside, with *)
(* a local declaration that comes later refused, or the end of the path.    *)
THEOREM LookupIsMeaning == ResolverSpec => Promise!Safety
<1>1. ResolverInit => Promise!Init
  BY InitRInv
<1>2. RInv /\ [ResolverNext]_resolverVars => [Promise!Next]_<<ident_path, Answered>>
  BY NextRInv DEF Refines
<1> QED
  BY <1>1, <1>2, ResolverInvariance, PTL DEF ResolverSpec, Promise!Safety
=============================================================================
