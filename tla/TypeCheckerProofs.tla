------------------------- MODULE TypeCheckerProofs --------------------------
(***************************************************************************)
(* Proofs about the type checker, for every symbol table and for bodies of *)
(* every size.                                                             *)
(***************************************************************************)
EXTENDS TypeChecker, SequenceFacts, FiniteSetTheorems, WellFoundedInduction, TLAPS

ContainerKinds == {"MODULE", "COMPONENT", "STRUCT"}
StatementKinds == {"EXPR", "RETURN", "VAR_INIT"}
ArrayInits == {"ARR_INIT", "NESTED_ARR_INIT"}
Operators == {"UNARY", "BINARY", "TERNARY", "ASSIGN", "SUBSCRIPT", ".", "->", "STRUCT_CREATE",
              "CAST"}
ExpressionKinds == Operators \cup ArrayInits \cup {"STRUCT_INIT"}
BodyKinds == StatementKinds \cup ExpressionKinds

----------------------------------------------------------------------------
(* The layers that no object has: those of the types of literals.           *)
IsTemporary(layer) ==
  IsLiteralLayer(layer) \/ (IsBuiltinPtr(layer) /\ layer.builtin # "opaque_ptr")

IsRef(layer) == layer.kind = "REF"

BuiltinPtrs == {"opaque_ptr", "CStr_ptr", "null_ptr"}

(* What the checker derives: a reference lies in an array or below nothing  *)
(* but references, and a literal's layer below nothing.                     *)
IsDerived(type) ==
  /\ IsSeq(type)
  /\ \A i \in DOMAIN type :
       /\ IsInnermost(type[i]) <=> i = Len(type)
       /\ IsTemporary(type[i]) => i = 1
       /\ IsBuiltinPtr(type[i]) => type[i].builtin \in BuiltinPtrs
       /\ type[i].kind = "NAMED" /\ ~IsLiteralLayer(type[i]) => type[i].symbol \in TypeSymbols
       /\ type[i].kind = "ARRAY" => type[i].sizes \in Seq(Nat)
       /\ IsRef(type[i]) /\ i > 1 =>
            \/ type[i - 1].kind = "ARRAY"
            \/ \A j \in 1 .. (i - 1) : IsRef(type[j])

(* What an object has for a type: a reference lies in an array or outside.  *)
IsObject(type) ==
  \A i \in DOMAIN type :
    /\ ~IsTemporary(type[i])
    /\ IsRef(type[i]) /\ i > 1 => type[i - 1].kind = "ARRAY"

(* No type is what a dereferenced string has.                               *)
NullIsOfString(res) ==
  res.type = NullType =>
    /\ res.node = <<"UNARY", "*">>
    /\ IsBuiltinPtrTo(Head(res.parts[1].type), "CStr_ptr")

IsResult(res) ==
  /\ res = Result(res, res.type, res.is_lvalue, res.is_var_and_mutable)
  /\ res.node # <<"NONE">>
  /\ IsDerived(res.type) /\ NullIsOfString(res)
  /\ res.is_lvalue => IsObject(res.type)
  /\ res.is_var_and_mutable => res.is_lvalue

(* A frame's type, and what it has taken so far.                            *)
HasItsType(f) ==
  /\ Node(f.node) \in ContainerKinds \cup {"FN"} => Datum(f.node) \in OfKind(Node(f.node))
  /\ Node(f.node) \in {"RETURN", "VAR_INIT"} \cup ArrayInits => IsWritten(f.type)
  /\ Node(f.node) \in {"VAR_INIT"} \cup ArrayInits => IsLegalType(f.type)
  /\ Node(f.node) \in ArrayInits => Kind(f.type) = "ARRAY"
  /\ Node(f.node) = "NESTED_ARR_INIT" => f.depth + 1 < Len(Head(f.type).sizes)
  /\ Node(f.node) = "STRUCT_INIT" =>
       f.type # NullType /\ IsDerived(f.type) /\ Head(f.type).symbol \in Structs
  /\ Node(f.node) = "CAST" => IsWritten(Datum(f.node)) /\ IsLegalType(Datum(f.node))
  /\ Node(f.node) = "SUBSCRIPT" => Datum(f.node) \in Nat \ {0}
  /\ Node(f.node) = "UNARY" => f.parts = <<>> /\ f.node = <<"UNARY", Datum(f.node)>>
  /\ Node(f.node) = "BINARY" => f.node = <<"BINARY", Datum(f.node)>>

IsFrame(f) ==
  /\ f = [node |-> f.node, parts |-> f.parts, type |-> f.type, depth |-> f.depth]
  /\ Node(f.node) \in ContainerKinds \cup {"FN"} \cup BodyKinds
  /\ f.depth \in 0 .. (UINT8_VALUES - 1)
  /\ IsSeq(f.parts)
  /\ Node(f.node) \in BodyKinds => \A res \in ToSet(f.parts) : IsResult(res)
  /\ HasItsType(f)

(* An initializer of a struct that waits for a value waits for a field's.   *)
Awaited(f) == Symbols[Head(f.type).symbol].decls[Len(f.parts) + 1]

IsAwaiting(f) ==
  Node(f.node) = "STRUCT_INIT" =>
    /\ Len(f.parts) < Len(Symbols[Head(f.type).symbol].decls)
    /\ Symbols[Awaited(f)].sym_type = "FIELD"

(* After the name of a struct that is created comes its initializer.        *)
IsCreating(f) == Node(f.node) = "STRUCT_CREATE" /\ f.parts # <<>>

IsCreatedBelow(st, i, point) ==
  IsCreating(st[i]) =>
    IF i = Len(st) THEN point = "return" ELSE Node(st[i + 1].node) = "STRUCT_INIT"

(* In the body of the function at f: containers, the function, a statement, *)
(* and what the statement is made of.                                       *)
IsBodyOf(f, st) ==
  \A i \in DOMAIN st :
    /\ i < f => Node(st[i].node) \in ContainerKinds
    /\ i = f => Node(st[i].node) = "FN"
    /\ i = f + 1 => Node(st[i].node) \in StatementKinds
    /\ i > f + 1 => Node(st[i].node) \in ExpressionKinds

OnTop(st) == Node(st[Len(st)].node)

StackFits(st, point) ==
  /\ IsSeq(st) /\ st # <<>> /\ Node(st[1].node) = "MODULE"
  /\ \A i \in DOMAIN st :
       /\ IsFrame(st[i])
       /\ IsAwaiting(st[i]) \/ (i = Len(st) /\ point = "member")
       /\ IsCreatedBelow(st, i, point)
  /\ point = "decls" => \A i \in DOMAIN st : Node(st[i].node) \in ContainerKinds
  /\ point # "decls" =>
       \E f \in DOMAIN st : IsBodyOf(f, st) /\ (point = "statements" <=> f = Len(st))
  /\ point = "member" => OnTop(st) = "STRUCT_INIT"
  /\ point = "nested" => OnTop(st) = "NESTED_ARR_INIT"
  /\ point = "initializer" => OnTop(st) = "VAR_INIT"

TCInv ==
  /\ vocabulary \in DOMAIN Vocabularies
  /\ size \in 0 .. MaxNodes[vocabulary]
  /\ at \in Points /\ status \in Statuses
  /\ StackFits(stack, at)
  /\ at = "return" => IsResult(result) /\ (IsCreating(Top) => result.type # NullType)
  /\ FailsOnlyOn

----------------------------------------------------------------------------
(* The places of a derived type, and what is on the outside and innermost.  *)
LEMMA DerivedFacts ==
  ASSUME NEW type, IsDerived(type), type # NullType
  PROVE  /\ Len(type) \in Nat /\ Len(type) >= 1 /\ DOMAIN type = 1 .. Len(type)
         /\ Head(type) = type[1] /\ Last(type) = type[Len(type)]
         /\ IsSeq(Tail(type)) /\ Len(Tail(type)) = Len(type) - 1
         /\ DOMAIN Tail(type) = 1 .. (Len(type) - 1)
         /\ \A i \in 1 .. (Len(type) - 1) : Tail(type)[i] = type[i + 1]
         /\ IsInnermost(Head(type)) <=> Len(type) = 1
<1>1. IsSeq(type) /\ \A i \in DOMAIN type : IsInnermost(type[i]) <=> i = Len(type)
  BY DEF IsDerived
<1>2. Len(type) \in Nat /\ Len(type) > 0 /\ DOMAIN type = 1 .. Len(type)
  BY <1>1, SeqFacts DEF NullType
<1>3. /\ IsSeq(Tail(type)) /\ Len(Tail(type)) = Len(type) - 1 /\ Head(type) = type[1]
      /\ \A i \in 1 .. (Len(type) - 1) : Tail(type)[i] = type[i + 1]
  BY <1>1, TailSeq DEF NullType
<1>4. DOMAIN Tail(type) = 1 .. (Len(type) - 1)
  BY <1>3, SeqFacts
<1>5. 1 \in DOMAIN type
  BY <1>2
<1>6. IsInnermost(Head(type)) <=> Len(type) = 1
  BY <1>1, <1>3, <1>5
<1> QED
  BY <1>2, <1>3, <1>4, <1>6 DEF Last

(* A type that is written and accepted is that of an object.                *)
LEMMA WrittenIsDerived ==
  ASSUME NEW type, IsWritten(type), IsLegalType(type)
  PROVE  IsDerived(type) /\ IsObject(type) /\ type # NullType
<1>1. /\ IsSeq(type) /\ type # NullType
      /\ \A i \in DOMAIN type :
           /\ ~IsLiteralLayer(type[i])
           /\ IsBuiltinPtr(type[i]) => type[i].builtin = "opaque_ptr"
           /\ IsInnermost(type[i]) <=> i = Len(type)
           /\ type[i].kind = "ARRAY" => type[i].sizes \in Seq(Nat)
  BY DEF IsWritten, IsSeq, IsBuiltinPtrTo
<1>2. \A i \in DOMAIN type :
         /\ type[i].kind = "NAMED" => type[i].symbol \in TypeSymbols
         /\ type[i].kind = "REF" /\ i > 1 => type[i - 1].kind = "ARRAY"
  BY DEF IsLegalType, IsLegal
<1>3. \A i \in DOMAIN type : ~IsTemporary(type[i])
  BY <1>1 DEF IsTemporary
<1> QED
  BY <1>1, <1>2, <1>3 DEF IsDerived, IsObject, IsRef, BuiltinPtrs

(* What is under the outside of a derived type is derived, and an object's  *)
(* if it is an object's or no reference is around it.                       *)
LEMMA TailIsDerived ==
  ASSUME NEW type, IsDerived(type), type # NullType
  PROVE  /\ IsDerived(Tail(type))
         /\ IsObject(type) \/ ~IsRef(Head(type)) => IsObject(Tail(type))
         /\ ~IsInnermost(Head(type)) => Tail(type) # NullType
         /\ ~IsInnermost(Head(type)) => Last(Tail(type)) = Last(type)
<1> DEFINE n == Len(type) - 1
           tail == Tail(type)
<1>1. /\ Len(type) \in Nat /\ Len(type) >= 1 /\ DOMAIN type = 1 .. Len(type)
      /\ Head(type) = type[1] /\ Last(type) = type[Len(type)]
      /\ IsSeq(tail) /\ Len(tail) = n /\ DOMAIN tail = 1 .. n
      /\ \A i \in 1 .. n : tail[i] = type[i + 1]
      /\ IsInnermost(Head(type)) <=> Len(type) = 1
  BY DerivedFacts
<1>2. n \in Nat /\ Len(type) = n + 1
  BY <1>1
<1>3. \A i \in 1 .. n : /\ i + 1 \in DOMAIN type /\ i + 1 > 1 /\ i + 1 # 1
                        /\ (i + 1) - 1 = i /\ i \in DOMAIN type
                        /\ i > 1 => i - 1 \in 1 .. n /\ (i - 1) + 1 = i
                        /\ i + 1 = n + 1 <=> i = n
  BY <1>1, <1>2
<1> HIDE DEF tail, n
<1>4. ASSUME NEW i \in 1 .. n
      PROVE  /\ IsInnermost(tail[i]) <=> i = n
             /\ ~IsTemporary(tail[i])
             /\ IsBuiltinPtr(tail[i]) => tail[i].builtin \in BuiltinPtrs
             /\ tail[i].kind = "NAMED" /\ ~IsLiteralLayer(tail[i]) => tail[i].symbol \in TypeSymbols
             /\ tail[i].kind = "ARRAY" => tail[i].sizes \in Seq(Nat)
  BY <1>1, <1>2, <1>3 DEF IsDerived
<1>5. ASSUME NEW i \in 1 .. n, IsRef(tail[i]), i > 1
      PROVE  \/ tail[i - 1].kind = "ARRAY"
             \/ IsRef(type[1]) /\ \A j \in 1 .. (i - 1) : IsRef(tail[j])
  <2>1. /\ i + 1 \in DOMAIN type /\ i + 1 > 1 /\ (i + 1) - 1 = i
        /\ i - 1 \in 1 .. n /\ (i - 1) + 1 = i
    BY <1>3, <1>5
  <2>2. IsRef(type[i + 1]) /\ tail[i - 1] = type[i]
    BY <1>1, <1>5, <2>1
  <2>3. type[i].kind = "ARRAY" \/ \A j \in 1 .. i : IsRef(type[j])
    BY <2>1, <2>2 DEF IsDerived
  <2>4. \A j \in 1 .. (i - 1) : j \in 1 .. n /\ j + 1 \in 1 .. i
    BY <1>2
  <2>5. 1 \in 1 .. i
    BY <1>5
  <2> QED
    BY <1>1, <2>2, <2>3, <2>4, <2>5
<1>6. IsDerived(tail)
  BY <1>1, <1>4, <1>5 DEF IsDerived
<1>7. ASSUME ~IsRef(Head(type)) PROVE IsObject(tail)
  BY <1>1, <1>4, <1>5, <1>7 DEF IsObject
<1>8. ASSUME IsObject(type) PROVE IsObject(tail)
  <2>1. ASSUME NEW i \in 1 .. n, IsRef(tail[i]), i > 1
        PROVE  tail[i - 1].kind = "ARRAY"
    <3>1. /\ i + 1 \in DOMAIN type /\ i + 1 > 1 /\ (i + 1) - 1 = i
          /\ i - 1 \in 1 .. n /\ (i - 1) + 1 = i
      BY <1>3, <2>1
    <3>2. IsRef(type[i + 1]) /\ tail[i - 1] = type[i]
      BY <1>1, <2>1, <3>1
    <3> QED
      BY <1>8, <3>1, <3>2 DEF IsObject
  <2> QED
    BY <1>1, <1>4, <2>1 DEF IsObject
<1>9. ASSUME ~IsInnermost(Head(type)) PROVE tail # NullType /\ Last(tail) = Last(type)
  <2>1. n > 0 /\ n \in 1 .. n
    BY <1>1, <1>2, <1>9
  <2>2. tail # NullType
    BY <1>1, <2>1, SeqFacts DEF NullType
  <2>3. tail[n] = type[n + 1]
    BY <1>1, <2>1
  <2> QED
    BY <1>1, <1>2, <2>2, <2>3 DEF Last
<1> QED
  BY <1>6, <1>7, <1>8, <1>9 DEF tail

(* A pointer, reference or array of an object; of these a pointer to a      *)
(* reference is none.                                                       *)
LEMMA ConsIsDerived ==
  ASSUME NEW type, IsDerived(type), IsObject(type), type # NullType,
         NEW layer, ~IsInnermost(layer), ~IsTemporary(layer),
         layer.kind \in {"PTR", "REF", "ARRAY"},
         layer.kind = "ARRAY" => layer.sizes \in Seq(Nat),
         layer.kind = "PTR" => ~IsRef(Head(type))
  PROVE  /\ IsDerived(<<layer>> \o type) /\ <<layer>> \o type # NullType
         /\ layer.kind = "ARRAY" => IsObject(<<layer>> \o type)
<1> DEFINE n == Len(type)
           longer == <<layer>> \o type
<1>1. n \in Nat /\ n >= 1 /\ DOMAIN type = 1 .. n /\ Head(type) = type[1] /\ IsSeq(type)
  BY DerivedFacts DEF IsDerived
<1>2. /\ IsSeq(longer) /\ Len(longer) = n + 1 /\ longer[1] = layer
      /\ \A i \in 1 .. n : longer[i + 1] = type[i]
  BY <1>1, ConsSeq
<1> HIDE DEF longer
<1>3. DOMAIN longer = 1 .. (n + 1) /\ longer # NullType
  BY <1>1, <1>2, SeqFacts DEF NullType
<1> HIDE DEF n
<1>4. 1 # n + 1 /\ n + 1 > 1
  BY <1>1
<1>5. ASSUME NEW k \in 1 .. (n + 1), k # 1
      PROVE  \E i \in 1 .. n : /\ k = i + 1 /\ longer[k] = type[i] /\ k - 1 = i /\ k > 1
                               /\ k = n + 1 <=> i = n
                               /\ i # 1 => i > 1 /\ longer[k - 1] = type[i - 1]
  <2>1. k - 1 \in 1 .. n /\ k = (k - 1) + 1 /\ k > 1 /\ (k = n + 1 <=> k - 1 = n)
    BY <1>1, <1>5
  <2>2. longer[k] = type[k - 1]
    BY <1>2, <2>1
  <2>3. ASSUME k - 1 # 1 PROVE k - 1 > 1 /\ longer[k - 1] = type[(k - 1) - 1]
    <3>1. (k - 1) - 1 \in 1 .. n /\ ((k - 1) - 1) + 1 = k - 1 /\ k - 1 > 1
      BY <1>1, <2>1, <2>3
    <3> QED
      BY <1>2, <3>1
  <2> QED
    BY <2>1, <2>2, <2>3
<1>6. ASSUME NEW k \in 1 .. (n + 1)
      PROVE  /\ IsInnermost(longer[k]) <=> k = n + 1
             /\ ~IsTemporary(longer[k])
             /\ IsBuiltinPtr(longer[k]) => longer[k].builtin \in BuiltinPtrs
             /\ longer[k].kind = "NAMED" /\ ~IsLiteralLayer(longer[k]) =>
                  longer[k].symbol \in TypeSymbols
             /\ longer[k].kind = "ARRAY" => longer[k].sizes \in Seq(Nat)
  <2>1. CASE k = 1
    BY <2>1, <1>2, <1>4 DEF IsInnermost
  <2>2. CASE k # 1
    <3>1. PICK i \in 1 .. n : longer[k] = type[i] /\ (k = n + 1 <=> i = n)
      BY <1>5, <2>2
    <3>2. i \in DOMAIN type
      BY <1>1
    <3> QED
      BY <3>1, <3>2 DEF IsDerived, IsObject, n
  <2> QED
    BY <2>1, <2>2
<1>7. ASSUME NEW k \in 1 .. (n + 1), IsRef(longer[k]), k > 1
      PROVE  longer[k - 1].kind = "ARRAY" \/ (k - 1 = 1 /\ IsRef(layer))
  <2>1. PICK i \in 1 .. n : /\ k = i + 1 /\ longer[k] = type[i] /\ k - 1 = i
                            /\ i # 1 => i > 1 /\ longer[k - 1] = type[i - 1]
    BY <1>5, <1>7
  <2>2. CASE i = 1
    BY <1>1, <1>2, <1>7, <2>1, <2>2 DEF IsRef
  <2>3. CASE i # 1
    BY <1>1, <1>7, <2>1, <2>3 DEF IsObject
  <2> QED
    BY <2>2, <2>3
<1>8. ASSUME NEW k \in 1 .. (n + 1), k - 1 = 1, IsRef(layer)
      PROVE  \A j \in 1 .. (k - 1) : IsRef(longer[j])
  BY <1>2, <1>8
<1>9. IsDerived(longer)
  BY <1>2, <1>3, <1>6, <1>7, <1>8 DEF IsDerived
<1>10. ASSUME layer.kind = "ARRAY" PROVE IsObject(longer)
  BY <1>3, <1>6, <1>7, <1>10 DEF IsObject, IsRef
<1> QED
  BY <1>3, <1>9, <1>10 DEF longer

(* A reference, or whatever else is on the outside, taken off what is the   *)
(* type of something.                                                       *)
LEMMA StrippedIsDerived ==
  ASSUME NEW type, IsDerived(type), type # NullType
  PROVE  /\ IsDerived(Stripped(type)) /\ Stripped(type) # NullType
         /\ IsObject(type) => IsObject(Stripped(type)) /\ ~IsRef(Head(Stripped(type)))
         /\ Last(Stripped(type)) = Last(type)
<1>1. CASE Kind(type) # "REF"
  BY <1>1 DEF Stripped, Kind, IsRef
<1>2. CASE Kind(type) = "REF"
  <2>1. ~IsInnermost(Head(type)) /\ Stripped(type) = Tail(type)
    BY <1>2 DEF IsInnermost, IsBuiltinPtr, Kind, Stripped
  <2>2. /\ IsDerived(Tail(type)) /\ Tail(type) # NullType /\ Last(Tail(type)) = Last(type)
        /\ IsObject(type) => IsObject(Tail(type))
    BY <2>1, TailIsDerived
  <2>3. ASSUME IsObject(type) PROVE ~IsRef(Head(Tail(type)))
    <3>1. /\ Len(type) \in Nat /\ DOMAIN type = 1 .. Len(type) /\ type[1] = Head(type)
          /\ Len(Tail(type)) = Len(type) - 1
          /\ \A i \in 1 .. (Len(type) - 1) : Tail(type)[i] = type[i + 1]
      BY DerivedFacts
    <3>2. Len(Tail(type)) >= 1 /\ Head(Tail(type)) = Tail(type)[1]
      BY <2>2, DerivedFacts
    <3>3. 2 \in DOMAIN type /\ Tail(type)[1] = type[2]
      <4>1. 1 \in 1 .. (Len(type) - 1) /\ 1 + 1 = 2
        BY <3>1, <3>2
      <4> QED
        BY <3>1, <4>1
    <3>4. type[2 - 1].kind # "ARRAY" /\ 2 > 1
      BY <1>2, <3>1 DEF Kind
    <3> QED
      BY <2>3, <3>2, <3>3, <3>4 DEF IsObject
  <2> QED
    BY <2>1, <2>2, <2>3
<1> QED
  BY <1>1, <1>2

(* The type of a literal and the name of a struct.                          *)
LEMMA OneLayerIsDerived ==
  ASSUME NEW layer, IsInnermost(layer), layer.kind # "ARRAY", layer.kind # "REF",
         layer.kind = "NAMED" /\ ~IsLiteralLayer(layer) => layer.symbol \in TypeSymbols,
         IsBuiltinPtr(layer) => layer.builtin \in BuiltinPtrs
  PROVE  IsDerived(<<layer>>) /\ <<layer>> # NullType
<1>1. <<layer>> \in Seq({layer})
  OBVIOUS
<1>2. IsSeq(<<layer>>)
  BY <1>1, SeqOfItsOwn
<1>3. Len(<<layer>>) = 1 /\ DOMAIN <<layer>> = {1} /\ <<layer>>[1] = layer
  OBVIOUS
<1> DEFINE type == <<layer>>
<1>4. type # NullType
  BY DEF NullType
<1> HIDE DEF type
<1>5. ASSUME NEW i \in DOMAIN type PROVE i = 1 /\ type[i] = layer /\ ~IsRef(type[i])
  BY <1>3, <1>5 DEF type, IsRef
<1>6. IsDerived(type)
  BY <1>2, <1>3, <1>5 DEF IsDerived, type
<1> QED
  BY <1>4, <1>6 DEF type

(* The types of one layer that the checker makes.                           *)
LEMMA LiteralLayers ==
  ASSUME NEW builtins, NEW name \in BuiltinPtrs, NEW symbol \in TypeSymbols
  PROVE  /\ IsDerived(<<LiteralOf(builtins)>>) /\ <<LiteralOf(builtins)>> # NullType
         /\ IsDerived(<<BuiltinPtr(name)>>) /\ <<BuiltinPtr(name)>> # NullType
         /\ IsDerived(<<Named(symbol)>>) /\ <<Named(symbol)>> # NullType
<1>1. /\ LiteralOf(builtins).kind = "NAMED" /\ IsLiteralLayer(LiteralOf(builtins))
      /\ BuiltinPtr(name).kind = "PTR" /\ IsBuiltinPtr(BuiltinPtr(name))
      /\ BuiltinPtr(name).builtin = name
      /\ ~IsBuiltinPtr(LiteralOf(builtins)) /\ ~IsBuiltinPtr(Named(symbol))
      /\ Named(symbol).kind = "NAMED" /\ Named(symbol).symbol = symbol
  BY DEF LiteralOf, BuiltinPtr, Named, IsLiteralLayer, IsBuiltinPtr
<1> QED
  BY <1>1, OneLayerIsDerived DEF IsInnermost

(* Of the naturals in a set one is the least.                               *)
LEMMA Least ==
  ASSUME NEW T \in SUBSET Nat, T # {}
  PROVE  \E m \in T : \A k \in T : m <= k
<1>1. IsWellFoundedOn(OpToRel(<, Nat), Nat)
  BY NatLessThanWellFounded
<1>2. PICK m \in T : \A k \in T : ~(<<k, m>> \in OpToRel(<, Nat))
  BY <1>1, WFMin
<1>3. \A k \in T : ~(k < m)
  BY <1>2 DEF OpToRel
<1> QED
  BY <1>3

(* A comparison ends at the first layer on which it does not go on; it      *)
(* meets a null pointer only where one of the types has no layer left.      *)
LEMMA ComparedAt ==
  ASSUME NEW first, IsSeq(first), NEW second, IsSeq(second), Compared(first, second) = "null"
  PROVE  \E i \in 1 .. (Len(first) + 1) :
           /\ \A j \in 1 .. (i - 1) :
                j <= Len(first) /\ j <= Len(second) /\ GoesOn(first[j], second[j])
           /\ i > Len(first) \/ i > Len(second)
<1> DEFINE end == Len(first) + 1
           Stops(i) == i > Len(first) \/ i > Len(second) \/ ~GoesOn(first[i], second[i])
           Right(i) == /\ \A j \in 1 .. (i - 1) : j <= Len(second) /\ GoesOn(first[j], second[j])
                       /\ Stops(i)
           T == {i \in 1 .. end : Stops(i)}
<1>1. Len(first) \in Nat /\ Len(second) \in Nat
  BY SeqFacts
<1>2. end \in T /\ T \in SUBSET Nat
  BY <1>1
<1>3. PICK m \in T : \A k \in T : m <= k
  BY <1>2, Least
<1>4. \A j \in 1 .. (m - 1) : j \in 1 .. end /\ ~(m <= j) /\ j <= Len(first)
  BY <1>1, <1>3
<1>5. \A j \in 1 .. (m - 1) : ~Stops(j)
  BY <1>3, <1>4
<1>6. m \in 1 .. end /\ Right(m)
  <2>1. \A j \in 1 .. (m - 1) : j <= Len(second)
    BY <1>1, <1>4, <1>5
  <2> QED
    BY <1>3, <1>5, <2>1
<1> DEFINE i == CHOOSE k \in 1 .. end : Right(k)
<1>7. i \in 1 .. end /\ Right(i)
  BY <1>6
<1>8. Compared(first, second) =
        CASE i > Len(first) \/ i > Len(second) -> "null"
          [] OTHER ->
             IF /\ Decides(first[i], second[i])
                /\ \A j \in 1 .. (i - 1) :
                     first[j].kind = "ARRAY" => first[j].sizes = second[j].sizes
             THEN "same" ELSE "different"
  BY DEF Compared
<1> HIDE DEF i
<1>9. i > Len(first) \/ i > Len(second)
  BY <1>8
<1>10. \A j \in 1 .. (i - 1) : j <= Len(first)
  BY <1>1, <1>7
<1> QED
  BY <1>7, <1>9, <1>10

(* The comparison that meets a null pointer has one to begin with, or meets *)
(* it under a builtin pointer other than the one that can be written.       *)
IsOverNull(type) == type = NullType \/ (IsBuiltinPtr(Last(type)) /\ IsTemporary(Last(type)))

HasLayers(type) ==
  IsSeq(type) /\ \A i \in DOMAIN type : IsInnermost(type[i]) <=> i = Len(type)

(* A comparison reads a null pointer only where one of the types ends in a  *)
(* pointer without a pointee, or is none.                                   *)
LEMMA ComparedIsNull ==
  ASSUME NEW first, HasLayers(first), NEW second, HasLayers(second),
         Compared(first, second) = "null"
  PROVE  IsOverNull(first) \/ IsOverNull(second)
<1>1. IsSeq(first) /\ IsSeq(second)
  BY DEF HasLayers
<1>2. PICK i \in 1 .. (Len(first) + 1) :
         /\ \A j \in 1 .. (i - 1) :
              j <= Len(first) /\ j <= Len(second) /\ GoesOn(first[j], second[j])
         /\ i > Len(first) \/ i > Len(second)
  BY <1>1, ComparedAt
<1> SUFFICES ASSUME first # NullType, second # NullType
             PROVE  IsOverNull(first) \/ IsOverNull(second)
  BY DEF IsOverNull
<1>3. /\ Len(first) \in Nat /\ Len(first) >= 1 /\ DOMAIN first = 1 .. Len(first)
      /\ Len(second) \in Nat /\ Len(second) >= 1 /\ DOMAIN second = 1 .. Len(second)
      /\ Last(first) = first[Len(first)] /\ Last(second) = second[Len(second)]
  BY <1>1, SeqFacts DEF NullType, Last
<1>4. CASE i > Len(first)
  <2>1. Len(first) \in 1 .. (i - 1) /\ Len(first) \in DOMAIN first
    BY <1>3, <1>4
  <2>2. GoesOn(Last(first), second[Len(first)]) /\ IsInnermost(Last(first))
    BY <1>2, <1>3, <2>1 DEF HasLayers
  <2>3. IsBuiltinPtr(Last(first)) /\ Last(first).builtin # "opaque_ptr"
    BY <2>2 DEF GoesOn, IsInnermost, IsBuiltinPtr, IsBuiltinPtrTo
  <2> QED
    BY <2>3 DEF IsOverNull, IsTemporary
<1>5. CASE i > Len(second)
  <2>1. Len(second) \in 1 .. (i - 1) /\ Len(second) \in DOMAIN second
    BY <1>3, <1>5
  <2>2. GoesOn(first[Len(second)], Last(second)) /\ IsInnermost(Last(second))
    BY <1>2, <1>3, <2>1 DEF HasLayers
  <2>3. IsBuiltinPtr(Last(second)) /\ Last(second).builtin # "opaque_ptr"
    BY <2>2 DEF GoesOn, IsInnermost, IsBuiltinPtr, IsBuiltinPtrTo
  <2> QED
    BY <2>3 DEF IsOverNull, IsTemporary
<1> QED
  BY <1>2, <1>4, <1>5

(* Of a type that is derived it is so, and an object has none that is null. *)
LEMMA DerivedHasLayers ==
  ASSUME NEW type, IsDerived(type)
  PROVE  HasLayers(type) /\ (IsObject(type) /\ type # NullType => ~IsOverNull(type))
<1>1. HasLayers(type)
  BY DEF IsDerived, HasLayers
<1>2. ASSUME IsObject(type), type # NullType PROVE ~IsOverNull(type)
  <2>1. Len(type) \in DOMAIN type /\ Last(type) = type[Len(type)]
    BY <1>2, DerivedFacts
  <2> QED
    BY <1>2, <2>1 DEF IsOverNull, IsObject
<1> QED
  BY <1>1, <1>2

(* Nor has a type that is written.                                          *)
LEMMA WrittenHasLayers ==
  ASSUME NEW type, IsWritten(type)
  PROVE  HasLayers(type) /\ ~IsOverNull(type) /\ type # NullType
<1>1. HasLayers(type) /\ type # NullType
  BY DEF IsWritten, HasLayers, IsSeq
<1>2. Len(type) \in DOMAIN type /\ Last(type) = type[Len(type)]
  BY <1>1, SeqFacts DEF HasLayers, NullType, Last
<1> QED
  BY <1>1, <1>2 DEF IsOverNull, IsWritten, IsTemporary, IsBuiltinPtrTo, IsBuiltinPtr, IsLiteralLayer

(* A type that is null is the same as none.                                 *)
LEMMA ComparedWithNull ==
  ASSUME NEW second, Compared(NullType, second) # "null"
  PROVE  FALSE
<1> DEFINE first == NullType
           Right(i) == /\ \A j \in 1 .. (i - 1) : j <= Len(second) /\ GoesOn(first[j], second[j])
                       /\ i > Len(first) \/ i > Len(second) \/ ~GoesOn(first[i], second[i])
           i == CHOOSE k \in 1 .. (Len(first) + 1) : Right(k)
<1>1. Len(first) = 0
  BY DEF NullType
<1>2. 1 \in 1 .. (Len(first) + 1) /\ Right(1)
  BY <1>1
<1>3. i \in 1 .. (Len(first) + 1)
  BY <1>2
<1>4. i > Len(first)
  BY <1>1, <1>3
<1>5. Compared(first, second) =
        CASE i > Len(first) \/ i > Len(second) -> "null"
          [] OTHER ->
             IF /\ Decides(first[i], second[i])
                /\ \A j \in 1 .. (i - 1) :
                     first[j].kind = "ARRAY" => first[j].sizes = second[j].sizes
             THEN "same" ELSE "different"
  BY DEF Compared
<1> HIDE DEF i
<1> QED
  BY <1>4, <1>5

----------------------------------------------------------------------------
(* The calls that wait: what pushing, popping and replacing one makes of    *)
(* the stack.                                                               *)
LEMMA StackFacts ==
  ASSUME NEW st, NEW from, StackFits(st, from)
  PROVE  /\ IsSeq(st) /\ Len(st) \in Nat /\ Len(st) >= 1 /\ DOMAIN st = 1 .. Len(st)
         /\ Len(st) \in DOMAIN st /\ IsFrame(st[Len(st)])
         /\ from # "member" => IsAwaiting(st[Len(st)])
         /\ from # "return" => ~IsCreating(st[Len(st)])
<1>1. IsSeq(st) /\ st # <<>>
  BY DEF StackFits
<1>2. Len(st) \in Nat /\ Len(st) >= 1 /\ DOMAIN st = 1 .. Len(st)
  BY <1>1, SeqFacts
<1> QED
  BY <1>1, <1>2 DEF StackFits, IsCreatedBelow

(* A stack made of this one, of which only the top is new.                  *)
HasNewTop(st, from, st2, to) ==
  /\ StackFits(st, from)
  /\ IsSeq(st2) /\ Len(st2) >= 1 /\ Len(st2) <= Len(st) + 1
  /\ from = "member" => Len(st2) <= Len(st)
  /\ \A i \in 1 .. Len(st) : i < Len(st2) => st2[i] = st[i]
  /\ IsFrame(st2[Len(st2)])
  /\ IsAwaiting(st2[Len(st2)]) \/ to = "member"
  /\ IsCreating(st2[Len(st2)]) => to = "return"
  /\ IF Len(st2) <= Len(st)
     THEN Node(st2[Len(st2)].node) = Node(st[Len(st2)].node)
     ELSE IsCreating(st[Len(st)]) => Node(st2[Len(st2)].node) = "STRUCT_INIT"

(* All that fits but where the body is.                                     *)
HasFrames(st, point) ==
  /\ IsSeq(st) /\ st # <<>> /\ Node(st[1].node) = "MODULE" /\ DOMAIN st = 1 .. Len(st)
  /\ \A i \in DOMAIN st :
       /\ IsFrame(st[i])
       /\ IsAwaiting(st[i]) \/ (i = Len(st) /\ point = "member")
       /\ IsCreatedBelow(st, i, point)

(* Every frame is still one, and waits for what it waited for.              *)
LEMMA TopChanged ==
  ASSUME NEW st, NEW from, NEW st2, NEW to, HasNewTop(st, from, st2, to)
  PROVE  HasFrames(st2, to)
<1>0. StackFits(st, from)
  BY DEF HasNewTop
<1>1. /\ Len(st) \in Nat /\ Len(st) >= 1 /\ DOMAIN st = 1 .. Len(st)
      /\ Node(st[1].node) = "MODULE"
      /\ \A i \in DOMAIN st : /\ IsFrame(st[i])
                              /\ IsAwaiting(st[i]) \/ (i = Len(st) /\ from = "member")
  BY <1>0, StackFacts DEF StackFits
<1>2. IsSeq(st2) /\ Len(st2) \in Nat /\ Len(st2) >= 1 /\ DOMAIN st2 = 1 .. Len(st2)
  BY SeqFacts DEF HasNewTop
<1>3. st2 # <<>>
  BY SeqFacts, <1>2
<1>4. ASSUME NEW i \in DOMAIN st2, i # Len(st2)
      PROVE  st2[i] = st[i] /\ IsFrame(st[i]) /\ IsAwaiting(st[i])
  <2>1. i \in 1 .. Len(st) /\ i < Len(st2)
    BY <1>1, <1>2, <1>4 DEF HasNewTop
  <2>2. i = Len(st) => from # "member"
    BY <1>1, <1>2, <2>1 DEF HasNewTop
  <2> QED
    BY <1>1, <2>1, <2>2 DEF HasNewTop
<1>5. Node(st2[1].node) = "MODULE"
  BY <1>1, <1>2, <1>4 DEF HasNewTop
<1>6. ASSUME NEW i \in DOMAIN st2, i # Len(st2), IsCreating(st2[i])
      PROVE  Node(st2[i + 1].node) = "STRUCT_INIT"
  <2>1. i \in 1 .. Len(st) /\ i < Len(st2) /\ i \in DOMAIN st /\ IsCreating(st[i])
    BY <1>1, <1>2, <1>4, <1>6 DEF HasNewTop
  <2>2. IsCreatedBelow(st, i, from)
    BY <1>0, <2>1 DEF StackFits
  <2>3. CASE i = Len(st)
    <3> DEFINE n == Len(st)
               n2 == Len(st2)
    <3>1. n \in Nat /\ n2 \in Nat /\ n2 <= n + 1 /\ i = n /\ i < n2
      BY <1>1, <1>2, <2>1, <2>3 DEF HasNewTop
    <3> HIDE DEF n, n2
    <3>2. n2 = i + 1 /\ ~(n2 <= n)
      BY <3>1
    <3> QED
      BY <2>1, <2>3, <3>2 DEF HasNewTop, n, n2
  <2>4. CASE i # Len(st)
    <3>1. Node(st[i + 1].node) = "STRUCT_INIT"
      BY <2>1, <2>2, <2>4 DEF IsCreatedBelow
    <3>2. i + 1 \in 1 .. Len(st) /\ (i + 1 < Len(st2) \/ i + 1 = Len(st2))
      BY <1>1, <1>2, <2>1, <2>4
    <3>3. i + 1 = Len(st2) => Len(st2) <= Len(st)
      BY <1>1, <1>2, <3>2
    <3> QED
      BY <3>1, <3>2, <3>3 DEF HasNewTop
  <2> QED
    BY <2>3, <2>4
<1>7. \A i \in DOMAIN st2 : IsCreatedBelow(st2, i, to)
  BY <1>6 DEF HasNewTop, IsCreatedBelow
<1> QED
  BY <1>2, <1>3, <1>4, <1>5, <1>7 DEF HasNewTop, HasFrames

(* At the points that are reached in the body of a function, after the      *)
(* statement is met.                                                        *)
InStatement == Points \ {"decls", "statements"}

(* There the stack is that of a function's body.                            *)
LEMMA BodyFacts ==
  ASSUME NEW st, NEW from \in InStatement, StackFits(st, from)
  PROVE  \E f \in Nat : /\ f >= 1 /\ f < Len(st) /\ IsBodyOf(f, st)
                        /\ OnTop(st) \in StatementKinds <=> f + 1 = Len(st)
                        /\ OnTop(st) \in ExpressionKinds <=> f + 1 < Len(st)
                        /\ OnTop(st) \in BodyKinds
<1>1. Len(st) \in Nat /\ DOMAIN st = 1 .. Len(st) /\ Len(st) \in DOMAIN st
  BY StackFacts
<1>2. PICK f \in DOMAIN st : IsBodyOf(f, st) /\ f # Len(st)
  BY DEF StackFits, InStatement
<1>3. f \in Nat /\ f >= 1 /\ f < Len(st) /\ (f + 1 = Len(st) \/ f + 1 < Len(st))
  BY <1>1, <1>2
<1>4. /\ f + 1 = Len(st) => OnTop(st) \in StatementKinds
      /\ f + 1 < Len(st) => OnTop(st) \in ExpressionKinds
  BY <1>1, <1>2, <1>3 DEF IsBodyOf, OnTop
<1>5. StatementKinds \cap ExpressionKinds = {} /\ StatementKinds \cup ExpressionKinds = BodyKinds
  BY DEF StatementKinds, ExpressionKinds, BodyKinds, Operators, ArrayInits
<1>6. f + 1 = Len(st) => ~(f + 1 < Len(st))
  BY <1>1, <1>3
<1> QED
  BY <1>2, <1>3, <1>4, <1>5, <1>6

(* What the top is, where a call is active and not the return from one.     *)
TopFits(kind, to) ==
  /\ to = "member" => kind = "STRUCT_INIT"
  /\ to = "nested" => kind = "NESTED_ARR_INIT"
  /\ to = "initializer" => kind = "VAR_INIT"

(* A statement is met.                                                      *)
LEMMA PushStatement ==
  ASSUME NEW st, StackFits(st, "statements"),
         NEW f, IsFrame(f), Node(f.node) \in StatementKinds,
         NEW to \in InStatement, to # "member", TopFits(Node(f.node), to)
  PROVE  StackFits(Append(st, f), to)
<1> DEFINE st2 == Append(st, f)
           n == Len(st)
<1>0. n = Len(st)
  OBVIOUS
<1>1. IsSeq(st) /\ n \in Nat /\ n >= 1 /\ DOMAIN st = 1 .. n
  BY StackFacts
<1>2. /\ IsSeq(st2) /\ Len(st2) = n + 1 /\ \A i \in 1 .. n : st2[i] = st[i]
      /\ st2[n + 1] = f
  BY <1>1, AppendSeq
<1> HIDE DEF st2, n
<1>3. IsAwaiting(f) /\ ~IsCreating(f) /\ ~IsCreating(st[n])
  BY <1>0, StackFacts DEF IsAwaiting, StatementKinds, IsCreating
<1>4. n + 1 >= 1 /\ n + 1 <= n + 1 /\ n + 1 # 1 /\ ~(n + 1 <= n)
  BY <1>1
<1>5. HasNewTop(st, "statements", st2, to)
  BY <1>0, <1>1, <1>2, <1>3, <1>4 DEF HasNewTop
<1>6. HasFrames(st2, to) /\ DOMAIN st2 = 1 .. (n + 1)
  BY <1>2, <1>5, TopChanged DEF HasFrames
<1>7. IsBodyOf(n, st)
  BY <1>0, <1>1 DEF StackFits
<1>8. IsBodyOf(n, st2)
  <2>1. ASSUME NEW i \in 1 .. (n + 1), i # n + 1
        PROVE  i \in DOMAIN st /\ st2[i] = st[i] /\ i # n + 1 /\ ~(i > n + 1)
    BY <1>1, <1>2, <2>1
  <2>2. ~(n + 1 < n) /\ n + 1 # n /\ ~(n + 1 > n + 1)
    BY <1>1
  <2> QED
    BY <1>2, <1>6, <1>7, <2>1, <2>2 DEF IsBodyOf
<1>9. n \in DOMAIN st2 /\ n # Len(st2)
  BY <1>1, <1>2, <1>6
<1>10. to # "decls" /\ to # "statements"
  BY DEF InStatement
<1>11. OnTop(st2) = Node(f.node)
  BY <1>2 DEF OnTop
<1>12. StackFits(st2, to)
  BY <1>6, <1>8, <1>9, <1>10, <1>11 DEF HasFrames, StackFits, TopFits
<1> QED
  BY <1>12 DEF st2

(* A child of the call on top is met.                                       *)
LEMMA PushExpression ==
  ASSUME NEW st, NEW from \in InStatement, from # "member", StackFits(st, from),
         NEW f, IsFrame(f), Node(f.node) \in ExpressionKinds, ~IsCreating(f),
         from = "return" => Node(f.node) = "STRUCT_INIT",
         NEW to \in InStatement, IsAwaiting(f) \/ to = "member", TopFits(Node(f.node), to)
  PROVE  StackFits(Append(st, f), to)
<1> DEFINE st2 == Append(st, f)
           n == Len(st)
<1>0. n = Len(st)
  OBVIOUS
<1>1. IsSeq(st) /\ n \in Nat /\ n >= 1 /\ DOMAIN st = 1 .. n
  BY StackFacts
<1>2. /\ IsSeq(st2) /\ Len(st2) = n + 1 /\ \A i \in 1 .. n : st2[i] = st[i]
      /\ st2[n + 1] = f
  BY <1>1, AppendSeq
<1> HIDE DEF st2, n
<1>3. n + 1 >= 1 /\ n + 1 <= n + 1 /\ n + 1 # 1 /\ ~(n + 1 <= n)
  BY <1>1
<1>12. IsCreating(st[n]) => Node(f.node) = "STRUCT_INIT"
  BY <1>0, StackFacts
<1>4. HasNewTop(st, from, st2, to)
  BY <1>0, <1>1, <1>2, <1>3, <1>12 DEF HasNewTop
<1>5. HasFrames(st2, to) /\ DOMAIN st2 = 1 .. (n + 1)
  BY <1>2, <1>4, TopChanged DEF HasFrames
<1>6. PICK b \in Nat : b >= 1 /\ b < n /\ IsBodyOf(b, st)
  BY BodyFacts, <1>0
<1>7. IsBodyOf(b, st2)
  <2>1. ASSUME NEW i \in 1 .. (n + 1), i # n + 1
        PROVE  i \in DOMAIN st /\ st2[i] = st[i]
    BY <1>1, <1>2, <2>1
  <2>2. ~(n + 1 < b) /\ n + 1 # b /\ n + 1 > b + 1 /\ n + 1 # b + 1
    BY <1>1, <1>6
  <2> QED
    BY <1>2, <1>5, <1>6, <2>1, <2>2 DEF IsBodyOf
<1>8. b \in DOMAIN st2 /\ b # Len(st2)
  BY <1>1, <1>2, <1>5, <1>6
<1>9. to # "decls" /\ to # "statements"
  BY DEF InStatement
<1>10. OnTop(st2) = Node(f.node)
  BY <1>2 DEF OnTop
<1>11. StackFits(st2, to)
  BY <1>5, <1>7, <1>8, <1>9, <1>10 DEF HasFrames, StackFits, TopFits
<1> QED
  BY <1>11 DEF st2

(* The call on top returns.                                                 *)
LEMMA PopExpression ==
  ASSUME NEW st, NEW from \in InStatement, StackFits(st, from), OnTop(st) \in ExpressionKinds
  PROVE  StackFits(SubSeq(st, 1, Len(st) - 1), "return")
<1> DEFINE n == Len(st)
           st2 == SubSeq(st, 1, n - 1)
<1>0. n = Len(st)
  OBVIOUS
<1>1. IsSeq(st) /\ n \in Nat /\ n >= 1 /\ DOMAIN st = 1 .. n /\ st # <<>>
  BY StackFacts DEF StackFits
<1>2. PICK b \in Nat : b >= 1 /\ b + 1 < n /\ IsBodyOf(b, st)
  BY BodyFacts
<1>3. IsSeq(st2) /\ Len(st2) = n - 1 /\ \A i \in 1 .. (n - 1) : st2[i] = st[i]
  BY <1>1, FrontSeq
<1> HIDE DEF st2, n
<1>4. /\ n - 1 >= 1 /\ n - 1 <= n + 1 /\ n - 1 <= n /\ n - 1 \in 1 .. (n - 1)
      /\ n - 1 \in 1 .. n /\ n - 1 # n /\ n - 1 # 1 /\ 1 .. (n - 1) \subseteq 1 .. n
  BY <1>1, <1>2
<1>5. IsFrame(st2[n - 1]) /\ IsAwaiting(st2[n - 1]) /\ st2[n - 1] = st[n - 1]
  BY <1>0, <1>1, <1>3, <1>4 DEF StackFits
<1>6. \A i \in 1 .. n : i < n - 1 => st2[i] = st[i]
  BY <1>1, <1>3
<1>7. HasNewTop(st, from, st2, "return")
  BY <1>0, <1>3, <1>4, <1>5, <1>6 DEF HasNewTop
<1>8. HasFrames(st2, "return") /\ DOMAIN st2 = 1 .. (n - 1)
  BY <1>3, <1>7, TopChanged DEF HasFrames
<1>9. IsBodyOf(b, st2)
  BY <1>1, <1>2, <1>3, <1>4, <1>8 DEF IsBodyOf
<1>10. b \in DOMAIN st2 /\ b # Len(st2)
  BY <1>1, <1>2, <1>3, <1>8
<1>11. StackFits(st2, "return")
  BY <1>8, <1>9, <1>10 DEF HasFrames, StackFits
<1> QED
  BY <1>11 DEF st2, n

(* The call on top has taken a result and goes on.                          *)
LEMMA ReplaceCall ==
  ASSUME NEW st, NEW from \in InStatement, StackFits(st, from),
         NEW f, IsFrame(f), Node(f.node) = OnTop(st),
         NEW to \in InStatement, IsAwaiting(f) \/ to = "member", TopFits(OnTop(st), to),
         IsCreating(f) => to = "return"
  PROVE  StackFits([st EXCEPT ![Len(st)] = f], to)
<1> DEFINE n == Len(st)
           st2 == [st EXCEPT ![n] = f]
<1>0. n = Len(st)
  OBVIOUS
<1>1. IsSeq(st) /\ n \in Nat /\ n >= 1 /\ DOMAIN st = 1 .. n /\ n \in 1 .. Len(st)
  BY StackFacts
<1>2. PICK b \in Nat : b >= 1 /\ b < n /\ IsBodyOf(b, st)
  BY BodyFacts
<1> HIDE DEF n
<1>3. /\ IsSeq(st2) /\ Len(st2) = n /\ st2[n] = f
      /\ \A i \in 1 .. n : i # n => st2[i] = st[i]
  BY <1>0, <1>1, ReplaceSeq
<1> HIDE DEF st2
<1>4. n <= n + 1 /\ n # 1 /\ n <= n /\ \A i \in 1 .. n : i < n => i # n
  BY <1>1, <1>2
<1>5. HasNewTop(st, from, st2, to)
  BY <1>0, <1>1, <1>3, <1>4 DEF HasNewTop, OnTop
<1>6. HasFrames(st2, to) /\ DOMAIN st2 = 1 .. n
  BY <1>3, <1>5, TopChanged DEF HasFrames
<1>7. \A i \in 1 .. n : Node(st2[i].node) = Node(st[i].node)
  BY <1>0, <1>3 DEF OnTop
<1>8. IsBodyOf(b, st2)
  BY <1>1, <1>2, <1>6, <1>7 DEF IsBodyOf
<1>9. b \in DOMAIN st2 /\ b # Len(st2)
  BY <1>1, <1>2, <1>3, <1>6
<1>10. to # "decls" /\ to # "statements"
  BY DEF InStatement
<1>11. OnTop(st2) = OnTop(st)
  BY <1>0, <1>3 DEF OnTop
<1>12. StackFits(st2, to)
  BY <1>6, <1>8, <1>9, <1>10, <1>11 DEF HasFrames, StackFits, TopFits
<1> QED
  BY <1>12 DEF st2, n

(* The same calls at another point.                                         *)
LEMMA KeepStack ==
  ASSUME NEW st, NEW from \in InStatement, StackFits(st, from),
         NEW to \in InStatement, IsAwaiting(st[Len(st)]) \/ to = "member",
         TopFits(OnTop(st), to),
         from # "return"
  PROVE  StackFits(st, to)
<1>1. Len(st) \in Nat /\ DOMAIN st = 1 .. Len(st)
  BY StackFacts
<1>2. PICK b \in Nat : b >= 1 /\ b < Len(st) /\ IsBodyOf(b, st)
  BY BodyFacts
<1>3. b \in DOMAIN st /\ b # Len(st)
  <2> DEFINE n == Len(st)
  <2>1. n \in Nat /\ DOMAIN st = 1 .. n /\ b < n
    BY <1>1, <1>2
  <2> HIDE DEF n
  <2>2. b \in 1 .. n /\ b # n
    BY <1>2, <2>1
  <2> QED
    BY <2>1, <2>2 DEF n
<1>4. to # "decls" /\ to # "statements"
  BY DEF InStatement
<1>5. \A i \in DOMAIN st : /\ IsFrame(st[i])
                           /\ IsAwaiting(st[i]) \/ (i = Len(st) /\ to = "member")
                           /\ IsCreatedBelow(st, i, to)
  BY StackFacts DEF StackFits, IsCreatedBelow
<1> QED
  BY <1>2, <1>3, <1>4, <1>5 DEF StackFits, TopFits

(* A declaration more is checked, or a container is entered or left.        *)
LEMMA ReplaceContainer ==
  ASSUME NEW st, StackFits(st, "decls"),
         NEW f, IsFrame(f), Node(f.node) = OnTop(st)
  PROVE  StackFits([st EXCEPT ![Len(st)] = f], "decls")
<1> DEFINE n == Len(st)
           st2 == [st EXCEPT ![n] = f]
<1>0. n = Len(st)
  OBVIOUS
<1>1. IsSeq(st) /\ n \in Nat /\ n >= 1 /\ DOMAIN st = 1 .. n /\ n \in 1 .. Len(st)
  BY StackFacts
<1> HIDE DEF n
<1>2. \A i \in 1 .. n : Node(st[i].node) \in ContainerKinds
  BY <1>1 DEF StackFits
<1>3. /\ IsSeq(st2) /\ Len(st2) = n /\ st2[n] = f
      /\ \A i \in 1 .. n : i # n => st2[i] = st[i]
  BY <1>0, <1>1, ReplaceSeq
<1> HIDE DEF st2
<1>4. n <= n + 1 /\ n <= n /\ \A i \in 1 .. n : i < n => i # n
  BY <1>1
<1>5. \A i \in 1 .. n : Node(st2[i].node) = Node(st[i].node)
  BY <1>0, <1>3 DEF OnTop
<1>6. IsAwaiting(f) /\ ~IsCreating(f) /\ Node(st2[1].node) = "MODULE"
  <2>1. n \in 1 .. n /\ 1 \in 1 .. n
    BY <1>1
  <2> QED
    BY <1>0, <1>2, <1>5, <2>1 DEF IsAwaiting, IsCreating, ContainerKinds, OnTop, StackFits
<1>7. HasNewTop(st, "decls", st2, "decls")
  BY <1>0, <1>1, <1>3, <1>4, <1>6 DEF HasNewTop, OnTop
<1>8. HasFrames(st2, "decls") /\ DOMAIN st2 = 1 .. n
  BY <1>3, <1>7, TopChanged DEF HasFrames
<1>9. StackFits(st2, "decls")
  BY <1>2, <1>5, <1>8 DEF HasFrames, StackFits
<1> QED
  BY <1>9 DEF st2, n

(* A container among the declarations.                                      *)
LEMMA PushContainer ==
  ASSUME NEW st, StackFits(st, "decls"),
         NEW f, IsFrame(f), Node(f.node) \in ContainerKinds
  PROVE  StackFits(Append(st, f), "decls")
<1> DEFINE st2 == Append(st, f)
           n == Len(st)
<1>0. n = Len(st)
  OBVIOUS
<1>1. IsSeq(st) /\ n \in Nat /\ n >= 1 /\ DOMAIN st = 1 .. n
  BY StackFacts
<1>2. /\ IsSeq(st2) /\ Len(st2) = n + 1 /\ \A i \in 1 .. n : st2[i] = st[i]
      /\ st2[n + 1] = f
  BY <1>1, AppendSeq
<1> HIDE DEF st2, n
<1>3. n + 1 >= 1 /\ n + 1 <= n + 1 /\ n + 1 # 1 /\ ~(n + 1 <= n)
  BY <1>1
<1>4. IsAwaiting(f) /\ ~IsCreating(f) /\ ~IsCreating(st[n])
  BY <1>0, StackFacts DEF IsCreating, IsAwaiting, ContainerKinds
<1>5. HasNewTop(st, "decls", st2, "decls")
  BY <1>0, <1>1, <1>2, <1>3, <1>4 DEF HasNewTop
<1>6. HasFrames(st2, "decls") /\ DOMAIN st2 = 1 .. (n + 1)
  BY <1>2, <1>5, TopChanged DEF HasFrames
<1>7. ASSUME NEW i \in DOMAIN st2
      PROVE  Node(st2[i].node) \in ContainerKinds
  <2>1. i = n + 1 \/ i \in 1 .. n
    BY <1>1, <1>6
  <2> QED
    BY <1>1, <1>2, <2>1 DEF StackFits
<1>8. StackFits(st2, "decls")
  BY <1>6, <1>7 DEF HasFrames, StackFits
<1> QED
  BY <1>8 DEF st2

(* The end of a container.                                                  *)
LEMMA PopContainer ==
  ASSUME NEW st, StackFits(st, "decls"), Len(st) # 1
  PROVE  StackFits(SubSeq(st, 1, Len(st) - 1), "decls")
<1> DEFINE n == Len(st)
           st2 == SubSeq(st, 1, n - 1)
<1>0. n = Len(st)
  OBVIOUS
<1>1. IsSeq(st) /\ n \in Nat /\ n >= 1 /\ DOMAIN st = 1 .. n /\ st # <<>>
  BY StackFacts DEF StackFits
<1>2. IsSeq(st2) /\ Len(st2) = n - 1 /\ \A i \in 1 .. (n - 1) : st2[i] = st[i]
  BY <1>1, FrontSeq
<1> HIDE DEF st2, n
<1>3. /\ n - 1 >= 1 /\ n - 1 <= n + 1 /\ n - 1 <= n /\ n - 1 \in 1 .. (n - 1)
      /\ n - 1 \in 1 .. n /\ n - 1 # n /\ 1 \in 1 .. (n - 1) /\ 1 .. (n - 1) \subseteq 1 .. n
  BY <1>0, <1>1
<1>4. IsFrame(st2[n - 1]) /\ IsAwaiting(st2[n - 1]) /\ st2[n - 1] = st[n - 1]
      /\ ~IsCreating(st2[n - 1])
  BY <1>0, <1>1, <1>2, <1>3 DEF StackFits, IsCreating, ContainerKinds
<1>5. Node(st2[1].node) = "MODULE" /\ \A i \in 1 .. n : i < n - 1 => st2[i] = st[i]
  BY <1>1, <1>2, <1>3 DEF StackFits
<1>6. HasNewTop(st, "decls", st2, "decls")
  BY <1>0, <1>2, <1>3, <1>4, <1>5 DEF HasNewTop
<1>7. HasFrames(st2, "decls") /\ DOMAIN st2 = 1 .. (n - 1)
  BY <1>2, <1>6, TopChanged DEF HasFrames
<1>8. \A i \in DOMAIN st2 : Node(st2[i].node) \in ContainerKinds
  BY <1>1, <1>2, <1>3, <1>7 DEF StackFits
<1>9. StackFits(st2, "decls")
  BY <1>7, <1>8 DEF HasFrames, StackFits
<1> QED
  BY <1>9 DEF st2, n

(* The body of a function is entered, has a statement more, and is left.    *)
LEMMA PushFunction ==
  ASSUME NEW st, StackFits(st, "decls"),
         NEW f, IsFrame(f), Node(f.node) = "FN"
  PROVE  StackFits(Append(st, f), "statements")
<1> DEFINE st2 == Append(st, f)
           n == Len(st)
<1>0. n = Len(st)
  OBVIOUS
<1>1. IsSeq(st) /\ n \in Nat /\ n >= 1 /\ DOMAIN st = 1 .. n
  BY StackFacts
<1>2. /\ IsSeq(st2) /\ Len(st2) = n + 1 /\ \A i \in 1 .. n : st2[i] = st[i]
      /\ st2[n + 1] = f
  BY <1>1, AppendSeq
<1> HIDE DEF st2, n
<1>3. n + 1 >= 1 /\ n + 1 <= n + 1 /\ n + 1 # 1 /\ ~(n + 1 <= n)
  BY <1>1
<1>4. IsAwaiting(f) /\ ~IsCreating(f) /\ ~IsCreating(st[n])
  BY <1>0, StackFacts DEF IsCreating, IsAwaiting
<1>5. HasNewTop(st, "decls", st2, "statements")
  BY <1>0, <1>1, <1>2, <1>3, <1>4 DEF HasNewTop
<1>6. HasFrames(st2, "statements") /\ DOMAIN st2 = 1 .. (n + 1)
  BY <1>2, <1>5, TopChanged DEF HasFrames
<1>7. IsBodyOf(n + 1, st2)
  <2>1. ASSUME NEW i \in 1 .. (n + 1)
        PROVE  /\ ~(i > (n + 1) + 1) /\ i # (n + 1) + 1
               /\ i < n + 1 => i \in DOMAIN st /\ st2[i] = st[i]
    BY <1>1, <1>2, <2>1
  <2>2. \A i \in DOMAIN st : Node(st[i].node) \in ContainerKinds
    BY DEF StackFits
  <2> QED
    BY <1>2, <1>6, <2>1, <2>2 DEF IsBodyOf
<1>8. n + 1 \in DOMAIN st2 /\ n + 1 = Len(st2)
  BY <1>1, <1>2, <1>6
<1>9. StackFits(st2, "statements")
  BY <1>6, <1>7, <1>8 DEF HasFrames, StackFits
<1> QED
  BY <1>9 DEF st2

(* The end of a function.                                                   *)
LEMMA PopFunction ==
  ASSUME NEW st, StackFits(st, "statements")
  PROVE  StackFits(SubSeq(st, 1, Len(st) - 1), "decls")
<1> DEFINE n == Len(st)
           st2 == SubSeq(st, 1, n - 1)
<1>0. n = Len(st)
  OBVIOUS
<1>1. IsSeq(st) /\ n \in Nat /\ n >= 1 /\ DOMAIN st = 1 .. n /\ st # <<>>
  BY StackFacts DEF StackFits
<1>2. IsSeq(st2) /\ Len(st2) = n - 1 /\ \A i \in 1 .. (n - 1) : st2[i] = st[i]
  BY <1>1, FrontSeq
<1> HIDE DEF st2, n
<1>3. IsBodyOf(n, st) /\ n \in DOMAIN st /\ Node(st[1].node) = "MODULE"
  BY <1>0, <1>1 DEF StackFits
<1>4. n # 1
  BY <1>3 DEF IsBodyOf
<1>5. /\ n - 1 >= 1 /\ n - 1 <= n + 1 /\ n - 1 <= n /\ n - 1 \in 1 .. (n - 1)
      /\ n - 1 \in 1 .. n /\ n - 1 # n /\ 1 \in 1 .. (n - 1)
      /\ \A i \in 1 .. (n - 1) : i \in 1 .. n /\ i < n
  BY <1>1, <1>4
<1>6. IsFrame(st2[n - 1]) /\ IsAwaiting(st2[n - 1]) /\ st2[n - 1] = st[n - 1]
      /\ ~IsCreating(st2[n - 1])
  <2>1. IsFrame(st2[n - 1]) /\ IsAwaiting(st2[n - 1]) /\ st2[n - 1] = st[n - 1]
    BY <1>0, <1>1, <1>2, <1>5 DEF StackFits
  <2>2. Node(st[n - 1].node) \in ContainerKinds
    BY <1>1, <1>3, <1>5 DEF IsBodyOf
  <2> QED
    BY <2>1, <2>2 DEF IsCreating, ContainerKinds
<1>7. Node(st2[1].node) = "MODULE" /\ \A i \in 1 .. n : i < n - 1 => st2[i] = st[i]
  BY <1>1, <1>2, <1>3, <1>5
<1>8. HasNewTop(st, "statements", st2, "decls")
  BY <1>0, <1>2, <1>5, <1>6, <1>7 DEF HasNewTop
<1>9. HasFrames(st2, "decls") /\ DOMAIN st2 = 1 .. (n - 1)
  BY <1>2, <1>8, TopChanged DEF HasFrames
<1>10. \A i \in DOMAIN st2 : Node(st2[i].node) \in ContainerKinds
  BY <1>1, <1>2, <1>3, <1>5, <1>9 DEF IsBodyOf
<1>11. StackFits(st2, "decls")
  BY <1>9, <1>10 DEF HasFrames, StackFits
<1> QED
  BY <1>11 DEF st2, n

(* The end of a statement.                                                  *)
LEMMA PopStatement ==
  ASSUME NEW st, NEW from \in InStatement, StackFits(st, from), OnTop(st) \in StatementKinds
  PROVE  /\ StackFits(SubSeq(st, 1, Len(st) - 1), "statements")
         /\ Node(st[Len(st) - 1].node) = "FN"
<1> DEFINE n == Len(st)
           st2 == SubSeq(st, 1, n - 1)
<1>0. n = Len(st)
  OBVIOUS
<1>1. IsSeq(st) /\ n \in Nat /\ n >= 1 /\ DOMAIN st = 1 .. n /\ st # <<>>
  BY StackFacts DEF StackFits
<1>2. PICK b \in Nat : b >= 1 /\ b + 1 = n /\ IsBodyOf(b, st)
  BY BodyFacts
<1>3. IsSeq(st2) /\ Len(st2) = n - 1 /\ \A i \in 1 .. (n - 1) : st2[i] = st[i]
  BY <1>1, FrontSeq
<1> HIDE DEF st2, n
<1>4. /\ n - 1 >= 1 /\ n - 1 <= n + 1 /\ n - 1 <= n /\ n - 1 \in 1 .. (n - 1) /\ n - 1 = b
      /\ n - 1 \in 1 .. n /\ n - 1 # n /\ 1 \in 1 .. (n - 1) /\ 1 .. (n - 1) \subseteq 1 .. n
  BY <1>1, <1>2
<1>5. IsFrame(st2[n - 1]) /\ IsAwaiting(st2[n - 1]) /\ st2[n - 1] = st[n - 1]
      /\ ~IsCreating(st2[n - 1])
  <2>1. IsFrame(st2[n - 1]) /\ IsAwaiting(st2[n - 1]) /\ st2[n - 1] = st[n - 1]
    BY <1>0, <1>1, <1>3, <1>4 DEF StackFits
  <2>2. Node(st[n - 1].node) = "FN"
    BY <1>1, <1>2, <1>4 DEF IsBodyOf
  <2> QED
    BY <2>1, <2>2 DEF IsCreating
<1>6. Node(st2[1].node) = "MODULE" /\ \A i \in 1 .. n : i < n - 1 => st2[i] = st[i]
  BY <1>1, <1>3, <1>4 DEF StackFits
<1>7. HasNewTop(st, from, st2, "statements")
  BY <1>0, <1>3, <1>4, <1>5, <1>6 DEF HasNewTop
<1>8. HasFrames(st2, "statements") /\ DOMAIN st2 = 1 .. (n - 1)
  BY <1>3, <1>7, TopChanged DEF HasFrames
<1>9. IsBodyOf(b, st2)
  BY <1>1, <1>2, <1>3, <1>4, <1>8 DEF IsBodyOf
<1>10. b \in DOMAIN st2 /\ b = Len(st2)
  BY <1>1, <1>2, <1>3, <1>4, <1>8
<1>11. StackFits(st2, "statements")
  BY <1>8, <1>9, <1>10 DEF HasFrames, StackFits
<1>12. Node(st[n - 1].node) = "FN"
  BY <1>1, <1>2, <1>4 DEF IsBodyOf
<1> QED
  BY <1>11, <1>12 DEF st2, n

(* A function whose statement has ended.                                    *)
LEMMA ReplaceFunction ==
  ASSUME NEW st, StackFits(st, "statements"),
         NEW f, IsFrame(f), Node(f.node) = "FN"
  PROVE  StackFits([st EXCEPT ![Len(st)] = f], "statements")
<1> DEFINE n == Len(st)
           st2 == [st EXCEPT ![n] = f]
<1>0. n = Len(st)
  OBVIOUS
<1>1. IsSeq(st) /\ n \in Nat /\ n >= 1 /\ DOMAIN st = 1 .. n /\ n \in 1 .. Len(st)
  BY StackFacts
<1> HIDE DEF n
<1>2. IsBodyOf(n, st) /\ n \in DOMAIN st /\ Node(st[1].node) = "MODULE"
  BY <1>0, <1>1 DEF StackFits
<1>3. /\ IsSeq(st2) /\ Len(st2) = n /\ st2[n] = f
      /\ \A i \in 1 .. n : i # n => st2[i] = st[i]
  BY <1>0, <1>1, ReplaceSeq
<1> HIDE DEF st2
<1>4. \A i \in 1 .. n : Node(st2[i].node) = Node(st[i].node)
  BY <1>1, <1>2, <1>3 DEF IsBodyOf
<1>5. n <= n + 1 /\ n <= n /\ 1 \in 1 .. n /\ \A i \in 1 .. n : i < n => i # n
  BY <1>1
<1>6. IsAwaiting(f) /\ ~IsCreating(f) /\ Node(st2[1].node) = "MODULE"
  BY <1>2, <1>4, <1>5 DEF IsAwaiting, IsCreating
<1>11. Node(f.node) = Node(st[n].node)
  BY <1>2 DEF IsBodyOf
<1>7. HasNewTop(st, "statements", st2, "statements")
  BY <1>0, <1>1, <1>3, <1>5, <1>6, <1>11 DEF HasNewTop
<1>8. HasFrames(st2, "statements") /\ DOMAIN st2 = 1 .. n
  BY <1>3, <1>7, TopChanged DEF HasFrames
<1>9. IsBodyOf(n, st2)
  BY <1>1, <1>2, <1>4, <1>8 DEF IsBodyOf
<1>10. StackFits(st2, "statements")
  BY <1>2, <1>1, <1>3, <1>8, <1>9 DEF HasFrames, StackFits
<1> QED
  BY <1>10 DEF st2, n

----------------------------------------------------------------------------
(* The nodes that come into being with one are counted in the naturals.     *)
LEMMA BringsFacts ==
  ASSUME NEW v \in DOMAIN Vocabularies, NEW n \in Vocabularies[v]
  PROVE  Brings(n) \in Nat
<1>1. /\ Node(n) \in {"SUBSCRIPT", "ARR_INIT", "NESTED_ARR_INIT"} => Datum(n) \in Nat \ {0}
      /\ Node(n) = "STRUCT_INIT" => Len(Datum(n)) \in Nat
  BY NodesAssumption
<1>2. /\ Node(n) = "SUBSCRIPT" => Datum(n) + 1 \in Nat
      /\ Node(n) \in {"ARR_INIT", "NESTED_ARR_INIT"} => Datum(n) - 1 \in Nat
  BY <1>1
<1>3. 0 \in Nat /\ 1 \in Nat /\ 2 \in Nat /\ 3 \in Nat
  OBVIOUS
<1>4. CASE Node(n) \in {"VAR_DECL", "RETURN_NOTHING", "UNARY", "CAST", ".", "->"}
  BY <1>4 DEF Brings
<1>5. CASE Node(n) \in {"EXPR", "RETURN", "VAR_INIT", "BINARY", "ASSIGN", "STRUCT_CREATE"}
  BY <1>5 DEF Brings
<1>6. CASE Node(n) = "TERNARY"
  BY <1>6 DEF Brings
<1>7. CASE Node(n) = "SUBSCRIPT"
  BY <1>2, <1>7 DEF Brings
<1>8. CASE Node(n) \in {"ARR_INIT", "NESTED_ARR_INIT"}
  BY <1>2, <1>8 DEF Brings
<1>9. CASE Node(n) = "STRUCT_INIT"
  BY <1>1, <1>9 DEF Brings
<1>10. CASE /\ Node(n) \notin {"VAR_DECL", "RETURN_NOTHING", "UNARY", "CAST", ".", "->"}
            /\ Node(n) \notin {"EXPR", "RETURN", "VAR_INIT", "BINARY", "ASSIGN", "STRUCT_CREATE"}
            /\ Node(n) # "TERNARY" /\ Node(n) # "SUBSCRIPT"
            /\ Node(n) \notin {"ARR_INIT", "NESTED_ARR_INIT"} /\ Node(n) # "STRUCT_INIT"
  BY <1>10 DEF Brings
<1> QED
  BY <1>4, <1>5, <1>6, <1>7, <1>8, <1>9, <1>10

(* A call that begins, with what it is given.                               *)
LEMMA FrameIsFrame ==
  ASSUME NEW n, Node(n) \in ContainerKinds \cup {"FN"} \cup BodyKinds,
         NEW type, NEW depth \in 0 .. (UINT8_VALUES - 1), HasItsType(Frame(n, type, depth))
  PROVE  /\ IsFrame(Frame(n, type, depth)) /\ Frame(n, type, depth).node = n
         /\ Frame(n, type, depth).type = type /\ Frame(n, type, depth).depth = depth
         /\ Frame(n, type, depth).parts = <<>>
<1> DEFINE f == Frame(n, type, depth)
<1>1. /\ f = [node |-> f.node, parts |-> f.parts, type |-> f.type, depth |-> f.depth]
      /\ f.node = n /\ f.parts = <<>> /\ f.type = type /\ f.depth = depth
  BY DEF Frame
<1>2. IsSeq(<<>>) /\ ToSet(<<>>) = {}
  <2>1. ToSet(<<>>) = {}
    BY DEF ToSet
  <2> QED
    BY <2>1 DEF IsSeq
<1> HIDE DEF f
<1>3. IsFrame(f)
  BY <1>1, <1>2 DEF IsFrame, f
<1> QED
  BY <1>1, <1>3 DEF f

(* A call of a node that has no type of its own.                            *)
LEMMA CallIsFrame ==
  ASSUME NEW n, Node(n) \in ContainerKinds \cup {"FN", "EXPR"} \cup Operators,
         Node(n) \in ContainerKinds \cup {"FN"} => Datum(n) \in OfKind(Node(n)),
         Node(n) = "SUBSCRIPT" => Datum(n) \in Nat \ {0},
         Node(n) = "CAST" => IsWritten(Datum(n)) /\ IsLegalType(Datum(n)),
         Node(n) \in {"UNARY", "BINARY"} => n = <<Node(n), Datum(n)>>
  PROVE  IsFrame(Call(n)) /\ Call(n).node = n /\ IsAwaiting(Call(n)) /\ ~IsCreating(Call(n))
<1>1. 0 \in 0 .. (UINT8_VALUES - 1)
  BY BoundsAssumption
<1>2. Node(n) \in ContainerKinds \cup {"FN"} \cup BodyKinds
  BY DEF BodyKinds, StatementKinds, ExpressionKinds, Operators
<1>3. Call(n).node = n
  BY DEF Call, Frame
<1>4. HasItsType(Call(n))
  <2>1. Call(n).parts = <<>>
    BY DEF Call, Frame
  <2> QED
    BY <1>3, <2>1 DEF HasItsType, ContainerKinds, Operators, ArrayInits
<1>5. IsAwaiting(Call(n))
  BY <1>3 DEF IsAwaiting, ContainerKinds, Operators
<1>6. ~IsCreating(Call(n))
  BY DEF IsCreating, Call, Frame
<1> QED
  BY <1>1, <1>2, <1>3, <1>4, <1>5, <1>6, FrameIsFrame DEF Call

(* A call that has taken one more.                                          *)
LEMMA FilledFrame ==
  ASSUME NEW f, IsFrame(f), NEW x, Node(f.node) \in BodyKinds => IsResult(x),
         NEW g, g = [f EXCEPT !.parts = Append(@, x)]
  PROVE  /\ Node(f.node) # "UNARY" => IsFrame(g)
         /\ g.node = f.node /\ g.type = f.type /\ g.depth = f.depth
         /\ g.parts = Append(f.parts, x) /\ Len(g.parts) = Len(f.parts) + 1
         /\ Node(f.node) \in BodyKinds =>
              \A i \in 1 .. Len(g.parts) : /\ IsResult(g.parts[i])
                                           /\ g.parts[i] \in {x} \cup ToSet(f.parts)
<1>1. /\ f = [node |-> f.node, parts |-> f.parts, type |-> f.type, depth |-> f.depth]
      /\ Node(f.node) \in ContainerKinds \cup {"FN"} \cup BodyKinds
      /\ f.depth \in 0 .. (UINT8_VALUES - 1) /\ IsSeq(f.parts) /\ HasItsType(f)
      /\ Node(f.node) \in BodyKinds => \A res \in ToSet(f.parts) : IsResult(res)
  BY DEF IsFrame
<1>2. /\ g = [node |-> f.node, parts |-> Append(f.parts, x), type |-> f.type, depth |-> f.depth]
      /\ g.node = f.node /\ g.type = f.type /\ g.depth = f.depth
      /\ g.parts = Append(f.parts, x)
  BY <1>1
<1>3. /\ IsSeq(g.parts) /\ Len(g.parts) = Len(f.parts) + 1
      /\ ToSet(g.parts) = ToSet(f.parts) \cup {x}
  BY <1>1, <1>2, AppendSeq
<1>4. Node(f.node) # "UNARY" => HasItsType(g)
  BY <1>1, <1>2 DEF HasItsType
<1>5. Node(f.node) \in BodyKinds => \A res \in ToSet(g.parts) : IsResult(res)
  BY <1>1, <1>3
<1>6. g = [node |-> g.node, parts |-> g.parts, type |-> g.type, depth |-> g.depth]
  BY <1>2
<1>7. Node(f.node) # "UNARY" => IsFrame(g)
  BY <1>1, <1>2, <1>3, <1>4, <1>5, <1>6 DEF IsFrame
<1>8. \A i \in 1 .. Len(g.parts) : g.parts[i] \in ToSet(g.parts)
  BY <1>3, SeqFacts
<1> QED
  BY <1>2, <1>3, <1>5, <1>7, <1>8

----------------------------------------------------------------------------
(* The kinds of steps: the checker goes on with a node, goes on, returns,   *)
(* or ends.                                                                 *)
LEMMA EnterKeeps ==
  ASSUME TCInv, status = "checking", NEW n \in Vocabularies[vocabulary],
         size + Brings(n) <= MaxNodes[vocabulary],
         NEW point \in Points \ {"return"}, NEW st, StackFits(st, point), Enter(n, point, st)
  PROVE  TCInv'
<1>1. /\ vocabulary \in DOMAIN Vocabularies /\ size \in 0 .. MaxNodes[vocabulary]
  BY DEF TCInv
<1>2. /\ size' = size + Brings(n) /\ at' = point /\ stack' = st
      /\ vocabulary' = vocabulary /\ result' = result /\ status' = "checking"
  BY DEF Enter
<1>3. size' \in 0 .. MaxNodes[vocabulary]
  <2>1. Brings(n) \in Nat /\ MaxNodes[vocabulary] \in Nat
    BY <1>1, BringsFacts, BoundsAssumption
  <2> QED
    BY <1>1, <1>2, <2>1
<1>4. FailsOnlyOn'
  BY <1>2 DEF FailsOnlyOn, MayEnd
<1>5. StackFits(stack', at')
  BY <1>2
<1>6. at' \in Points /\ status' \in Statuses /\ at' # "return"
  BY <1>2 DEF Statuses
<1> QED
  BY <1>1, <1>2, <1>3, <1>4, <1>5, <1>6 DEF TCInv

(* A step that goes on elsewhere.                                           *)
LEMMA GotoKeeps ==
  ASSUME TCInv, status = "checking",
         NEW point \in Points \ {"return"}, NEW st, StackFits(st, point), Goto(point, st)
  PROVE  TCInv'
<1>1. /\ at' = point /\ stack' = st /\ size' = size
      /\ vocabulary' = vocabulary /\ result' = result /\ status' = "checking"
  BY DEF Goto
<1>2. FailsOnlyOn'
  BY <1>1 DEF FailsOnlyOn, MayEnd
<1>3. StackFits(stack', at') /\ at' \in Points /\ status' \in Statuses /\ at' # "return"
  BY <1>1 DEF Statuses
<1> QED
  BY <1>1, <1>2, <1>3 DEF TCInv

(* A step that returns a result.                                            *)
LEMMA ReturnKeeps ==
  ASSUME TCInv, status = "checking", NEW res, IsResult(res),
         NEW st, StackFits(st, "return"), Return(res, st),
         IsCreating(st[Len(st)]) => res.type # NullType
  PROVE  TCInv'
<1>1. /\ at' = "return" /\ stack' = st /\ size' = size
      /\ vocabulary' = vocabulary /\ result' = res /\ status' = "checking"
  BY DEF Return
<1>2. FailsOnlyOn'
  BY <1>1 DEF FailsOnlyOn, MayEnd
<1>3. StackFits(stack', at') /\ at' \in Points /\ status' \in Statuses /\ IsResult(result')
  BY <1>1 DEF Statuses, Points
<1>4. IsCreating(Top') => result'.type # NullType
  BY <1>1 DEF Top
<1> QED
  BY <1>1, <1>2, <1>3, <1>4 DEF TCInv

(* A step that ends the checker as it may end.                              *)
LEMMA EndKeeps ==
  ASSUME TCInv, NEW how \in Statuses, MayEnd(how), End(how)
  PROVE  TCInv'
<1>1. status' = how /\ vocabulary' = vocabulary /\ size' = size /\ at' = at
      /\ result' = result /\ stack' = stack
  BY DEF End, control
<1>2. FailsOnlyOn'
  BY <1>1 DEF FailsOnlyOn, MayEnd, Top, InitDecls
<1> QED
  BY <1>1, <1>2 DEF TCInv, Top

(* An error that is reported.                                               *)
LEMMA ExitKeeps ==
  ASSUME TCInv, Exit
  PROVE  TCInv'
<1>1. "exited" \in Statuses /\ MayEnd("exited") /\ End("exited")
  BY DEF Statuses, MayEnd, Exit
<1> QED
  BY <1>1, EndKeeps

(* An operand that has a null pointer, or whose type ends in one.           *)
LEMMA NullKeeps ==
  ASSUME TCInv, End("null_pointer"), NEW res \in {result} \cup ToSet(Top.parts), IsResult(res),
         res.type = NullType \/ IsBuiltinPtr(Last(res.type))
  PROVE  TCInv'
<1>1. MayEnd("null_pointer")
  BY DEF MayEnd, IsResult, NullIsOfString
<1>2. "null_pointer" \in Statuses
  BY DEF Statuses
<1> QED
  BY <1>1, <1>2, EndKeeps

----------------------------------------------------------------------------
(* A result that is put together, or passed on.                             *)
LEMMA ResultOf ==
  ASSUME NEW e, Node(e.node) # "NONE", NEW type, IsDerived(type), type # NullType,
         NEW is_lvalue, NEW mutable, is_lvalue => IsObject(type), mutable => is_lvalue
  PROVE  IsResult(Result(e, type, is_lvalue, mutable))
<1> DEFINE res == Result(e, type, is_lvalue, mutable)
<1>1. /\ res.node = e.node /\ res.parts = e.parts /\ res.type = type
      /\ res.is_lvalue = is_lvalue /\ res.is_var_and_mutable = mutable
  BY DEF Result
<1>2. res.node # <<"NONE">>
  BY <1>1 DEF Node
<1>3. res = Result(res, res.type, res.is_lvalue, res.is_var_and_mutable)
  BY DEF Result
<1> HIDE DEF res
<1>4. res.is_lvalue => IsObject(res.type)
  BY <1>1
<1>5. res.is_var_and_mutable => res.is_lvalue
  BY <1>1
<1>6. IsDerived(res.type) /\ NullIsOfString(res)
  BY <1>1 DEF NullIsOfString
<1>7. IsResult(res)
  BY <1>2, <1>3, <1>4, <1>5, <1>6 DEF IsResult
<1> QED
  BY <1>7 DEF res

(* What a result passes on.                                                 *)
LEMMA SameAsResult ==
  ASSUME NEW e, Node(e.node) # "NONE", NEW res, IsResult(res), res.type # NullType
  PROVE  IsResult(SameAs(e, res))
<1>1. /\ IsDerived(res.type)
      /\ res.is_lvalue => IsObject(res.type)
      /\ res.is_var_and_mutable => res.is_lvalue
  BY DEF IsResult
<1> QED
  BY <1>1, ResultOf DEF SameAs

(* What is no lvalue.                                                       *)
LEMMA TemporaryResult ==
  ASSUME NEW e, Node(e.node) # "NONE", NEW type, IsDerived(type), type # NullType
  PROVE  IsResult(Temporary(e, type))
BY ResultOf DEF Temporary

(* The call a result is returned to, and what it has with it.               *)
LEMMA WaitingFacts ==
  ASSUME TCInv
  PROVE  /\ StackFits(stack, at) /\ OnTop(stack) = Node(Top.node)
         /\ Len(stack) \in Nat /\ Len(stack) >= 1
         /\ IsFrame(Top) /\ Len(Top.parts) \in Nat /\ IsSeq(Top.parts)
         /\ Top.depth \in 0 .. (UINT8_VALUES - 1)
         /\ at # "member" => IsAwaiting(Top)
         /\ at \in InStatement => Node(Top.node) \in BodyKinds
<1>1. StackFits(stack, at)
  BY DEF TCInv
<1>2. /\ OnTop(stack) = Node(Top.node) /\ IsFrame(Top)
      /\ at # "member" => IsAwaiting(Top)
      /\ Len(stack) \in Nat /\ Len(stack) >= 1
  BY <1>1, StackFacts DEF OnTop, Top
<1>3. at \in InStatement => Node(Top.node) \in BodyKinds
  BY <1>1, <1>2, BodyFacts
<1>4. IsSeq(Top.parts) /\ Top.depth \in 0 .. (UINT8_VALUES - 1)
  BY <1>2 DEF IsFrame
<1>5. Len(Top.parts) \in Nat
  BY <1>4, SeqFacts
<1> QED
  BY <1>1, <1>2, <1>3, <1>4, <1>5

(* The call with the result it has waited for.                              *)
LEMMA ReturnedFacts ==
  ASSUME TCInv, Checking("return")
  PROVE  /\ at \in InStatement /\ at = "return" /\ status = "checking" /\ IsResult(result)
         /\ IsCreating(Top) => result.type # NullType
         /\ Node(Top.node) # "UNARY" => IsFrame(Filled)
         /\ Filled.node = Top.node /\ Node(Filled.node) # "NONE"
         /\ Filled.type = Top.type /\ Filled.depth = Top.depth
         /\ Filled.parts = Append(Top.parts, result)
         /\ Len(Filled.parts) = Len(Top.parts) + 1
         /\ Part(Len(Filled.parts)) = result
         /\ \A i \in 1 .. Len(Filled.parts) :
              IsResult(Part(i)) /\ Part(i) \in {result} \cup ToSet(Top.parts)
<1>1. at \in InStatement /\ at = "return" /\ status = "checking"
  BY DEF Checking, InStatement, Points
<1>2. IsResult(result) /\ (IsCreating(Top) => result.type # NullType)
  BY <1>1 DEF TCInv
<1>3. IsFrame(Top) /\ Node(Top.node) \in BodyKinds /\ IsSeq(Top.parts)
  BY <1>1, WaitingFacts
<1>4. Filled = [Top EXCEPT !.parts = Append(@, result)]
  BY DEF Filled
<1> HIDE DEF Filled
<1>5. /\ Node(Top.node) # "UNARY" => IsFrame(Filled)
      /\ Filled.node = Top.node
      /\ Filled.type = Top.type /\ Filled.depth = Top.depth
      /\ Filled.parts = Append(Top.parts, result) /\ Len(Filled.parts) = Len(Top.parts) + 1
      /\ \A i \in 1 .. Len(Filled.parts) : /\ IsResult(Filled.parts[i])
                                           /\ Filled.parts[i] \in {result} \cup ToSet(Top.parts)
  BY <1>2, <1>3, <1>4, FilledFrame
<1>6. Node(Filled.node) # "NONE"
  BY <1>3, <1>5 DEF BodyKinds, StatementKinds, ExpressionKinds, Operators, ArrayInits
<1>7. Part(Len(Filled.parts)) = result
  BY <1>3, <1>5, AppendSeq DEF Part
<1> QED
  BY <1>1, <1>2, <1>5, <1>6, <1>7 DEF Part

(* The call of an expression returns, or goes on with its next child.       *)
LEMMA FinishKeeps ==
  ASSUME TCInv, status = "checking", at \in InStatement, Node(Top.node) \in ExpressionKinds,
         NEW res, IsResult(res), Node(Top.node) = "STRUCT_INIT" => res.type # NullType,
         Finish(res)
  PROVE  TCInv'
<1>1. StackFits(stack, at) /\ OnTop(stack) = Node(Top.node)
  BY WaitingFacts
<1>2. StackFits(Pop, "return")
  BY <1>1, PopExpression DEF Pop
<1> DEFINE n == Len(stack)
<1>3. IsSeq(stack) /\ n \in Nat /\ n >= 1 /\ DOMAIN stack = 1 .. n /\ stack # <<>>
  BY <1>1, StackFacts DEF StackFits
<1>4. PICK b \in Nat : b >= 1 /\ b + 1 < n
  BY <1>1, BodyFacts
<1>5. /\ Len(Pop) = n - 1
      /\ \A i \in 1 .. (n - 1) : Pop[i] = stack[i]
  BY <1>3, FrontSeq DEF Pop
<1>6. n = Len(stack)
  OBVIOUS
<1> HIDE DEF n
<1>7. n - 1 \in 1 .. (n - 1) /\ n - 1 \in DOMAIN stack /\ n - 1 # n /\ (n - 1) + 1 = n
  BY <1>3, <1>4
<1>8. IsCreatedBelow(stack, n - 1, at)
  BY <1>1, <1>7 DEF StackFits
<1>9. IsCreating(Pop[Len(Pop)]) => Node(Top.node) = "STRUCT_INIT"
  BY <1>5, <1>6, <1>7, <1>8 DEF IsCreatedBelow, Top
<1> QED
  BY <1>2, <1>9, ReturnKeeps DEF Finish

(* An operator goes on with its next operand.                               *)
LEMMA NextPartKeeps ==
  ASSUME TCInv, Checking("return"),
         Node(Top.node) \in Operators \ {"STRUCT_CREATE", "UNARY"},
         NextPart
  PROVE  TCInv'
<1>1. /\ at \in InStatement /\ at = "return" /\ status = "checking"
      /\ IsFrame(Filled) /\ Filled.node = Top.node
  BY ReturnedFacts
<1>2. StackFits(stack, "return") /\ OnTop(stack) = Node(Top.node)
  BY <1>1, WaitingFacts
<1>3. IsAwaiting(Filled) /\ ~IsCreating(Filled)
  BY <1>1 DEF IsAwaiting, IsCreating, Operators
<1>4. "expression" \in InStatement /\ "return" \in InStatement /\ TopFits(OnTop(stack), "expression")
  BY DEF InStatement, Points, TopFits
<1>5. StackFits(ReplaceTop(Filled), "expression")
  BY <1>1, <1>2, <1>3, <1>4, ReplaceCall DEF ReplaceTop
<1>6. "expression" \in Points \ {"return"}
  BY DEF Points
<1> QED
  BY <1>1, <1>5, <1>6, GotoKeeps DEF NextPart

----------------------------------------------------------------------------
(* The steps, one after the other: the walk over the declarations.          *)
LEMMA DeclFacts ==
  ASSUME TCInv, Checking("decls")
  PROVE  /\ status = "checking" /\ Node(Top.node) \in ContainerKinds
         /\ Len(Top.parts) < Len(Decls) => NextDecl \in DOMAIN Symbols
         /\ StackFits(DeclChecked, "decls") /\ StackFits(stack, "decls")
<1>1. status = "checking" /\ at = "decls"
  BY DEF Checking
<1>2. StackFits(stack, "decls") /\ IsFrame(Top) /\ OnTop(stack) = Node(Top.node)
      /\ Len(Top.parts) \in Nat
  BY <1>1, WaitingFacts
<1>3. Len(stack) \in DOMAIN stack
  BY <1>2, StackFacts
<1>4. Node(Top.node) \in ContainerKinds
  BY <1>2, <1>3 DEF StackFits, Top
<1>5. ASSUME Len(Top.parts) < Len(Decls) PROVE NextDecl \in DOMAIN Symbols
  <2>1. Datum(Top.node) \in OfKind(Node(Top.node))
    BY <1>2, <1>4 DEF IsFrame, HasItsType
  <2>2. Datum(Top.node) \in Containers
    BY <1>4, <2>1 DEF Containers, Structs, ContainerKinds
  <2>3. Decls \in Seq(DOMAIN Symbols)
    BY <2>2, DeclarationsAssumption DEF Decls
  <2> DEFINE i == Len(Top.parts) + 1
  <2>4. i \in 1 .. Len(Decls)
    BY <1>2, <1>5, <2>3
  <2> HIDE DEF i
  <2>5. Decls[i] \in DOMAIN Symbols
    BY <2>3, <2>4
  <2> QED
    BY <2>5 DEF NextDecl, i
<1>6. StackFits(DeclChecked, "decls")
  <2> DEFINE g == [Top EXCEPT !.parts = Append(@, NextDecl)]
  <2>1. Node(Top.node) \notin BodyKinds
    BY <1>4 DEF ContainerKinds, BodyKinds, StatementKinds, ExpressionKinds, Operators, ArrayInits
  <2>2. IsFrame(g) /\ g.node = Top.node
    BY <1>2, <1>4, <2>1, FilledFrame DEF ContainerKinds
  <2> HIDE DEF g
  <2>3. StackFits(ReplaceTop(g), "decls")
    BY <1>2, <2>2, ReplaceContainer DEF ReplaceTop
  <2> QED
    BY <2>3 DEF DeclChecked, g
<1> QED
  BY <1>1, <1>2, <1>4, <1>5, <1>6

(* A container is declared.                                                 *)
LEMMA CheckContainerKeeps ==
  ASSUME TCInv, CheckContainer
  PROVE  TCInv'
<1>1. PICK sym_type \in {"MODULE", "COMPONENT", "STRUCT"} :
         /\ CheckingDecl(sym_type)
         /\ Goto("decls", Append(DeclChecked, Call(<<sym_type, NextDecl>>)))
  BY DEF CheckContainer
<1>2. /\ Checking("decls") /\ Len(Top.parts) < Len(Decls)
      /\ Symbols[NextDecl].sym_type = sym_type
  BY <1>1 DEF CheckingDecl
<1>3. /\ status = "checking" /\ NextDecl \in DOMAIN Symbols /\ StackFits(DeclChecked, "decls")
  BY <1>2, DeclFacts
<1> DEFINE n == <<sym_type, NextDecl>>
<1>4. Node(n) = sym_type /\ Datum(n) = NextDecl
  BY DEF Node, Datum
<1> HIDE DEF n
<1>5. Node(n) \in ContainerKinds /\ Datum(n) \in OfKind(Node(n))
  BY <1>2, <1>3, <1>4 DEF ContainerKinds, OfKind
<1>6. Node(n) \notin {"SUBSCRIPT", "CAST", "UNARY", "BINARY"}
  BY <1>5 DEF ContainerKinds
<1>7. IsFrame(Call(n)) /\ Call(n).node = n
  BY <1>5, <1>6, CallIsFrame
<1>8. StackFits(Append(DeclChecked, Call(n)), "decls")
  BY <1>3, <1>5, <1>7, PushContainer
<1>9. "decls" \in Points \ {"return"}
  BY DEF Points
<1> QED
  BY <1>1, <1>3, <1>8, <1>9, GotoKeeps DEF n

(* Everything in a container is checked.                                    *)
LEMMA EndOfContainerKeeps ==
  ASSUME TCInv, EndOfContainer
  PROVE  TCInv'
<1>1. Checking("decls")
  BY DEF EndOfContainer
<1>2. status = "checking" /\ StackFits(stack, "decls")
  BY <1>1, DeclFacts
<1>3. CASE End("done")
  <2>1. "done" \in Statuses /\ MayEnd("done")
    BY DEF Statuses, MayEnd
  <2> QED
    BY <1>3, <2>1, EndKeeps
<1>4. CASE Len(stack) # 1 /\ Goto("decls", Pop)
  <2>1. StackFits(Pop, "decls")
    BY <1>2, <1>4, PopContainer DEF Pop
  <2>2. "decls" \in Points \ {"return"}
    BY DEF Points
  <2> QED
    BY <1>2, <1>4, <2>1, <2>2, GotoKeeps
<1> QED
  BY <1>3, <1>4 DEF EndOfContainer

(* A field is declared.                                                     *)
LEMMA CheckFieldKeeps ==
  ASSUME TCInv, CheckField
  PROVE  TCInv'
<1>1. Checking("decls") /\ (Exit \/ Goto("decls", DeclChecked))
  BY DEF CheckField, CheckingDecl
<1>2. status = "checking" /\ StackFits(DeclChecked, "decls")
  BY <1>1, DeclFacts
<1>3. "decls" \in Points \ {"return"}
  BY DEF Points
<1> QED
  BY <1>1, <1>2, <1>3, ExitKeeps, GotoKeeps

(* A function is declared.                                                  *)
LEMMA CheckFunctionKeeps ==
  ASSUME TCInv, CheckFunction
  PROVE  TCInv'
<1> DEFINE n == <<"FN", NextDecl>>
<1>1. /\ Checking("decls") /\ Len(Top.parts) < Len(Decls)
      /\ Symbols[NextDecl].sym_type = "FN"
      /\ Exit \/ Goto("statements", Append(DeclChecked, Call(n)))
  BY DEF CheckFunction, CheckingDecl
<1>2. /\ status = "checking" /\ NextDecl \in DOMAIN Symbols /\ StackFits(DeclChecked, "decls")
  BY <1>1, DeclFacts
<1>3. Node(n) = "FN" /\ Datum(n) = NextDecl
  BY DEF Node, Datum
<1> HIDE DEF n
<1>4. Datum(n) \in OfKind(Node(n))
  BY <1>1, <1>2, <1>3 DEF OfKind
<1>5. IsFrame(Call(n)) /\ Call(n).node = n
  BY <1>3, <1>4, CallIsFrame
<1>6. StackFits(Append(DeclChecked, Call(n)), "statements")
  BY <1>2, <1>3, <1>5, PushFunction
<1>7. "statements" \in Points \ {"return"}
  BY DEF Points
<1> QED
  BY <1>1, <1>2, <1>6, <1>7, ExitKeeps, GotoKeeps

----------------------------------------------------------------------------
(* The statements of a body.                                                *)
LEMMA StatementFacts ==
  ASSUME TCInv, Checking("statements")
  PROVE  /\ status = "checking" /\ StackFits(stack, "statements") /\ Node(Top.node) = "FN"
         /\ Datum(Top.node) \in OfKind("FN") /\ IsFrame(Top)
<1>1. status = "checking" /\ at = "statements"
  BY DEF Checking
<1>2. StackFits(stack, "statements") /\ IsFrame(Top)
  BY <1>1, WaitingFacts
<1>3. Len(stack) \in DOMAIN stack
  BY <1>2, StackFacts
<1>4. IsBodyOf(Len(stack), stack)
  BY <1>2 DEF StackFits
<1>5. Node(Top.node) = "FN"
  BY <1>3, <1>4 DEF IsBodyOf, Top
<1>6. Datum(Top.node) \in OfKind("FN")
  BY <1>2, <1>5 DEF IsFrame, HasItsType
<1> QED
  BY <1>1, <1>2, <1>5, <1>6

(* A function's body ends.                                                  *)
LEMMA EndOfBodyKeeps ==
  ASSUME TCInv, EndOfBody
  PROVE  TCInv'
<1>1. Checking("statements") /\ Goto("decls", Pop)
  BY DEF EndOfBody
<1>2. status = "checking" /\ StackFits(stack, "statements")
  BY <1>1, StatementFacts
<1>3. StackFits(Pop, "decls")
  BY <1>2, PopFunction DEF Pop
<1>4. "decls" \in Points \ {"return"}
  BY DEF Points
<1> QED
  BY <1>1, <1>2, <1>3, <1>4, GotoKeeps

(* A statement with an expression in it is entered.                         *)
LEMMA EnterStatement ==
  ASSUME TCInv, Checking("statements"), NEW n, Meet(StatementKinds, n),
         NEW f, IsFrame(f), f.node = n, NEW point \in {"expression", "initializer"},
         point = "initializer" => Node(n) = "VAR_INIT",
         Enter(n, point, Push(f))
  PROVE  TCInv'
<1>1. status = "checking" /\ StackFits(stack, "statements")
  BY StatementFacts
<1>2. /\ n \in Vocabularies[vocabulary] /\ size + Brings(n) <= MaxNodes[vocabulary]
      /\ Node(n) \in StatementKinds
  BY DEF Meet
<1>3. point \in InStatement /\ point # "member" /\ TopFits(Node(f.node), point)
      /\ point \in Points \ {"return"}
  BY DEF InStatement, Points, TopFits
<1>4. StackFits(Push(f), point)
  BY <1>1, <1>2, <1>3, PushStatement DEF Push
<1> QED
  BY <1>1, <1>2, <1>3, <1>4, EnterKeeps

(* An expression that is a statement.                                       *)
LEMMA CheckExprStatementKeeps ==
  ASSUME TCInv, CheckExprStatement
  PROVE  TCInv'
<1>1. PICK n \in Vocabularies[vocabulary] :
         Meet({"EXPR"}, n) /\ Enter(n, "expression", Push(Call(n)))
  BY DEF CheckExprStatement
<1>2. Node(n) = "EXPR" /\ Meet(StatementKinds, n) /\ Checking("statements")
  BY <1>1 DEF Meet, StatementKinds, CheckExprStatement
<1>3. Node(n) \notin ContainerKinds \cup {"FN"}
  BY <1>2 DEF ContainerKinds
<1>4. IsFrame(Call(n)) /\ Call(n).node = n
  BY <1>2, <1>3, CallIsFrame
<1> QED
  BY <1>1, <1>2, <1>4, EnterStatement

(* A return, with a value or without.                                       *)
LEMMA CheckReturnKeeps ==
  ASSUME TCInv, CheckReturn
  PROVE  TCInv'
<1>0. Checking("statements")
  BY DEF CheckReturn
<1>1. /\ status = "checking" /\ StackFits(stack, "statements") /\ Node(Top.node) = "FN"
      /\ Datum(Top.node) \in OfKind("FN")
  BY <1>0, StatementFacts
<1>2. PICK n \in Vocabularies[vocabulary] :
       \/ /\ Meet({"RETURN"}, n)
          /\ Enter(n, "expression", Push(Frame(n, ExpectedReturnType, 0)))
       \/ /\ Meet({"RETURN_NOTHING"}, n)
          /\ Enter(n, "statements", stack) \/ Exit
  BY DEF CheckReturn
<1>3. CASE Meet({"RETURN"}, n) /\ Enter(n, "expression", Push(Frame(n, ExpectedReturnType, 0)))
  <2> DEFINE f == Frame(n, ExpectedReturnType, 0)
  <2>1. Node(n) = "RETURN" /\ Meet(StatementKinds, n)
    BY <1>3 DEF Meet, StatementKinds
  <2>2. IsWritten(ExpectedReturnType)
    BY <1>1, DeclarationsAssumption DEF ExpectedReturnType
  <2>3. HasItsType(f)
    BY <2>1, <2>2 DEF HasItsType, ContainerKinds, ArrayInits, Frame
  <2>4. 0 \in 0 .. (UINT8_VALUES - 1)
    BY BoundsAssumption
  <2>5. IsFrame(f) /\ f.node = n
    BY <2>1, <2>3, <2>4, FrameIsFrame DEF BodyKinds, StatementKinds
  <2> HIDE DEF f
  <2> QED
    BY <1>0, <1>3, <2>1, <2>5, EnterStatement DEF f
<1>4. CASE Meet({"RETURN_NOTHING"}, n) /\ Enter(n, "statements", stack)
  <2>1. "statements" \in Points \ {"return"} /\ size + Brings(n) <= MaxNodes[vocabulary]
    BY <1>4 DEF Points, Meet
  <2> QED
    BY <1>1, <1>4, <2>1, EnterKeeps
<1> QED
  BY <1>2, <1>3, <1>4, ExitKeeps

(* A variable, with an initializer or without.                              *)
LEMMA CheckVarDeclKeeps ==
  ASSUME TCInv, CheckVarDecl
  PROVE  TCInv'
<1>0. Checking("statements")
  BY DEF CheckVarDecl
<1>1. status = "checking" /\ StackFits(stack, "statements")
  BY <1>0, StatementFacts
<1>2. PICK n \in Vocabularies[vocabulary] :
         /\ Meet({"VAR_DECL", "VAR_INIT"}, n)
         /\ \/ Exit
            \/ /\ IsLegalType(Symbols[Datum(n)].type)
               /\ Enter(n, IF Node(n) = "VAR_INIT" THEN "initializer" ELSE "statements",
                        IF Node(n) = "VAR_INIT"
                        THEN Push(Frame(n, Symbols[Datum(n)].type, 0)) ELSE stack)
  BY DEF CheckVarDecl
<1>3. CASE Exit
  BY <1>3, ExitKeeps
<1>4. CASE Node(n) = "VAR_INIT" /\ ~Exit
  <2> DEFINE type == Symbols[Datum(n)].type
             f == Frame(n, type, 0)
  <2>1. Meet(StatementKinds, n) /\ IsLegalType(type) /\ Enter(n, "initializer", Push(f))
    BY <1>2, <1>4 DEF Meet, StatementKinds
  <2>2. IsWritten(type)
    <3>1. vocabulary \in DOMAIN Vocabularies
      BY DEF TCInv
    <3> QED
      BY <1>4, <3>1, NodesAssumption
  <2> HIDE DEF type
  <2>3. HasItsType(f)
    BY <1>4, <2>1, <2>2 DEF HasItsType, ContainerKinds, ArrayInits, Frame
  <2>4. 0 \in 0 .. (UINT8_VALUES - 1)
    BY BoundsAssumption
  <2>5. IsFrame(f) /\ f.node = n
    BY <1>4, <2>3, <2>4, FrameIsFrame DEF BodyKinds, StatementKinds
  <2> HIDE DEF f
  <2> QED
    BY <1>0, <1>4, <2>1, <2>5, EnterStatement
<1>5. CASE Node(n) # "VAR_INIT" /\ ~Exit
  <2>1. "statements" \in Points \ {"return"} /\ size + Brings(n) <= MaxNodes[vocabulary]
    BY <1>2 DEF Points, Meet
  <2>2. Enter(n, "statements", stack)
    BY <1>2, <1>5
  <2> QED
    BY <1>1, <2>1, <2>2, EnterKeeps
<1> QED
  BY <1>3, <1>4, <1>5

(* A comparison that meets a null pointer, with a type that has none or     *)
(* with the result of another operand.                                      *)
LEMMA ComparedWithTypeKeeps ==
  ASSUME TCInv, NEW type, HasLayers(type), ~IsOverNull(type), IsResult(result),
         Compared(type, result.type) = "null", End("null_pointer")
  PROVE  TCInv'
<1>1. HasLayers(result.type)
  BY DerivedHasLayers DEF IsResult
<1>2. IsOverNull(result.type)
  BY <1>1, ComparedIsNull
<1> QED
  BY <1>2, NullKeeps DEF IsOverNull

(* Of two operands one has the null pointer.                                *)
LEMMA ComparedResultsKeeps ==
  ASSUME TCInv, NEW first \in {result} \cup ToSet(Top.parts), IsResult(first),
         NEW second \in {result} \cup ToSet(Top.parts), IsResult(second),
         Compared(first.type, second.type) = "null", End("null_pointer")
  PROVE  TCInv'
<1>1. HasLayers(first.type) /\ HasLayers(second.type)
  BY DerivedHasLayers DEF IsResult
<1>2. IsOverNull(first.type) \/ IsOverNull(second.type)
  BY <1>1, ComparedIsNull
<1> QED
  BY <1>2, NullKeeps DEF IsOverNull

(* A statement has its expression.                                          *)
LEMMA EndStatementKeeps ==
  ASSUME TCInv, EndStatement
  PROVE  TCInv'
<1>0. Checking("return")
  BY DEF EndStatement
<1> DEFINE n == Len(stack) - 1
           st == [Pop EXCEPT ![n].parts = Append(@, Filled)]
<1>1. /\ Node(Top.node) \in StatementKinds
      /\ \/ Goto("statements", st) \/ Exit
         \/ /\ Node(Top.node) \in {"RETURN", "VAR_INIT"}
            /\ Compared(Top.type, result.type) = "null" /\ End("null_pointer")
  BY DEF EndStatement, IfSame, StatementKinds
<1>2. /\ status = "checking" /\ at = "return" /\ at \in InStatement /\ IsResult(result)
  BY <1>0, ReturnedFacts
<1>3. StackFits(stack, at) /\ OnTop(stack) = Node(Top.node) /\ IsFrame(Top)
      /\ Len(stack) \in Nat
  BY WaitingFacts
<1>4. CASE Goto("statements", st)
  <2>1. StackFits(Pop, "statements") /\ Node(stack[n].node) = "FN"
    BY <1>1, <1>2, <1>3, PopStatement DEF Pop
  <2>2. /\ IsSeq(stack) /\ Len(stack) >= 1 /\ stack # <<>>
    BY <1>3, StackFacts DEF StackFits
  <2>3. Len(Pop) = n /\ \A i \in 1 .. n : Pop[i] = stack[i]
    BY <2>2, FrontSeq DEF Pop
  <2>4. n \in DOMAIN Pop /\ n \in 1 .. n /\ IsFrame(Pop[n])
    <3>1. IsSeq(Pop) /\ Len(Pop) >= 1 /\ DOMAIN Pop = 1 .. Len(Pop) /\ IsFrame(Pop[Len(Pop)])
          /\ Len(Pop) \in Nat
      BY <2>1, StackFacts
    <3>2. n \in Nat /\ n >= 1
      BY <2>3, <3>1
    <3> HIDE DEF n
    <3> QED
      BY <2>3, <3>1, <3>2
  <2>5. Node(Pop[n].node) = "FN"
    BY <2>1, <2>3, <2>4
  <2> DEFINE g == [Pop[n] EXCEPT !.parts = Append(@, Filled)]
  <2>6. Node(Pop[n].node) \notin BodyKinds
    BY <2>5 DEF BodyKinds, StatementKinds, ExpressionKinds, Operators, ArrayInits
  <2>7. IsFrame(g) /\ g.node = Pop[n].node
    <3>1. Node(Pop[n].node) # "UNARY"
      BY <2>5
    <3> QED
      BY <2>4, <2>6, <3>1, FilledFrame
  <2>8. st = [Pop EXCEPT ![n] = g]
    OBVIOUS
  <2> HIDE DEF g, st
  <2>9. StackFits([Pop EXCEPT ![Len(Pop)] = g], "statements")
    BY <2>1, <2>5, <2>7, ReplaceFunction
  <2>10. StackFits(st, "statements")
    BY <2>3, <2>8, <2>9
  <2>11. "statements" \in Points \ {"return"}
    BY DEF Points
  <2> QED
    BY <1>2, <1>4, <2>10, <2>11, GotoKeeps
<1>5. CASE /\ Node(Top.node) \in {"RETURN", "VAR_INIT"}
           /\ Compared(Top.type, result.type) = "null" /\ End("null_pointer")
  <2>1. IsWritten(Top.type)
    BY <1>3, <1>5 DEF IsFrame, HasItsType
  <2> QED
    BY <1>2, <1>5, <2>1, WrittenHasLayers, ComparedWithTypeKeeps
<1> QED
  BY <1>1, <1>4, <1>5, ExitKeeps

----------------------------------------------------------------------------
(* Expressions without children.                                            *)
LEMMA ExpressionFacts ==
  ASSUME TCInv, Checking("expression")
  PROVE  /\ status = "checking" /\ at = "expression" /\ at \in InStatement
         /\ StackFits(stack, "expression") /\ StackFits(stack, "return")
         /\ ~IsCreating(stack[Len(stack)]) /\ vocabulary \in DOMAIN Vocabularies
<1>1. status = "checking" /\ at = "expression" /\ at \in InStatement
      /\ "expression" \in InStatement /\ "return" \in InStatement
  BY DEF Checking, InStatement, Points
<1>2. StackFits(stack, "expression") /\ vocabulary \in DOMAIN Vocabularies
  BY <1>1 DEF TCInv
<1>3. ~IsCreating(stack[Len(stack)]) /\ IsAwaiting(stack[Len(stack)])
  BY <1>2, StackFacts
<1>4. TopFits(OnTop(stack), "return")
  BY DEF TopFits
<1>5. StackFits(stack, "return")
  BY <1>1, <1>2, <1>3, <1>4, KeepStack
<1> QED
  BY <1>1, <1>2, <1>3, <1>5

(* An expression without children returns.                                  *)
LEMMA LeafKeeps ==
  ASSUME TCInv, Checking("expression"), NEW n, Node(n) # "NONE",
         NEW type, IsDerived(type), type # NullType,
         NEW is_lvalue, NEW mutable, is_lvalue => IsObject(type), mutable => is_lvalue,
         ReturnLeaf(n, type, is_lvalue, mutable)
  PROVE  TCInv'
<1>1. Node(Call(n).node) # "NONE"
  BY DEF Call, Frame
<1>2. IsResult(Result(Call(n), type, is_lvalue, mutable))
  BY <1>1, ResultOf
<1>3. /\ status = "checking" /\ StackFits(stack, "return") /\ ~IsCreating(stack[Len(stack)])
  BY ExpressionFacts
<1> QED
  BY <1>2, <1>3, ReturnKeeps DEF ReturnLeaf

(* An integer literal.                                                      *)
LEMMA CheckIntLiteralKeeps ==
  ASSUME TCInv, CheckIntLiteral
  PROVE  TCInv'
<1>1. PICK n \in Vocabularies[vocabulary] :
         /\ Leaf({"INT_LITERAL"}, n)
         /\ \/ Exit
            \/ ReturnLeaf(n, <<LiteralOf(Acceptable(IntLiterals[Datum(n)]))>>, FALSE, FALSE)
  BY DEF CheckIntLiteral
<1>2. Checking("expression") /\ Node(n) # "NONE"
  BY <1>1 DEF Leaf, Meet
<1> DEFINE type == <<LiteralOf(Acceptable(IntLiterals[Datum(n)]))>>
<1>3. IsDerived(type) /\ type # NullType
  <2>1. "bool" \in TypeSymbols /\ "null_ptr" \in BuiltinPtrs
    BY DEF TypeSymbols, Builtins, BuiltinPtrs
  <2> QED
    BY <2>1, LiteralLayers
<1> HIDE DEF type
<1>4. CASE ReturnLeaf(n, type, FALSE, FALSE)
  BY <1>2, <1>3, <1>4, LeafKeeps
<1> QED
  BY <1>1, <1>4, ExitKeeps DEF type

(* The other literals.                                                      *)
LEMMA CheckLiteralKeeps ==
  ASSUME TCInv, CheckLiteral
  PROVE  TCInv'
<1> DEFINE K == {"FLOAT_LITERAL", "CHAR_LITERAL", "BOOL_LITERAL", "STR_LITERAL",
                 "NULLPTR_LITERAL"}
<1>1. PICK n \in Vocabularies[vocabulary] :
         Leaf(K, n) /\ ReturnLeaf(n, LiteralType(Node(n)), FALSE, FALSE)
  BY DEF CheckLiteral
<1>2. Checking("expression") /\ Node(n) \in K /\ Node(n) # "NONE"
  BY <1>1 DEF Leaf, Meet
<1>3. "bool" \in TypeSymbols /\ "null_ptr" \in BuiltinPtrs
  BY DEF TypeSymbols, Builtins, BuiltinPtrs
<1>4. \/ \E builtins : LiteralType(Node(n)) = <<LiteralOf(builtins)>>
      \/ \E name \in BuiltinPtrs : LiteralType(Node(n)) = <<BuiltinPtr(name)>>
  BY <1>2 DEF LiteralType, BuiltinPtrs
<1>5. IsDerived(LiteralType(Node(n))) /\ LiteralType(Node(n)) # NullType
  BY <1>3, <1>4, LiteralLayers
<1> QED
  BY <1>1, <1>2, <1>5, LeafKeeps

(* An identifier has the type of what it was resolved to.                   *)
LEMMA CheckIdentKeeps ==
  ASSUME TCInv, CheckIdent
  PROVE  TCInv'
<1> DEFINE S(n) == Symbols[Datum(n)]
<1>1. PICK n \in Vocabularies[vocabulary] :
         /\ Leaf({"IDENTIFIER"}, n)
         /\ \/ Exit
            \/ /\ S(n).sym_type \in {"VAR", "PARAM", "FIELD"}
               /\ ReturnLeaf(n, S(n).type, TRUE, S(n).mutable)
            \/ /\ S(n).sym_type = "STRUCT"
               /\ ReturnLeaf(n, <<Named(Datum(n))>>, FALSE, FALSE)
  BY DEF CheckIdent
<1>2. Checking("expression") /\ Node(n) = "IDENTIFIER" /\ Node(n) # "NONE"
  BY <1>1 DEF Leaf, Meet
<1>3. vocabulary \in DOMAIN Vocabularies
  BY DEF TCInv
<1>4. /\ Datum(n) \in DOMAIN Symbols
      /\ S(n).sym_type \in {"VAR", "PARAM", "FIELD"} => IsUsable(Datum(n))
  BY <1>2, <1>3, NodesAssumption
<1>5. CASE /\ S(n).sym_type \in {"VAR", "PARAM", "FIELD"}
           /\ ReturnLeaf(n, S(n).type, TRUE, S(n).mutable)
  <2>1. IsDerived(S(n).type) /\ IsObject(S(n).type) /\ S(n).type # NullType
    BY <1>4, <1>5, WrittenIsDerived DEF IsUsable
  <2> HIDE DEF S
  <2> QED
    BY <1>2, <1>5, <2>1, LeafKeeps
<1>6. CASE /\ S(n).sym_type = "STRUCT"
           /\ ReturnLeaf(n, <<Named(Datum(n))>>, FALSE, FALSE)
  <2>1. Datum(n) \in TypeSymbols /\ "null_ptr" \in BuiltinPtrs
    BY <1>4, <1>6 DEF TypeSymbols, Structs, OfKind, BuiltinPtrs
  <2>2. IsDerived(<<Named(Datum(n))>>) /\ <<Named(Datum(n))>> # NullType
    BY <2>1, LiteralLayers
  <2> QED
    BY <1>2, <1>6, <2>2, LeafKeeps
<1> QED
  BY <1>1, <1>5, <1>6, ExitKeeps

----------------------------------------------------------------------------
(* Expressions with children are entered.                                   *)
LEMMA OperatorIsEntered ==
  ASSUME TCInv, Checking("expression"), NEW n \in Vocabularies[vocabulary],
         size + Brings(n) <= MaxNodes[vocabulary], Node(n) \in Operators,
         Node(n) = "CAST" => IsLegalType(Datum(n)),
         Enter(n, "expression", Push(Call(n)))
  PROVE  TCInv'
<1>1. /\ status = "checking" /\ at = "expression" /\ StackFits(stack, "expression")
      /\ vocabulary \in DOMAIN Vocabularies
  BY ExpressionFacts
<1>2. /\ Node(n) = "SUBSCRIPT" => Datum(n) \in Nat \ {0}
      /\ Node(n) = "CAST" => IsWritten(Datum(n))
      /\ Node(n) \in {"UNARY", "BINARY"} => n = <<Node(n), Datum(n)>>
  BY <1>1, NodesAssumption
<1>3. Node(n) \notin ContainerKinds \cup {"FN"}
  BY DEF Operators, ContainerKinds
<1>4. IsFrame(Call(n)) /\ Call(n).node = n /\ IsAwaiting(Call(n)) /\ ~IsCreating(Call(n))
  BY <1>2, <1>3, CallIsFrame
<1>5. /\ "expression" \in InStatement /\ "expression" # "member" /\ "expression" # "return"
      /\ TopFits(Node(n), "expression") /\ "expression" \in Points \ {"return"}
      /\ Node(n) \in ExpressionKinds
  BY DEF InStatement, Points, TopFits, ExpressionKinds
<1>6. StackFits(Push(Call(n)), "expression")
  BY <1>1, <1>4, <1>5, PushExpression DEF Push
<1> QED
  BY <1>1, <1>5, <1>6, EnterKeeps

(* An operator is met.                                                      *)
LEMMA EnterExpressionKeeps ==
  ASSUME TCInv, EnterExpression
  PROVE  TCInv'
<1> DEFINE K == {"UNARY", "BINARY", "TERNARY", "ASSIGN", "SUBSCRIPT", ".", "->",
                 "STRUCT_CREATE"}
<1>1. Checking("expression")
  BY DEF EnterExpression
<1>2. PICK n \in Vocabularies[vocabulary] :
         Meet(K, n) /\ Enter(n, "expression", Push(Call(n)))
  BY DEF EnterExpression
<1>3. Node(n) \in Operators /\ Node(n) # "CAST" /\ size + Brings(n) <= MaxNodes[vocabulary]
  BY <1>2 DEF Meet, Operators
<1> QED
  BY <1>1, <1>2, <1>3, OperatorIsEntered

(* A cast to a type that is accepted is met.                                *)
LEMMA CheckCastTypeKeeps ==
  ASSUME TCInv, CheckCastType
  PROVE  TCInv'
<1>1. Checking("expression")
  BY DEF CheckCastType
<1>2. PICK n \in Vocabularies[vocabulary] :
         /\ Meet({"CAST"}, n)
         /\ Exit \/ (IsLegalType(Datum(n)) /\ Enter(n, "expression", Push(Call(n))))
  BY DEF CheckCastType
<1>3. Node(n) \in Operators /\ size + Brings(n) <= MaxNodes[vocabulary]
  BY <1>2 DEF Meet, Operators
<1> QED
  BY <1>1, <1>2, <1>3, OperatorIsEntered, ExitKeeps

----------------------------------------------------------------------------
(* Expressions whose children have been checked: unary operators.           *)
LEMMA RefStrippedFacts ==
  ASSUME NEW res, IsResult(res), res.type # NullType
  PROVE  LET operand == RefStripped(res)
         IN  /\ IsDerived(operand.type) /\ operand.type # NullType
             /\ operand.type = Stripped(res.type)
             /\ operand.is_lvalue => /\ res.is_lvalue /\ IsObject(operand.type)
                                     /\ ~IsRef(Head(operand.type))
             /\ res.is_lvalue <=> operand.is_lvalue
             /\ Last(operand.type) = Last(res.type)
<1>1. /\ res = Result(res, res.type, res.is_lvalue, res.is_var_and_mutable)
      /\ IsDerived(res.type)
      /\ res.is_lvalue => IsObject(res.type)
  BY DEF IsResult
<1> DEFINE operand == RefStripped(res)
<1>2. operand.type = Stripped(res.type) /\ operand.is_lvalue = res.is_lvalue
  <2>1. CASE Kind(res.type) # "REF"
    BY <2>1 DEF RefStripped, Stripped
  <2>2. CASE Kind(res.type) = "REF"
    <3>1. operand = [res EXCEPT !.type = Tail(@), !.is_var_and_mutable = Head(res.type).to_mutable]
      BY <2>2 DEF RefStripped
    <3>2. DOMAIN res = {"node", "parts", "type", "is_lvalue", "is_var_and_mutable"}
      BY <1>1 DEF Result
    <3>3. operand.type = Tail(res.type) /\ operand.is_lvalue = res.is_lvalue
      BY <3>1, <3>2
    <3> QED
      BY <2>2, <3>3 DEF Stripped
  <2> QED
    BY <2>1, <2>2
<1> HIDE DEF operand
<1>3. /\ IsDerived(Stripped(res.type)) /\ Stripped(res.type) # NullType
      /\ IsObject(res.type) => IsObject(Stripped(res.type)) /\ ~IsRef(Head(Stripped(res.type)))
      /\ Last(Stripped(res.type)) = Last(res.type)
  BY <1>1, StrippedIsDerived
<1>4. res.is_lvalue <=> operand.is_lvalue
  BY <1>2
<1>5. operand.is_lvalue => IsObject(operand.type) /\ ~IsRef(Head(operand.type))
  BY <1>1, <1>2, <1>3, <1>4
<1> QED
  BY <1>2, <1>3, <1>4, <1>5 DEF operand

(* What is known when the operand of a unary operator returns.              *)
LEMMA UnaryFacts ==
  ASSUME TCInv, Returning("UNARY")
  PROVE  /\ Checking("return") /\ status = "checking" /\ at \in InStatement
         /\ Node(Top.node) \in ExpressionKinds /\ Node(Top.node) # "STRUCT_INIT"
         /\ IsResult(result) /\ Node(Filled.node) # "NONE"
         /\ Filled.node = <<"UNARY", Datum(Top.node)>> /\ Filled.parts[1] = result
<1>1. Checking("return") /\ Node(Top.node) = "UNARY"
  BY DEF Returning
<1>2. /\ status = "checking" /\ at \in InStatement /\ IsResult(result)
      /\ Filled.node = Top.node /\ Filled.parts = Append(Top.parts, result)
      /\ Node(Filled.node) # "NONE"
  BY <1>1, ReturnedFacts
<1>3. Top.parts = <<>> /\ Top.node = <<"UNARY", Datum(Top.node)>>
  BY <1>1, WaitingFacts DEF IsFrame, HasItsType
<1>4. Filled.parts = <<result>>
  BY <1>2, <1>3
<1> QED
  BY <1>1, <1>2, <1>3, <1>4 DEF ExpressionKinds, Operators

(* The result of the operand is passed on.                                  *)
LEMMA UnaryPassesOn ==
  ASSUME TCInv, Returning("UNARY"), result.type # NullType, Finish(SameAs(Filled, result))
  PROVE  TCInv'
<1>1. /\ status = "checking" /\ at \in InStatement
      /\ Node(Top.node) \in ExpressionKinds /\ Node(Top.node) # "STRUCT_INIT"
      /\ IsResult(result) /\ Node(Filled.node) # "NONE"
  BY UnaryFacts
<1>2. IsResult(SameAs(Filled, result))
  BY <1>1, SameAsResult
<1> QED
  BY <1>1, <1>2, FinishKeeps

(* The operators that pass on the result of their operand.                  *)
LEMMA CheckIncDecNegateNotKeep ==
  ASSUME TCInv, CheckPrePostIncDec \/ CheckNegateNot
  PROVE  TCInv'
<1>1. /\ Returning("UNARY") /\ result.type # NullType
      /\ Exit \/ Finish(SameAs(Filled, result))
  BY DEF CheckPrePostIncDec, CheckNegateNot, ReturningUnary
<1> QED
  BY <1>1, UnaryPassesOn, ExitKeeps

(* Pointers and references that the checker puts on a type.                 *)
LEMMA PointerLayers ==
  ASSUME NEW to_mutable
  PROVE  /\ Ptr(to_mutable).kind = "PTR" /\ ~IsInnermost(Ptr(to_mutable))
         /\ ~IsTemporary(Ptr(to_mutable))
         /\ Ref(to_mutable).kind = "REF" /\ ~IsInnermost(Ref(to_mutable))
         /\ ~IsTemporary(Ref(to_mutable))
BY DEF Ptr, Ref, IsInnermost, IsTemporary, IsBuiltinPtr, IsLiteralLayer

(* The address of an object.                                                *)
LEMMA CheckAddrOfKeeps ==
  ASSUME TCInv, CheckAddrOf
  PROVE  TCInv'
<1>1. Returning("UNARY") /\ result.type # NullType
  BY DEF CheckAddrOf, ReturningUnary
<1>2. /\ status = "checking" /\ at \in InStatement
      /\ Node(Top.node) \in ExpressionKinds /\ Node(Top.node) # "STRUCT_INIT"
      /\ IsResult(result) /\ Node(Filled.node) # "NONE"
  BY <1>1, UnaryFacts
<1> DEFINE operand == RefStripped(result)
           type == <<Ptr(operand.is_var_and_mutable)>> \o operand.type
<1>3. /\ IsDerived(operand.type) /\ operand.type # NullType
      /\ operand.is_lvalue => IsObject(operand.type) /\ ~IsRef(Head(operand.type))
      /\ Last(operand.type) = Last(result.type)
  BY <1>1, <1>2, RefStrippedFacts
<1>4. \/ Exit
      \/ CloneFollowsNull(operand.type) /\ End("null_pointer")
      \/ operand.is_lvalue /\ Finish(Temporary(Filled, type))
  BY DEF CheckAddrOf
<1>5. CASE CloneFollowsNull(operand.type) /\ End("null_pointer")
  <2>1. IsBuiltinPtr(Last(result.type))
    BY <1>3, <1>5 DEF CloneFollowsNull
  <2> QED
    BY <1>2, <1>5, <2>1, NullKeeps
<1>6. CASE operand.is_lvalue /\ Finish(Temporary(Filled, type))
  <2> DEFINE layer == Ptr(operand.is_var_and_mutable)
  <2>1. layer.kind = "PTR" /\ ~IsInnermost(layer) /\ ~IsTemporary(layer)
    BY PointerLayers
  <2> HIDE DEF operand, layer
  <2>2. IsDerived(<<layer>> \o operand.type) /\ <<layer>> \o operand.type # NullType
    BY <1>3, <1>6, <2>1, ConsIsDerived
  <2>3. IsDerived(type) /\ type # NullType
    BY <2>2 DEF layer
  <2> HIDE DEF type
  <2>4. IsResult(Temporary(Filled, type))
    BY <1>2, <2>3, TemporaryResult
  <2> QED
    BY <1>2, <1>6, <2>4, FinishKeeps
<1> QED
  BY <1>4, <1>5, <1>6, ExitKeeps

(* A reference to an object.                                                *)
LEMMA CheckRefOfKeeps ==
  ASSUME TCInv, CheckRefOf
  PROVE  TCInv'
<1>1. Returning("UNARY") /\ result.type # NullType
  BY DEF CheckRefOf, ReturningUnary
<1>2. /\ status = "checking" /\ at \in InStatement
      /\ Node(Top.node) \in ExpressionKinds /\ Node(Top.node) # "STRUCT_INIT"
      /\ IsResult(result) /\ Node(Filled.node) # "NONE"
  BY <1>1, UnaryFacts
<1> DEFINE type == <<Ref(result.is_var_and_mutable)>> \o result.type
<1>3. \/ Exit
      \/ IsBuiltinPtr(Last(result.type)) /\ End("null_pointer")
      \/ result.is_lvalue /\ Finish(Temporary(Filled, type))
  BY DEF CheckRefOf, CloneFollowsNull
<1>4. CASE IsBuiltinPtr(Last(result.type)) /\ End("null_pointer")
  BY <1>2, <1>4, NullKeeps
<1>5. CASE result.is_lvalue /\ Finish(Temporary(Filled, type))
  <2> DEFINE layer == Ref(result.is_var_and_mutable)
  <2>1. layer.kind = "REF" /\ ~IsInnermost(layer) /\ ~IsTemporary(layer)
    BY PointerLayers
  <2>2. IsDerived(result.type) /\ IsObject(result.type)
    BY <1>2, <1>5 DEF IsResult
  <2> HIDE DEF layer
  <2>3. IsDerived(<<layer>> \o result.type) /\ <<layer>> \o result.type # NullType
    BY <1>1, <2>1, <2>2, ConsIsDerived
  <2>4. IsDerived(type) /\ type # NullType
    BY <2>3 DEF layer
  <2> HIDE DEF type
  <2>5. IsResult(Temporary(Filled, type))
    BY <1>2, <2>4, TemporaryResult
  <2> QED
    BY <1>2, <1>5, <2>5, FinishKeeps
<1> QED
  BY <1>3, <1>4, <1>5, ExitKeeps

(* Only a string has no type under it.                                      *)
LEMMA CheckDerefKeeps ==
  ASSUME TCInv, CheckDeref
  PROVE  TCInv'
<1>1. Returning("UNARY") /\ result.type # NullType /\ Datum(Top.node) = "*"
  BY DEF CheckDeref, ReturningUnary
<1>2. /\ status = "checking" /\ at \in InStatement
      /\ Node(Top.node) \in ExpressionKinds /\ Node(Top.node) # "STRUCT_INIT"
      /\ IsResult(result) /\ Node(Filled.node) # "NONE"
      /\ Filled.node = <<"UNARY", "*">> /\ Filled.parts[1] = result
  BY <1>1, UnaryFacts
<1> DEFINE operand == RefStripped(result)
           pointer == Head(operand.type)
           tail == Tail(operand.type)
           mutable == operand.is_lvalue /\ pointer.to_mutable
           res == Result(Filled, tail, operand.is_lvalue, mutable)
<1>3. \/ Exit
      \/ /\ pointer.kind = "PTR"
         /\ ~IsBuiltinPtrTo(pointer, "null_ptr") /\ ~IsBuiltinPtrTo(pointer, "opaque_ptr")
         /\ Finish(res)
  BY DEF CheckDeref
<1> SUFFICES ASSUME pointer.kind = "PTR", ~IsBuiltinPtrTo(pointer, "null_ptr"),
                    ~IsBuiltinPtrTo(pointer, "opaque_ptr"), Finish(res)
             PROVE  TCInv'
  BY <1>3, ExitKeeps
<1>4. /\ IsDerived(operand.type) /\ operand.type # NullType
      /\ operand.type = Stripped(result.type)
      /\ operand.is_lvalue => IsObject(operand.type)
  BY <1>1, <1>2, RefStrippedFacts
<1> HIDE DEF operand
<1>5. /\ IsDerived(tail)
      /\ IsObject(operand.type) => IsObject(tail)
      /\ ~IsInnermost(pointer) => tail # NullType
  BY <1>4, TailIsDerived
<1>6. /\ res.node = <<"UNARY", "*">> /\ res.parts[1] = result /\ res.type = tail
      /\ res.is_lvalue = operand.is_lvalue /\ res.is_var_and_mutable = mutable
  BY <1>2 DEF Result
<1>7. res = Result(res, res.type, res.is_lvalue, res.is_var_and_mutable)
  BY DEF Result
<1>8. ASSUME tail = NullType
      PROVE  IsBuiltinPtrTo(Head(result.type), "CStr_ptr")
  <2>1. IsBuiltinPtr(pointer)
    BY <1>5, <1>8 DEF IsInnermost
  <2>2. /\ DOMAIN operand.type = 1 .. Len(operand.type) /\ Len(operand.type) >= 1
        /\ Len(operand.type) \in Nat /\ pointer = operand.type[1]
    BY <1>4, DerivedFacts
  <2>3. 1 \in DOMAIN operand.type
    BY <2>2
  <2>4. pointer.builtin \in BuiltinPtrs
    BY <1>4, <2>1, <2>2, <2>3 DEF IsDerived
  <2>5. pointer.builtin = "CStr_ptr"
    BY <2>1, <2>4 DEF BuiltinPtrs, IsBuiltinPtrTo
  <2>6. Kind(result.type) # "REF"
    <3> SUFFICES ASSUME Kind(result.type) = "REF"
                 PROVE  FALSE
      OBVIOUS
    <3>1. IsDerived(result.type)
      BY <1>2 DEF IsResult
    <3>2. /\ Len(result.type) \in Nat /\ DOMAIN result.type = 1 .. Len(result.type)
          /\ Len(Tail(result.type)) = Len(result.type) - 1
          /\ \A i \in 1 .. (Len(result.type) - 1) : Tail(result.type)[i] = result.type[i + 1]
      BY <1>1, <3>1, DerivedFacts
    <3>3. operand.type = Tail(result.type)
      BY <1>4 DEF Stripped
    <3>4. 1 \in 1 .. (Len(result.type) - 1) /\ 1 + 1 = 2 /\ 2 \in DOMAIN result.type
      BY <2>2, <3>2, <3>3
    <3>5. pointer = result.type[2]
      BY <2>2, <3>2, <3>3, <3>4
    <3>6. IsTemporary(pointer)
      BY <2>1, <2>5 DEF IsTemporary
    <3>7. 2 = 1
      BY <3>1, <3>4, <3>5, <3>6 DEF IsDerived
    <3> QED
      BY <3>7
  <2>7. operand.type = result.type
    BY <1>4, <2>6 DEF Stripped
  <2> QED
    BY <2>1, <2>5, <2>7 DEF IsBuiltinPtrTo
<1> HIDE DEF res
<1>9. NullIsOfString(res)
  BY <1>6, <1>8 DEF NullIsOfString
<1>10. res.is_lvalue => IsObject(res.type)
  BY <1>4, <1>5, <1>6
<1>11. res.is_var_and_mutable => res.is_lvalue
  BY <1>6
<1>12. res.node # <<"NONE">>
  BY <1>2, <1>6 DEF Node
<1>13. IsDerived(res.type)
  BY <1>5, <1>6
<1>14. IsResult(res)
  BY <1>7, <1>9, <1>10, <1>11, <1>12, <1>13 DEF IsResult
<1> QED
  BY <1>2, <1>14, FinishKeeps

(* An operand without a type.                                               *)
LEMMA UnaryOfNullKeeps ==
  ASSUME TCInv, UnaryOfNull
  PROVE  TCInv'
<1>1. Returning("UNARY") /\ result.type = NullType /\ End("null_pointer")
  BY DEF UnaryOfNull
<1>2. IsResult(result)
  BY <1>1, UnaryFacts
<1> QED
  BY <1>1, <1>2, NullKeeps

----------------------------------------------------------------------------
(* The operators with more than one child.  What is known when a child of   *)
(* theirs returns.                                                          *)
LEMMA OperandFacts ==
  ASSUME TCInv, Checking("return"), Node(Top.node) \in Operators
  PROVE  /\ status = "checking" /\ at \in InStatement
         /\ Node(Top.node) \in ExpressionKinds /\ Node(Top.node) # "STRUCT_INIT"
         /\ IsResult(result) /\ Node(Filled.node) # "NONE"
         /\ Len(Filled.parts) \in Nat
         /\ \A i \in 1 .. Len(Filled.parts) :
              IsResult(Part(i)) /\ Part(i) \in {result} \cup ToSet(Top.parts)
<1>1. /\ status = "checking" /\ at \in InStatement
      /\ IsResult(result) /\ Node(Filled.node) # "NONE"
      /\ Len(Filled.parts) = Len(Top.parts) + 1
      /\ \A i \in 1 .. Len(Filled.parts) :
           IsResult(Part(i)) /\ Part(i) \in {result} \cup ToSet(Top.parts)
  BY ReturnedFacts
<1>2. Len(Top.parts) \in Nat
  BY WaitingFacts
<1> QED
  BY <1>1, <1>2 DEF ExpressionKinds, Operators

(* An operator returns a result that has a type.                            *)
LEMMA OperatorReturns ==
  ASSUME TCInv, Checking("return"), Node(Top.node) \in Operators,
         NEW type, IsDerived(type), type # NullType,
         NEW is_lvalue, NEW mutable, is_lvalue => IsObject(type), mutable => is_lvalue,
         Finish(Result(Filled, type, is_lvalue, mutable))
  PROVE  TCInv'
<1>1. /\ status = "checking" /\ at \in InStatement
      /\ Node(Top.node) \in ExpressionKinds /\ Node(Top.node) # "STRUCT_INIT"
      /\ Node(Filled.node) # "NONE"
  BY OperandFacts
<1>2. IsResult(Result(Filled, type, is_lvalue, mutable))
  BY <1>1, ResultOf
<1> QED
  BY <1>1, <1>2, FinishKeeps

(* An operator passes on the result of an operand.                          *)
LEMMA OperatorPassesOn ==
  ASSUME TCInv, Checking("return"), Node(Top.node) \in Operators,
         NEW res, IsResult(res), res.type # NullType, Finish(SameAs(Filled, res))
  PROVE  TCInv'
<1>1. /\ IsDerived(res.type)
      /\ res.is_lvalue => IsObject(res.type)
      /\ res.is_var_and_mutable => res.is_lvalue
  BY DEF IsResult
<1> QED
  BY <1>1, OperatorReturns DEF SameAs

(* Both operands of a binary operator, where neither is without a type.     *)
LEMMA BinaryFacts ==
  ASSUME TCInv, Returning("BINARY"), IsPart(2)
  PROVE  /\ Checking("return") /\ Node(Top.node) \in Operators
         /\ \A i \in {1, 2} : IsResult(Part(i)) /\ Part(i) \in {result} \cup ToSet(Top.parts)
         /\ ~HasNull({Part(1), Part(2)}) =>
              Part(1).type # NullType /\ Part(2).type # NullType
<1>1. Checking("return") /\ Node(Top.node) \in Operators
  BY DEF Returning, Operators
<1>2. Len(Filled.parts) = 2
  BY DEF IsPart
<1>3. \A i \in {1, 2} : i \in 1 .. 2
  OBVIOUS
<1>4. \A i \in {1, 2} : IsResult(Part(i)) /\ Part(i) \in {result} \cup ToSet(Top.parts)
  BY <1>1, <1>2, <1>3, OperandFacts
<1> QED
  BY <1>1, <1>4 DEF HasNull

(* The right operand is next.                                               *)
LEMMA EndFirstOperandKeeps ==
  ASSUME TCInv, EndFirstOperand
  PROVE  TCInv'
<1>1. Checking("return") /\ Node(Top.node) = "BINARY" /\ NextPart
  BY DEF EndFirstOperand, Returning
<1> QED
  BY <1>1, NextPartKeeps DEF Operators

(* The type of a sum is that of an operand, or of a literal.                *)
LEMMA ArithTypeIsDerived ==
  ASSUME NEW lhs, NEW rhs, IsDerived(lhs.type), lhs.type # NullType,
         IsDerived(rhs.type), rhs.type # NullType
  PROVE  IsDerived(ArithType(lhs, rhs)) /\ ArithType(lhs, rhs) # NullType
<1> DEFINE l == Stripped(lhs.type)
           r == Stripped(rhs.type)
           literal == <<LiteralOf(Head(l).acceptable \cap Head(r).acceptable)>>
<1>1. IsDerived(literal) /\ literal # NullType
  BY OneLayerIsDerived DEF LiteralOf, IsInnermost, IsLiteralLayer, IsBuiltinPtr
<1> HIDE DEF literal
<1>2. ArithType(lhs, rhs) \in {literal, lhs.type, rhs.type}
  BY DEF ArithType, literal
<1> QED
  BY <1>1, <1>2

(* A sum or product.                                                        *)
LEMMA CheckArithKeeps ==
  ASSUME TCInv, CheckArith
  PROVE  TCInv'
<1>1. Returning("BINARY") /\ IsPart(2) /\ ~HasNull({Part(1), Part(2)})
  BY DEF CheckArith, ReturningBinary
<1>2. /\ Checking("return") /\ Node(Top.node) \in Operators
      /\ IsResult(Part(1)) /\ Part(1).type # NullType
      /\ IsResult(Part(2)) /\ Part(2).type # NullType
  BY <1>1, BinaryFacts
<1>3. \/ Exit
      \/ Finish(SameAs(Filled, Part(1))) \/ Finish(SameAs(Filled, Part(2)))
      \/ Finish(Temporary(Filled, ArithType(Part(1), Part(2))))
  BY DEF CheckArith
<1>4. CASE Finish(SameAs(Filled, Part(1))) \/ Finish(SameAs(Filled, Part(2)))
  BY <1>2, <1>4, OperatorPassesOn
<1>5. CASE Finish(Temporary(Filled, ArithType(Part(1), Part(2))))
  <2>1. IsDerived(Part(1).type) /\ IsDerived(Part(2).type)
    BY <1>2 DEF IsResult
  <2> DEFINE type == ArithType(Part(1), Part(2))
  <2>2. IsDerived(type) /\ type # NullType
    BY <1>2, <2>1, ArithTypeIsDerived
  <2> HIDE DEF type
  <2>3. Finish(Result(Filled, type, FALSE, FALSE))
    BY <1>5 DEF Temporary, type
  <2> QED
    BY <1>2, <2>2, <2>3, OperatorReturns
<1> QED
  BY <1>3, <1>4, <1>5, ExitKeeps

(* A shift, or the connection of two truth values.                          *)
LEMMA CheckShiftLogKeeps ==
  ASSUME TCInv, CheckShiftLog
  PROVE  TCInv'
<1>1. /\ Returning("BINARY") /\ IsPart(2) /\ ~HasNull({Part(1), Part(2)})
      /\ Exit \/ Finish(SameAs(Filled, Part(1)))
  BY DEF CheckShiftLog, ReturningBinary
<1>2. /\ Checking("return") /\ Node(Top.node) \in Operators
      /\ IsResult(Part(1)) /\ Part(1).type # NullType
  BY <1>1, BinaryFacts
<1> QED
  BY <1>1, <1>2, OperatorPassesOn, ExitKeeps

(* A comparison.                                                            *)
LEMMA CheckCmpKeeps ==
  ASSUME TCInv, CheckCmp
  PROVE  TCInv'
<1> DEFINE type == <<LiteralOf({"bool"})>>
<1>1. /\ Returning("BINARY") /\ IsPart(2)
      /\ Exit \/ Finish(Result(Filled, type, FALSE, FALSE))
  BY DEF CheckCmp, ReturningBinary, Temporary
<1>2. Checking("return") /\ Node(Top.node) \in Operators
  BY <1>1, BinaryFacts
<1>3. IsDerived(type) /\ type # NullType
  BY OneLayerIsDerived DEF LiteralOf, IsInnermost, IsLiteralLayer, IsBuiltinPtr
<1> HIDE DEF type
<1> QED
  BY <1>1, <1>2, <1>3, OperatorReturns, ExitKeeps

(* An operand without a type, on either side.                               *)
LEMMA BinaryOfNullKeeps ==
  ASSUME TCInv, BinaryOfNull
  PROVE  TCInv'
<1>1. /\ Returning("BINARY") /\ IsPart(2) /\ HasNull({Part(1), Part(2)})
      /\ Exit \/ End("null_pointer")
  BY DEF BinaryOfNull
<1>2. PICK res \in {Part(1), Part(2)} : res.type = NullType
  BY <1>1 DEF HasNull
<1>3. IsResult(res) /\ res \in {result} \cup ToSet(Top.parts)
  BY <1>1, <1>2, BinaryFacts
<1> QED
  BY <1>1, <1>2, <1>3, NullKeeps, ExitKeeps

(* Of two types that compare the same, neither is missing.                  *)
LEMMA SameHasType ==
  ASSUME NEW first, NEW second, Compared(first, second) = "same"
  PROVE  first # NullType
<1>1. "same" # "null"
  OBVIOUS
<1> QED
  BY <1>1, ComparedWithNull

(* A ternary has the type of its first branch, which is there if both are   *)
(* the same.                                                                *)
LEMMA CheckTernaryKeeps ==
  ASSUME TCInv, CheckTernary
  PROVE  TCInv'
<1> DEFINE both == Part(2).is_lvalue /\ Part(3).is_lvalue
           mutable == Part(2).is_var_and_mutable /\ Part(3).is_var_and_mutable
           res == Result(Filled, Part(2).type, both, mutable)
<1>1. /\ Checking("return") /\ Node(Top.node) = "TERNARY"
      /\ \/ result.type = NullType /\ End("null_pointer")
         \/ NextPart \/ Exit
         \/ IsPart(3) /\ IfSame(Compared(Part(2).type, Part(3).type), Finish(res))
  BY DEF CheckTernary, Returning
<1>2. Node(Top.node) \in Operators \ {"STRUCT_CREATE", "UNARY"}
  BY <1>1 DEF Operators
<1>3. IsResult(result)
  BY <1>1, ReturnedFacts
<1>4. CASE IsPart(3) /\ IfSame(Compared(Part(2).type, Part(3).type), Finish(res))
  <2>1. Len(Filled.parts) = 3 /\ 2 \in 1 .. 3 /\ 3 \in 1 .. 3
    BY <1>4 DEF IsPart
  <2>2. /\ IsResult(Part(2)) /\ Part(2) \in {result} \cup ToSet(Top.parts)
        /\ IsResult(Part(3)) /\ Part(3) \in {result} \cup ToSet(Top.parts)
    BY <1>1, <1>2, <2>1, OperandFacts
  <2>3. CASE Compared(Part(2).type, Part(3).type) = "same" /\ Finish(res)
    <3>1. /\ IsDerived(Part(2).type) /\ (both => IsObject(Part(2).type))
          /\ mutable => both
      BY <2>2 DEF IsResult
    <3>2. Part(2).type # NullType
      BY <2>3, SameHasType
    <3> HIDE DEF both, mutable
    <3> QED
      BY <1>1, <1>2, <2>3, <3>1, <3>2, OperatorReturns
  <2>4. CASE Compared(Part(2).type, Part(3).type) = "null" /\ End("null_pointer")
    BY <2>2, <2>4, ComparedResultsKeeps
  <2> QED
    BY <1>4, <2>3, <2>4, ExitKeeps DEF IfSame
<1> HIDE DEF res
<1> QED
  BY <1>1, <1>2, <1>3, <1>4, NullKeeps, NextPartKeeps, ExitKeeps

(* An assignment has the type of its left side.                             *)
LEMMA CheckAssignKeeps ==
  ASSUME TCInv, CheckAssign
  PROVE  TCInv'
<1>1. /\ Checking("return") /\ Node(Top.node) = "ASSIGN"
      /\ \/ NextPart \/ Exit
         \/ IsPart(2) /\ IfSame(Compared(Part(1).type, Part(2).type),
                                Finish(SameAs(Filled, Part(1))))
  BY DEF CheckAssign, Returning
<1>2. Node(Top.node) \in Operators \ {"STRUCT_CREATE", "UNARY"}
  BY <1>1 DEF Operators
<1>3. CASE IsPart(2) /\ IfSame(Compared(Part(1).type, Part(2).type),
                               Finish(SameAs(Filled, Part(1))))
  <2>1. Len(Filled.parts) = 2 /\ 1 \in 1 .. 2 /\ 2 \in 1 .. 2
    BY <1>3 DEF IsPart
  <2>2. /\ IsResult(Part(1)) /\ Part(1) \in {result} \cup ToSet(Top.parts)
        /\ IsResult(Part(2)) /\ Part(2) \in {result} \cup ToSet(Top.parts)
    BY <1>1, <1>2, <2>1, OperandFacts
  <2>3. CASE Compared(Part(1).type, Part(2).type) = "same" /\ Finish(SameAs(Filled, Part(1)))
    <3>1. Part(1).type # NullType
      BY <2>3, SameHasType
    <3> QED
      BY <1>1, <1>2, <2>2, <2>3, <3>1, OperatorPassesOn
  <2>4. CASE Compared(Part(1).type, Part(2).type) = "null" /\ End("null_pointer")
    BY <2>2, <2>4, ComparedResultsKeeps
  <2> QED
    BY <1>3, <2>3, <2>4, ExitKeeps DEF IfSame
<1> QED
  BY <1>1, <1>2, <1>3, NextPartKeeps, ExitKeeps

(* A cast gives what it is applied to the type it names.                    *)
LEMMA CheckCastKeeps ==
  ASSUME TCInv, CheckCast
  PROVE  TCInv'
<1> DEFINE to == Datum(Top.node)
           res == Result(Filled, to, result.is_lvalue, result.is_var_and_mutable)
<1>1. /\ Checking("return") /\ Node(Top.node) = "CAST"
      /\ \/ Exit
         \/ result.type = NullType /\ End("null_pointer")
         \/ Finish([SameAs(Filled, result) EXCEPT !.type = to])
  BY DEF CheckCast, Returning
<1>2. [SameAs(Filled, result) EXCEPT !.type = to] = res
  BY DEF SameAs, Result
<1>3. Node(Top.node) \in Operators
  BY <1>1 DEF Operators
<1>4. /\ IsResult(result)
      /\ result.is_var_and_mutable => result.is_lvalue
  BY <1>1, <1>3, OperandFacts DEF IsResult
<1>5. IsWritten(to) /\ IsLegalType(to)
  BY <1>1, WaitingFacts DEF IsFrame, HasItsType
<1>6. IsDerived(to) /\ IsObject(to) /\ to # NullType
  BY <1>5, WrittenIsDerived
<1> HIDE DEF to
<1>7. CASE Finish(res)
  BY <1>1, <1>3, <1>4, <1>6, <1>7, OperatorReturns
<1> HIDE DEF res
<1> QED
  BY <1>1, <1>2, <1>4, <1>7, NullKeeps, ExitKeeps

(* An index of an array.                                                    *)
LEMMA CheckIndexKeeps ==
  ASSUME TCInv, CheckIndex
  PROVE  TCInv'
<1>1. /\ Checking("return") /\ Node(Top.node) = "SUBSCRIPT"
      /\ \/ result.type = NullType /\ End("null_pointer")
         \/ NextPart \/ Exit
  BY DEF CheckIndex, Returning
<1>2. IsResult(result)
  BY <1>1, ReturnedFacts
<1> QED
  BY <1>1, <1>2, NullKeeps, NextPartKeeps, ExitKeeps DEF Operators

(* What is under an array is an object, and so is an array of fewer sizes.  *)
LEMMA ElementIsObject ==
  ASSUME NEW array, IsDerived(array), array # NullType, Kind(array) = "ARRAY"
  PROVE  /\ IsDerived(Tail(array)) /\ IsObject(Tail(array)) /\ Tail(array) # NullType
         /\ Head(array).sizes \in Seq(Nat)
<1>1. ~IsInnermost(Head(array)) /\ ~IsRef(Head(array))
  BY DEF Kind, IsInnermost, IsBuiltinPtr, IsRef
<1>2. 1 \in DOMAIN array /\ Head(array) = array[1]
  BY DerivedFacts
<1>3. Head(array).sizes \in Seq(Nat)
  BY <1>2 DEF IsDerived, Kind
<1> QED
  BY <1>1, <1>3, TailIsDerived

(* An element of an array, or an array of the sizes that are left.          *)
LEMMA CheckSubscriptKeeps ==
  ASSUME TCInv, CheckSubscript
  PROVE  TCInv'
<1> DEFINE indices == Datum(Top.node)
           array == result.type
           sizes == Head(array).sizes
           rest == SubSeq(sizes, indices + 1, Len(sizes))
<1>1. /\ Checking("return") /\ Node(Top.node) = "SUBSCRIPT"
      /\ \/ array = NullType /\ End("null_pointer")
         \/ Exit
         \/ array # NullType /\ CloneFollowsNull(array) /\ End("null_pointer")
         \/ /\ array # NullType /\ Kind(array) = "ARRAY"
            /\ \/ Finish(Result(Filled, Tail(array), TRUE, result.is_var_and_mutable))
               \/ Finish(Result(Filled, <<Arr(rest)>> \o Tail(array), TRUE, FALSE))
  BY DEF CheckSubscript, Returning
<1>2. Node(Top.node) \in Operators
  BY <1>1 DEF Operators
<1>3. IsResult(result) /\ IsDerived(array)
  BY <1>1, <1>2, OperandFacts DEF IsResult
<1>4. CASE array # NullType /\ CloneFollowsNull(array) /\ End("null_pointer")
  BY <1>3, <1>4, NullKeeps DEF CloneFollowsNull
<1>5. CASE /\ array # NullType /\ Kind(array) = "ARRAY"
           /\ Finish(Result(Filled, Tail(array), TRUE, result.is_var_and_mutable))
  <2>1. IsDerived(Tail(array)) /\ IsObject(Tail(array)) /\ Tail(array) # NullType
    BY <1>3, <1>5, ElementIsObject
  <2> HIDE DEF array
  <2> QED
    BY <1>1, <1>2, <1>5, <2>1, OperatorReturns
<1>6. CASE /\ array # NullType /\ Kind(array) = "ARRAY"
           /\ Finish(Result(Filled, <<Arr(rest)>> \o Tail(array), TRUE, FALSE))
  <2>1. /\ IsDerived(Tail(array)) /\ IsObject(Tail(array)) /\ Tail(array) # NullType
        /\ sizes \in Seq(Nat)
    BY <1>3, <1>6, ElementIsObject
  <2>2. indices \in Nat
    BY <1>1, WaitingFacts DEF IsFrame, HasItsType
  <2>3. rest \in Seq(Nat)
    <3> HIDE DEF sizes, indices
    <3>1. indices + 1 \in Int /\ Len(sizes) \in Int
      BY <2>1, <2>2
    <3>2. \A i \in (indices + 1) .. Len(sizes) : sizes[i] \in Nat
      BY <2>1, <2>2
    <3> QED
      BY <3>1, <3>2, SubSeqProperties
  <2> DEFINE layer == Arr(rest)
  <2> HIDE DEF rest
  <2>4. /\ layer.kind = "ARRAY" /\ layer.sizes \in Seq(Nat)
        /\ ~IsInnermost(layer) /\ ~IsTemporary(layer)
    BY <2>3 DEF Arr, IsInnermost, IsTemporary, IsBuiltinPtr, IsLiteralLayer
  <2> DEFINE type == <<layer>> \o Tail(array)
  <2> HIDE DEF layer
  <2>5. IsDerived(type) /\ type # NullType /\ IsObject(type)
    BY <2>1, <2>4, ConsIsDerived
  <2>6. Finish(Result(Filled, type, TRUE, FALSE))
    BY <1>6 DEF layer
  <2> HIDE DEF type
  <2> QED
    BY <1>1, <1>2, <2>5, <2>6, OperatorReturns
<1> HIDE DEF rest
<1> QED
  BY <1>1, <1>3, <1>4, <1>5, <1>6, NullKeeps, ExitKeeps

(* A member is a field, which has the type of an object; only a literal     *)
(* itself has no name to look for one under.                                *)
LEMMA AccessMemberKeeps ==
  ASSUME TCInv, Checking("return"), Node(Top.node) \in Operators, result.type # NullType,
         NEW type, IsDerived(type), type # NullType, Kind(type) = "NAMED",
         IsLiteral(type) => IsLiteralLayer(Last(result.type)),
         AccessMember(type)
  PROVE  TCInv'
<1> DEFINE container == Head(type).symbol
           members == Members(container, Datum(Top.node))
           member == CHOOSE s \in members : TRUE
           field == Symbols[member]
<1>1. \/ IsLiteral(type) /\ End("bad_optional_access")
      \/ Exit
      \/ /\ ~IsLiteral(type) /\ container \in DOMAIN Symbols /\ members # {}
         /\ Finish(Result(Filled, field.type, TRUE, field.mutable))
  BY DEF AccessMember
<1>2. CASE IsLiteral(type) /\ End("bad_optional_access")
  <2>1. MayEnd("bad_optional_access")
    BY <1>2 DEF MayEnd
  <2>2. "bad_optional_access" \in Statuses
    BY DEF Statuses
  <2> QED
    BY <1>2, <2>1, <2>2, EndKeeps
<1>3. CASE /\ ~IsLiteral(type) /\ container \in DOMAIN Symbols /\ members # {}
           /\ Finish(Result(Filled, field.type, TRUE, field.mutable))
  <2>1. 1 \in DOMAIN type /\ Head(type) = type[1]
    BY DerivedFacts
  <2>2. container \in TypeSymbols
    BY <1>3, <2>1 DEF IsDerived, Kind, IsLiteral
  <2>3. member \in members
    BY <1>3
  <2>4. IsUsable(member)
    BY <1>3, <2>2, <2>3, DeclarationsAssumption DEF Members
  <2>5. IsDerived(field.type) /\ IsObject(field.type) /\ field.type # NullType
    BY <2>4, WrittenIsDerived DEF IsUsable
  <2> HIDE DEF member
  <2> QED
    BY <1>3, <2>5, OperatorReturns
<1> QED
  BY <1>1, <1>2, <1>3, ExitKeeps

(* A member of a struct or component, or of what a pointer points to.       *)
LEMMA CheckMemAccessKeeps ==
  ASSUME TCInv, CheckMemAccess
  PROVE  TCInv'
<1> DEFINE type == result.type
<1>1. /\ Checking("return") /\ Node(Top.node) \in {".", "->"}
      /\ \/ type = NullType /\ End("null_pointer")
         \/ Exit
         \/ type # NullType /\ Kind(type) = "NAMED" /\ AccessMember(type)
         \/ /\ type # NullType /\ Kind(type) = "PTR" /\ ~IsBuiltinPtr(Head(type))
            /\ Kind(Tail(type)) = "NAMED" /\ AccessMember(Tail(type))
  BY DEF CheckMemAccess, Returning
<1>2. Node(Top.node) \in Operators
  BY <1>1 DEF Operators
<1>3. IsResult(result) /\ IsDerived(type)
  BY <1>1, <1>2, OperandFacts DEF IsResult
<1>4. CASE type # NullType /\ Kind(type) = "NAMED" /\ AccessMember(type)
  <2>1. IsInnermost(Head(type))
    BY <1>4 DEF Kind, IsInnermost
  <2>2. Last(type) = Head(type)
    BY <1>3, <1>4, <2>1, DerivedFacts
  <2> QED
    BY <1>1, <1>2, <1>3, <1>4, <2>2, AccessMemberKeeps DEF IsLiteral
<1>5. CASE /\ type # NullType /\ Kind(type) = "PTR" /\ ~IsBuiltinPtr(Head(type))
           /\ Kind(Tail(type)) = "NAMED" /\ AccessMember(Tail(type))
  <2>1. ~IsInnermost(Head(type))
    BY <1>5 DEF Kind, IsInnermost
  <2>2. IsDerived(Tail(type)) /\ Tail(type) # NullType
    BY <1>3, <1>5, <2>1, TailIsDerived
  <2>3. ~IsLiteral(Tail(type))
    <3>1. /\ Len(type) \in Nat /\ Len(type) >= 1 /\ DOMAIN type = 1 .. Len(type)
          /\ Len(Tail(type)) = Len(type) - 1
          /\ \A i \in 1 .. (Len(type) - 1) : Tail(type)[i] = type[i + 1]
      BY <1>3, <1>5, DerivedFacts
    <3>2. Len(Tail(type)) >= 1 /\ Head(Tail(type)) = Tail(type)[1]
      BY <2>2, DerivedFacts
    <3>3. 1 \in 1 .. (Len(type) - 1) /\ 1 + 1 = 2 /\ 2 \in DOMAIN type /\ 2 # 1
      BY <3>1, <3>2
    <3>4. ~IsTemporary(type[2])
      BY <1>3, <3>3 DEF IsDerived
    <3> QED
      BY <3>1, <3>2, <3>3, <3>4 DEF IsLiteral, IsTemporary
  <2> QED
    BY <1>1, <1>2, <1>5, <2>2, <2>3, AccessMemberKeeps
<1> QED
  BY <1>1, <1>3, <1>4, <1>5, NullKeeps, ExitKeeps

----------------------------------------------------------------------------
(* Initializers of structs.                                                 *)
LEMMA StartStructInitKeeps ==
  ASSUME TCInv, status = "checking", NEW n, Meet({"STRUCT_INIT"}, n),
         NEW type, IsDerived(type),
         type = NullType => MayEnd("null_pointer"),
         type # NullType /\ Kind(type) = "NAMED" /\ IsLiteral(type) =>
           MayEnd("bad_optional_access"),
         NEW st,
         \A f : IsFrame(f) /\ Node(f.node) = "STRUCT_INIT" => StackFits(Append(st, f), "member"),
         StartStructInit(n, type, st)
  PROVE  TCInv'
<1> DEFINE f == Frame(n, type, 0)
<1>1. /\ n \in Vocabularies[vocabulary] /\ Node(n) = "STRUCT_INIT"
      /\ size + Brings(n) <= MaxNodes[vocabulary]
  BY DEF Meet
<1>2. \/ type = NullType /\ End("null_pointer")
      \/ type # NullType /\ Kind(type) = "NAMED" /\ IsLiteral(type) /\ End("bad_optional_access")
      \/ Exit
      \/ /\ type # NullType /\ Head(type).symbol \in Structs
         /\ Enter(n, "member", Append(st, f))
  BY DEF StartStructInit
<1>3. "null_pointer" \in Statuses /\ "bad_optional_access" \in Statuses
  BY DEF Statuses
<1>4. CASE /\ type # NullType /\ Head(type).symbol \in Structs
           /\ Enter(n, "member", Append(st, f))
  <2>1. HasItsType(f)
    BY <1>1, <1>4 DEF HasItsType, Frame, ContainerKinds, ArrayInits
  <2>2. 0 \in 0 .. (UINT8_VALUES - 1)
    BY BoundsAssumption
  <2>3. IsFrame(f) /\ f.node = n
    BY <1>1, <2>1, <2>2, FrameIsFrame DEF BodyKinds, ExpressionKinds
  <2> HIDE DEF f
  <2>4. StackFits(Append(st, f), "member")
    BY <1>1, <2>3
  <2>5. "member" \in Points \ {"return"}
    BY DEF Points
  <2> QED
    BY <1>1, <1>4, <2>4, <2>5, EnterKeeps
<1> HIDE DEF f
<1> QED
  BY <1>2, <1>3, <1>4, EndKeeps, ExitKeeps

(* The initializer that takes its members, and the struct it is for.        *)
LEMMA MemberFacts ==
  ASSUME TCInv, status = "checking", Node(Top.node) = "STRUCT_INIT"
  PROVE  /\ Top.type # NullType /\ IsDerived(Top.type)
         /\ Len(Top.parts) < Len(InitDecls) =>
              LET d == InitDecls[Len(Top.parts) + 1]
              IN  /\ d \in ToSet(InitDecls)
                  /\ Symbols[d].sym_type # "FIELD" => Symbols[d].sym_type = "STRUCT"
                  /\ Symbols[d].sym_type = "FIELD" => IsUsable(d)
<1> DEFINE struct == Head(Top.type).symbol
           d == InitDecls[Len(Top.parts) + 1]
<1>1. Top.type # NullType /\ IsDerived(Top.type) /\ struct \in Structs
  BY WaitingFacts DEF IsFrame, HasItsType
<1>2. struct \in Containers /\ struct \in TypeSymbols \cap DOMAIN Symbols
  BY <1>1 DEF Containers, TypeSymbols, Structs, OfKind
<1>3. InitDecls \in Seq(DOMAIN Symbols)
  BY <1>2, DeclarationsAssumption DEF InitDecls
<1>4. Len(Top.parts) \in Nat
  BY WaitingFacts
<1>5. ASSUME Len(Top.parts) < Len(InitDecls)
      PROVE  d \in ToSet(InitDecls)
  <2> DEFINE k == Len(Top.parts)
  <2>1. k \in Nat /\ k < Len(InitDecls)
    BY <1>4, <1>5
  <2> HIDE DEF k
  <2>2. k + 1 \in DOMAIN InitDecls
    BY <1>3, <2>1
  <2> QED
    BY <2>2 DEF ToSet, k
<1>6. ASSUME d \in ToSet(InitDecls)
      PROVE  /\ Symbols[d].sym_type # "FIELD" => Symbols[d].sym_type = "STRUCT"
             /\ Symbols[d].sym_type = "FIELD" => IsUsable(d)
  <2> HIDE DEF d
  <2>1. d \in ToSet(Symbols[struct].decls)
    BY <1>6 DEF InitDecls
  <2> QED
    BY <1>1, <1>2, <2>1, DeclarationsAssumption
<1> QED
  BY <1>1, <1>5, <1>6

(* What is declared in a struct and is no field is a struct.                *)
LEMMA CheckMemberKeeps ==
  ASSUME TCInv, CheckMember
  PROVE  TCInv'
<1>1. /\ status = "checking" /\ at = "member" /\ at \in InStatement
      /\ Len(Top.parts) < Len(InitDecls)
  BY DEF CheckMember, Checking, InStatement, Points
<1>2. \/ NextMember.sym_type # "FIELD" /\ End("bad_cast")
      \/ NextMember.sym_type = "FIELD" /\ Goto("expression", stack)
      \/ Exit
  BY DEF CheckMember
<1>3. StackFits(stack, "member") /\ Node(Top.node) = "STRUCT_INIT"
  BY <1>1, WaitingFacts DEF StackFits
<1> DEFINE d == InitDecls[Len(Top.parts) + 1]
<1>4. NextMember = Symbols[d]
  BY DEF NextMember
<1>5. /\ d \in ToSet(InitDecls)
      /\ Symbols[d].sym_type # "FIELD" => Symbols[d].sym_type = "STRUCT"
  BY <1>1, <1>3, MemberFacts
<1>6. CASE NextMember.sym_type # "FIELD" /\ End("bad_cast")
  <2> HIDE DEF d
  <2>1. \E x \in ToSet(InitDecls) : Symbols[x].sym_type = "STRUCT"
    BY <1>4, <1>5, <1>6
  <2>2. MayEnd("bad_cast")
    BY <2>1 DEF MayEnd
  <2>3. "bad_cast" \in Statuses
    BY DEF Statuses
  <2> QED
    BY <1>6, <2>2, <2>3, EndKeeps
<1>7. CASE NextMember.sym_type = "FIELD" /\ Goto("expression", stack)
  <2>1. IsAwaiting(stack[Len(stack)])
    BY <1>1, <1>4, <1>7 DEF IsAwaiting, Awaited, InitDecls, Top
  <2>2. "member" \in InStatement /\ "expression" \in InStatement
        /\ TopFits(OnTop(stack), "expression") /\ "expression" \in Points \ {"return"}
    BY DEF InStatement, Points, TopFits
  <2>3. StackFits(stack, "expression")
    BY <1>3, <2>1, <2>2, KeepStack
  <2> QED
    BY <1>1, <1>7, <2>2, <2>3, GotoKeeps
<1> QED
  BY <1>2, <1>6, <1>7, ExitKeeps

(* A member has its value.                                                  *)
LEMMA EndMemberKeeps ==
  ASSUME TCInv, EndMember
  PROVE  TCInv'
<1>1. /\ Checking("return") /\ Node(Top.node) = "STRUCT_INIT"
      /\ IfSame(Compared(NextMember.type, result.type), Goto("member", ReplaceTop(Filled)))
  BY DEF EndMember, Returning
<1>2. /\ status = "checking" /\ at \in InStatement /\ at = "return" /\ IsResult(result)
      /\ IsFrame(Filled) /\ Filled.node = Top.node
  BY <1>1, ReturnedFacts
<1>3. CASE Compared(NextMember.type, result.type) = "null" /\ End("null_pointer")
  <2> DEFINE d == InitDecls[Len(Top.parts) + 1]
  <2>1. Len(Top.parts) < Len(InitDecls) /\ Symbols[d].sym_type = "FIELD"
    BY <1>1, <1>2, WaitingFacts DEF IsAwaiting, Awaited, InitDecls
  <2>2. IsWritten(Symbols[d].type)
    BY <1>1, <1>2, <2>1, MemberFacts DEF IsUsable
  <2>3. IsWritten(NextMember.type)
    BY <2>2 DEF NextMember
  <2> QED
    BY <1>2, <1>3, <2>3, WrittenHasLayers, ComparedWithTypeKeeps
<1>4. CASE Goto("member", ReplaceTop(Filled))
  <2>1. "member" \in InStatement /\ "member" \in Points \ {"return"}
        /\ TopFits(OnTop(stack), "member")
    BY <1>1, WaitingFacts DEF InStatement, Points, TopFits
  <2>2. StackFits(stack, at) /\ OnTop(stack) = Node(Top.node)
    BY WaitingFacts
  <2>3. ~IsCreating(Filled)
    BY <1>1, <1>2 DEF IsCreating
  <2>4. StackFits(ReplaceTop(Filled), "member")
    BY <1>2, <2>1, <2>2, <2>3, ReplaceCall DEF ReplaceTop
  <2> QED
    BY <1>2, <1>4, <2>1, <2>4, GotoKeeps
<1> QED
  BY <1>1, <1>3, <1>4, ExitKeeps DEF IfSame

(* All members have theirs.                                                 *)
LEMMA EndStructInitKeeps ==
  ASSUME TCInv, EndStructInit
  PROVE  TCInv'
<1>1. /\ status = "checking" /\ at = "member" /\ at \in InStatement
      /\ Finish(Temporary(Top, Top.type))
  BY DEF EndStructInit, Checking, InStatement, Points
<1>2. Node(Top.node) = "STRUCT_INIT"
  BY <1>1, WaitingFacts DEF StackFits
<1>3. Top.type # NullType /\ IsDerived(Top.type)
  BY <1>1, <1>2, MemberFacts
<1>4. IsResult(Temporary(Top, Top.type))
  BY <1>2, <1>3, TemporaryResult
<1>5. Temporary(Top, Top.type).type = Top.type
  BY DEF Temporary, Result
<1>6. Node(Top.node) \in ExpressionKinds
  BY <1>2 DEF ExpressionKinds
<1> QED
  BY <1>1, <1>3, <1>4, <1>5, <1>6, FinishKeeps

(* What a struct is created from is the name of one; its initializer always *)
(* returns a type.                                                          *)
LEMMA CheckStructCreateKeeps ==
  ASSUME TCInv, CheckStructCreate
  PROVE  TCInv'
<1>1. /\ Checking("return") /\ Node(Top.node) = "STRUCT_CREATE"
      /\ \/ \E n : Meet({"STRUCT_INIT"}, n) /\ StartStructInit(n, result.type, ReplaceTop(Filled))
         \/ IsPart(2) /\ Finish(SameAs(Filled, result))
  BY DEF CheckStructCreate, Returning
<1>2. /\ status = "checking" /\ at \in InStatement /\ at = "return" /\ IsResult(result)
      /\ IsFrame(Filled) /\ Filled.node = Top.node
      /\ IsCreating(Top) => result.type # NullType
      /\ Len(Filled.parts) = Len(Top.parts) + 1
  BY <1>1, ReturnedFacts
<1>3. CASE \E n : Meet({"STRUCT_INIT"}, n) /\ StartStructInit(n, result.type, ReplaceTop(Filled))
  <2> DEFINE st == ReplaceTop(Filled)
  <2>1. PICK n : Meet({"STRUCT_INIT"}, n) /\ StartStructInit(n, result.type, st)
    BY <1>3
  <2>2. StackFits(st, "return")
    <3>1. StackFits(stack, at) /\ OnTop(stack) = Node(Top.node)
      BY WaitingFacts
    <3>2. IsAwaiting(Filled) /\ TopFits(OnTop(stack), "return")
      BY <1>1, <1>2 DEF IsAwaiting, TopFits
    <3> QED
      BY <1>2, <3>1, <3>2, ReplaceCall DEF ReplaceTop
  <2>3. IsDerived(result.type) /\ (result.type = NullType => MayEnd("null_pointer"))
    BY <1>2 DEF IsResult, NullIsOfString, MayEnd
  <2>4. ASSUME result.type # NullType, Kind(result.type) = "NAMED", IsLiteral(result.type)
        PROVE  MayEnd("bad_optional_access")
    <3>1. IsInnermost(Head(result.type))
      BY <2>4 DEF Kind, IsInnermost
    <3>2. Last(result.type) = Head(result.type)
      BY <2>3, <2>4, <3>1, DerivedFacts
    <3> QED
      BY <2>4, <3>2 DEF MayEnd, IsLiteral
  <2> HIDE DEF st
  <2>5. ASSUME NEW f, IsFrame(f), Node(f.node) = "STRUCT_INIT"
        PROVE  StackFits(Append(st, f), "member")
    <3>1. "return" \in InStatement /\ "member" \in InStatement
      BY DEF InStatement, Points
    <3>2. ~IsCreating(f) /\ Node(f.node) \in ExpressionKinds /\ TopFits(Node(f.node), "member")
      BY <2>5 DEF IsCreating, ExpressionKinds, TopFits
    <3> QED
      BY <2>2, <2>5, <3>1, <3>2, PushExpression
  <2>6. \A f : IsFrame(f) /\ Node(f.node) = "STRUCT_INIT" => StackFits(Append(st, f), "member")
    BY <2>5
  <2>7. result.type # NullType /\ Kind(result.type) = "NAMED" /\ IsLiteral(result.type) =>
          MayEnd("bad_optional_access")
    BY <2>4
  <2> DEFINE type == result.type
  <2> HIDE DEF type
  <2>8. /\ IsDerived(type) /\ (type = NullType => MayEnd("null_pointer"))
        /\ type # NullType /\ Kind(type) = "NAMED" /\ IsLiteral(type) =>
             MayEnd("bad_optional_access")
        /\ StartStructInit(n, type, st)
    BY <2>1, <2>3, <2>7 DEF type
  <2> QED
    BY <1>2, <2>1, <2>6, <2>8, StartStructInitKeeps
<1>4. CASE IsPart(2) /\ Finish(SameAs(Filled, result))
  <2> DEFINE k == Len(Top.parts)
             m == Len(Filled.parts)
  <2>0. k \in Nat /\ m = k + 1 /\ m = 2
    BY <1>2, <1>4, WaitingFacts DEF IsPart
  <2> HIDE DEF k, m
  <2>1. k = 1
    BY <2>0
  <2>2. Top.parts # <<>>
    BY <2>1 DEF k
  <2>3. result.type # NullType /\ Node(Top.node) \in Operators
    BY <1>1, <1>2, <2>2 DEF IsCreating, Operators
  <2> QED
    BY <1>1, <1>2, <1>4, <2>3, OperatorPassesOn
<1> QED
  BY <1>1, <1>3, <1>4

----------------------------------------------------------------------------
(* Initializers of arrays.  An array without sizes is the only one that has *)
(* none on the outermost level; below, there is one more level by the time  *)
(* it is reached.                                                           *)
LEMMA StartArrInitKeeps ==
  ASSUME TCInv, status = "checking", at \in InStatement, at \notin {"member", "return"},
         NEW n, Meet(ArrayInits, n),
         NEW type, IsWritten(type), IsLegalType(type), Kind(type) = "ARRAY",
         NEW depth \in 0 .. (UINT8_VALUES - 1),
         depth >= Len(Head(type).sizes) => MayEnd("out_of_range"),
         StartArrInit(n, type, depth, stack)
  PROVE  TCInv'
<1> DEFINE f == Frame(n, type, depth)
           is_inner == depth + 1 < Len(Head(type).sizes)
           point == IF is_inner THEN "nested" ELSE "expression"
<1>1. /\ n \in Vocabularies[vocabulary] /\ Node(n) \in ArrayInits
      /\ size + Brings(n) <= MaxNodes[vocabulary]
  BY DEF Meet
<1> DEFINE none == depth >= Len(Head(type).sizes)
           some == depth < Len(Head(type).sizes)
           enter == Datum(n) = Head(type).sizes[depth + 1]
                    /\ is_inner = (Node(n) = "NESTED_ARR_INIT")
<1>2. \/ none /\ End("out_of_range")
      \/ Exit
      \/ enter /\ Enter(n, point, Append(stack, f))
  <2>1. none \/ some
    <3>1. Head(type).sizes \in Seq(Nat)
      BY WrittenIsDerived, ElementIsObject
    <3> QED
      BY <3>1, BoundsAssumption
  <2>2. (CASE none -> End("out_of_range")
           [] some -> IF enter THEN Enter(n, point, Append(stack, f)) ELSE Exit)
    BY Zenon DEF StartArrInit
  <2> HIDE DEF none, some, enter, f, point
  <2> QED
    BY <2>1, <2>2, Zenon
<1>3. "out_of_range" \in Statuses
  BY DEF Statuses
<1>4. CASE enter /\ Enter(n, point, Append(stack, f))
  <2>1. HasItsType(f)
    BY <1>1, <1>4 DEF HasItsType, Frame, ContainerKinds, ArrayInits
  <2>2. Node(n) \in ExpressionKinds /\ Node(n) \in BodyKinds
    BY <1>1 DEF BodyKinds, ExpressionKinds
  <2>3. IsFrame(f) /\ f.node = n
    BY <2>1, <2>2, FrameIsFrame
  <2> HIDE DEF f
  <2>4. point \in InStatement /\ point \in Points \ {"return"} /\ TopFits(Node(n), point)
    BY <1>4 DEF InStatement, Points, TopFits
  <2>5. IsAwaiting(f) /\ ~IsCreating(f)
    BY <1>1, <2>3 DEF IsAwaiting, IsCreating, ArrayInits
  <2>6. StackFits(stack, at)
    BY WaitingFacts
  <2> HIDE DEF point
  <2>7. StackFits(Append(stack, f), point)
    BY <2>2, <2>3, <2>4, <2>5, <2>6, PushExpression
  <2> QED
    BY <1>1, <1>4, <2>4, <2>7, EnterKeeps
<1> HIDE DEF f, point, enter
<1> QED
  BY <1>2, <1>3, <1>4, EndKeeps, ExitKeeps

(* The depth does not wrap around: the level below is one of the type's.    *)
LEMMA CheckNestedKeeps ==
  ASSUME TCInv, CheckNested
  PROVE  TCInv'
<1> DEFINE type == Top.type
           depth == (Top.depth + 1) % UINT8_VALUES
<1>1. /\ status = "checking" /\ at = "nested" /\ at \in InStatement
  BY DEF CheckNested, Checking, InStatement, Points
<1>2. PICK n : Meet(ArrayInits, n) /\ StartArrInit(n, type, depth, stack)
  BY DEF CheckNested, ArrayInits
<1>3. Node(Top.node) = "NESTED_ARR_INIT" /\ IsFrame(Top) /\ Top.depth \in 0 .. (UINT8_VALUES - 1)
  BY <1>1, WaitingFacts DEF StackFits
<1>4. /\ IsWritten(type) /\ IsLegalType(type) /\ Kind(type) = "ARRAY"
      /\ Top.depth + 1 < Len(Head(type).sizes)
  BY <1>3 DEF IsFrame, HasItsType, ArrayInits
<1>5. Head(type).sizes \in Seq(Nat)
  BY <1>4, WrittenIsDerived, ElementIsObject
<1> DEFINE len == Len(Head(type).sizes)
           above == Top.depth
<1>6. len \in Nat /\ above \in Nat /\ above + 1 < len /\ UINT8_VALUES \in Nat \ {0}
      /\ above + 1 <= UINT8_VALUES
  BY <1>3, <1>4, <1>5, BoundsAssumption
<1>7. depth = (above + 1) % UINT8_VALUES
  OBVIOUS
<1> HIDE DEF len, above, depth
<1>8. depth \in 0 .. (UINT8_VALUES - 1) /\ ~(depth >= len)
  <2>1. CASE above + 1 = UINT8_VALUES
    BY <1>6, <1>7, <2>1
  <2>2. CASE above + 1 < UINT8_VALUES
    BY <1>6, <1>7, <2>2
  <2> QED
    BY <1>6, <2>1, <2>2
<1> QED
  BY <1>1, <1>2, <1>4, <1>8, StartArrInitKeeps DEF len

(* An element of an initializer of an array is done.                        *)
LEMMA NextElementKeeps ==
  ASSUME TCInv, Checking("return"), Node(Top.node) \in ArrayInits,
         NEW point \in {"expression", "nested"}, TopFits(Node(Top.node), point),
         NextElement(point)
  PROVE  TCInv'
<1>1. /\ status = "checking" /\ at \in InStatement /\ at = "return"
      /\ IsFrame(Filled) /\ Filled.node = Top.node /\ Node(Filled.node) # "NONE"
  BY ReturnedFacts DEF ArrayInits
<1>2. CASE Finish(Temporary(Filled, Top.type))
  <2>1. IsWritten(Top.type) /\ IsLegalType(Top.type)
    BY WaitingFacts DEF IsFrame, HasItsType
  <2>2. IsDerived(Top.type) /\ Top.type # NullType
    BY <2>1, WrittenIsDerived
  <2>3. IsResult(Temporary(Filled, Top.type))
    BY <1>1, <2>2, TemporaryResult
  <2>4. Node(Top.node) \in ExpressionKinds /\ Node(Top.node) # "STRUCT_INIT"
    BY DEF ExpressionKinds, ArrayInits
  <2> QED
    BY <1>1, <1>2, <2>3, <2>4, FinishKeeps
<1>3. CASE Goto(point, ReplaceTop(Filled))
  <2>1. point \in InStatement /\ point \in Points \ {"return"}
    BY DEF InStatement, Points
  <2>2. StackFits(stack, at) /\ OnTop(stack) = Node(Top.node)
    BY WaitingFacts
  <2>3. IsAwaiting(Filled) /\ ~IsCreating(Filled)
    BY <1>1 DEF IsAwaiting, IsCreating, ArrayInits
  <2>4. StackFits(ReplaceTop(Filled), point)
    BY <1>1, <2>1, <2>2, <2>3, ReplaceCall DEF ReplaceTop
  <2> QED
    BY <1>1, <1>3, <2>1, <2>4, GotoKeeps
<1> QED
  BY <1>2, <1>3 DEF NextElement

(* The innermost elements are compared with what the array is of.           *)
LEMMA EndElementKeeps ==
  ASSUME TCInv, EndElement
  PROVE  TCInv'
<1>1. /\ Checking("return") /\ Node(Top.node) \in ArrayInits
      /\ \/ IfSame(Compared(Tail(Top.type), result.type), NextElement("expression"))
         \/ Node(Top.node) = "NESTED_ARR_INIT" /\ NextElement("nested")
  BY DEF EndElement, Returning, ArrayInits
<1>2. /\ \/ NextElement("expression") \/ Exit
         \/ Compared(Tail(Top.type), result.type) = "null" /\ End("null_pointer")
         \/ Node(Top.node) = "NESTED_ARR_INIT" /\ NextElement("nested")
  BY <1>1 DEF IfSame
<1>3. TopFits(Node(Top.node), "expression")
      /\ (Node(Top.node) = "NESTED_ARR_INIT" => TopFits(Node(Top.node), "nested"))
  BY DEF TopFits
<1>4. CASE Compared(Tail(Top.type), result.type) = "null" /\ End("null_pointer")
  <2>1. IsWritten(Top.type) /\ IsLegalType(Top.type) /\ Kind(Top.type) = "ARRAY"
    BY <1>1, WaitingFacts DEF IsFrame, HasItsType
  <2>2. IsDerived(Tail(Top.type)) /\ IsObject(Tail(Top.type)) /\ Tail(Top.type) # NullType
    BY <2>1, WrittenIsDerived, ElementIsObject
  <2>3. HasLayers(Tail(Top.type)) /\ ~IsOverNull(Tail(Top.type))
    BY <2>2, DerivedHasLayers
  <2>4. IsResult(result)
    BY <1>1, ReturnedFacts
  <2> QED
    BY <1>4, <2>3, <2>4, ComparedWithTypeKeeps
<1> QED
  BY <1>1, <1>2, <1>3, <1>4, NextElementKeeps, ExitKeeps

(* The initializer of a variable is met.                                    *)
LEMMA CheckInitializerKeeps ==
  ASSUME TCInv, CheckInitializer
  PROVE  TCInv'
<1> DEFINE type == Top.type
<1>1. /\ status = "checking" /\ at = "initializer" /\ at \in InStatement
  BY DEF CheckInitializer, Checking, InStatement, Points
<1>2. \/ Exit
      \/ /\ Kind(type) = "ARRAY"
         /\ \E n : Meet(ArrayInits, n) /\ StartArrInit(n, type, 0, stack)
      \/ \E n : Meet({"STRUCT_INIT"}, n) /\ StartStructInit(n, type, stack)
      \/ Goto("expression", stack)
  BY DEF CheckInitializer, ArrayInits
<1>3. StackFits(stack, "initializer") /\ Node(Top.node) = "VAR_INIT" /\ IsFrame(Top)
  BY <1>1, WaitingFacts DEF StackFits
<1>4. IsWritten(type) /\ IsLegalType(type)
  BY <1>3 DEF IsFrame, HasItsType
<1>5. IsDerived(type) /\ IsObject(type) /\ type # NullType
  BY <1>4, WrittenIsDerived
<1>6. CASE /\ Kind(type) = "ARRAY"
           /\ \E n : Meet(ArrayInits, n) /\ StartArrInit(n, type, 0, stack)
  <2>1. PICK n : Meet(ArrayInits, n) /\ StartArrInit(n, type, 0, stack)
    BY <1>6
  <2>2. 0 \in 0 .. (UINT8_VALUES - 1)
    BY BoundsAssumption
  <2>3. ASSUME 0 >= Len(Head(type).sizes)
        PROVE  MayEnd("out_of_range")
    <3>1. Head(type).sizes \in Seq(Nat)
      BY <1>5, <1>6, ElementIsObject
    <3>2. Head(type).sizes = <<>>
      BY <2>3, <3>1, EmptySeq
    <3> QED
      BY <3>2 DEF MayEnd
  <2> QED
    BY <1>1, <1>4, <1>6, <2>1, <2>2, <2>3, StartArrInitKeeps
<1>7. CASE \E n : Meet({"STRUCT_INIT"}, n) /\ StartStructInit(n, type, stack)
  <2>1. PICK n : Meet({"STRUCT_INIT"}, n) /\ StartStructInit(n, type, stack)
    BY <1>7
  <2>2. ~IsLiteral(type)
    <3>1. 1 \in DOMAIN type /\ Head(type) = type[1]
      BY <1>5, DerivedFacts
    <3> QED
      BY <1>4, <3>1 DEF IsLiteral, IsWritten
  <2>3. ASSUME NEW f, IsFrame(f), Node(f.node) = "STRUCT_INIT"
        PROVE  StackFits(Append(stack, f), "member")
    <3>1. "initializer" \in InStatement /\ "member" \in InStatement
      BY DEF InStatement, Points
    <3>2. ~IsCreating(f) /\ Node(f.node) \in ExpressionKinds /\ TopFits(Node(f.node), "member")
      BY <2>3 DEF IsCreating, ExpressionKinds, TopFits
    <3> QED
      BY <1>3, <2>3, <3>1, <3>2, PushExpression
  <2>4. \A f : IsFrame(f) /\ Node(f.node) = "STRUCT_INIT" => StackFits(Append(stack, f), "member")
    BY <2>3
  <2> HIDE DEF type
  <2> QED
    BY <1>1, <1>5, <2>1, <2>2, <2>4, StartStructInitKeeps
<1>8. CASE Goto("expression", stack)
  <2>1. IsAwaiting(stack[Len(stack)])
    BY <1>3 DEF IsAwaiting, Top
  <2>2. "initializer" \in InStatement /\ "expression" \in InStatement
        /\ TopFits(OnTop(stack), "expression") /\ "expression" \in Points \ {"return"}
    BY DEF InStatement, Points, TopFits
  <2>3. StackFits(stack, "expression")
    BY <1>3, <2>1, <2>2, KeepStack
  <2> QED
    BY <1>1, <1>8, <2>2, <2>3, GotoKeeps
<1> QED
  BY <1>2, <1>6, <1>7, <1>8, ExitKeeps

----------------------------------------------------------------------------
(* The invariant holds at the start, which is a module's declarations.      *)
LEMMA InitTCInv ==
  ASSUME Init
  PROVE  TCInv
<1>1. PICK n \in Vocabularies[vocabulary] : Node(n) = "MODULE" /\ stack = <<Call(n)>>
  BY DEF Init
<1>2. /\ vocabulary \in DOMAIN Vocabularies /\ size = 0 /\ at = "decls" /\ status = "checking"
  BY DEF Init
<1>3. Datum(n) \in OfKind("MODULE")
  BY <1>1, <1>2, NodesAssumption
<1> DEFINE f == Call(n)
<1>4. IsFrame(f) /\ f.node = n /\ IsAwaiting(f) /\ ~IsCreating(f)
  BY <1>1, <1>3, CallIsFrame DEF ContainerKinds
<1> HIDE DEF f
<1>5. stack = <<f>>
  BY <1>1 DEF f
<1>6. /\ IsSeq(stack) /\ stack # <<>> /\ Len(stack) = 1 /\ DOMAIN stack = {1} /\ stack[1] = f
  <2>1. <<f>> \in Seq({f})
    OBVIOUS
  <2>2. IsSeq(<<f>>)
    BY <2>1, SeqOfItsOwn
  <2> QED
    BY <1>5, <2>2
<1>7. StackFits(stack, at)
  <2>1. Node(f.node) = "MODULE"
    BY <1>1, <1>4
  <2> QED
    BY <1>2, <1>4, <1>6, <2>1 DEF StackFits, IsCreatedBelow, ContainerKinds
<1>8. size \in 0 .. MaxNodes[vocabulary]
  BY <1>2, BoundsAssumption
<1>9. at \in Points /\ status \in Statuses /\ FailsOnlyOn
  BY <1>2 DEF Points, Statuses, FailsOnlyOn, MayEnd
<1> QED
  BY <1>2, <1>7, <1>8, <1>9 DEF TCInv

(* And every step keeps it.                                                 *)
LEMMA NextTCInv ==
  ASSUME TCInv, [Next]_vars
  PROVE  TCInv'
<1>1. ASSUME \/ CheckContainer \/ EndOfContainer \/ CheckField \/ CheckFunction
             \/ EndOfBody \/ CheckOtherStatement \/ CheckExprStatement \/ CheckReturn
             \/ CheckVarDecl \/ CheckInitializer \/ EndStatement
      PROVE  TCInv'
  <2>1. CheckOtherStatement => Exit
    BY DEF CheckOtherStatement
  <2> QED
    BY <1>1, <2>1, CheckContainerKeeps, EndOfContainerKeeps, CheckFieldKeeps,
       CheckFunctionKeeps, EndOfBodyKeeps, ExitKeeps, CheckExprStatementKeeps,
       CheckReturnKeeps, CheckVarDeclKeeps, CheckInitializerKeeps, EndStatementKeeps
<1>2. ASSUME \/ CheckIntLiteral \/ CheckLiteral \/ CheckIdent \/ CheckCall
             \/ EnterExpression \/ CheckCastType
      PROVE  TCInv'
  <2>1. CheckCall => Exit
    BY DEF CheckCall
  <2> QED
    BY <1>2, <2>1, CheckIntLiteralKeeps, CheckLiteralKeeps, CheckIdentKeeps, ExitKeeps,
       EnterExpressionKeeps, CheckCastTypeKeeps
<1>3. ASSUME \/ CheckPrePostIncDec \/ CheckNegateNot \/ CheckAddrOf \/ CheckRefOf
             \/ CheckDeref \/ UnaryOfNull
      PROVE  TCInv'
  BY <1>3, CheckIncDecNegateNotKeep, CheckAddrOfKeeps, CheckRefOfKeeps, CheckDerefKeeps,
     UnaryOfNullKeeps
<1>4. ASSUME \/ EndFirstOperand \/ CheckArith \/ CheckShiftLog \/ CheckCmp \/ BinaryOfNull
             \/ CheckTernary \/ CheckAssign \/ CheckCast \/ CheckIndex \/ CheckSubscript
             \/ CheckMemAccess
      PROVE  TCInv'
  BY <1>4, EndFirstOperandKeeps, CheckArithKeeps, CheckShiftLogKeeps, CheckCmpKeeps,
     BinaryOfNullKeeps, CheckTernaryKeeps, CheckAssignKeeps, CheckCastKeeps, CheckIndexKeeps,
     CheckSubscriptKeeps, CheckMemAccessKeeps
<1>5. ASSUME \/ CheckMember \/ EndMember \/ EndStructInit \/ CheckStructCreate
             \/ CheckNested \/ EndElement
      PROVE  TCInv'
  BY <1>5, CheckMemberKeeps, EndMemberKeeps, EndStructInitKeeps, CheckStructCreateKeeps,
     CheckNestedKeeps, EndElementKeeps
<1>6. ASSUME UNCHANGED vars
      PROVE  TCInv'
  <2>1. /\ vocabulary' = vocabulary /\ size' = size /\ at' = at /\ result' = result
        /\ stack' = stack /\ status' = status
    BY <1>6 DEF vars, control
  <2>2. Top' = Top /\ InitDecls' = InitDecls
    BY <2>1 DEF Top, InitDecls
  <2>3. MayEnd(status)' <=> MayEnd(status)
    BY <2>1, <2>2 DEF MayEnd
  <2> QED
    BY <2>1, <2>2, <2>3 DEF TCInv, FailsOnlyOn
<1>7. Step \/ UNCHANGED vars
  BY DEF Next, Ended
<1> QED
  BY <1>1, <1>2, <1>3, <1>4, <1>5, <1>6, <1>7 DEF Step

(* So it holds in every state.                                              *)
LEMMA Invariance == Spec => []TCInv
<1>1. Init => TCInv
  BY InitTCInv
<1>2. TCInv /\ [Next]_vars => TCInv'
  BY NextTCInv
<1> QED
  BY <1>1, <1>2, PTL DEF Spec

----------------------------------------------------------------------------
(* The checker ends in one of the ways the code does not handle only where  *)
(* an operand has a builtin pointer in its type or is a dereferenced        *)
(* string, is a literal, for an array without sizes, and in a struct with a *)
(* struct inside.                                                           *)
THEOREM FailuresAreThese == Spec => []FailsOnlyOn
<1>1. TCInv => FailsOnlyOn
  BY DEF TCInv
<1> QED
  BY <1>1, Invariance, PTL

(* What is in a program's stack: a function only below statements, and one. *)
LEMMA OneFunction ==
  ASSUME NEW st, NEW point, StackFits(st, point)
  PROVE  LET functions == {i \in DOMAIN st : Node(st[i].node) = "FN"}
         IN  /\ point = "decls" <=> functions = {}
             /\ Cardinality(functions) <= 1
<1> DEFINE functions == {i \in DOMAIN st : Node(st[i].node) = "FN"}
<1>1. CASE point = "decls"
  <2>1. functions = {}
    BY <1>1 DEF StackFits, ContainerKinds
  <2> HIDE DEF functions
  <2>2. Cardinality(functions) = 0
    BY <2>1, FS_EmptySet
  <2> QED
    BY <1>1, <2>1, <2>2 DEF functions
<1>2. CASE point # "decls"
  <2>1. PICK f \in DOMAIN st : IsBodyOf(f, st)
    BY <1>2 DEF StackFits
  <2>2. DOMAIN st = 1 .. Len(st) /\ Len(st) \in Nat
    BY StackFacts
  <2>3. ASSUME NEW i \in DOMAIN st, Node(st[i].node) = "FN"
        PROVE  i = f
    <3>1. i < f \/ i = f \/ i = f + 1 \/ i > f + 1
      BY <2>1, <2>2
    <3> QED
      BY <2>1, <2>3, <3>1
         DEF IsBodyOf, ContainerKinds, StatementKinds, ExpressionKinds, Operators, ArrayInits
  <2>4. Node(st[f].node) = "FN"
    BY <2>1 DEF IsBodyOf
  <2>5. functions = {f}
    BY <2>3, <2>4
  <2> HIDE DEF functions
  <2>6. Cardinality(functions) = 1
    BY <2>5, FS_Singleton
  <2> QED
    BY <1>2, <2>5, <2>6 DEF functions
<1> QED
  BY <1>1, <1>2

(* The checker's state has its type: the calls that wait are a module's     *)
(* declarations and, but while it walks over declarations, one function's   *)
(* body, with the depth of initializers in what a uint8_t holds.            *)
THEOREM CheckerTypeCorrect == Spec => []TypeOK
<1>1. ASSUME TCInv
      PROVE  TypeOK
  <2>1. StackFits(stack, at)
    BY <1>1 DEF TCInv
  <2>2. stack # <<>> /\ Node(stack[1].node) = "MODULE"
    BY <2>1 DEF StackFits
  <2>3. \A i \in DOMAIN stack : stack[i].depth \in 0 .. (UINT8_VALUES - 1)
    BY <2>1 DEF StackFits, IsFrame
  <2>4. at = "return" => result # NoResult
    <3>1. NoResult.node = <<"NONE">>
      BY DEF NoResult, Temporary, Result, Call, Frame
    <3> QED
      BY <1>1, <3>1 DEF TCInv, IsResult
  <2> DEFINE functions == {i \in DOMAIN stack : Node(stack[i].node) = "FN"}
  <2>5. /\ at = "decls" <=> functions = {}
        /\ Cardinality(functions) <= 1
    BY <2>1, OneFunction
  <2>6. at = "decls" <=> \A i \in DOMAIN stack : Node(stack[i].node) # "FN"
    <3>1. functions = {} <=> \A i \in DOMAIN stack : Node(stack[i].node) # "FN"
      OBVIOUS
    <3> QED
      BY <2>5, <3>1
  <2> HIDE DEF functions
  <2>7. vocabulary \in DOMAIN Vocabularies /\ size \in 0 .. MaxNodes[vocabulary]
        /\ at \in Points /\ status \in Statuses
    BY <1>1 DEF TCInv
  <2> QED
    BY <2>2, <2>3, <2>4, <2>5, <2>6, <2>7 DEF TypeOK, functions
<1>2. TCInv => TypeOK
  BY <1>1
<1> QED
  BY <1>2, Invariance, PTL

(* What the invariant says of every result the checker works with.          *)
LEMMA ResultsAreResults ==
  ASSUME TCInv, NEW res \in Results
  PROVE  IsResult(res)
<1>1. StackFits(stack, at)
  BY DEF TCInv
<1>2. ASSUME NEW i \in ExpressionFrames, res \in ToSet(stack[i].parts)
      PROVE  IsResult(res)
  <2>1. i \in DOMAIN stack /\ IsFrame(stack[i])
    BY <1>1 DEF ExpressionFrames, StackFits
  <2>2. Node(stack[i].node) \in BodyKinds
    BY <2>1 DEF ExpressionFrames, IsFrame, ContainerKinds
  <2> QED
    BY <1>2, <2>1, <2>2 DEF IsFrame
<1>3. ASSUME at = "return", res = result
      PROVE  IsResult(res)
  BY <1>3 DEF TCInv
<1>4. \/ \E i \in ExpressionFrames : res \in ToSet(stack[i].parts)
      \/ at = "return" /\ res = result
  <2>1. res \in UNION {ToSet(stack[i].parts) : i \in ExpressionFrames}
        \/ res \in (IF at = "return" THEN {result} ELSE {})
    BY DEF Results
  <2> QED
    BY <2>1
<1> QED
  BY <1>2, <1>3, <1>4

(* No type that is derived has a pointer to a reference: & strips what it   *)
(* points to, and nothing else puts a pointer on a type.                    *)
THEOREM PointersPointToObjects == Spec => []NoPointerToReference
<1>1. ASSUME TCInv
      PROVE  NoPointerToReference
  <2> SUFFICES ASSUME NEW res \in Results, NEW i \in 2 .. Len(res.type),
                      res.type[i].kind = "REF"
               PROVE  res.type[i - 1].kind # "PTR"
    BY DEF NoPointerToReference
  <2> DEFINE type == res.type
  <2>1. IsDerived(type)
    BY <1>1, ResultsAreResults DEF IsResult
  <2>2. DOMAIN type = 1 .. Len(type) /\ Len(type) \in Nat
    BY <2>1, SeqFacts DEF IsDerived
  <2> HIDE DEF type
  <2>3. i \in 2 .. Len(type) /\ type[i].kind = "REF"
    BY DEF type
  <2>4. i \in DOMAIN type /\ i > 1 /\ i - 1 \in 1 .. (i - 1)
    BY <2>2, <2>3
  <2>5. type[i - 1].kind = "ARRAY" \/ IsRef(type[i - 1])
    BY <2>1, <2>3, <2>4 DEF IsDerived, IsRef
  <2> QED
    BY <2>5 DEF IsRef, type
<1>2. TCInv => NoPointerToReference
  BY <1>1
<1> QED
  BY <1>2, Invariance, PTL

(* What may be assigned to, referred to or pointed to has one type, never   *)
(* the several of a literal, and what is mutable is an lvalue.              *)
THEOREM LvaluesHaveOneType == Spec => []LvaluesAreObjects
<1>1. ASSUME TCInv
      PROVE  LvaluesAreObjects
  <2>1. ASSUME NEW res \in Results
        PROVE  /\ res.is_lvalue => \A i \in DOMAIN res.type : ~IsLiteralLayer(res.type[i])
               /\ res.is_var_and_mutable => res.is_lvalue
    BY <1>1, ResultsAreResults DEF IsResult, IsObject, IsTemporary
  <2> QED
    BY <2>1 DEF LvaluesAreObjects
<1>2. TCInv => LvaluesAreObjects
  BY <1>1
<1> QED
  BY <1>2, Invariance, PTL

----------------------------------------------------------------------------
(* Induction: what holds of 0 and of the next number holds of all.          *)
LEMMA AllNat ==
  ASSUME NEW T \in SUBSET Nat, 0 \in T, \A n \in T : n + 1 \in T
  PROVE  T = Nat
<1> SUFFICES ASSUME Nat \ T # {}
             PROVE  FALSE
  OBVIOUS
<1>1. PICK m \in Nat \ T : \A k \in Nat \ T : m <= k
  BY Least
<1>2. m # 0 /\ m - 1 \in Nat /\ m - 1 \notin Nat \ T
  BY <1>1
<1> QED
  BY <1>1, <1>2

(* The steps that the properties repeat: from results to those under them,  *)
(* of which they got their mutability or all; from a scope to the one around*)
(* it; from containers to what is declared in them.                         *)
NextOf(what, x) ==
  CASE what = "denoted" -> UNION {Inner(r) : r \in x}
    [] what = "all" -> UNION {ToSet(r.parts) : r \in x}
    [] what = "around" -> IF x = "none" THEN "none" ELSE Symbols[x].scope
    [] what = "inside" -> UNION {ToSet(Symbols[c].decls) : c \in x \cap Containers}

(* So repeated, from x on, over an initial part of the numbers or all.      *)
Repeats(what, x, g, S) ==
  g = [n \in S |-> IF n = 0 THEN x ELSE NextOf(what, g[n - 1])]

(* What is repeated up to one number is what is repeated up to a greater.   *)
LEMMA RepeatsAgree ==
  ASSUME NEW what, NEW x, NEW a \in Nat, NEW b \in Nat, a <= b, NEW f, NEW g,
         Repeats(what, x, f, 0 .. a), Repeats(what, x, g, 0 .. b)
  PROVE  \A n \in 0 .. a : f[n] = g[n]
<1> DEFINE T == {n \in Nat : n <= a => f[n] = g[n]}
<1>1. f[0] = x /\ g[0] = x
  BY DEF Repeats
<1>2. ASSUME NEW n \in Nat, n + 1 <= a, f[n] = g[n]
      PROVE  f[n + 1] = g[n + 1]
  <2>1. n + 1 \in 0 .. a /\ n + 1 \in 0 .. b /\ n + 1 # 0 /\ (n + 1) - 1 = n
    BY <1>2
  <2>2. f[n + 1] = NextOf(what, f[n]) /\ g[n + 1] = NextOf(what, g[n])
    BY <2>1 DEF Repeats
  <2> QED
    BY <1>2, <2>2
<1>3. 0 \in T
  BY <1>1
<1>4. \A n \in T : n + 1 \in T
  <2> SUFFICES ASSUME NEW n \in T, n + 1 <= a
               PROVE  f[n + 1] = g[n + 1]
    OBVIOUS
  <2>1. n <= a /\ n \in Nat
    OBVIOUS
  <2> QED
    BY <1>2, <2>1
<1>5. T = Nat
  <2> HIDE DEF T
  <2>1. T \in SUBSET Nat
    BY DEF T
  <2> QED
    BY <1>3, <1>4, <2>1, AllNat
<1> QED
  BY <1>5

(* A step can be repeated any number of times.                              *)
LEMMA RepeatsUpTo ==
  ASSUME NEW what, NEW x, NEW depth \in Nat
  PROVE  \E g : Repeats(what, x, g, 0 .. depth)
<1> DEFINE T == {n \in Nat : \E g : Repeats(what, x, g, 0 .. n)}
<1>1. 0 \in T
  <2> DEFINE g == [n \in 0 .. 0 |-> x]
  <2>1. g = [n \in 0 .. 0 |-> IF n = 0 THEN x ELSE NextOf(what, g[n - 1])]
    OBVIOUS
  <2> QED
    BY <2>1 DEF Repeats
<1>2. ASSUME NEW n \in T
      PROVE  n + 1 \in T
  <2>1. PICK g : Repeats(what, x, g, 0 .. n)
    OBVIOUS
  <2> DEFINE last == NextOf(what, g[n])
             f == [i \in 0 .. (n + 1) |-> IF i = n + 1 THEN last ELSE g[i]]
  <2>2. n \in Nat
    OBVIOUS
  <2>3. ASSUME NEW i \in 0 .. (n + 1)
        PROVE  f[i] = IF i = 0 THEN x ELSE NextOf(what, f[i - 1])
    <3>1. CASE i = 0
      BY <2>1, <2>2, <3>1 DEF Repeats
    <3>2. CASE i # 0 /\ i # n + 1
      <4>1. i \in 0 .. n /\ i - 1 \in 0 .. n /\ i - 1 # n + 1 /\ i - 1 \in 0 .. (n + 1)
        BY <2>2, <3>2
      <4>2. f[i] = g[i] /\ f[i - 1] = g[i - 1]
        BY <3>2, <4>1
      <4>3. g[i] = NextOf(what, g[i - 1])
        BY <2>1, <3>2, <4>1 DEF Repeats
      <4> QED
        BY <3>2, <4>2, <4>3
    <3>3. CASE i = n + 1
      <4>1. i - 1 = n /\ n \in 0 .. (n + 1) /\ n # n + 1 /\ i # 0
        BY <2>2, <3>3
      <4>2. f[i] = last /\ f[i - 1] = g[n]
        BY <3>3, <4>1
      <4> QED
        BY <4>1, <4>2
    <3> QED
      BY <3>1, <3>2, <3>3
  <2>4. Repeats(what, x, f, 0 .. (n + 1))
    <3>1. f = [i \in 0 .. (n + 1) |-> f[i]]
      OBVIOUS
    <3> HIDE DEF f
    <3>2. f = [i \in 0 .. (n + 1) |-> IF i = 0 THEN x ELSE NextOf(what, f[i - 1])]
      BY <2>3, <3>1
    <3> QED
      BY <3>2 DEF Repeats
  <2> QED
    BY <2>2, <2>4
<1>3. T = Nat
  <2> HIDE DEF T
  <2>1. T \in SUBSET Nat
    BY DEF T
  <2> QED
    BY <1>1, <1>2, <2>1, AllNat
<1> QED
  BY <1>3

(* And for ever.                                                            *)
LEMMA RepeatsForEver ==
  ASSUME NEW what, NEW x
  PROVE  \E g : Repeats(what, x, g, Nat)
<1> DEFINE upto(n) == CHOOSE g : Repeats(what, x, g, 0 .. n)
           f == [n \in Nat |-> upto(n)[n]]
<1>1. \A n \in Nat : Repeats(what, x, upto(n), 0 .. n)
  BY RepeatsUpTo
<1> HIDE DEF upto
<1>2. ASSUME NEW n \in Nat
      PROVE  f[n] = IF n = 0 THEN x ELSE NextOf(what, f[n - 1])
  <2>1. upto(n)[n] = IF n = 0 THEN x ELSE NextOf(what, upto(n)[n - 1])
    <3>1. n \in 0 .. n
      OBVIOUS
    <3> QED
      BY <1>1, <3>1 DEF Repeats
  <2>2. CASE n # 0
    <3>1. n - 1 \in Nat /\ n - 1 <= n /\ n - 1 \in 0 .. (n - 1)
      BY <2>2
    <3>2. upto(n - 1)[n - 1] = upto(n)[n - 1]
      BY <1>1, <3>1, RepeatsAgree
    <3> QED
      BY <2>1, <2>2, <3>1, <3>2
  <2> QED
    BY <2>1, <2>2
<1>3. Repeats(what, x, f, Nat)
  <2>1. f = [n \in Nat |-> f[n]]
    OBVIOUS
  <2> HIDE DEF f
  <2>2. f = [n \in Nat |-> IF n = 0 THEN x ELSE NextOf(what, f[n - 1])]
    BY <1>2, <2>1
  <2> QED
    BY <2>2 DEF Repeats
<1> QED
  BY <1>3

(* Step by step.                                                            *)
LEMMA RepeatsStep ==
  ASSUME NEW what, NEW x, NEW g, Repeats(what, x, g, Nat)
  PROVE  /\ g[0] = x
         /\ \A n \in Nat : g[n + 1] = NextOf(what, g[n])
<1>1. g[0] = x
  BY DEF Repeats
<1>2. ASSUME NEW n \in Nat
      PROVE  g[n + 1] = NextOf(what, g[n])
  <2>1. n + 1 \in Nat /\ n + 1 # 0 /\ (n + 1) - 1 = n
    OBVIOUS
  <2> QED
    BY <2>1 DEF Repeats
<1> QED
  BY <1>1, <1>2

(* The results under a result, level by level, as in Denoted and Everything.*)
DenotedLevels(res) ==
  LET inner[n \in Nat] == IF n = 0 THEN {res} ELSE UNION {Inner(r) : r \in inner[n - 1]}
  IN  inner

(* The same for all the results under it.                                   *)
Levels(res) ==
  LET level[n \in Nat] == IF n = 0 THEN {res}
                          ELSE UNION {ToSet(r.parts) : r \in level[n - 1]}
  IN  level

(* They are what their recursive definitions say.                           *)
LEMMA DenotedLevelsAre ==
  ASSUME NEW res
  PROVE  /\ DenotedLevels(res)[0] = {res}
         /\ \A n \in Nat : DenotedLevels(res)[n + 1] =
                           UNION {Inner(r) : r \in DenotedLevels(res)[n]}
<1> DEFINE IsLevels(g) ==
             g = [n \in Nat |-> IF n = 0 THEN {res} ELSE UNION {Inner(r) : r \in g[n - 1]}]
<1>1. PICK f : Repeats("denoted", {res}, f, Nat)
  BY RepeatsForEver
<1>2. \A x : NextOf("denoted", x) = UNION {Inner(r) : r \in x}
  BY Zenon DEF NextOf
<1>3. \A g : Repeats("denoted", {res}, g, Nat) <=> IsLevels(g)
  BY <1>2, Zenon DEF Repeats
<1>4. DenotedLevels(res) = CHOOSE g : IsLevels(g)
  BY Zenon DEF DenotedLevels
<1> HIDE DEF IsLevels
<1>5. Repeats("denoted", {res}, DenotedLevels(res), Nat)
  BY <1>1, <1>3, <1>4, Zenon
<1> QED
  BY <1>2, <1>5, RepeatsStep

(* They too.                                                                *)
LEMMA LevelsAre ==
  ASSUME NEW res
  PROVE  /\ Levels(res)[0] = {res}
         /\ \A n \in Nat : Levels(res)[n + 1] = UNION {ToSet(r.parts) : r \in Levels(res)[n]}
<1> DEFINE IsLevels(g) ==
             g = [n \in Nat |-> IF n = 0 THEN {res}
                                ELSE UNION {ToSet(r.parts) : r \in g[n - 1]}]
<1>1. PICK f : Repeats("all", {res}, f, Nat)
  BY RepeatsForEver
<1>2. \A x : NextOf("all", x) = UNION {ToSet(r.parts) : r \in x}
  BY Zenon DEF NextOf
<1>3. \A g : Repeats("all", {res}, g, Nat) <=> IsLevels(g)
  BY <1>2, Zenon DEF Repeats
<1>4. Levels(res) = CHOOSE g : IsLevels(g)
  BY Zenon DEF Levels
<1> HIDE DEF IsLevels
<1>5. Repeats("all", {res}, Levels(res), Nat)
  BY <1>1, <1>3, <1>4, Zenon
<1> QED
  BY <1>2, <1>5, RepeatsStep

(* In Denoted and Everything.                                               *)
LEMMA DenotedIs ==
  ASSUME NEW res
  PROVE  Denoted(res) = DenotedLevels(res)[MaxNodes[vocabulary]]
BY Zenon DEF Denoted, DenotedLevels

(* Everything is all levels up to the bound on nodes.                       *)
LEMMA EverythingIs ==
  ASSUME NEW res
  PROVE  Everything(res) = UNION {Levels(res)[n] : n \in 0 .. MaxNodes[vocabulary]}
BY Zenon DEF Everything, Levels

(* The levels below a result are those of the results under it.             *)
LEMMA DenotedBelow ==
  ASSUME NEW res
  PROVE  \A n \in Nat : DenotedLevels(res)[n + 1] =
                        UNION {DenotedLevels(p)[n] : p \in Inner(res)}
<1> DEFINE L(r) == DenotedLevels(r)
           T == {n \in Nat : L(res)[n + 1] = UNION {L(p)[n] : p \in Inner(res)}}
<1>1. \A r : L(r)[0] = {r} /\ \A n \in Nat : L(r)[n + 1] = UNION {Inner(q) : q \in L(r)[n]}
  BY DenotedLevelsAre
<1> HIDE DEF L
<1>2. L(res)[0 + 1] = UNION {L(p)[0] : p \in Inner(res)}
  <2>1. L(res)[0 + 1] = UNION {Inner(q) : q \in {res}}
    BY <1>1
  <2> QED
    BY <1>1, <2>1
<1>3. ASSUME NEW n \in Nat, L(res)[n + 1] = UNION {L(p)[n] : p \in Inner(res)}
      PROVE  L(res)[(n + 1) + 1] = UNION {L(p)[n + 1] : p \in Inner(res)}
  <2>1. L(res)[(n + 1) + 1] = UNION {Inner(q) : q \in UNION {L(p)[n] : p \in Inner(res)}}
    BY <1>1, <1>3
  <2>2. \A p : L(p)[n + 1] = UNION {Inner(q) : q \in L(p)[n]}
    BY <1>1
  <2> QED
    BY <2>1, <2>2
<1>4. T = Nat
  <2>1. 0 \in T /\ T \in SUBSET Nat
    BY <1>2
  <2>2. \A n \in T : n + 1 \in T
    BY <1>3
  <2> HIDE DEF T
  <2> QED
    BY <2>1, <2>2, AllNat
<1> QED
  BY <1>4 DEF L

(* The same for all the results under it, by the same induction.            *)
LEMMA LevelsBelow ==
  ASSUME NEW res
  PROVE  \A n \in Nat : Levels(res)[n + 1] = UNION {Levels(p)[n] : p \in ToSet(res.parts)}
<1> DEFINE L(r) == Levels(r)
           Parts(r) == ToSet(r.parts)
           T == {n \in Nat : L(res)[n + 1] = UNION {L(p)[n] : p \in Parts(res)}}
<1>1. \A r : L(r)[0] = {r} /\ \A n \in Nat : L(r)[n + 1] = UNION {Parts(q) : q \in L(r)[n]}
  BY LevelsAre
<1> HIDE DEF L, Parts
<1>2. L(res)[0 + 1] = UNION {L(p)[0] : p \in Parts(res)}
  <2>1. L(res)[0 + 1] = UNION {Parts(q) : q \in {res}}
    BY <1>1
  <2> QED
    BY <1>1, <2>1
<1>3. ASSUME NEW n \in Nat, L(res)[n + 1] = UNION {L(p)[n] : p \in Parts(res)}
      PROVE  L(res)[(n + 1) + 1] = UNION {L(p)[n + 1] : p \in Parts(res)}
  <2>1. L(res)[(n + 1) + 1] = UNION {Parts(q) : q \in UNION {L(p)[n] : p \in Parts(res)}}
    BY <1>1, <1>3
  <2>2. \A p : L(p)[n + 1] = UNION {Parts(q) : q \in L(p)[n]}
    BY <1>1
  <2> QED
    BY <2>1, <2>2
<1>4. T = Nat
  <2>1. 0 \in T /\ T \in SUBSET Nat
    BY <1>2
  <2>2. \A n \in T : n + 1 \in T
    BY <1>3
  <2> HIDE DEF T
  <2> QED
    BY <2>1, <2>2, AllNat
<1> QED
  BY <1>4 DEF L, Parts

----------------------------------------------------------------------------
(* What a result is good for, when it lies at most so many operators above  *)
(* the identifiers, members, pointers and literals it comes from.           *)
IsOfItself(res) == Inner(res) = {res} /\ DeclaredMutable(res)

(* What is mutable goes back to what was declared so.                       *)
MutableWithin(res, depth) ==
  res.is_var_and_mutable => \A r \in DenotedLevels(res)[depth] : IsOfItself(r)

(* Every literal under the result fits in these types.                      *)
FitsAllIn(types, res) ==
  \A n \in Nat : \A r \in Levels(res)[n] :
    Node(r.node) = "INT_LITERAL" => types \subseteq Acceptable(IntLiterals[Datum(r.node)])

(* There is nothing but sums, products and literals.                        *)
IsSumWithin(res, depth) == \A n \in 0 .. depth : \A r \in Levels(res)[n] : IsLiteralOrSum(r)

(* Such a result has a type that all its literals fit in.                   *)
LiteralsWithin(res, depth) ==
  IsSumWithin(res, depth) =>
    \E types : res.type = <<LiteralOf(types)>> /\ FitsAllIn(types, res)

(* What is private is used where it may be.                                 *)
UsesInside(res, scope) == \A s \in Uses(res) \cap Hideable : IsUsedInside(s, scope)

(* All three.                                                               *)
IsGood(res, depth, scope) ==
  MutableWithin(res, depth) /\ LiteralsWithin(res, depth) /\ UsesInside(res, scope)

(* It stays so when more operators are allowed for.                         *)
LEMMA MutableGrows ==
  ASSUME NEW res, NEW depth \in Nat, NEW more \in Nat, MutableWithin(res, depth)
  PROVE  MutableWithin(res, depth + more)
<1> SUFFICES ASSUME res.is_var_and_mutable
             PROVE  \A r \in DenotedLevels(res)[depth + more] : IsOfItself(r)
  BY DEF MutableWithin
<1> DEFINE L == DenotedLevels(res)
           T == {n \in Nat : L[depth + n] = L[depth]}
<1>1. \A n \in Nat : L[n + 1] = UNION {Inner(r) : r \in L[n]}
  BY DenotedLevelsAre
<1>2. \A r \in L[depth] : IsOfItself(r)
  BY DEF MutableWithin
<1> HIDE DEF L
<1>3. L[depth + 1] = L[depth]
  <2>1. L[depth + 1] = UNION {Inner(r) : r \in L[depth]}
    BY <1>1
  <2>2. \A r \in L[depth] : Inner(r) = {r}
    BY <1>2 DEF IsOfItself
  <2>3. UNION {Inner(r) : r \in L[depth]} = L[depth]
    BY <2>2
  <2> QED
    BY <2>1, <2>3
<1>4. ASSUME NEW n \in Nat, L[depth + n] = L[depth]
      PROVE  L[depth + (n + 1)] = L[depth]
  <2>1. depth + (n + 1) = (depth + n) + 1 /\ depth + n \in Nat
    OBVIOUS
  <2> QED
    BY <1>1, <1>3, <1>4, <2>1
<1>5. T = Nat
  <2>1. 0 \in T /\ T \in SUBSET Nat
    OBVIOUS
  <2>2. \A n \in T : n + 1 \in T
    BY <1>4
  <2> HIDE DEF T
  <2> QED
    BY <2>1, <2>2, AllNat
<1>6. L[depth + more] = L[depth]
  BY <1>5
<1> QED
  BY <1>2, <1>6 DEF L

(* And a result stays good.                                                 *)
LEMMA GoodGrows ==
  ASSUME NEW res, NEW depth \in Nat, NEW limit \in Nat, depth <= limit, NEW scope,
         IsGood(res, depth, scope)
  PROVE  IsGood(res, limit, scope)
<1>1. limit - depth \in Nat /\ depth + (limit - depth) = limit
  OBVIOUS
<1>2. MutableWithin(res, limit)
  BY <1>1, MutableGrows DEF IsGood
<1>3. IsSumWithin(res, limit) => IsSumWithin(res, depth)
  BY DEF IsSumWithin
<1> QED
  BY <1>2, <1>3 DEF IsGood, LiteralsWithin

(* The ways in which a result is mutable, or is not.                        *)
LEMMA NotMutable ==
  ASSUME NEW res, ~res.is_var_and_mutable, NEW depth
  PROVE  MutableWithin(res, depth)
BY DEF MutableWithin

(* It is what was declared.                                                 *)
LEMMA MutableOfItself ==
  ASSUME NEW res, NEW depth \in Nat, Inner(res) = {res},
         res.is_var_and_mutable => DeclaredMutable(res)
  PROVE  MutableWithin(res, depth)
<1>1. DenotedLevels(res)[0] = {res}
  BY DenotedLevelsAre
<1>2. MutableWithin(res, 0)
  BY <1>1 DEF MutableWithin, IsOfItself
<1>3. MutableWithin(res, 0 + depth)
  BY <1>2, MutableGrows
<1> QED
  BY <1>3

(* It passes on what all the results it may stand for are.                  *)
LEMMA MutableOfParts ==
  ASSUME NEW res, NEW depth \in Nat,
         res.is_var_and_mutable =>
           \A p \in Inner(res) : p.is_var_and_mutable /\ MutableWithin(p, depth)
  PROVE  MutableWithin(res, depth + 1)
<1>1. DenotedLevels(res)[depth + 1] = UNION {DenotedLevels(p)[depth] : p \in Inner(res)}
  BY DenotedBelow
<1> QED
  BY <1>1 DEF MutableWithin

(* What is neither a literal nor a sum has no bounds to keep.               *)
LEMMA NoLiterals ==
  ASSUME NEW res, ~IsLiteralOrSum(res), NEW depth \in Nat
  PROVE  LiteralsWithin(res, depth)
<1>1. Levels(res)[0] = {res}
  BY LevelsAre
<1>2. 0 \in 0 .. depth
  OBVIOUS
<1> QED
  BY <1>1, <1>2 DEF LiteralsWithin, IsSumWithin

(* What neither names a symbol nor accesses a member uses nothing private.  *)
LEMMA UsesNothing ==
  ASSUME NEW res, Node(res.node) \notin {"IDENTIFIER", ".", "->"}, NEW scope
  PROVE  UsesInside(res, scope)
<1>1. Uses(res) = {}
  BY DEF Uses
<1> QED
  BY <1>1 DEF UsesInside

----------------------------------------------------------------------------
(* An initializer of an array of this type, at this depth of its sizes, is  *)
(* as deep as the sizes that are left, each level as long as its size, with *)
(* elements of the right type on the last.                                  *)
IsShaped(res, type, depth) ==
  LET sizes == Head(type).sizes
      left == Len(sizes) - depth
  IN  /\ Len(sizes) <= UINT8_VALUES
      /\ \A n \in 0 .. (left - 1) : \A r \in Levels(res)[n] :
           Node(r.node) \in ArrayInits /\ Len(r.parts) = sizes[depth + n + 1]
      /\ \A r \in Levels(res)[left] : Compared(Tail(type), r.type) = "same"

(* The depth of the initializers that such a call waits for.                *)
DepthBelow(f) == IF Node(f.node) = "VAR_INIT" THEN 0 ELSE (f.depth + 1) % UINT8_VALUES

(* A call that waits for an initializer of an array, and one that is made   *)
(* for one.                                                                 *)
TakesArray(f) ==
  Node(f.node) = "NESTED_ARR_INIT" \/ (Node(f.node) = "VAR_INIT" /\ Kind(f.type) = "ARRAY")

(* A call for an initializer of an array: not yet full, and right so far.   *)
ArrayHolds(f) ==
  LET sizes == Head(f.type).sizes IN
  /\ f.depth < Len(sizes) /\ Datum(f.node) \in Nat \ {0} /\ Datum(f.node) = sizes[f.depth + 1]
  /\ Len(f.parts) < Datum(f.node)
  /\ Node(f.node) = "ARR_INIT" =>
       /\ f.depth + 1 = Len(sizes)
       /\ \A p \in ToSet(f.parts) : Compared(Tail(f.type), p.type) = "same"
  /\ Node(f.node) = "NESTED_ARR_INIT" =>
       \A p \in ToSet(f.parts) : IsShaped(p, f.type, DepthBelow(f))

(* A call is made for the one below it.                                     *)
IsLinked(below, f) ==
  /\ Node(f.node) \in ArrayInits =>
       TakesArray(below) /\ f.type = below.type /\ f.depth = DepthBelow(below)
  /\ TakesArray(below) => Node(f.node) \in ArrayInits

(* A statement that was accepted.                                           *)
StatementHolds(stmt, limit) ==
  Node(stmt.node) = "VAR_INIT" =>
    /\ stmt.parts = <<stmt.parts[1]>>
    /\ IsSumWithin(stmt.parts[1], limit) =>
         \A n \in 0 .. limit : \A r \in Levels(stmt.parts[1])[n] :
           Node(r.node) = "INT_LITERAL" =>
             FitsIn(IntLiterals[Datum(r.node)], stmt.type[1].symbol)
    /\ Kind(stmt.type) = "ARRAY" =>
         Head(stmt.type).sizes \in Seq(Nat) /\ IsShaped(stmt.parts[1], stmt.type, 0)

(* Every call that waits has room for results with so many operators; one   *)
(* that is itself an operator leaves less than there was.                   *)
Cost(f) == IF Node(f.node) \in Operators THEN 1 ELSE 0

(* What a call has taken is good in its room.                               *)
FrameHolds(f, room, scope, limit) ==
  /\ Node(f.node) \in BodyKinds => \A p \in ToSet(f.parts) : IsGood(p, room, scope)
  /\ Node(f.node) \in {"CAST", ".", "->", "VAR_INIT"} => f.parts = <<>>
  /\ Node(f.node) = "FN" =>
       scope = Datum(f.node) /\ \A stmt \in ToSet(f.parts) : StatementHolds(stmt, limit)
  /\ Node(f.node) \in ArrayInits => ArrayHolds(f)

(* The rooms of the calls that wait, and what is in them.                   *)
RoomsFit(st, point, res, used, limit, room, scope) ==
  /\ room \in [1 .. Len(st) -> 0 .. used]
  /\ \A i \in 1 .. (Len(st) - 1) :
       room[i + 1] + Cost(st[i + 1]) <= room[i] /\ IsLinked(st[i], st[i + 1])
  /\ \A i \in 1 .. Len(st) : FrameHolds(st[i], room[i], scope, limit)
  /\ TakesArray(st[Len(st)]) => point \notin {"expression", "member"}
  /\ point = "return" =>
       /\ IsGood(res, room[Len(st)], scope)
       /\ TakesArray(st[Len(st)]) => IsShaped(res, st[Len(st)].type, DepthBelow(st[Len(st)]))

(* There are such rooms, for one scope.                                     *)
HasRoom(st, point, res, used, limit) ==
  \E room, scope : RoomsFit(st, point, res, used, limit, room, scope)

(* The inductive invariant of what results mean.                            *)
GInv == HasRoom(stack, at, result, size, MaxNodes[vocabulary])

----------------------------------------------------------------------------
(* The stack goes on with the same calls.                                   *)
LEMMA SameRooms ==
  ASSUME NEW st, NEW from, NEW res, NEW used \in Nat, NEW limit,
         HasRoom(st, from, res, used, limit),
         NEW more \in Nat, NEW to, to # "return", NEW res2,
         TakesArray(st[Len(st)]) => to \notin {"expression", "member"}
  PROVE  HasRoom(st, to, res2, used + more, limit)
<1>1. PICK room, scope : RoomsFit(st, from, res, used, limit, room, scope)
  BY DEF HasRoom
<1>2. room \in [1 .. Len(st) -> 0 .. (used + more)]
  BY <1>1 DEF RoomsFit
<1> QED
  BY <1>1, <1>2 DEF HasRoom, RoomsFit

(* One more call.                                                           *)
LEMMA PushRooms ==
  ASSUME NEW st, IsSeq(st), Len(st) >= 1,
         NEW from, NEW res, NEW used \in Nat, NEW limit, HasRoom(st, from, res, used, limit),
         NEW f, f.parts = <<>>, Node(f.node) # "FN", Node(f.node) \in ArrayInits => ArrayHolds(f),
         IsLinked(st[Len(st)], f),
         NEW more \in Nat, Cost(f) <= more,
         NEW to, to # "return", NEW res2, TakesArray(f) => to \notin {"expression", "member"}
  PROVE  HasRoom(Append(st, f), to, res2, used + more, limit)
<1>1. PICK room, scope : RoomsFit(st, from, res, used, limit, room, scope)
  BY DEF HasRoom
<1> DEFINE n == Len(st)
           st2 == Append(st, f)
           room2 == [i \in 1 .. (n + 1) |-> IF i = n + 1 THEN room[n] ELSE room[i] + Cost(f)]
<1>2. /\ n \in Nat /\ n >= 1 /\ n \in 1 .. n
      /\ Len(st2) = n + 1 /\ st2[n + 1] = f /\ \A i \in 1 .. n : st2[i] = st[i]
  BY SeqFacts, AppendSeq
<1>3. Cost(f) \in 0 .. 1
  BY DEF Cost
<1> HIDE DEF st2
<1>4. \A i \in 1 .. n : room[i] \in 0 .. used
  BY <1>1 DEF RoomsFit
<1> HIDE DEF n
<1>5. room2 \in [1 .. (n + 1) -> 0 .. (used + more)]
  BY <1>2, <1>3, <1>4
<1>6. /\ \A i \in 1 .. n : room2[i] = room[i] + Cost(f)
      /\ room2[n + 1] = room[n]
  BY <1>2
<1>7. ASSUME NEW i \in 1 .. ((n + 1) - 1)
      PROVE  room2[i + 1] + Cost(st2[i + 1]) <= room2[i] /\ IsLinked(st2[i], st2[i + 1])
  <2>1. CASE i = n
    BY <1>2, <1>3, <1>4, <1>6, <2>1 DEF n
  <2>2. CASE i < n
    <3>1. i \in 1 .. (n - 1) /\ i \in 1 .. n /\ i + 1 \in 1 .. n
      BY <1>2, <2>2
    <3>2. room[i + 1] + Cost(st[i + 1]) <= room[i] /\ IsLinked(st[i], st[i + 1])
      BY <1>1, <3>1 DEF RoomsFit, n
    <3>3. Cost(st[i + 1]) \in 0 .. 1
      BY DEF Cost
    <3> QED
      BY <1>2, <1>3, <1>4, <1>6, <3>1, <3>2, <3>3
  <2> QED
    BY <1>2, <2>1, <2>2
<1>8. ASSUME NEW i \in 1 .. (n + 1)
      PROVE  FrameHolds(st2[i], room2[i], scope, limit)
  <2>1. CASE i = n + 1
    <3>1. ToSet(f.parts) = {}
      BY DEF ToSet
    <3> QED
      BY <1>2, <2>1, <3>1 DEF FrameHolds
  <2>2. CASE i # n + 1
    <3>1. i \in 1 .. n
      BY <1>2, <2>2
    <3>2. FrameHolds(st[i], room[i], scope, limit)
      BY <1>1, <3>1 DEF RoomsFit, n
    <3> DEFINE r == room[i]
               c == Cost(f)
    <3>5. r \in 0 .. used /\ c \in 0 .. 1 /\ room2[i] = r + c
      BY <1>3, <1>4, <1>6, <3>1
    <3> HIDE DEF room2, r, c
    <3>6. r \in Nat /\ r + c \in Nat /\ r <= r + c
      BY <3>5
    <3>3. room[i] \in Nat /\ room2[i] \in Nat /\ room[i] <= room2[i]
      BY <3>5, <3>6 DEF r
    <3>4. \A p : IsGood(p, room[i], scope) => IsGood(p, room2[i], scope)
      BY <3>3, GoodGrows
    <3> QED
      BY <1>2, <3>1, <3>2, <3>4 DEF FrameHolds
  <2> QED
    BY <2>1, <2>2
<1> HIDE DEF room2
<1>9. RoomsFit(st2, to, res2, used + more, limit, room2, scope)
  BY <1>2, <1>5, <1>7, <1>8 DEF RoomsFit
<1> QED
  BY <1>9 DEF HasRoom, st2

(* The last call has taken something.                                       *)
LEMMA ReplaceRooms ==
  ASSUME NEW st, IsSeq(st), Len(st) >= 1,
         NEW from, NEW res, NEW used \in Nat, NEW limit, NEW room, NEW scope,
         RoomsFit(st, from, res, used, limit, room, scope),
         NEW f, f.node = st[Len(st)].node, f.type = st[Len(st)].type, f.depth = st[Len(st)].depth,
         FrameHolds(f, room[Len(st)], scope, limit),
         NEW to, to # "return", NEW res2, TakesArray(f) => to \notin {"expression", "member"}
  PROVE  RoomsFit([st EXCEPT ![Len(st)] = f], to, res2, used, limit, room, scope)
<1> DEFINE n == Len(st)
           st2 == [st EXCEPT ![n] = f]
<1>1. n \in Nat /\ n >= 1 /\ n \in 1 .. n
  BY SeqFacts
<1>2. Len(st2) = n /\ st2[n] = f /\ \A i \in 1 .. n : i # n => st2[i] = st[i]
  BY <1>1, ReplaceSeq
<1> HIDE DEF st2
<1>3. \A x : IsLinked(x, f) <=> IsLinked(x, st[n])
  BY DEF IsLinked
<1>4. Cost(f) = Cost(st[n])
  BY DEF Cost
<1> HIDE DEF n
<1>5. ASSUME NEW i \in 1 .. (n - 1)
      PROVE  room[i + 1] + Cost(st2[i + 1]) <= room[i] /\ IsLinked(st2[i], st2[i + 1])
  <2>1. i \in 1 .. n /\ i # n /\ i + 1 \in 1 .. n
    BY <1>1
  <2>2. room[i + 1] + Cost(st[i + 1]) <= room[i] /\ IsLinked(st[i], st[i + 1])
    BY DEF RoomsFit, n
  <2>3. CASE i + 1 = n
    BY <1>2, <1>3, <1>4, <2>1, <2>2, <2>3
  <2>4. CASE i + 1 # n
    BY <1>2, <2>1, <2>2, <2>4
  <2> QED
    BY <2>3, <2>4
<1>6. ASSUME NEW i \in 1 .. n
      PROVE  FrameHolds(st2[i], room[i], scope, limit)
  <2>1. FrameHolds(st[i], room[i], scope, limit)
    BY DEF RoomsFit, n
  <2> QED
    BY <1>2, <2>1 DEF n
<1>7. room \in [1 .. n -> 0 .. used]
  BY DEF RoomsFit, n
<1> QED
  BY <1>2, <1>5, <1>6, <1>7 DEF RoomsFit, n, st2

(* The last call ends.                                                      *)
LEMMA PopRooms ==
  ASSUME NEW st, IsSeq(st), Len(st) >= 2,
         NEW from, NEW res, NEW used \in Nat, NEW limit, NEW room, NEW scope,
         RoomsFit(st, from, res, used, limit, room, scope),
         NEW to, NEW res2,
         to = "return" => IsGood(res2, room[Len(st)] + Cost(st[Len(st)]), scope),
         TakesArray(st[Len(st) - 1]) =>
           /\ to \notin {"expression", "member"}
           /\ to = "return" =>
                IsShaped(res2, st[Len(st) - 1].type, DepthBelow(st[Len(st) - 1]))
  PROVE  HasRoom(SubSeq(st, 1, Len(st) - 1), to, res2, used, limit)
<1> DEFINE n == Len(st)
           st2 == SubSeq(st, 1, n - 1)
           room2 == [i \in 1 .. (n - 1) |-> room[i]]
<1>1. /\ n \in Nat /\ n >= 2 /\ st # <<>>
      /\ Len(st2) = n - 1 /\ \A i \in 1 .. (n - 1) : st2[i] = st[i]
  BY SeqFacts, FrontSeq
<1> HIDE DEF st2
<1>2. /\ \A i \in 1 .. n : room[i] \in 0 .. used /\ FrameHolds(st[i], room[i], scope, limit)
      /\ \A i \in 1 .. (n - 1) :
           room[i + 1] + Cost(st[i + 1]) <= room[i] /\ IsLinked(st[i], st[i + 1])
  BY DEF RoomsFit
<1>3. n - 1 \in 1 .. (n - 1) /\ (n - 1) + 1 = n /\ n \in 1 .. n
  BY <1>1
<1>4. Cost(st[n]) \in 0 .. 1
  BY DEF Cost
<1>5. room[n] + Cost(st[n]) <= room[n - 1]
  <2>1. room[(n - 1) + 1] + Cost(st[(n - 1) + 1]) <= room[n - 1]
    BY <1>2, <1>3
  <2> QED
    BY <1>3, <2>1
<1>6. room[n - 1] \in Nat /\ room[n] \in Nat
  BY <1>1, <1>2, <1>3
<1>7. to = "return" => IsGood(res2, room[n - 1], scope)
  BY <1>4, <1>5, <1>6, GoodGrows
<1>8. room2 \in [1 .. (n - 1) -> 0 .. used] /\ \A i \in 1 .. (n - 1) : room2[i] = room[i]
  BY <1>1, <1>2
<1> HIDE DEF room2
<1>9. ASSUME NEW i \in 1 .. ((n - 1) - 1)
      PROVE  room2[i + 1] + Cost(st2[i + 1]) <= room2[i] /\ IsLinked(st2[i], st2[i + 1])
  <2>1. i \in 1 .. (n - 1) /\ i + 1 \in 1 .. (n - 1)
    BY <1>1
  <2> QED
    BY <1>1, <1>2, <1>8, <2>1
<1>10. \A i \in 1 .. (n - 1) : FrameHolds(st2[i], room2[i], scope, limit)
  <2> TAKE i \in 1 .. (n - 1)
  <2>1. i \in 1 .. n
    BY <1>1
  <2> QED
    BY <1>1, <1>2, <1>8, <2>1
<1>11. st2[n - 1] = st[n - 1] /\ room2[n - 1] = room[n - 1]
  BY <1>1, <1>3, <1>8
<1>12. RoomsFit(st2, to, res2, used, limit, room2, scope)
  BY <1>1, <1>7, <1>8, <1>9, <1>10, <1>11 DEF RoomsFit
<1> QED
  BY <1>12 DEF HasRoom, st2

(* Containers need no room, nor does a function whose body is to be checked.*)
LEMMA ContainersHaveRoom ==
  ASSUME NEW st, IsSeq(st), st # <<>>,
         \A i \in DOMAIN st : /\ Node(st[i].node) \in ContainerKinds \cup {"FN"}
                              /\ Node(st[i].node) = "FN" => st[i].parts = <<>> /\ i = Len(st),
         NEW used \in Nat, NEW point, point # "return", NEW res, NEW limit
  PROVE  HasRoom(st, point, res, used, limit)
<1> DEFINE n == Len(st)
           room == [i \in 1 .. n |-> 0]
           scope == Datum(st[n].node)
<1>1. n \in Nat /\ n >= 1 /\ DOMAIN st = 1 .. n /\ n \in 1 .. n
  BY SeqFacts
<1>2. room \in [1 .. n -> 0 .. used] /\ \A i \in 1 .. n : room[i] = 0
  BY <1>1
<1> HIDE DEF room, n
<1>3. ASSUME NEW i \in 1 .. n
      PROVE  /\ Node(st[i].node) \notin Operators \cup ArrayInits \cup BodyKinds
             /\ Node(st[i].node) \notin {"NESTED_ARR_INIT", "VAR_INIT", "CAST", ".", "->"}
  BY <1>1 DEF ContainerKinds, BodyKinds, StatementKinds, ExpressionKinds, Operators, ArrayInits
<1>4. \A i \in 1 .. n : ~TakesArray(st[i]) /\ Cost(st[i]) = 0
  BY <1>3 DEF TakesArray, Cost
<1>5. ASSUME NEW i \in 1 .. (n - 1)
      PROVE  room[i + 1] + Cost(st[i + 1]) <= room[i] /\ IsLinked(st[i], st[i + 1])
  <2>1. i \in 1 .. n /\ i + 1 \in 1 .. n
    BY <1>1
  <2> QED
    BY <1>2, <1>3, <1>4, <2>1 DEF IsLinked
<1>6. ASSUME NEW i \in 1 .. n
      PROVE  FrameHolds(st[i], room[i], scope, limit)
  <2>1. Node(st[i].node) = "FN" => scope = Datum(st[i].node) /\ ToSet(st[i].parts) = {}
    BY <1>1 DEF ToSet, n
  <2> QED
    BY <1>3, <2>1 DEF FrameHolds
<1>7. RoomsFit(st, point, res, used, limit, room, scope)
  BY <1>1, <1>2, <1>4, <1>5, <1>6 DEF RoomsFit, n
<1> QED
  BY <1>7 DEF HasRoom

(* While declarations are walked over there is nothing to hold.             *)
LEMMA DeclsHaveRoom ==
  ASSUME TCInv, at = "decls"
  PROVE  GInv
<1>1. StackFits(stack, "decls") /\ IsSeq(stack) /\ stack # <<>> /\ size \in Nat
  <2>1. MaxNodes[vocabulary] \in Nat
    BY BoundsAssumption DEF TCInv
  <2> QED
    BY <2>1 DEF TCInv, StackFits
<1>2. \A i \in DOMAIN stack : Node(stack[i].node) \in ContainerKinds /\ Node(stack[i].node) # "FN"
  BY <1>1 DEF StackFits, ContainerKinds
<1> QED
  BY <1>1, <1>2, ContainersHaveRoom DEF GInv

(* The scope that private access is asked for is that of the function.      *)
LEMMA ScopeIs ==
  ASSUME TCInv, at # "decls", NEW res, NEW used, NEW limit, NEW room, NEW scope,
         RoomsFit(stack, at, res, used, limit, room, scope)
  PROVE  scope = ScopeId
<1>1. StackFits(stack, at)
  BY DEF TCInv
<1>2. DOMAIN stack = 1 .. Len(stack)
  BY <1>1, StackFacts
<1>3. PICK f \in DOMAIN stack : IsBodyOf(f, stack)
  BY <1>1 DEF StackFits
<1>4. Node(stack[f].node) = "FN"
  BY <1>3 DEF IsBodyOf
<1> DEFINE IsFn(i) == Node(stack[i].node) = "FN"
           c == CHOOSE i \in DOMAIN stack : IsFn(i)
<1>5. c \in DOMAIN stack /\ IsFn(c)
  BY <1>4
<1>6. ScopeId = Datum(stack[c].node)
  BY DEF ScopeId
<1> HIDE DEF c
<1>7. FrameHolds(stack[c], room[c], scope, limit)
  BY <1>2, <1>5 DEF RoomsFit
<1> QED
  BY <1>5, <1>6, <1>7 DEF FrameHolds

(* What the invariant says at a point in the body of a function.            *)
LEMMA RoomFacts ==
  ASSUME TCInv, GInv, at # "decls"
  PROVE  /\ size \in Nat /\ MaxNodes[vocabulary] \in Nat /\ size <= MaxNodes[vocabulary]
         /\ \E room : /\ RoomsFit(stack, at, result, size, MaxNodes[vocabulary], room, ScopeId)
                      /\ room[Len(stack)] \in 0 .. size
                      /\ FrameHolds(Top, room[Len(stack)], ScopeId, MaxNodes[vocabulary])
<1>1. MaxNodes[vocabulary] \in Nat /\ size \in 0 .. MaxNodes[vocabulary]
  BY BoundsAssumption DEF TCInv
<1>2. PICK room, scope : RoomsFit(stack, at, result, size, MaxNodes[vocabulary], room, scope)
  BY DEF GInv, HasRoom
<1>3. scope = ScopeId
  BY <1>2, ScopeIs
<1>4. Len(stack) \in 1 .. Len(stack)
  BY WaitingFacts
<1>5. /\ room[Len(stack)] \in 0 .. size
      /\ FrameHolds(Top, room[Len(stack)], ScopeId, MaxNodes[vocabulary])
  BY <1>2, <1>3, <1>4 DEF RoomsFit, Top
<1> QED
  BY <1>1, <1>2, <1>3, <1>5

(* The children that have been checked, the last one included.              *)
LEMMA OperandsAreGood ==
  ASSUME TCInv, Checking("return"), NEW used, NEW limit, NEW room, NEW scope,
         RoomsFit(stack, at, result, used, limit, room, scope)
  PROVE  \A p \in ToSet(Filled.parts) : IsGood(p, room[Len(stack)], scope)
<1>1. at = "return" /\ Filled.parts = Append(Top.parts, result)
  BY ReturnedFacts
<1>2. IsSeq(Top.parts) /\ Node(Top.node) \in BodyKinds /\ Len(stack) \in 1 .. Len(stack)
  BY <1>1, WaitingFacts DEF InStatement, Points
<1>3. ToSet(Filled.parts) = ToSet(Top.parts) \cup {result}
  BY <1>1, <1>2, AppendSeq
<1>4. IsGood(result, room[Len(stack)], scope)
  BY <1>1 DEF RoomsFit
<1>5. FrameHolds(Top, room[Len(stack)], scope, limit)
  BY <1>2 DEF RoomsFit, Top
<1> QED
  BY <1>2, <1>3, <1>4, <1>5 DEF FrameHolds

----------------------------------------------------------------------------
(* The kinds of steps.                                                      *)
LEMMA EndHasRoom ==
  ASSUME GInv, UNCHANGED <<vocabulary, control>>
  PROVE  GInv'
<1>1. /\ vocabulary' = vocabulary /\ size' = size /\ at' = at /\ result' = result
      /\ stack' = stack
  BY DEF control
<1> QED
  BY <1>1 DEF GInv

(* A child is met, or a statement without children.                         *)
LEMMA EnterHasRoom ==
  ASSUME TCInv, GInv, NEW n \in Vocabularies[vocabulary], NEW to, to # "return",
         NEW f, f.parts = <<>>, Node(f.node) # "FN", Node(f.node) \in ArrayInits => ArrayHolds(f),
         IsLinked(Top, f), Cost(f) <= Brings(n),
         TakesArray(f) => to \notin {"expression", "member"},
         Enter(n, to, Append(stack, f))
  PROVE  GInv'
<1>1. /\ size' = size + Brings(n) /\ at' = to /\ stack' = Append(stack, f)
      /\ vocabulary' = vocabulary
  BY DEF Enter
<1>2. Brings(n) \in Nat /\ size \in Nat
  <2>1. vocabulary \in DOMAIN Vocabularies /\ MaxNodes[vocabulary] \in Nat
    BY BoundsAssumption DEF TCInv
  <2> QED
    BY <2>1, BringsFacts DEF TCInv
<1>3. IsSeq(stack) /\ Len(stack) >= 1
  BY WaitingFacts, StackFacts
<1>4. HasRoom(Append(stack, f), to, result', size + Brings(n), MaxNodes[vocabulary])
  BY <1>2, <1>3, PushRooms DEF GInv, Top
<1> QED
  BY <1>1, <1>4 DEF GInv

(* The calls that wait stay.                                                *)
LEMMA StayHasRoom ==
  ASSUME TCInv, GInv, NEW more \in Nat, size' = size + more,
         stack' = stack, vocabulary' = vocabulary, at' # "return",
         TakesArray(Top) => at' \notin {"expression", "member"}
  PROVE  GInv'
<1>1. size \in Nat
  <2>1. MaxNodes[vocabulary] \in Nat
    BY BoundsAssumption DEF TCInv
  <2> QED
    BY <2>1 DEF TCInv
<1>2. HasRoom(stack, at', result', size + more, MaxNodes[vocabulary])
  BY <1>1, SameRooms DEF GInv, Top
<1> QED
  BY <1>2 DEF GInv

(* A call takes the result of a child and goes on with the next.            *)
LEMMA TakeHasRoom ==
  ASSUME TCInv, GInv, Checking("return"),
         Node(Top.node) \in BodyKinds
                              \ (StatementKinds \cup ArrayInits \cup {"UNARY", "CAST", ".", "->"}),
         NEW to \in InStatement, to # "return", Goto(to, ReplaceTop(Filled))
  PROVE  GInv'
<1>1. /\ at' = to /\ stack' = ReplaceTop(Filled) /\ size' = size /\ vocabulary' = vocabulary
  BY DEF Goto
<1>2. /\ at = "return" /\ at # "decls"
      /\ Filled.node = Top.node /\ Filled.type = Top.type /\ Filled.depth = Top.depth
  BY ReturnedFacts
<1>3. PICK room : RoomsFit(stack, at, result, size, MaxNodes[vocabulary], room, ScopeId)
  BY <1>2, RoomFacts
<1>4. \A p \in ToSet(Filled.parts) : IsGood(p, room[Len(stack)], ScopeId)
  BY <1>3, OperandsAreGood
<1>5. FrameHolds(Filled, room[Len(stack)], ScopeId, MaxNodes[vocabulary])
  BY <1>2, <1>4 DEF FrameHolds, BodyKinds, StatementKinds, ExpressionKinds, Operators, ArrayInits
<1>6. ~TakesArray(Filled)
  BY <1>2 DEF TakesArray, StatementKinds, ArrayInits
<1>7. IsSeq(stack) /\ Len(stack) >= 1
  BY WaitingFacts, StackFacts
<1>8. size \in Nat
  BY <1>2, RoomFacts
<1>9. RoomsFit([stack EXCEPT ![Len(stack)] = Filled], to, result', size, MaxNodes[vocabulary],
               room, ScopeId)
  BY <1>2, <1>3, <1>5, <1>6, <1>7, <1>8, ReplaceRooms DEF Top
<1> QED
  BY <1>1, <1>9 DEF GInv, HasRoom, ReplaceTop

(* A call returns.                                                          *)
LEMMA FinishHasRoom ==
  ASSUME TCInv, GInv, at \in InStatement, Node(Top.node) \in Operators \cup {"STRUCT_INIT"},
         NEW res, Finish(res),
         \A depth \in Nat :
           (\A p \in ToSet(res.parts) : IsGood(p, depth, ScopeId)) =>
             IsGood(res, depth + Cost(Top), ScopeId),
         \A room : RoomsFit(stack, at, result, size, MaxNodes[vocabulary], room, ScopeId) =>
                     \A p \in ToSet(res.parts) : IsGood(p, room[Len(stack)], ScopeId)
  PROVE  GInv'
<1>1. /\ at' = "return" /\ stack' = Pop /\ size' = size /\ vocabulary' = vocabulary
      /\ result' = res
  BY DEF Finish, Return
<1>2. at # "decls"
  BY DEF InStatement
<1>3. PICK room : /\ RoomsFit(stack, at, result, size, MaxNodes[vocabulary], room, ScopeId)
                  /\ room[Len(stack)] \in 0 .. size
  BY <1>2, RoomFacts
<1>4. size \in Nat
  BY <1>2, RoomFacts
<1>5. IsGood(res, room[Len(stack)] + Cost(Top), ScopeId)
  <2> DEFINE r == room[Len(stack)]
  <2>1. r \in Nat /\ \A p \in ToSet(res.parts) : IsGood(p, r, ScopeId)
    BY <1>3, <1>4
  <2> HIDE DEF r
  <2>2. IsGood(res, r + Cost(Top), ScopeId)
    BY <2>1
  <2> QED
    BY <2>2 DEF r
<1> DEFINE n == Len(stack)
<1>6. IsSeq(stack) /\ n \in Nat /\ n >= 2
  <2>1. StackFits(stack, at)
    BY DEF TCInv
  <2>2. PICK f \in Nat : f >= 1 /\ f < n
    BY <2>1, BodyFacts
  <2>3. n \in Nat
    BY <2>1, StackFacts
  <2> HIDE DEF n
  <2>4. n >= 2
    BY <2>2, <2>3
  <2> QED
    BY <2>1, <2>3, <2>4, StackFacts
<1>7. IsLinked(stack[n - 1], stack[n])
  <2>1. \A i \in 1 .. (n - 1) : IsLinked(stack[i], stack[i + 1])
    BY <1>3 DEF RoomsFit
  <2> HIDE DEF n
  <2>2. n - 1 \in 1 .. (n - 1) /\ (n - 1) + 1 = n
    BY <1>6
  <2> QED
    BY <2>1, <2>2
<1>8. ~TakesArray(stack[n - 1])
  BY <1>7 DEF IsLinked, Top, Operators, ArrayInits
<1>9. HasRoom(SubSeq(stack, 1, Len(stack) - 1), "return", res, size, MaxNodes[vocabulary])
  BY <1>3, <1>4, <1>5, <1>6, <1>8, PopRooms DEF Top
<1> QED
  BY <1>1, <1>9 DEF GInv, Pop

(* An operator returns what it makes of its operands.                       *)
LEMMA OperatorHasRoom ==
  ASSUME TCInv, GInv, Checking("return"), Node(Top.node) \in Operators,
         NEW res, res.parts = Filled.parts, Finish(res),
         \A depth \in Nat :
           (\A p \in ToSet(Filled.parts) : IsGood(p, depth, ScopeId)) =>
             IsGood(res, depth + 1, ScopeId)
  PROVE  GInv'
<1>1. at \in InStatement
  BY ReturnedFacts
<1>2. Cost(Top) = 1
  BY DEF Cost
<1>3. \A room : RoomsFit(stack, at, result, size, MaxNodes[vocabulary], room, ScopeId) =>
                  \A p \in ToSet(res.parts) : IsGood(p, room[Len(stack)], ScopeId)
  BY OperandsAreGood
<1> QED
  BY <1>1, <1>2, <1>3, FinishHasRoom

(* An expression without children returns.                                  *)
LEMMA LeafHasRoom ==
  ASSUME TCInv, GInv, Checking("expression"), NEW res, Return(res, stack),
         \A depth \in Nat : IsGood(res, depth, ScopeId)
  PROVE  GInv'
<1>1. /\ at' = "return" /\ stack' = stack /\ size' = size /\ vocabulary' = vocabulary
      /\ result' = res
  BY DEF Return
<1>2. at = "expression" /\ at # "decls"
  BY DEF Checking
<1>3. PICK room : /\ RoomsFit(stack, at, result, size, MaxNodes[vocabulary], room, ScopeId)
                  /\ room[Len(stack)] \in 0 .. size
  BY <1>2, RoomFacts
<1>4. size \in Nat
  BY <1>2, RoomFacts
<1>5. IsGood(res, room[Len(stack)], ScopeId)
  <2>1. room[Len(stack)] \in Nat
    BY <1>3, <1>4
  <2> QED
    BY <2>1
<1>6. ~TakesArray(stack[Len(stack)])
  BY <1>2, <1>3 DEF RoomsFit
<1>7. RoomsFit(stack, "return", res, size, MaxNodes[vocabulary], room, ScopeId)
  BY <1>3, <1>5, <1>6 DEF RoomsFit
<1> QED
  BY <1>1, <1>7 DEF GInv, HasRoom

(* What is not mutable, holds no literal and names nothing is always good.  *)
LEMMA PlainIsGood ==
  ASSUME NEW res, ~res.is_var_and_mutable, ~IsLiteralOrSum(res),
         Node(res.node) \notin {"IDENTIFIER", ".", "->"}, NEW depth \in Nat, NEW scope
  PROVE  IsGood(res, depth, scope)
BY NotMutable, NoLiterals, UsesNothing DEF IsGood

(* What passes on how mutable one or all of its operands are.               *)
LEMMA PassedOnIsGood ==
  ASSUME NEW res, NEW depth \in Nat, NEW scope,
         \A p \in ToSet(res.parts) : IsGood(p, depth, scope),
         Inner(res) \subseteq ToSet(res.parts),
         res.is_var_and_mutable => \A p \in Inner(res) : p.is_var_and_mutable,
         ~IsLiteralOrSum(res), Node(res.node) \notin {"IDENTIFIER", ".", "->"}
  PROVE  IsGood(res, depth + 1, scope)
<1>1. \A p \in Inner(res) : MutableWithin(p, depth)
  BY DEF IsGood
<1>2. MutableWithin(res, depth + 1)
  BY <1>1, MutableOfParts
<1>3. LiteralsWithin(res, depth + 1)
  BY NoLiterals
<1> QED
  BY <1>2, <1>3, UsesNothing DEF IsGood

(* The parts of a sum are sums or literals.                                 *)
LEMMA SumBelow ==
  ASSUME NEW res, NEW depth \in Nat, IsSumWithin(res, depth + 1), NEW p \in ToSet(res.parts)
  PROVE  IsSumWithin(p, depth)
<1> SUFFICES ASSUME NEW n \in 0 .. depth, NEW r \in Levels(p)[n]
             PROVE  IsLiteralOrSum(r)
  BY DEF IsSumWithin
<1>1. n \in Nat /\ n + 1 \in 0 .. (depth + 1)
  OBVIOUS
<1>2. Levels(res)[n + 1] = UNION {Levels(q)[n] : q \in ToSet(res.parts)}
  BY <1>1, LevelsBelow
<1>3. r \in Levels(res)[n + 1]
  BY <1>2
<1> QED
  BY <1>1, <1>3 DEF IsSumWithin

(* A sum takes on the types that both its parts can.                        *)
LEMMA SumIsGood ==
  ASSUME NEW res, NEW depth \in Nat, NEW scope, NEW p, NEW q, ToSet(res.parts) = {p, q},
         IsGood(p, depth, scope), IsGood(q, depth, scope), Node(res.node) = "BINARY",
         \A s, t : p.type = <<LiteralOf(s)>> /\ q.type = <<LiteralOf(t)>> =>
                     res.type = <<LiteralOf(s \cap t)>>
  PROVE  LiteralsWithin(res, depth + 1)
<1> SUFFICES ASSUME IsSumWithin(res, depth + 1)
             PROVE  \E types : res.type = <<LiteralOf(types)>> /\ FitsAllIn(types, res)
  BY DEF LiteralsWithin
<1>1. IsSumWithin(p, depth) /\ IsSumWithin(q, depth)
  BY SumBelow
<1>2. PICK s : p.type = <<LiteralOf(s)>> /\ FitsAllIn(s, p)
  BY <1>1 DEF IsGood, LiteralsWithin
<1>3. PICK t : q.type = <<LiteralOf(t)>> /\ FitsAllIn(t, q)
  BY <1>1 DEF IsGood, LiteralsWithin
<1>4. res.type = <<LiteralOf(s \cap t)>>
  BY <1>2, <1>3
<1>5. ASSUME NEW n \in Nat, NEW r \in Levels(res)[n], Node(r.node) = "INT_LITERAL"
      PROVE  s \cap t \subseteq Acceptable(IntLiterals[Datum(r.node)])
  <2>1. n # 0
    <3>1. Levels(res)[0] = {res}
      BY LevelsAre
    <3> QED
      BY <1>5, <3>1
  <2>2. n - 1 \in Nat /\ (n - 1) + 1 = n
    BY <2>1
  <2>3. Levels(res)[(n - 1) + 1] = UNION {Levels(x)[n - 1] : x \in ToSet(res.parts)}
    BY <2>2, LevelsBelow
  <2>4. r \in Levels(p)[n - 1] \/ r \in Levels(q)[n - 1]
    BY <2>2, <2>3
  <2> QED
    BY <1>2, <1>3, <1>5, <2>2, <2>4 DEF FitsAllIn
<1>6. FitsAllIn(s \cap t, res)
  BY <1>5 DEF FitsAllIn
<1> QED
  BY <1>4, <1>6

(* An integer literal takes on the types that hold it.                      *)
LEMMA LiteralIsGood ==
  ASSUME NEW n, Node(n) = "INT_LITERAL", NEW depth \in Nat, NEW scope
  PROVE  IsGood(Result(Call(n), <<LiteralOf(Acceptable(IntLiterals[Datum(n)]))>>, FALSE, FALSE),
                depth, scope)
<1> DEFINE types == Acceptable(IntLiterals[Datum(n)])
           res == Result(Call(n), <<LiteralOf(types)>>, FALSE, FALSE)
<1>1. /\ res.node = n /\ res.parts = <<>> /\ res.type = <<LiteralOf(types)>>
      /\ res.is_var_and_mutable = FALSE
  BY DEF Result, Call, Frame
<1> HIDE DEF res
<1>2. ToSet(res.parts) = {}
  BY <1>1 DEF ToSet
<1>3. ASSUME NEW m \in Nat, NEW r \in Levels(res)[m]
      PROVE  r = res
  <2>1. CASE m = 0
    <3>1. Levels(res)[0] = {res}
      BY LevelsAre
    <3> QED
      BY <2>1, <3>1
  <2>2. CASE m # 0
    <3>1. m - 1 \in Nat /\ (m - 1) + 1 = m
      BY <2>2
    <3>2. Levels(res)[(m - 1) + 1] = UNION {Levels(x)[m - 1] : x \in ToSet(res.parts)}
      BY <3>1, LevelsBelow
    <3> QED
      BY <1>2, <3>1, <3>2
  <2> QED
    BY <2>1, <2>2
<1>4. FitsAllIn(types, res)
  BY <1>1, <1>3 DEF FitsAllIn
<1>5. LiteralsWithin(res, depth)
  BY <1>1, <1>4 DEF LiteralsWithin
<1>6. IsGood(res, depth, scope)
  BY <1>1, <1>5, NotMutable, UsesNothing DEF IsGood
<1> QED
  BY <1>6 DEF res

----------------------------------------------------------------------------
(* Operators, one after the other.  Those of one operand.                   *)
LEMMA UnaryHasRoom ==
  ASSUME TCInv, GInv,
         \/ CheckPrePostIncDec \/ CheckNegateNot \/ CheckAddrOf \/ CheckRefOf \/ CheckDeref
         \/ UnaryOfNull
  PROVE  GInv'
<1>1. Returning("UNARY")
  BY DEF CheckPrePostIncDec, CheckNegateNot, CheckAddrOf, CheckRefOf, CheckDeref, UnaryOfNull,
         ReturningUnary
<1>2. Checking("return") /\ Node(Top.node) = "UNARY" /\ Node(Top.node) \in Operators
  BY <1>1 DEF Returning, Operators
<1>3. /\ IsResult(result) /\ Filled.node = <<"UNARY", Datum(Top.node)>>
      /\ Filled.parts = <<result>>
  <2>1. Top.parts = <<>>
    BY <1>2, WaitingFacts DEF IsFrame, HasItsType
  <2> QED
    BY <1>1, <1>2, <2>1, UnaryFacts, ReturnedFacts
<1>4. ToSet(Filled.parts) = {result} /\ Filled.parts[1] = result
  BY <1>3 DEF ToSet
<1> DEFINE operand == RefStripped(result)
           pointer == Head(operand.type)
<1>5. \/ Exit \/ End("null_pointer")
      \/ Datum(Top.node) \in {"++", "-", "~", "!"} /\ Finish(SameAs(Filled, result))
      \/ \E type : Finish(Temporary(Filled, type))
      \/ /\ Datum(Top.node) = "*" /\ result.type # NullType
         /\ Finish(Result(Filled, Tail(operand.type), operand.is_lvalue,
                          operand.is_lvalue /\ pointer.to_mutable))
  BY DEF CheckPrePostIncDec, CheckNegateNot, CheckAddrOf, CheckRefOf, CheckDeref, UnaryOfNull,
         ReturningUnary
<1>6. CASE Exit \/ End("null_pointer")
  BY <1>6, EndHasRoom DEF Exit, End
<1>7. CASE Datum(Top.node) \in {"++", "-", "~", "!"} /\ Finish(SameAs(Filled, result))
  <2> DEFINE res == SameAs(Filled, result)
  <2>1. /\ res.node = <<"UNARY", Datum(Top.node)>> /\ res.parts = Filled.parts
        /\ res.is_var_and_mutable = result.is_var_and_mutable
    BY <1>3 DEF SameAs, Result
  <2> HIDE DEF res
  <2>2. Inner(res) = {result} /\ ~IsLiteralOrSum(res) /\ Node(res.node) = "UNARY"
    BY <1>4, <1>7, <2>1 DEF Inner, IsLiteralOrSum, Node
  <2>3. ASSUME NEW depth \in Nat, \A p \in ToSet(Filled.parts) : IsGood(p, depth, ScopeId)
        PROVE  IsGood(res, depth + 1, ScopeId)
    BY <1>4, <2>1, <2>2, <2>3, PassedOnIsGood
  <2>4. Finish(res)
    BY <1>7 DEF res
  <2> QED
    BY <1>2, <2>1, <2>3, <2>4, OperatorHasRoom
<1>8. CASE \E type : Finish(Temporary(Filled, type))
  <2>1. PICK type : Finish(Temporary(Filled, type))
    BY <1>8
  <2> DEFINE res == Temporary(Filled, type)
  <2>2. /\ res.node = <<"UNARY", Datum(Top.node)>> /\ res.parts = Filled.parts
        /\ ~res.is_var_and_mutable
    BY <1>3 DEF Temporary, Result
  <2> HIDE DEF res
  <2>3. ~IsLiteralOrSum(res) /\ Node(res.node) = "UNARY"
    BY <2>2 DEF IsLiteralOrSum, Node
  <2>4. \A depth \in Nat : IsGood(res, depth + 1, ScopeId)
    BY <2>2, <2>3, PlainIsGood
  <2>5. Finish(res)
    BY <2>1 DEF res
  <2> QED
    BY <1>2, <2>2, <2>4, <2>5, OperatorHasRoom
<1>9. CASE /\ Datum(Top.node) = "*" /\ result.type # NullType
           /\ Finish(Result(Filled, Tail(operand.type), operand.is_lvalue,
                            operand.is_lvalue /\ pointer.to_mutable))
  <2> DEFINE res == Result(Filled, Tail(operand.type), operand.is_lvalue,
                           operand.is_lvalue /\ pointer.to_mutable)
  <2>1. /\ res.node = <<"UNARY", "*">> /\ res.parts = Filled.parts
        /\ res.is_var_and_mutable => pointer.to_mutable
    BY <1>3, <1>9 DEF Result
  <2>2. operand.type = Stripped(result.type)
    BY <1>3, <1>9, RefStrippedFacts
  <2> HIDE DEF res
  <2>3. Inner(res) = {res} /\ ~IsLiteralOrSum(res) /\ Node(res.node) = "UNARY"
    BY <2>1 DEF Inner, IsLiteralOrSum, Node
  <2>4. res.is_var_and_mutable => DeclaredMutable(res)
    BY <1>4, <2>1, <2>2, <2>3 DEF DeclaredMutable
  <2>5. \A depth \in Nat : IsGood(res, depth + 1, ScopeId)
    BY <2>3, <2>4, MutableOfItself, NoLiterals, UsesNothing DEF IsGood
  <2>6. Finish(res)
    BY <1>9 DEF res
  <2> QED
    BY <1>2, <2>1, <2>5, <2>6, OperatorHasRoom
<1> QED
  BY <1>5, <1>6, <1>7, <1>8, <1>9

(* Those of more: what passes on an operand, and what is a new value.       *)
LEMMA PassOnHasRoom ==
  ASSUME TCInv, GInv, Checking("return"), Node(Top.node) \in Operators \ {".", "->"},
         Node(Top.node) = "BINARY" => Datum(Top.node) \notin {"+", "*"},
         NEW res, res.node = Top.node, res.parts = Filled.parts, Finish(res),
         Inner(res) \subseteq ToSet(Filled.parts),
         res.is_var_and_mutable => \A p \in Inner(res) : p.is_var_and_mutable
  PROVE  GInv'
<1>1. ~IsLiteralOrSum(res) /\ Node(res.node) \notin {"IDENTIFIER", ".", "->"}
  BY DEF IsLiteralOrSum, Operators, Node, Datum
<1>2. ASSUME NEW depth \in Nat, \A p \in ToSet(Filled.parts) : IsGood(p, depth, ScopeId)
      PROVE  IsGood(res, depth + 1, ScopeId)
  BY <1>1, <1>2, PassedOnIsGood
<1> QED
  BY <1>2, OperatorHasRoom

(* An operator whose result is a new value.                                 *)
LEMMA NewValueHasRoom ==
  ASSUME TCInv, GInv, Checking("return"), Node(Top.node) \in Operators \ {".", "->"},
         Node(Top.node) = "BINARY" => Datum(Top.node) \notin {"+", "*"},
         NEW res, res.node = Top.node, res.parts = Filled.parts, Finish(res),
         ~res.is_var_and_mutable
  PROVE  GInv'
<1>1. ~IsLiteralOrSum(res) /\ Node(res.node) \notin {"IDENTIFIER", ".", "->"}
  BY DEF IsLiteralOrSum, Operators, Node, Datum
<1>2. \A depth \in Nat : IsGood(res, depth + 1, ScopeId)
  BY <1>1, PlainIsGood
<1> QED
  BY <1>2, OperatorHasRoom

(* The places of what has been checked.                                     *)
LEMMA PartsFacts ==
  ASSUME TCInv, Checking("return")
  PROVE  /\ \A i \in 1 .. Len(Filled.parts) : Part(i) \in ToSet(Filled.parts)
         /\ IsPart(2) => ToSet(Filled.parts) = {Part(1), Part(2)}
         /\ Last(Filled.parts) = result /\ result \in ToSet(Filled.parts)
         /\ \A type, lvalue, mutable :
              LET res == Result(Filled, type, lvalue, mutable)
              IN  /\ res.node = Top.node /\ res.parts = Filled.parts /\ res.type = type
                  /\ res.is_var_and_mutable = mutable
<1>1. /\ Filled.parts = Append(Top.parts, result) /\ Filled.node = Top.node
      /\ Len(Filled.parts) = Len(Top.parts) + 1 /\ Part(Len(Filled.parts)) = result
  BY ReturnedFacts
<1>2. IsSeq(Top.parts) /\ Len(Top.parts) \in Nat
  BY WaitingFacts
<1>3. IsSeq(Filled.parts) /\ ToSet(Filled.parts) = ToSet(Top.parts) \cup {result}
  BY <1>1, <1>2, AppendSeq
<1>4. \A i \in 1 .. Len(Filled.parts) : Part(i) \in ToSet(Filled.parts)
  BY <1>3, SeqFacts DEF Part
<1>5. ASSUME IsPart(2)
      PROVE  ToSet(Filled.parts) = {Part(1), Part(2)}
  <2>1. Len(Filled.parts) = 2 /\ 1 \in 1 .. 2 /\ 2 \in 1 .. 2 /\ 1 .. 2 = {1, 2}
    BY <1>5 DEF IsPart
  <2>2. \A p \in ToSet(Filled.parts) : \E i \in 1 .. Len(Filled.parts) : Part(i) = p
    BY <1>3, SeqFacts DEF Part
  <2>3. \A p \in ToSet(Filled.parts) : p = Part(1) \/ p = Part(2)
    BY <2>1, <2>2
  <2>4. Part(1) \in ToSet(Filled.parts) /\ Part(2) \in ToSet(Filled.parts)
    BY <1>4, <2>1
  <2> QED
    BY <2>3, <2>4
<1>6. Last(Filled.parts) = result
  BY <1>1 DEF Last, Part
<1> QED
  BY <1>1, <1>3, <1>4, <1>5, <1>6 DEF Result

(* A sum of two literals takes on the types that both can; one with a       *)
(* pointer is as mutable as the pointer.                                    *)
LEMMA ArithHasRoom ==
  ASSUME TCInv, GInv, CheckArith
  PROVE  GInv'
<1>1. /\ Returning("BINARY") /\ IsPart(2) /\ ~HasNull({Part(1), Part(2)})
      /\ Datum(Top.node) \in {"+", "*"}
  BY DEF CheckArith, ReturningBinary
<1>2. /\ Checking("return") /\ Node(Top.node) \in Operators /\ Node(Top.node) = "BINARY"
      /\ Part(1).type # NullType /\ Part(2).type # NullType
  BY <1>1, BinaryFacts DEF Returning
<1>3. /\ ToSet(Filled.parts) = {Part(1), Part(2)}
      /\ \A type, lvalue, mutable :
           LET res == Result(Filled, type, lvalue, mutable)
           IN  /\ res.node = Top.node /\ res.parts = Filled.parts /\ res.type = type
               /\ res.is_var_and_mutable = mutable
  BY <1>1, <1>2, PartsFacts
<1> DEFINE l == Stripped(Part(1).type)
           r == Stripped(Part(2).type)
<1>4. \/ Exit
      \/ /\ Datum(Top.node) = "+" /\ Kind(l) = "PTR" /\ IsNumeric(r)
         /\ Finish(SameAs(Filled, Part(1)))
      \/ /\ Datum(Top.node) = "+" /\ Kind(l) # "PTR" /\ Kind(r) = "PTR" /\ IsNumeric(l)
         /\ Finish(SameAs(Filled, Part(2)))
      \/ Finish(Temporary(Filled, ArithType(Part(1), Part(2))))
  BY DEF CheckArith
<1>5. \A s : LET type == <<LiteralOf(s)>>
             IN  /\ Stripped(type) = type /\ Kind(type) = "NAMED" /\ IsLiteral(type)
                 /\ Head(type).acceptable = s
  BY DEF Stripped, Kind, IsLiteral, IsLiteralLayer, LiteralOf
<1>6. ASSUME NEW res, res.node = Top.node, res.parts = Filled.parts, Finish(res),
             \A s, t : Part(1).type = <<LiteralOf(s)>> /\ Part(2).type = <<LiteralOf(t)>> =>
                         res.type = <<LiteralOf(s \cap t)>>,
             res.is_var_and_mutable =>
               \A p \in Inner(res) : p.is_var_and_mutable /\ p \in {Part(1), Part(2)}
      PROVE  GInv'
  <2>1. ASSUME NEW depth \in Nat, \A p \in ToSet(Filled.parts) : IsGood(p, depth, ScopeId)
        PROVE  IsGood(res, depth + 1, ScopeId)
    <3>1. IsGood(Part(1), depth, ScopeId) /\ IsGood(Part(2), depth, ScopeId)
      BY <1>3, <2>1
    <3>2. LiteralsWithin(res, depth + 1)
      BY <1>2, <1>3, <1>6, <3>1, SumIsGood
    <3>3. MutableWithin(res, depth + 1)
      BY <1>6, <3>1, MutableOfParts DEF IsGood
    <3> QED
      BY <1>2, <1>6, <3>2, <3>3, UsesNothing DEF IsGood
  <2> QED
    BY <1>2, <1>6, <2>1, OperatorHasRoom
<1>7. ASSUME NEW res, res.node = Top.node, res.parts = Filled.parts, Datum(Top.node) = "+"
      PROVE  Inner(res) = {p \in {Part(1), Part(2)} : Kind(Stripped(p.type)) = "PTR"}
  <2>1. res.node = <<"BINARY", "+">>
    BY <1>2, <1>7, WaitingFacts DEF IsFrame, HasItsType
  <2>2. res.node # <<"UNARY", "*">> /\ Node(res.node) \notin {"UNARY", "CAST", "ASSIGN"}
    BY <2>1 DEF Node
  <2>3. Inner(res) = {p \in ToSet(res.parts) : Kind(Stripped(p.type)) = "PTR"}
    BY <2>1, <2>2 DEF Inner, Node
  <2> QED
    BY <1>3, <1>7, <2>3
<1>8. CASE /\ Datum(Top.node) = "+" /\ Kind(l) = "PTR" /\ IsNumeric(r)
           /\ Finish(SameAs(Filled, Part(1)))
  <2> DEFINE res == SameAs(Filled, Part(1))
  <2>1. /\ res.node = Top.node /\ res.parts = Filled.parts
        /\ res.is_var_and_mutable = Part(1).is_var_and_mutable
    BY <1>3 DEF SameAs
  <2>2. Kind(r) # "PTR"
    BY <1>8 DEF IsNumeric, IsA
  <2> HIDE DEF res
  <2>3. Inner(res) \subseteq {Part(1)}
    BY <1>7, <1>8, <2>1, <2>2
  <2>4. \A s : Part(1).type # <<LiteralOf(s)>>
    BY <1>5, <1>8
  <2>5. Finish(res)
    BY <1>8 DEF res
  <2> QED
    BY <1>6, <2>1, <2>3, <2>4, <2>5
<1>9. CASE /\ Datum(Top.node) = "+" /\ Kind(l) # "PTR" /\ Kind(r) = "PTR" /\ IsNumeric(l)
           /\ Finish(SameAs(Filled, Part(2)))
  <2> DEFINE res == SameAs(Filled, Part(2))
  <2>1. /\ res.node = Top.node /\ res.parts = Filled.parts
        /\ res.is_var_and_mutable = Part(2).is_var_and_mutable
    BY <1>3 DEF SameAs
  <2> HIDE DEF res
  <2>3. Inner(res) \subseteq {Part(2)}
    BY <1>7, <1>9, <2>1
  <2>4. \A s : Part(2).type # <<LiteralOf(s)>>
    BY <1>5, <1>9
  <2>5. Finish(res)
    BY <1>9 DEF res
  <2> QED
    BY <1>6, <2>1, <2>3, <2>4, <2>5
<1>10. CASE Finish(Temporary(Filled, ArithType(Part(1), Part(2))))
  <2> DEFINE res == Temporary(Filled, ArithType(Part(1), Part(2)))
  <2>1. /\ res.node = Top.node /\ res.parts = Filled.parts /\ ~res.is_var_and_mutable
        /\ res.type = ArithType(Part(1), Part(2))
    BY <1>2, ReturnedFacts DEF Temporary, Result
  <2> HIDE DEF res
  <2>2. ASSUME NEW s, NEW t, Part(1).type = <<LiteralOf(s)>>, Part(2).type = <<LiteralOf(t)>>
        PROVE  res.type = <<LiteralOf(s \cap t)>>
    <3>1. /\ l = <<LiteralOf(s)>> /\ IsLiteral(l) /\ Head(l).acceptable = s
          /\ r = <<LiteralOf(t)>> /\ IsLiteral(r) /\ Head(r).acceptable = t
      BY <1>5, <2>2
    <3> QED
      BY <2>1, <3>1 DEF ArithType
  <2>3. Finish(res)
    BY <1>10 DEF res
  <2> QED
    BY <1>6, <2>1, <2>2, <2>3
<1> QED
  BY <1>4, <1>8, <1>9, <1>10, EndHasRoom DEF Exit, End

(* The other operators of two operands.                                     *)
LEMMA BinaryHasRoom ==
  ASSUME TCInv, GInv, EndFirstOperand \/ CheckShiftLog \/ CheckCmp \/ BinaryOfNull
  PROVE  GInv'
<1>1. Returning("BINARY")
  BY DEF EndFirstOperand, CheckShiftLog, CheckCmp, BinaryOfNull, ReturningBinary
<1>2. /\ Checking("return") /\ Node(Top.node) = "BINARY"
      /\ Node(Top.node) \in Operators \ {".", "->"}
  BY <1>1 DEF Returning, Operators
<1>3. /\ \A i \in 1 .. Len(Filled.parts) : Part(i) \in ToSet(Filled.parts)
      /\ \A type, lvalue, mutable :
           LET res == Result(Filled, type, lvalue, mutable)
           IN  /\ res.node = Top.node /\ res.parts = Filled.parts
               /\ res.is_var_and_mutable = mutable
  BY <1>2, PartsFacts
<1>4. CASE EndFirstOperand
  <2>1. Goto("expression", ReplaceTop(Filled))
    BY <1>4 DEF EndFirstOperand, NextPart
  <2>2. "expression" \in InStatement /\ "expression" # "return"
    BY DEF InStatement, Points
  <2>3. Node(Top.node) \in BodyKinds
                             \ (StatementKinds \cup ArrayInits \cup {"UNARY", "CAST", ".", "->"})
    BY <1>2 DEF BodyKinds, StatementKinds, ArrayInits, ExpressionKinds
  <2> QED
    BY <1>2, <2>1, <2>2, <2>3, TakeHasRoom
<1>5. CASE CheckShiftLog
  <2>1. /\ IsPart(2) /\ Datum(Top.node) \in {"<<", "&&"}
        /\ Exit \/ Finish(SameAs(Filled, Part(1)))
    BY <1>5 DEF CheckShiftLog, ReturningBinary
  <2>2. CASE Finish(SameAs(Filled, Part(1)))
    <3> DEFINE res == SameAs(Filled, Part(1))
    <3>1. /\ res.node = Top.node /\ res.parts = Filled.parts
          /\ res.is_var_and_mutable = Part(1).is_var_and_mutable
      BY <1>3 DEF SameAs
    <3> HIDE DEF res
    <3>2. Len(Filled.parts) = 2 /\ 1 \in 1 .. 2
      BY <2>1 DEF IsPart
    <3>3. Inner(res) = {Part(1)} /\ Part(1) \in ToSet(Filled.parts)
      <4>1. Top.node # <<"BINARY", "+">>
        BY <2>1 DEF Datum
      <4> QED
        BY <1>2, <1>3, <3>1, <3>2, <4>1 DEF Inner, Part
    <3>4. Finish(res)
      BY <2>2 DEF res
    <3> QED
      BY <1>2, <2>1, <3>1, <3>3, <3>4, PassOnHasRoom
  <2> QED
    BY <2>1, <2>2, EndHasRoom DEF Exit, End
<1>6. CASE CheckCmp
  <2> DEFINE res == Temporary(Filled, <<LiteralOf({"bool"})>>)
  <2>1. Datum(Top.node) \in {"<", "=="} /\ (Exit \/ Finish(res))
    BY <1>6 DEF CheckCmp, ReturningBinary
  <2>2. res.node = Top.node /\ res.parts = Filled.parts /\ ~res.is_var_and_mutable
    BY <1>3 DEF Temporary
  <2> HIDE DEF res
  <2> QED
    BY <1>2, <2>1, <2>2, NewValueHasRoom, EndHasRoom DEF Exit, End
<1>7. CASE BinaryOfNull
  BY <1>7, EndHasRoom DEF BinaryOfNull, Exit, End
<1> QED
  BY <1>4, <1>5, <1>6, <1>7

(* A ternary is mutable if both its branches are.                           *)
LEMMA TernaryHasRoom ==
  ASSUME TCInv, GInv, CheckTernary
  PROVE  GInv'
<1> DEFINE res == Result(Filled, Part(2).type, Part(2).is_lvalue /\ Part(3).is_lvalue,
                         Part(2).is_var_and_mutable /\ Part(3).is_var_and_mutable)
<1>1. /\ Checking("return") /\ Node(Top.node) = "TERNARY"
      /\ \/ End("null_pointer") \/ Exit
         \/ Goto("expression", ReplaceTop(Filled))
         \/ IsPart(3) /\ Finish(res)
  BY DEF CheckTernary, Returning, IfSame, NextPart
<1>2. /\ Node(Top.node) \in Operators \ {".", "->"}
      /\ Node(Top.node) \in BodyKinds
                              \ (StatementKinds \cup ArrayInits \cup {"UNARY", "CAST", ".", "->"})
      /\ "expression" \in InStatement /\ "expression" # "return"
  BY <1>1
     DEF BodyKinds, StatementKinds, ArrayInits, ExpressionKinds, Operators, InStatement, Points
<1>3. CASE IsPart(3) /\ Finish(res)
  <2>1. /\ res.node = Top.node /\ res.parts = Filled.parts
        /\ res.is_var_and_mutable => Part(2).is_var_and_mutable /\ Part(3).is_var_and_mutable
    BY <1>1, ReturnedFacts DEF Result
  <2> HIDE DEF res
  <2>2. Len(Filled.parts) = 3 /\ 2 \in 1 .. 3 /\ 3 \in 1 .. 3
    BY <1>3 DEF IsPart
  <2>3. Inner(res) = {Part(2), Part(3)}
    BY <1>1, <2>1 DEF Inner, Part
  <2>4. Inner(res) \subseteq ToSet(Filled.parts)
    BY <1>1, <2>2, <2>3, PartsFacts
  <2> QED
    BY <1>1, <1>2, <1>3, <2>1, <2>3, <2>4, PassOnHasRoom
<1> HIDE DEF res
<1> QED
  BY <1>1, <1>2, <1>3, TakeHasRoom, EndHasRoom DEF Exit, End

(* An assignment passes on its left side.                                   *)
LEMMA AssignHasRoom ==
  ASSUME TCInv, GInv, CheckAssign
  PROVE  GInv'
<1> DEFINE res == SameAs(Filled, Part(1))
<1>1. /\ Checking("return") /\ Node(Top.node) = "ASSIGN"
      /\ \/ End("null_pointer") \/ Exit
         \/ Goto("expression", ReplaceTop(Filled))
         \/ IsPart(2) /\ Finish(res)
  BY DEF CheckAssign, Returning, IfSame, NextPart
<1>2. /\ Node(Top.node) \in Operators \ {".", "->"}
      /\ Node(Top.node) \in BodyKinds
                              \ (StatementKinds \cup ArrayInits \cup {"UNARY", "CAST", ".", "->"})
      /\ "expression" \in InStatement /\ "expression" # "return"
  BY <1>1
     DEF BodyKinds, StatementKinds, ArrayInits, ExpressionKinds, Operators, InStatement, Points
<1>3. CASE IsPart(2) /\ Finish(res)
  <2>1. /\ res.node = Top.node /\ res.parts = Filled.parts
        /\ res.is_var_and_mutable = Part(1).is_var_and_mutable
    BY <1>1, ReturnedFacts DEF SameAs, Result
  <2> HIDE DEF res
  <2>2. Len(Filled.parts) = 2 /\ 1 \in 1 .. 2
    BY <1>3 DEF IsPart
  <2>3. Inner(res) = {Part(1)}
    <3>1. /\ res.node # <<"UNARY", "*">> /\ res.node # <<"BINARY", "+">>
          /\ Node(res.node) = "ASSIGN"
      BY <1>1, <2>1 DEF Node
    <3>2. Inner(res) = {res.parts[1]}
      BY <3>1 DEF Inner
    <3> QED
      BY <2>1, <3>2 DEF Part
  <2>4. Inner(res) \subseteq ToSet(Filled.parts)
    BY <1>1, <2>2, <2>3, PartsFacts
  <2> QED
    BY <1>1, <1>2, <1>3, <2>1, <2>3, <2>4, PassOnHasRoom
<1> HIDE DEF res
<1> QED
  BY <1>1, <1>2, <1>3, TakeHasRoom, EndHasRoom DEF Exit, End

----------------------------------------------------------------------------
(* The scope of private access is the function whose body is checked.       *)
LEMMA ScopeIsFunction ==
  ASSUME TCInv, at # "decls"
  PROVE  ScopeId \in OfKind("FN")
<1>1. StackFits(stack, at)
  BY DEF TCInv
<1>2. PICK f \in DOMAIN stack : IsBodyOf(f, stack)
  BY <1>1 DEF StackFits
<1>3. Node(stack[f].node) = "FN"
  BY <1>2 DEF IsBodyOf
<1> DEFINE IsFn(i) == Node(stack[i].node) = "FN"
           c == CHOOSE i \in DOMAIN stack : IsFn(i)
<1>4. c \in DOMAIN stack /\ IsFn(c)
  BY <1>3
<1>5. ScopeId = Datum(stack[c].node)
  BY DEF ScopeId
<1> HIDE DEF c
<1>6. IsFrame(stack[c])
  BY <1>1, <1>4 DEF StackFits
<1> QED
  BY <1>4, <1>5, <1>6 DEF IsFrame, HasItsType

(* A container that is around a function has the function inside.           *)
LEMMA AroundIsInside ==
  ASSUME NEW fn \in OfKind("FN"), NEW c \in Containers, c \in ScopesAround(fn)
  PROVE  fn \in Inside(c)
<1> DEFINE IsAround(g) ==
             g = [n \in Nat |-> IF n = 0 THEN fn ELSE
                    IF g[n - 1] = "none" THEN "none" ELSE Symbols[g[n - 1]].scope]
           IsLevel(g) ==
             g = [n \in Nat |-> IF n = 0 THEN {c}
                    ELSE UNION {ToSet(Symbols[d].decls) : d \in g[n - 1] \cap Containers}]
           around == CHOOSE g : IsAround(g)
           level == CHOOSE g : IsLevel(g)
<1>1. PICK a : Repeats("around", fn, a, Nat)
  BY RepeatsForEver
<1>2. PICK l : Repeats("inside", {c}, l, Nat)
  BY RepeatsForEver
<1>3. /\ \A x : NextOf("around", x) = IF x = "none" THEN "none" ELSE Symbols[x].scope
      /\ \A x : NextOf("inside", x) = UNION {ToSet(Symbols[d].decls) : d \in x \cap Containers}
  BY Zenon DEF NextOf
<1>4. /\ \A g : Repeats("around", fn, g, Nat) <=> IsAround(g)
      /\ \A g : Repeats("inside", {c}, g, Nat) <=> IsLevel(g)
  BY <1>3, Zenon DEF Repeats
<1>5. /\ ScopesAround(fn) = {around[n] : n \in 0 .. Cardinality(Containers)} \ {"none"}
      /\ Inside(c) = UNION {level[n] : n \in 1 .. Cardinality(Containers)}
  BY Zenon DEF ScopesAround, Inside
<1> HIDE DEF IsAround, IsLevel
<1>6. Repeats("around", fn, around, Nat) /\ Repeats("inside", {c}, level, Nat)
  BY <1>1, <1>2, <1>4, Zenon
<1> HIDE DEF around, level
<1>7. /\ around[0] = fn
      /\ \A n \in Nat : around[n + 1] = IF around[n] = "none" THEN "none"
                                        ELSE Symbols[around[n]].scope
  BY <1>3, <1>6, RepeatsStep
<1>8. /\ level[0] = {c}
      /\ \A n \in Nat : level[n + 1] =
           UNION {ToSet(Symbols[d].decls) : d \in level[n] \cap Containers}
  BY <1>3, <1>6, RepeatsStep
<1>9. PICK k \in 0 .. Cardinality(Containers) : around[k] = c /\ c # "none"
  BY <1>5
<1>10. k \in Nat
  OBVIOUS
<1>11. fn \notin Containers
  BY DEF OfKind, Containers, Structs
<1>12. \A n \in Nat : around[n] \in Containers \cup OfKind("FN") \cup {"none"}
  <2> DEFINE T == {n \in Nat : around[n] \in Containers \cup OfKind("FN") \cup {"none"}}
  <2>1. 0 \in T /\ T \in SUBSET Nat
    BY <1>7
  <2>2. \A n \in T : n + 1 \in T
    BY <1>7, ScopesAssumption
  <2> HIDE DEF T
  <2>3. T = Nat
    BY <2>1, <2>2, AllNat
  <2> QED
    BY <2>3 DEF T
<1>13. ASSUME NEW n \in Nat, around[n + 1] # "none"
       PROVE  /\ around[n] # "none" /\ around[n + 1] \in Containers
              /\ around[n] \in ToSet(Symbols[around[n + 1]].decls)
  BY <1>7, <1>12, <1>13, ScopesAssumption
<1> DEFINE Holds(n) == /\ around[k - n] \in level[n] /\ around[k - n] # "none"
                       /\ n < k => around[k - n] \in Containers
           T == {n \in Nat : n <= k => Holds(n)}
<1>14. Holds(0)
  BY <1>8, <1>9, <1>10
<1>15. ASSUME NEW n \in Nat, n + 1 <= k, Holds(n)
       PROVE  Holds(n + 1)
  <2>1. k - (n + 1) \in Nat /\ (k - (n + 1)) + 1 = k - n /\ n < k
    BY <1>10, <1>15
  <2>2. /\ around[k - (n + 1)] # "none"
        /\ around[k - (n + 1)] \in ToSet(Symbols[around[k - n]].decls)
    BY <1>13, <1>15, <2>1
  <2>3. around[k - (n + 1)] \in level[n + 1]
    BY <1>8, <1>15, <2>1, <2>2
  <2>4. ASSUME n + 1 < k
        PROVE  around[k - (n + 1)] \in Containers
    <3>1. (k - (n + 1)) - 1 \in Nat /\ ((k - (n + 1)) - 1) + 1 = k - (n + 1)
      BY <1>10, <2>4
    <3> QED
      BY <1>13, <2>2, <3>1
  <2> QED
    BY <2>2, <2>3, <2>4
<1> HIDE DEF Holds
<1>16. T = Nat
  <2>1. 0 \in T /\ T \in SUBSET Nat
    BY <1>14
  <2>2. \A n \in T : n + 1 \in T
    <3> SUFFICES ASSUME NEW n \in T, n + 1 <= k
                 PROVE  Holds(n + 1)
      OBVIOUS
    <3>1. n \in Nat /\ n <= k
      BY <1>10
    <3> QED
      BY <1>15, <3>1
  <2> HIDE DEF T
  <2> QED
    BY <2>1, <2>2, AllNat
<1>17. Holds(k)
  BY <1>10, <1>16
<1>18. fn \in level[k]
  <2>1. k - k = 0
    BY <1>10
  <2> QED
    BY <1>7, <1>17, <2>1 DEF Holds
<1>19. k # 0
  BY <1>7, <1>9, <1>11
<1>20. k \in 1 .. Cardinality(Containers)
  BY <1>10, <1>19
<1> QED
  BY <1>5, <1>18, <1>20

(* So private access is allowed only inside.                                *)
LEMMA AccessIsInside ==
  ASSUME TCInv, at # "decls", NEW s \in Hideable, MayAccess(Symbols[s])
  PROVE  IsUsedInside(s, ScopeId)
<1>1. CASE Symbols[s].is_pub
  BY <1>1 DEF IsUsedInside
<1>2. CASE Symbols[s].scope \in ScopesAround(ScopeId)
  <2>1. Symbols[s].scope # "none"
    BY <1>2 DEF ScopesAround
  <2>2. Symbols[s].scope \in Containers /\ s \in ToSet(Symbols[Symbols[s].scope].decls)
    BY <2>1, ScopesAssumption
  <2>3. ScopeId \in Inside(Symbols[s].scope)
    BY <1>2, <2>2, ScopeIsFunction, AroundIsInside
  <2> QED
    BY <2>2, <2>3 DEF IsUsedInside
<1> QED
  BY <1>1, <1>2 DEF MayAccess

----------------------------------------------------------------------------
(* A cast and a member access have one operand.                             *)
LEMMA OneOperand ==
  ASSUME TCInv, GInv, Checking("return"), Node(Top.node) \in {"CAST", ".", "->"}
  PROVE  Filled.parts = <<result>>
<1>1. at # "decls"
  BY DEF Checking
<1>2. Top.parts = <<>>
  BY <1>1, RoomFacts DEF FrameHolds
<1> QED
  BY <1>2, ReturnedFacts

(* A cast passes on its operand.                                            *)
LEMMA CastHasRoom ==
  ASSUME TCInv, GInv, CheckCast
  PROVE  GInv'
<1> DEFINE to == Datum(Top.node)
           res == [SameAs(Filled, result) EXCEPT !.type = to]
<1>1. /\ Checking("return") /\ Node(Top.node) = "CAST"
      /\ Exit \/ End("null_pointer") \/ Finish(res)
  BY DEF CheckCast, Returning
<1>2. Node(Top.node) \in Operators \ {".", "->"}
  BY <1>1 DEF Operators
<1>3. CASE Finish(res)
  <2>1. /\ res.node = Top.node /\ res.parts = Filled.parts
        /\ res.is_var_and_mutable = result.is_var_and_mutable
    BY <1>1, ReturnedFacts DEF SameAs, Result
  <2> HIDE DEF res
  <2>2. Filled.parts = <<result>>
    BY <1>1, OneOperand
  <2>3. Inner(res) = {result}
    <3>1. /\ res.node # <<"UNARY", "*">> /\ res.node # <<"BINARY", "+">>
          /\ Node(res.node) = "CAST"
      BY <1>1, <2>1 DEF Node
    <3>2. Inner(res) = {res.parts[1]}
      BY <3>1 DEF Inner
    <3> QED
      BY <2>1, <2>2, <3>2
  <2>4. ToSet(Filled.parts) = {result}
    BY <2>2 DEF ToSet
  <2> QED
    BY <1>1, <1>2, <1>3, <2>1, <2>3, <2>4, PassOnHasRoom
<1> HIDE DEF res
<1> QED
  BY <1>1, <1>3, EndHasRoom DEF Exit, End

(* An element is as mutable as the array; a part of an array is not.        *)
LEMMA SubscriptHasRoom ==
  ASSUME TCInv, GInv, CheckIndex \/ CheckSubscript
  PROVE  GInv'
<1>1. Checking("return") /\ Node(Top.node) = "SUBSCRIPT"
  BY DEF CheckIndex, CheckSubscript, Returning
<1>2. /\ Node(Top.node) \in Operators \ {".", "->"}
      /\ Node(Top.node) \in BodyKinds
                              \ (StatementKinds \cup ArrayInits \cup {"UNARY", "CAST", ".", "->"})
      /\ "expression" \in InStatement /\ "expression" # "return"
  BY <1>1
     DEF BodyKinds, StatementKinds, ArrayInits, ExpressionKinds, Operators, InStatement, Points
<1>3. \/ Exit \/ End("null_pointer") \/ Goto("expression", ReplaceTop(Filled))
      \/ \E type : Finish(Result(Filled, type, TRUE, result.is_var_and_mutable))
      \/ \E type : Finish(Result(Filled, type, TRUE, FALSE))
  BY DEF CheckIndex, CheckSubscript, NextPart
<1>4. CASE \E type : Finish(Result(Filled, type, TRUE, result.is_var_and_mutable))
  <2>1. PICK type : Finish(Result(Filled, type, TRUE, result.is_var_and_mutable))
    BY <1>4
  <2> DEFINE res == Result(Filled, type, TRUE, result.is_var_and_mutable)
  <2>2. /\ res.node = Top.node /\ res.parts = Filled.parts
        /\ res.is_var_and_mutable = result.is_var_and_mutable
    BY <1>1, ReturnedFacts DEF Result
  <2>3. Finish(res)
    BY <2>1
  <2> HIDE DEF res
  <2>4. Inner(res) = {result}
    <3>1. /\ res.node # <<"UNARY", "*">> /\ res.node # <<"BINARY", "+">>
          /\ Node(res.node) = "SUBSCRIPT"
      BY <1>1, <2>2 DEF Node
    <3>2. Inner(res) = {Last(res.parts)}
      BY <3>1 DEF Inner
    <3> QED
      BY <1>1, <2>2, <3>2, PartsFacts
  <2>5. result \in ToSet(Filled.parts)
    BY <1>1, PartsFacts
  <2> QED
    BY <1>1, <1>2, <2>2, <2>3, <2>4, <2>5, PassOnHasRoom
<1>5. CASE \E type : Finish(Result(Filled, type, TRUE, FALSE))
  <2>1. PICK type : Finish(Result(Filled, type, TRUE, FALSE))
    BY <1>5
  <2> DEFINE res == Result(Filled, type, TRUE, FALSE)
  <2>2. res.node = Top.node /\ res.parts = Filled.parts /\ ~res.is_var_and_mutable
    BY <1>1, ReturnedFacts DEF Result
  <2>3. Finish(res)
    BY <2>1
  <2> HIDE DEF res
  <2> QED
    BY <1>1, <1>2, <2>2, <2>3, NewValueHasRoom
<1> QED
  BY <1>1, <1>2, <1>3, <1>4, <1>5, TakeHasRoom, EndHasRoom DEF Exit, End

(* A member is as mutable as its field, and accessed where it may be.       *)
LEMMA AccessHasRoom ==
  ASSUME TCInv, GInv, Checking("return"), Node(Top.node) \in {".", "->"},
         NEW type, Head(type) = Last(result.type), AccessMember(type)
  PROVE  GInv'
<1> DEFINE container == Head(type).symbol
           s == CHOOSE s \in Members(container, Datum(Top.node)) : TRUE
           field == Symbols[s]
           res == Result(Filled, field.type, TRUE, field.mutable)
<1>1. \/ Exit \/ End("bad_optional_access")
      \/ /\ container \in DOMAIN Symbols /\ Members(container, Datum(Top.node)) # {}
         /\ Symbols[container].sym_type = "COMPONENT" => MayAccess(field)
         /\ Finish(res)
  BY DEF AccessMember
<1>2. Filled.parts = <<result>> /\ at # "decls"
  BY OneOperand DEF Checking
<1>3. CASE /\ container \in DOMAIN Symbols /\ Members(container, Datum(Top.node)) # {}
           /\ Symbols[container].sym_type = "COMPONENT" => MayAccess(field)
           /\ Finish(res)
  <2>1. /\ res.node = Top.node /\ res.parts = Filled.parts
        /\ res.is_var_and_mutable = field.mutable
    BY ReturnedFacts DEF Result
  <2>2. Finish(res)
    BY <1>3
  <2>3. s \in Members(container, Datum(Top.node))
    BY <1>3
  <2> HIDE DEF res, s
  <2>4. /\ res.node # <<"UNARY", "*">> /\ res.node # <<"BINARY", "+">>
        /\ res.node # <<"BINARY", "*">> /\ Node(res.node) \in {".", "->"}
    BY <2>1 DEF Node
  <2>5. Inner(res) = {res} /\ ~IsLiteralOrSum(res)
    BY <2>4 DEF Inner, IsLiteralOrSum
  <2>6. Last(res.parts[1].type).symbol = container /\ res.node = Top.node
    BY <1>2, <2>1
  <2>7. DeclaredMutable(res) = field.mutable
    <3>1. DeclaredMutable(res) = FieldNamed(res.parts[1].type, Datum(res.node)).mutable
      BY <2>4 DEF DeclaredMutable
    <3> QED
      BY <2>6, <3>1 DEF FieldNamed, s
  <2>8. ASSUME NEW u \in Uses(res) \cap Hideable
        PROVE  IsUsedInside(u, ScopeId)
    <3>1. Symbols[container].sym_type = "COMPONENT" /\ u \in Members(container, Datum(Top.node))
      BY <2>4, <2>6, <2>8 DEF Uses
    <3>2. container \in Containers
      BY <1>3, <3>1 DEF Containers, OfKind
    <3>3. /\ {Symbols[u].sym_type, Symbols[s].sym_type} = {"FIELD"}
          /\ Symbols[u].name = Symbols[s].name
          /\ u \in ToSet(Symbols[container].decls) /\ s \in ToSet(Symbols[container].decls)
      BY <2>3, <3>1 DEF Members
    <3>4. u = s
      BY <3>2, <3>3, ScopesAssumption
    <3> QED
      BY <1>2, <1>3, <3>1, <3>4, AccessIsInside
  <2>9. \A depth \in Nat : IsGood(res, depth + 1, ScopeId)
    <3> TAKE depth \in Nat
    <3>1. MutableWithin(res, depth + 1)
      BY <2>1, <2>5, <2>7, MutableOfItself
    <3>2. LiteralsWithin(res, depth + 1)
      BY <2>5, NoLiterals
    <3> QED
      BY <2>8, <3>1, <3>2 DEF IsGood, UsesInside
  <2>10. Node(Top.node) \in Operators
    BY DEF Operators
  <2> QED
    BY <2>1, <2>2, <2>9, <2>10, OperatorHasRoom
<1> HIDE DEF res
<1> QED
  BY <1>1, <1>3, EndHasRoom DEF Exit, End

(* Both ways to access a member.                                            *)
LEMMA MemAccessHasRoom ==
  ASSUME TCInv, GInv, CheckMemAccess
  PROVE  GInv'
<1> DEFINE type == result.type
<1>1. /\ Checking("return") /\ Node(Top.node) \in {".", "->"}
      /\ \/ Exit \/ End("null_pointer")
         \/ type # NullType /\ Kind(type) = "NAMED" /\ AccessMember(type)
         \/ /\ type # NullType /\ Kind(type) = "PTR" /\ ~IsBuiltinPtr(Head(type))
            /\ Kind(Tail(type)) = "NAMED" /\ AccessMember(Tail(type))
  BY DEF CheckMemAccess, Returning
<1>2. IsDerived(type)
  BY <1>1, ReturnedFacts DEF IsResult
<1>3. \A t : IsDerived(t) /\ t # NullType /\ Kind(t) = "NAMED" => Head(t) = Last(t)
  BY DerivedFacts DEF Kind, IsInnermost
<1>4. CASE type # NullType /\ Kind(type) = "NAMED" /\ AccessMember(type)
  BY <1>1, <1>2, <1>3, <1>4, AccessHasRoom
<1>5. CASE /\ type # NullType /\ Kind(type) = "PTR" /\ ~IsBuiltinPtr(Head(type))
           /\ Kind(Tail(type)) = "NAMED" /\ AccessMember(Tail(type))
  <2>1. ~IsInnermost(Head(type))
    BY <1>5 DEF IsInnermost, Kind
  <2>2. IsDerived(Tail(type)) /\ Tail(type) # NullType /\ Last(Tail(type)) = Last(type)
    BY <1>2, <1>5, <2>1, TailIsDerived
  <2> QED
    BY <1>1, <1>3, <1>5, <2>2, AccessHasRoom
<1> QED
  BY <1>1, <1>4, <1>5, EndHasRoom DEF Exit, End

----------------------------------------------------------------------------
(* Expressions without children.                                            *)
LEMMA LiteralHasRoom ==
  ASSUME TCInv, GInv, CheckIntLiteral \/ CheckLiteral
  PROVE  GInv'
<1>1. CASE CheckIntLiteral
  <2>1. PICK n \in Vocabularies[vocabulary] :
          /\ Checking("expression") /\ Node(n) = "INT_LITERAL"
          /\ \/ Exit
             \/ ReturnLeaf(n, <<LiteralOf(Acceptable(IntLiterals[Datum(n)]))>>, FALSE, FALSE)
    BY <1>1 DEF CheckIntLiteral, Leaf, Meet
  <2> DEFINE res == Result(Call(n), <<LiteralOf(Acceptable(IntLiterals[Datum(n)]))>>, FALSE, FALSE)
  <2>2. Exit \/ Return(res, stack)
    BY <2>1 DEF ReturnLeaf
  <2>3. \A depth \in Nat : IsGood(res, depth, ScopeId)
    BY <2>1, LiteralIsGood
  <2> HIDE DEF res
  <2> QED
    BY <2>1, <2>2, <2>3, LeafHasRoom, EndHasRoom DEF Exit, End
<1>2. CASE CheckLiteral
  <2>1. PICK n \in Vocabularies[vocabulary] :
          /\ Checking("expression")
          /\ Node(n) \in {"FLOAT_LITERAL", "CHAR_LITERAL", "BOOL_LITERAL", "STR_LITERAL",
                          "NULLPTR_LITERAL"}
          /\ ReturnLeaf(n, LiteralType(Node(n)), FALSE, FALSE)
    BY <1>2 DEF CheckLiteral, Leaf, Meet
  <2> DEFINE res == Result(Call(n), LiteralType(Node(n)), FALSE, FALSE)
  <2>2. Return(res, stack)
    BY <2>1 DEF ReturnLeaf
  <2>3. res.node = n /\ ~res.is_var_and_mutable
    BY DEF Result, Call, Frame
  <2> HIDE DEF res
  <2>4. ~IsLiteralOrSum(res) /\ Node(res.node) \notin {"IDENTIFIER", ".", "->"}
    BY <2>1, <2>3 DEF IsLiteralOrSum, Node
  <2>5. \A depth \in Nat : IsGood(res, depth, ScopeId)
    BY <2>3, <2>4, PlainIsGood
  <2> QED
    BY <2>1, <2>2, <2>5, LeafHasRoom
<1> QED
  BY <1>1, <1>2

(* An identifier is what it was declared, if it may be used here.           *)
LEMMA IdentHasRoom ==
  ASSUME TCInv, GInv, CheckIdent
  PROVE  GInv'
<1>1. PICK n \in Vocabularies[vocabulary] :
        /\ Checking("expression") /\ Node(n) = "IDENTIFIER"
        /\ LET symbol == Symbols[Datum(n)]
           IN  \/ Exit
               \/ /\ symbol.sym_type \in {"VAR", "PARAM"} \/ MayAccess(symbol)
                  /\ ReturnLeaf(n, symbol.type, TRUE, symbol.mutable)
               \/ MayAccess(symbol) /\ ReturnLeaf(n, <<Named(Datum(n))>>, FALSE, FALSE)
  BY DEF CheckIdent, Leaf, Meet
<1> DEFINE symbol == Symbols[Datum(n)]
<1>2. ASSUME NEW res, Return(res, stack), res.node = n,
             symbol.sym_type \in {"VAR", "PARAM"} \/ MayAccess(symbol),
             res.is_var_and_mutable => symbol.mutable
      PROVE  GInv'
  <2>3. /\ res.node # <<"UNARY", "*">> /\ res.node # <<"BINARY", "+">>
        /\ res.node # <<"BINARY", "*">> /\ Node(res.node) = "IDENTIFIER"
    BY <1>1, <1>2 DEF Node
  <2>4. Inner(res) = {res} /\ ~IsLiteralOrSum(res)
    BY <2>3 DEF Inner, IsLiteralOrSum
  <2>5. DeclaredMutable(res) = symbol.mutable
    BY <1>2, <2>3 DEF DeclaredMutable
  <2>6. ASSUME NEW u \in Uses(res) \cap Hideable
        PROVE  IsUsedInside(u, ScopeId)
    <3>1. u = Datum(n)
      BY <1>2, <2>3, <2>6 DEF Uses
    <3>2. symbol.sym_type \notin {"VAR", "PARAM"}
      BY <2>6, <3>1 DEF Hideable, Structs, OfKind
    <3>3. at # "decls"
      BY <1>1 DEF Checking
    <3> QED
      BY <1>2, <2>6, <3>1, <3>2, <3>3, AccessIsInside
  <2>7. \A depth \in Nat : IsGood(res, depth, ScopeId)
    <3> TAKE depth \in Nat
    <3>1. MutableWithin(res, depth)
      BY <1>2, <2>4, <2>5, MutableOfItself
    <3>2. LiteralsWithin(res, depth)
      BY <2>4, NoLiterals
    <3> QED
      BY <2>6, <3>1, <3>2 DEF IsGood, UsesInside
  <2> QED
    BY <1>1, <1>2, <2>7, LeafHasRoom
<1>3. \/ Exit
      \/ /\ symbol.sym_type \in {"VAR", "PARAM"} \/ MayAccess(symbol)
         /\ ReturnLeaf(n, symbol.type, TRUE, symbol.mutable)
      \/ MayAccess(symbol) /\ ReturnLeaf(n, <<Named(Datum(n))>>, FALSE, FALSE)
  BY <1>1
<1>4. CASE /\ symbol.sym_type \in {"VAR", "PARAM"} \/ MayAccess(symbol)
           /\ ReturnLeaf(n, symbol.type, TRUE, symbol.mutable)
  <2> DEFINE res == Result(Call(n), symbol.type, TRUE, symbol.mutable)
  <2>1. res.node = n /\ res.is_var_and_mutable = symbol.mutable
    BY DEF Result, Call, Frame
  <2>2. Return(res, stack)
    BY <1>4 DEF ReturnLeaf
  <2> HIDE DEF res
  <2> QED
    BY <1>2, <1>4, <2>1, <2>2
<1>5. CASE MayAccess(symbol) /\ ReturnLeaf(n, <<Named(Datum(n))>>, FALSE, FALSE)
  <2> DEFINE res == Result(Call(n), <<Named(Datum(n))>>, FALSE, FALSE)
  <2>1. res.node = n /\ ~res.is_var_and_mutable
    BY DEF Result, Call, Frame
  <2>2. Return(res, stack)
    BY <1>5 DEF ReturnLeaf
  <2> HIDE DEF res
  <2> QED
    BY <1>2, <1>5, <2>1, <2>2
<1> QED
  BY <1>3, <1>4, <1>5, EndHasRoom DEF Exit, End

----------------------------------------------------------------------------
(* Expressions with children.                                               *)
LEMMA NoArrayHere ==
  ASSUME TCInv, GInv, at \in {"expression", "member"}
  PROVE  ~TakesArray(Top)
<1>1. at # "decls"
  OBVIOUS
<1> QED
  BY <1>1, RoomFacts DEF RoomsFit, Top

(* An operator is met where no initializer of an array is due.              *)
LEMMA OperatorIsMet ==
  ASSUME TCInv, GInv, Checking("expression"), NEW n \in Vocabularies[vocabulary],
         Node(n) \in Operators, Enter(n, "expression", Push(Call(n)))
  PROVE  GInv'
<1> DEFINE f == Call(n)
<1>1. f.parts = <<>> /\ f.node = n
  BY DEF Call, Frame
<1>2. Enter(n, "expression", Append(stack, f))
  BY DEF Push
<1> HIDE DEF f
<1>3. /\ Node(f.node) # "FN" /\ Node(f.node) \notin ArrayInits
      /\ Node(f.node) \notin {"VAR_INIT", "NESTED_ARR_INIT"}
  BY <1>1 DEF Operators, ArrayInits
<1>4. ~TakesArray(f) /\ Cost(f) = 1
  BY <1>1, <1>3 DEF TakesArray, Cost
<1>5. IsLinked(Top, f)
  BY <1>3, NoArrayHere DEF IsLinked, Checking
<1>6. 1 <= Brings(n)
  <2>1. Node(n) = "SUBSCRIPT" => Datum(n) \in Nat \ {0}
    BY NodesAssumption DEF TCInv
  <2> QED
    BY <2>1 DEF Brings, Operators
<1> QED
  BY <1>1, <1>2, <1>3, <1>4, <1>5, <1>6, EnterHasRoom

(* An expression with children is met.                                      *)
LEMMA EnterExpressionHasRoom ==
  ASSUME TCInv, GInv, EnterExpression \/ CheckCastType
  PROVE  GInv'
<1>1. PICK n \in Vocabularies[vocabulary] :
        /\ Checking("expression") /\ Node(n) \in Operators
        /\ Exit \/ Enter(n, "expression", Push(Call(n)))
  BY DEF EnterExpression, CheckCastType, Meet, Operators
<1> QED
  BY <1>1, OperatorIsMet, EndHasRoom DEF Exit, End

----------------------------------------------------------------------------
(* The walk over declarations, and the start and the end of a body.         *)
LEMMA DeclStepHasRoom ==
  ASSUME TCInv', at' = "decls"
  PROVE  GInv'
<1>1. /\ StackFits(stack', "decls")
      /\ size' \in 0 .. MaxNodes[vocabulary'] /\ MaxNodes[vocabulary'] \in Nat
  BY BoundsAssumption DEF TCInv
<1>2. IsSeq(stack') /\ stack' # <<>> /\ size' \in Nat
  BY <1>1 DEF StackFits
<1>3. \A i \in DOMAIN stack' :
        Node(stack'[i].node) \in ContainerKinds /\ Node(stack'[i].node) # "FN"
  BY <1>1 DEF StackFits, ContainerKinds
<1>4. HasRoom(stack', at', result', size', MaxNodes[vocabulary'])
  BY <1>2, <1>3, ContainersHaveRoom
<1> QED
  BY <1>4 DEF GInv

(* The steps that end among declarations, or end the walk.                  *)
LEMMA DeclsStepsHaveRoom ==
  ASSUME TCInv, GInv, CheckContainer \/ EndOfContainer \/ CheckField \/ EndOfBody
  PROVE  GInv'
<1>1. TCInv'
  BY CheckContainerKeeps, EndOfContainerKeeps, CheckFieldKeeps, EndOfBodyKeeps
<1>2. at' = "decls" \/ Exit \/ End("done")
  BY DEF CheckContainer, EndOfContainer, CheckField, EndOfBody, Goto
<1> QED
  BY <1>1, <1>2, DeclStepHasRoom, EndHasRoom DEF Exit, End

(* The body of a function is begun.                                         *)
LEMMA FunctionHasRoom ==
  ASSUME TCInv, GInv, CheckFunction
  PROVE  GInv'
<1> DEFINE f == Call(<<"FN", NextDecl>>)
<1>1. /\ Checking("decls")
      /\ Exit \/ Goto("statements", Append(DeclChecked, f))
  BY DEF CheckFunction, CheckingDecl
<1>2. f.parts = <<>> /\ Node(f.node) = "FN"
  BY DEF Call, Frame, Node
<1> HIDE DEF f
<1>3. StackFits(DeclChecked, "decls")
  BY <1>1, DeclFacts
<1>4. CASE Goto("statements", Append(DeclChecked, f))
  <2> DEFINE st == Append(DeclChecked, f)
             n == Len(DeclChecked)
  <2>1. IsSeq(DeclChecked) /\ n \in Nat /\ DOMAIN DeclChecked = 1 .. n
    BY <1>3, StackFacts
  <2>2. /\ IsSeq(st) /\ st # <<>> /\ Len(st) = n + 1 /\ st[n + 1] = f
        /\ \A i \in 1 .. n : st[i] = DeclChecked[i]
    BY <2>1, AppendSeq
  <2> HIDE DEF st, n
  <2>3. DOMAIN st = 1 .. (n + 1)
    BY <2>2, SeqFacts
  <2>4. \A i \in 1 .. n : Node(st[i].node) \in ContainerKinds /\ Node(st[i].node) # "FN"
    BY <1>3, <2>1, <2>2 DEF StackFits, ContainerKinds
  <2>5. \A i \in 1 .. (n + 1) : i \in 1 .. n \/ i = n + 1
    BY <2>1
  <2>6. \A i \in DOMAIN st : /\ Node(st[i].node) \in ContainerKinds \cup {"FN"}
                             /\ Node(st[i].node) = "FN" => st[i].parts = <<>> /\ i = Len(st)
    BY <1>2, <2>2, <2>3, <2>4, <2>5
  <2>7. size \in Nat
    <3>1. MaxNodes[vocabulary] \in Nat
      BY BoundsAssumption DEF TCInv
    <3> QED
      BY <3>1 DEF TCInv
  <2>8. HasRoom(st, "statements", result', size, MaxNodes[vocabulary])
    BY <2>2, <2>6, <2>7, ContainersHaveRoom
  <2>9. at' = "statements" /\ stack' = st /\ size' = size /\ vocabulary' = vocabulary
    BY <1>4 DEF Goto, st
  <2> QED
    BY <2>8, <2>9 DEF GInv
<1> QED
  BY <1>1, <1>4, EndHasRoom DEF Exit, End

----------------------------------------------------------------------------
(* Statements are met.                                                      *)
LEMMA StatementIsMet ==
  ASSUME TCInv, GInv, Checking("statements"), NEW n \in Vocabularies[vocabulary],
         Node(n) \in StatementKinds, NEW type,
         NEW to \in {"expression", "initializer"}, to = "initializer" <=> Node(n) = "VAR_INIT",
         Enter(n, to, Push(Frame(n, type, 0)))
  PROVE  GInv'
<1> DEFINE f == Frame(n, type, 0)
<1>1. f.parts = <<>> /\ f.node = n
  BY DEF Frame
<1>2. Enter(n, to, Append(stack, f))
  BY DEF Push
<1> HIDE DEF f
<1>3. /\ Node(f.node) # "FN" /\ Node(f.node) \notin ArrayInits \cup Operators
  BY <1>1 DEF Operators, ArrayInits, StatementKinds
<1>4. TakesArray(f) => to \notin {"expression", "member"}
  BY <1>1, <1>3 DEF TakesArray, ArrayInits
<1>5. ~TakesArray(Top)
  BY StatementFacts DEF TakesArray
<1>6. IsLinked(Top, f)
  BY <1>3, <1>5 DEF IsLinked
<1>7. Cost(f) <= Brings(n)
  BY <1>3 DEF Cost, Brings, StatementKinds
<1> QED
  BY <1>1, <1>2, <1>3, <1>4, <1>6, <1>7, EnterHasRoom

(* All the kinds of statements.                                             *)
LEMMA StatementHasRoom ==
  ASSUME TCInv, GInv, CheckExprStatement \/ CheckReturn \/ CheckVarDecl
  PROVE  GInv'
<1>1. Checking("statements")
  BY DEF CheckExprStatement, CheckReturn, CheckVarDecl
<1>2. PICK n \in Vocabularies[vocabulary] :
        \/ Exit
        \/ Enter(n, "statements", stack)
        \/ Node(n) = "EXPR" /\ Enter(n, "expression", Push(Call(n)))
        \/ Node(n) = "RETURN" /\ Enter(n, "expression", Push(Frame(n, ExpectedReturnType, 0)))
        \/ /\ Node(n) = "VAR_INIT"
           /\ Enter(n, "initializer", Push(Frame(n, Symbols[Datum(n)].type, 0)))
  BY DEF CheckExprStatement, CheckReturn, CheckVarDecl, Meet
<1>3. CASE Enter(n, "statements", stack)
  <2>1. Brings(n) \in Nat
    BY BringsFacts DEF TCInv
  <2>2. ~TakesArray(Top)
    BY <1>1, StatementFacts DEF TakesArray
  <2> QED
    BY <1>3, <2>1, <2>2, StayHasRoom DEF Enter
<1>4. CASE Node(n) = "EXPR" /\ Enter(n, "expression", Push(Call(n)))
  <2>1. Call(n) = Frame(n, NullType, 0)
    BY DEF Call
  <2> QED
    BY <1>1, <1>4, <2>1, StatementIsMet DEF StatementKinds
<1>5. CASE Node(n) = "RETURN" /\ Enter(n, "expression", Push(Frame(n, ExpectedReturnType, 0)))
  BY <1>1, <1>5, StatementIsMet DEF StatementKinds
<1>6. CASE /\ Node(n) = "VAR_INIT"
           /\ Enter(n, "initializer", Push(Frame(n, Symbols[Datum(n)].type, 0)))
  BY <1>1, <1>6, StatementIsMet DEF StatementKinds
<1> QED
  BY <1>2, <1>3, <1>4, <1>5, <1>6, EndHasRoom DEF Exit, End

----------------------------------------------------------------------------
(* The initializer of a struct, on a stack that waits for one.              *)
LEMMA StructInitIsMet ==
  ASSUME TCInv, NEW n \in Vocabularies[vocabulary], Node(n) = "STRUCT_INIT",
         NEW st, IsSeq(st), Len(st) >= 1, NEW from,
         HasRoom(st, from, result, size, MaxNodes[vocabulary]), ~TakesArray(st[Len(st)]),
         NEW type, Enter(n, "member", Append(st, Frame(n, type, 0)))
  PROVE  GInv'
<1> DEFINE f == Frame(n, type, 0)
<1>1. f.parts = <<>> /\ f.node = n
  BY DEF Frame
<1>2. /\ size' = size + Brings(n) /\ at' = "member" /\ stack' = Append(st, f)
      /\ vocabulary' = vocabulary
  BY DEF Enter
<1> HIDE DEF f
<1>3. /\ Node(f.node) # "FN" /\ Node(f.node) \notin ArrayInits \cup Operators
  BY <1>1 DEF Operators, ArrayInits
<1>4. ~TakesArray(f) /\ Cost(f) = 0 /\ IsLinked(st[Len(st)], f)
  BY <1>1, <1>3 DEF TakesArray, Cost, IsLinked
<1>5. Brings(n) \in Nat /\ size \in Nat
  <2>1. vocabulary \in DOMAIN Vocabularies /\ MaxNodes[vocabulary] \in Nat
    BY BoundsAssumption DEF TCInv
  <2> QED
    BY <2>1, BringsFacts DEF TCInv
<1>6. Cost(f) <= Brings(n)
  BY <1>4, <1>5
<1>7. \A res2 : HasRoom(Append(st, f), "member", res2, size + Brings(n), MaxNodes[vocabulary])
  BY <1>1, <1>3, <1>4, <1>5, <1>6, PushRooms
<1> QED
  BY <1>2, <1>7 DEF GInv

(* What the start of an initializer of a struct leads to.                   *)
LEMMA StartsStruct ==
  ASSUME NEW n, NEW type, NEW st, StartStructInit(n, type, st)
  PROVE  \/ Exit \/ End("null_pointer") \/ End("bad_optional_access")
         \/ Enter(n, "member", Append(st, Frame(n, type, 0)))
<1>1. CASE type = NullType
  BY <1>1, Zenon DEF StartStructInit
<1>2. CASE type # NullType /\ Kind(type) # "NAMED"
  BY <1>2, Zenon DEF StartStructInit
<1>3. CASE type # NullType /\ Kind(type) = "NAMED" /\ IsLiteral(type)
  BY <1>3, Zenon DEF StartStructInit
<1>4. CASE type # NullType /\ Kind(type) = "NAMED" /\ ~IsLiteral(type)
  BY <1>4, Zenon DEF StartStructInit
<1> QED
  BY <1>1, <1>2, <1>3, <1>4

(* A struct is created.                                                     *)
LEMMA StructCreateHasRoom ==
  ASSUME TCInv, GInv, CheckStructCreate
  PROVE  GInv'
<1>1. /\ Checking("return") /\ Node(Top.node) = "STRUCT_CREATE"
      /\ \/ \E n \in Vocabularies[vocabulary] :
              /\ Node(n) = "STRUCT_INIT" /\ StartStructInit(n, result.type, ReplaceTop(Filled))
         \/ Finish(SameAs(Filled, result))
  BY DEF CheckStructCreate, Returning, Meet
<1>2. /\ Node(Top.node) \in Operators \ {".", "->"}
      /\ Node(Top.node) \notin ArrayInits \cup {"VAR_INIT", "FN", "NESTED_ARR_INIT"}
  BY <1>1 DEF Operators, ArrayInits
<1>3. CASE \E n \in Vocabularies[vocabulary] :
             /\ Node(n) = "STRUCT_INIT" /\ StartStructInit(n, result.type, ReplaceTop(Filled))
  <2>1. PICK n \in Vocabularies[vocabulary] :
          /\ Node(n) = "STRUCT_INIT" /\ StartStructInit(n, result.type, ReplaceTop(Filled))
    BY <1>3
  <2> DEFINE st == ReplaceTop(Filled)
  <2>2. /\ at = "return" /\ at # "decls"
        /\ Filled.node = Top.node /\ Filled.type = Top.type /\ Filled.depth = Top.depth
    BY <1>1, ReturnedFacts
  <2>3. PICK room : RoomsFit(stack, at, result, size, MaxNodes[vocabulary], room, ScopeId)
    BY <2>2, RoomFacts
  <2>4. \A p \in ToSet(Filled.parts) : IsGood(p, room[Len(stack)], ScopeId)
    BY <1>1, <2>3, OperandsAreGood
  <2>5. FrameHolds(Filled, room[Len(stack)], ScopeId, MaxNodes[vocabulary]) /\ ~TakesArray(Filled)
    BY <1>1, <1>2, <2>2, <2>4 DEF FrameHolds, TakesArray
  <2>6. IsSeq(stack) /\ Len(stack) >= 1 /\ Len(stack) \in Nat
    BY WaitingFacts, StackFacts
  <2>7. size \in Nat
    BY <2>2, RoomFacts
  <2>8. RoomsFit([stack EXCEPT ![Len(stack)] = Filled], "expression", result, size,
                 MaxNodes[vocabulary], room, ScopeId)
    BY <2>2, <2>3, <2>5, <2>6, <2>7, ReplaceRooms DEF Top
  <2>9. HasRoom(st, "expression", result, size, MaxNodes[vocabulary])
    BY <2>8 DEF HasRoom, ReplaceTop
  <2>10. IsSeq(st) /\ Len(st) = Len(stack) /\ st[Len(st)] = Filled
    BY <2>6, ReplaceSeq DEF ReplaceTop
  <2> HIDE DEF st
  <2>11. \/ Exit \/ End("null_pointer") \/ End("bad_optional_access")
         \/ Enter(n, "member", Append(st, Frame(n, result.type, 0)))
    BY <2>1, StartsStruct DEF st
  <2> QED
    BY <2>1, <2>5, <2>6, <2>9, <2>10, <2>11, StructInitIsMet, EndHasRoom DEF Exit, End
<1>4. CASE Finish(SameAs(Filled, result))
  <2> DEFINE res == SameAs(Filled, result)
  <2>1. res.node = Top.node /\ res.parts = Filled.parts
    BY <1>1, ReturnedFacts DEF SameAs, Result
  <2> HIDE DEF res
  <2>2. Inner(res) = {}
    <3>1. /\ res.node # <<"UNARY", "*">> /\ res.node # <<"BINARY", "+">>
          /\ Node(res.node) = "STRUCT_CREATE"
      BY <1>1, <2>1 DEF Node
    <3> QED
      BY <3>1 DEF Inner
  <2>3. Finish(res)
    BY <1>4 DEF res
  <2> QED
    BY <1>1, <1>2, <2>1, <2>2, <2>3, PassOnHasRoom
<1> QED
  BY <1>1, <1>3, <1>4

(* The members of an initializer of a struct.                               *)
LEMMA MemberHasRoom ==
  ASSUME TCInv, GInv, CheckMember \/ EndMember \/ EndStructInit
  PROVE  GInv'
<1>1. CASE CheckMember
  <2>1. Exit \/ End("bad_cast") \/ Goto("expression", stack)
    BY <1>1 DEF CheckMember
  <2>2. ~TakesArray(Top)
    BY <1>1, NoArrayHere DEF CheckMember, Checking
  <2>3. CASE Goto("expression", stack)
    <3>1. size' = size + 0 /\ 0 \in Nat
      <4>1. MaxNodes[vocabulary] \in Nat
        BY BoundsAssumption DEF TCInv
      <4> QED
        BY <2>3, <4>1 DEF Goto, TCInv
    <3> QED
      BY <2>2, <2>3, <3>1, StayHasRoom DEF Goto
  <2> QED
    BY <2>1, <2>3, EndHasRoom DEF Exit, End
<1>2. CASE EndMember
  <2>1. /\ Checking("return") /\ Node(Top.node) = "STRUCT_INIT"
        /\ Exit \/ End("null_pointer") \/ Goto("member", ReplaceTop(Filled))
    BY <1>2 DEF EndMember, Returning, IfSame
  <2>2. "member" \in InStatement /\ "member" # "return"
        /\ Node(Top.node) \in BodyKinds
                                \ (StatementKinds \cup ArrayInits \cup {"UNARY", "CAST", ".", "->"})
    BY <2>1 DEF InStatement, Points, BodyKinds, StatementKinds, ExpressionKinds, ArrayInits
  <2> QED
    BY <2>1, <2>2, TakeHasRoom, EndHasRoom DEF Exit, End
<1>3. CASE EndStructInit
  <2> DEFINE res == Temporary(Top, Top.type)
  <2>1. at = "member" /\ Finish(res)
    BY <1>3 DEF EndStructInit, Checking
  <2>2. res.node = Top.node /\ res.parts = Top.parts /\ ~res.is_var_and_mutable
    BY DEF Temporary, Result
  <2> HIDE DEF res
  <2>3. Node(Top.node) = "STRUCT_INIT" /\ at \in InStatement
    BY <2>1, WaitingFacts DEF StackFits, InStatement, Points
  <2>4. Cost(Top) = 0 /\ Node(Top.node) \in BodyKinds
    BY <2>3 DEF Cost, Operators, BodyKinds, ExpressionKinds
  <2>5. ~IsLiteralOrSum(res) /\ Node(res.node) \notin {"IDENTIFIER", ".", "->"}
    BY <2>2, <2>3 DEF IsLiteralOrSum, Node
  <2>6. \A depth \in Nat : IsGood(res, depth + Cost(Top), ScopeId)
    BY <2>2, <2>4, <2>5, PlainIsGood
  <2>7. ASSUME NEW room, RoomsFit(stack, at, result, size, MaxNodes[vocabulary], room, ScopeId)
        PROVE  \A p \in ToSet(res.parts) : IsGood(p, room[Len(stack)], ScopeId)
    <3>1. Len(stack) \in 1 .. Len(stack)
      BY WaitingFacts
    <3>2. FrameHolds(Top, room[Len(stack)], ScopeId, MaxNodes[vocabulary])
      BY <2>7, <3>1 DEF RoomsFit, Top
    <3> QED
      BY <2>2, <2>4, <3>2 DEF FrameHolds
  <2> QED
    BY <2>1, <2>3, <2>6, <2>7, FinishHasRoom
<1> QED
  BY <1>1, <1>2, <1>3

----------------------------------------------------------------------------
(* The sizes of an array that waits, and the depth in them.                 *)
LEMMA SizesFacts ==
  ASSUME TCInv, TakesArray(Top) \/ Node(Top.node) \in ArrayInits
  PROVE  /\ Head(Top.type).sizes \in Seq(Nat) /\ Len(Head(Top.type).sizes) \in Nat
         /\ Top.depth \in Nat /\ Top.depth <= UINT8_VALUES - 1 /\ UINT8_VALUES \in Nat
         /\ DepthBelow(Top) \in 0 .. (UINT8_VALUES - 1)
         /\ Node(Top.node) = "NESTED_ARR_INIT" => Top.depth + 1 < Len(Head(Top.type).sizes)
<1>1. IsFrame(Top) /\ Top.depth \in 0 .. (UINT8_VALUES - 1)
  BY WaitingFacts
<1>2. UINT8_VALUES \in Nat /\ UINT8_VALUES >= 1
  BY BoundsAssumption
<1>3. /\ IsWritten(Top.type) /\ IsLegalType(Top.type) /\ Kind(Top.type) = "ARRAY"
      /\ Node(Top.node) = "NESTED_ARR_INIT" => Top.depth + 1 < Len(Head(Top.type).sizes)
  BY <1>1 DEF IsFrame, HasItsType, TakesArray, ArrayInits
<1>4. Head(Top.type).sizes \in Seq(Nat)
  BY <1>3, WrittenIsDerived, ElementIsObject
<1>5. Len(Head(Top.type).sizes) \in Nat
  BY <1>4
<1>6. DepthBelow(Top) \in 0 .. (UINT8_VALUES - 1)
  BY <1>1, <1>2 DEF DepthBelow
<1> QED
  BY <1>1, <1>2, <1>3, <1>4, <1>5, <1>6

(* An initializer of an array is met where one is due.                      *)
LEMMA ArrayInitIsMet ==
  ASSUME TCInv, GInv, TakesArray(Top), NEW n \in Vocabularies[vocabulary], Node(n) \in ArrayInits,
         StartArrInit(n, Top.type, DepthBelow(Top), stack)
  PROVE  GInv'
<1> DEFINE type == Top.type
           depth == DepthBelow(Top)
           f == Frame(n, type, depth)
           sizes == Head(type).sizes
           is_inner == depth + 1 < Len(sizes)
           to == IF is_inner THEN "nested" ELSE "expression"
           enter == Datum(n) = sizes[depth + 1] /\ is_inner = (Node(n) = "NESTED_ARR_INIT")
           none == depth >= Len(sizes)
           some == depth < Len(sizes)
<1>1. Len(sizes) \in Nat /\ depth \in Nat
  BY SizesFacts
<1>2. \/ none /\ End("out_of_range")
      \/ Exit
      \/ some /\ enter /\ Enter(n, to, Append(stack, f))
  <2>1. none \/ some
    BY <1>1
  <2>2. (CASE none -> End("out_of_range")
           [] some -> IF enter THEN Enter(n, to, Append(stack, f)) ELSE Exit)
    BY Zenon DEF StartArrInit
  <2>3. ~(none /\ some)
    BY <1>1
  <2> HIDE DEF none, some, enter, f, to
  <2> QED
    BY <2>1, <2>2, <2>3, Zenon
<1>3. CASE some /\ enter /\ Enter(n, to, Append(stack, f))
  <2>1. f.parts = <<>> /\ f.node = n /\ f.type = type /\ f.depth = depth
    BY DEF Frame
  <2> HIDE DEF f
  <2>2. Datum(n) \in Nat \ {0} /\ Brings(n) \in Nat
    <3>1. vocabulary \in DOMAIN Vocabularies
      BY DEF TCInv
    <3>2. Node(n) \in {"SUBSCRIPT", "ARR_INIT", "NESTED_ARR_INIT"}
      BY DEF ArrayInits
    <3> QED
      BY <3>1, <3>2, NodesAssumption, BringsFacts
  <2>3. Len(f.parts) = 0 /\ ToSet(f.parts) = {}
    BY <2>1, ShortSeqs DEF ToSet
  <2>4. Node(n) = "ARR_INIT" => depth + 1 = Len(sizes)
    BY <1>1, <1>3
  <2>5. ArrayHolds(f)
    BY <1>1, <1>3, <2>1, <2>2, <2>3, <2>4 DEF ArrayHolds
  <2>6. TakesArray(f) => to \notin {"expression", "member"}
    BY <1>3, <2>1 DEF TakesArray, ArrayInits
  <2>7. IsLinked(Top, f)
    BY <2>1 DEF IsLinked
  <2>8. Node(f.node) # "FN" /\ Cost(f) <= Brings(n)
    BY <2>1, <2>2 DEF ArrayInits, Operators, Cost
  <2>9. to # "return" /\ Enter(n, to, Append(stack, f))
    BY <1>3
  <2> HIDE DEF to
  <2> QED
    BY <2>1, <2>5, <2>6, <2>7, <2>8, <2>9, EnterHasRoom
<1> HIDE DEF f, to, enter, none, some
<1> QED
  BY <1>2, <1>3, EndHasRoom DEF Exit, End

(* An initializer inside another.                                           *)
LEMMA NestedHasRoom ==
  ASSUME TCInv, GInv, CheckNested
  PROVE  GInv'
<1>1. PICK n \in Vocabularies[vocabulary] :
        /\ Node(n) \in ArrayInits
        /\ StartArrInit(n, Top.type, (Top.depth + 1) % UINT8_VALUES, stack)
  BY DEF CheckNested, Meet, ArrayInits
<1>2. Node(Top.node) = "NESTED_ARR_INIT"
  BY WaitingFacts DEF CheckNested, Checking, StackFits
<1>3. TakesArray(Top) /\ DepthBelow(Top) = (Top.depth + 1) % UINT8_VALUES
  BY <1>2 DEF TakesArray, DepthBelow
<1> QED
  BY <1>1, <1>3, ArrayInitIsMet

(* The initializer of a variable.                                           *)
LEMMA InitializerHasRoom ==
  ASSUME TCInv, GInv, CheckInitializer
  PROVE  GInv'
<1>1. \/ Exit
      \/ /\ Kind(Top.type) = "ARRAY"
         /\ \E n \in Vocabularies[vocabulary] :
              Node(n) \in ArrayInits /\ StartArrInit(n, Top.type, 0, stack)
      \/ /\ Kind(Top.type) = "NAMED"
         /\ \E n \in Vocabularies[vocabulary] :
              Node(n) = "STRUCT_INIT" /\ StartStructInit(n, Top.type, stack)
      \/ Kind(Top.type) # "ARRAY" /\ Goto("expression", stack)
  BY DEF CheckInitializer, Meet, ArrayInits
<1>2. Node(Top.node) = "VAR_INIT" /\ IsSeq(stack) /\ Len(stack) >= 1
  BY WaitingFacts, StackFacts DEF CheckInitializer, Checking, StackFits
<1>3. TakesArray(Top) <=> Kind(Top.type) = "ARRAY"
  BY <1>2 DEF TakesArray
<1>4. CASE /\ Kind(Top.type) = "ARRAY"
           /\ \E n \in Vocabularies[vocabulary] :
                Node(n) \in ArrayInits /\ StartArrInit(n, Top.type, 0, stack)
  <2>1. DepthBelow(Top) = 0
    BY <1>2 DEF DepthBelow
  <2> QED
    BY <1>3, <1>4, <2>1, ArrayInitIsMet
<1>5. CASE /\ Kind(Top.type) = "NAMED"
           /\ \E n \in Vocabularies[vocabulary] :
                Node(n) = "STRUCT_INIT" /\ StartStructInit(n, Top.type, stack)
  <2>1. PICK n \in Vocabularies[vocabulary] :
          Node(n) = "STRUCT_INIT" /\ StartStructInit(n, Top.type, stack)
    BY <1>5
  <2>2. ~TakesArray(stack[Len(stack)])
    BY <1>3, <1>5 DEF Top
  <2>3. HasRoom(stack, at, result, size, MaxNodes[vocabulary])
    BY DEF GInv
  <2>4. \/ Exit \/ End("null_pointer") \/ End("bad_optional_access")
        \/ Enter(n, "member", Append(stack, Frame(n, Top.type, 0)))
    BY <2>1, StartsStruct
  <2> QED
    BY <1>2, <2>1, <2>2, <2>3, <2>4, StructInitIsMet, EndHasRoom DEF Exit, End
<1>6. CASE Kind(Top.type) # "ARRAY" /\ Goto("expression", stack)
  <2>1. size' = size + 0 /\ 0 \in Nat
    <3>1. MaxNodes[vocabulary] \in Nat
      BY BoundsAssumption DEF TCInv
    <3> QED
      BY <1>6, <3>1 DEF Goto, TCInv
  <2> QED
    BY <1>3, <1>6, <2>1, StayHasRoom DEF Goto
<1> QED
  BY <1>1, <1>4, <1>5, <1>6, EndHasRoom DEF Exit, End

----------------------------------------------------------------------------
(* The shape of an initializer that is complete.                            *)
LEMMA LastLevelIsShaped ==
  ASSUME NEW res, NEW type, NEW depth \in Nat, Node(res.node) \in ArrayInits,
         Head(type).sizes \in Seq(Nat), depth + 1 = Len(Head(type).sizes),
         Len(Head(type).sizes) <= UINT8_VALUES,
         Len(res.parts) = Head(type).sizes[depth + 1],
         \A p \in ToSet(res.parts) : Compared(Tail(type), p.type) = "same"
  PROVE  IsShaped(res, type, depth)
<1> DEFINE sizes == Head(type).sizes
           left == Len(sizes) - depth
<1>1. left = 1 /\ left - 1 = 0
  OBVIOUS
<1>2. Levels(res)[0] = {res}
  BY LevelsAre
<1>3. Levels(res)[1] = ToSet(res.parts)
  <2> DEFINE Parts(r) == ToSet(r.parts)
             L == Levels(res)
  <2>1. L[0 + 1] = UNION {Parts(r) : r \in {res}}
    <3>1. 0 \in Nat
      OBVIOUS
    <3> QED
      BY <1>2, <3>1, LevelsAre
  <2> HIDE DEF Parts, L
  <2>2. 0 + 1 = 1
    OBVIOUS
  <2>3. UNION {Parts(r) : r \in {res}} = Parts(res)
    OBVIOUS
  <2>4. L[1] = Parts(res)
    BY <2>1, <2>2, <2>3, Zenon
  <2> QED
    BY <2>4 DEF Parts, L
<1> HIDE DEF left
<1>4. \A n \in 0 .. (left - 1) : n = 0
  BY <1>1
<1>5. \A n \in 0 .. (left - 1) : \A r \in Levels(res)[n] :
        Node(r.node) \in ArrayInits /\ Len(r.parts) = sizes[depth + n + 1]
  BY <1>2, <1>4
<1> QED
  BY <1>1, <1>3, <1>5 DEF IsShaped, left

(* On a level above the last it is shaped if all its elements are.          *)
LEMMA NestedIsShaped ==
  ASSUME NEW res, NEW type, NEW depth \in Nat, Node(res.node) \in ArrayInits,
         Head(type).sizes \in Seq(Nat), depth + 1 < Len(Head(type).sizes),
         UINT8_VALUES \in Nat,
         Len(res.parts) = Head(type).sizes[depth + 1], ToSet(res.parts) # {},
         \A p \in ToSet(res.parts) : IsShaped(p, type, (depth + 1) % UINT8_VALUES)
  PROVE  IsShaped(res, type, depth)
<1> DEFINE sizes == Head(type).sizes
           left == Len(sizes) - depth
<1>1. Len(sizes) \in Nat /\ left \in Nat /\ left >= 2
  OBVIOUS
<1>2. Len(sizes) <= UINT8_VALUES
  BY DEF IsShaped
<1>3. (depth + 1) % UINT8_VALUES = depth + 1
  <2> HIDE DEF sizes
  <2>1. depth + 1 < UINT8_VALUES
    BY <1>1, <1>2 DEF sizes
  <2> QED
    BY <2>1
<1>4. \A p \in ToSet(res.parts) : IsShaped(p, type, depth + 1)
  BY <1>3
<1>5. /\ Levels(res)[0] = {res}
      /\ \A n \in Nat : Levels(res)[n + 1] = UNION {Levels(p)[n] : p \in ToSet(res.parts)}
  BY LevelsAre, LevelsBelow
<1>6. Len(sizes) - (depth + 1) = left - 1 /\ left - 1 \in Nat /\ (left - 1) + 1 = left
  BY <1>1
<1>7. ASSUME NEW p \in ToSet(res.parts)
      PROVE  /\ \A n \in 0 .. ((left - 1) - 1) : \A r \in Levels(p)[n] :
                  Node(r.node) \in ArrayInits /\ Len(r.parts) = sizes[(depth + 1) + n + 1]
             /\ \A r \in Levels(p)[left - 1] : Compared(Tail(type), r.type) = "same"
  BY <1>4, <1>6 DEF IsShaped
<1> HIDE DEF left
<1>8. ASSUME NEW n \in 0 .. (left - 1), NEW r \in Levels(res)[n]
      PROVE  Node(r.node) \in ArrayInits /\ Len(r.parts) = sizes[depth + n + 1]
  <2>1. CASE n = 0
    BY <1>5, <2>1
  <2>2. CASE n # 0
    <3>1. /\ n - 1 \in Nat /\ (n - 1) + 1 = n /\ n - 1 \in 0 .. ((left - 1) - 1)
          /\ (depth + 1) + (n - 1) + 1 = depth + n + 1
      BY <1>1, <2>2
    <3>2. PICK p \in ToSet(res.parts) : r \in Levels(p)[n - 1]
      <4>1. Levels(res)[(n - 1) + 1] = UNION {Levels(p)[n - 1] : p \in ToSet(res.parts)}
        BY <1>5, <3>1
      <4> QED
        BY <3>1, <4>1
    <3>3. /\ Node(r.node) \in ArrayInits
          /\ Len(r.parts) = sizes[(depth + 1) + (n - 1) + 1]
      BY <1>7, <3>1, <3>2
    <3> QED
      BY <3>1, <3>3
  <2> QED
    BY <2>1, <2>2
<1>9. ASSUME NEW r \in Levels(res)[left]
      PROVE  Compared(Tail(type), r.type) = "same"
  <2>1. Levels(res)[(left - 1) + 1] = UNION {Levels(p)[left - 1] : p \in ToSet(res.parts)}
    BY <1>5, <1>6
  <2>2. PICK p \in ToSet(res.parts) : r \in Levels(p)[left - 1]
    BY <1>6, <2>1
  <2> QED
    BY <1>7, <2>2
<1> QED
  BY <1>2, <1>8, <1>9 DEF IsShaped, left

(* What waits under the call that is active.                                *)
LEMMA BelowFacts ==
  ASSUME TCInv, at \in InStatement, NEW used, NEW limit, NEW room, NEW scope,
         RoomsFit(stack, at, result, used, limit, room, scope)
  PROVE  /\ IsSeq(stack) /\ Len(stack) \in Nat /\ Len(stack) >= 2
         /\ IsLinked(stack[Len(stack) - 1], Top)
<1> DEFINE n == Len(stack)
<1>1. StackFits(stack, at)
  BY DEF TCInv
<1>2. PICK f \in Nat : f >= 1 /\ f < n
  BY <1>1, BodyFacts
<1>3. n \in Nat /\ IsSeq(stack)
  BY <1>1, StackFacts
<1>4. \A i \in 1 .. (n - 1) : IsLinked(stack[i], stack[i + 1])
  BY DEF RoomsFit
<1> HIDE DEF n
<1>5. n >= 2 /\ n - 1 \in 1 .. (n - 1) /\ (n - 1) + 1 = n
  BY <1>2, <1>3
<1>6. IsLinked(stack[n - 1], stack[n])
  BY <1>4, <1>5
<1> QED
  BY <1>3, <1>5, <1>6 DEF n, Top

(* The next element of an initializer, or the end of one.                   *)
LEMMA NextElementHasRoom ==
  ASSUME TCInv, GInv, Checking("return"), Node(Top.node) \in ArrayInits,
         Node(Top.node) = "ARR_INIT" => Compared(Tail(Top.type), result.type) = "same",
         NEW point \in {"expression", "nested"}, TakesArray(Top) => point = "nested",
         NextElement(point)
  PROVE  GInv'
<1>1. /\ at \in InStatement /\ at = "return" /\ at # "decls"
      /\ Filled.node = Top.node /\ Filled.type = Top.type /\ Filled.depth = Top.depth
      /\ Filled.parts = Append(Top.parts, result)
      /\ Len(Filled.parts) = Len(Top.parts) + 1
  BY ReturnedFacts
<1>2. PICK room : /\ RoomsFit(stack, at, result, size, MaxNodes[vocabulary], room, ScopeId)
                  /\ room[Len(stack)] \in 0 .. size
                  /\ FrameHolds(Top, room[Len(stack)], ScopeId, MaxNodes[vocabulary])
  BY <1>1, RoomFacts
<1>3. size \in Nat
  BY <1>1, RoomFacts
<1>4. ArrayHolds(Top)
  BY <1>2 DEF FrameHolds
<1>5. /\ Node(Top.node) # "FN" /\ Node(Top.node) \notin {"CAST", ".", "->", "VAR_INIT"}
      /\ Cost(Top) = 0
      /\ TakesArray(Top) <=> Node(Top.node) = "NESTED_ARR_INIT"
  BY DEF ArrayInits, Cost, Operators, TakesArray
<1>6. \A p \in ToSet(Filled.parts) : IsGood(p, room[Len(stack)], ScopeId)
  BY <1>2, OperandsAreGood
<1>7. ToSet(Filled.parts) = ToSet(Top.parts) \cup {result} /\ Len(Top.parts) \in Nat
  BY <1>1, WaitingFacts, AppendSeq
<1>8. Node(Top.node) = "ARR_INIT" =>
        \A p \in ToSet(Filled.parts) : Compared(Tail(Top.type), p.type) = "same"
  BY <1>4, <1>7 DEF ArrayHolds
<1>9. Node(Top.node) = "NESTED_ARR_INIT" =>
        \A p \in ToSet(Filled.parts) : IsShaped(p, Top.type, DepthBelow(Top))
  <2>1. Node(Top.node) = "NESTED_ARR_INIT" => IsShaped(result, Top.type, DepthBelow(Top))
    BY <1>1, <1>2, <1>5 DEF RoomsFit, Top
  <2> QED
    BY <1>4, <1>7, <2>1 DEF ArrayHolds
<1>10. /\ IsSeq(stack) /\ Len(stack) \in Nat /\ Len(stack) >= 2
       /\ IsLinked(stack[Len(stack) - 1], Top)
  BY <1>1, <1>2, BelowFacts
<1>11. CASE Len(Filled.parts) # Datum(Top.node) /\ Goto(point, ReplaceTop(Filled))
  <2>1. DepthBelow(Filled) = DepthBelow(Top)
    BY <1>1 DEF DepthBelow
  <2>2. Len(Filled.parts) < Datum(Filled.node)
    BY <1>1, <1>4, <1>7, <1>11 DEF ArrayHolds
  <2>3. ArrayHolds(Filled)
    BY <1>1, <1>4, <1>8, <1>9, <2>1, <2>2 DEF ArrayHolds
  <2>4. FrameHolds(Filled, room[Len(stack)], ScopeId, MaxNodes[vocabulary])
    BY <1>1, <1>5, <1>6, <2>3 DEF FrameHolds
  <2>5. TakesArray(Filled) => point \notin {"expression", "member"}
    BY <1>1 DEF TakesArray
  <2>6. point # "return"
    OBVIOUS
  <2>7. Len(stack) >= 1
    BY <1>10
  <2>8. RoomsFit([stack EXCEPT ![Len(stack)] = Filled], point, result', size,
                 MaxNodes[vocabulary], room, ScopeId)
    BY <1>1, <1>2, <1>3, <1>10, <2>4, <2>5, <2>6, <2>7, ReplaceRooms DEF Top
  <2>9. /\ at' = point /\ stack' = ReplaceTop(Filled) /\ size' = size
        /\ vocabulary' = vocabulary
    BY <1>11 DEF Goto
  <2> QED
    BY <2>8, <2>9 DEF GInv, HasRoom, ReplaceTop
<1>12. CASE Len(Filled.parts) = Datum(Top.node) /\ Finish(Temporary(Filled, Top.type))
  <2> DEFINE res == Temporary(Filled, Top.type)
             below == stack[Len(stack) - 1]
             sizes == Head(Top.type).sizes
  <2>1. res.node = Top.node /\ res.parts = Filled.parts /\ ~res.is_var_and_mutable
    BY <1>1 DEF Temporary, Result
  <2>2. /\ at' = "return" /\ stack' = Pop /\ size' = size /\ vocabulary' = vocabulary
        /\ result' = res
    BY <1>12 DEF Finish, Return
  <2> HIDE DEF res
  <2>3. ~IsLiteralOrSum(res) /\ Node(res.node) \notin {"IDENTIFIER", ".", "->"}
    BY <2>1 DEF IsLiteralOrSum, Node, ArrayInits
  <2>4. IsGood(res, room[Len(stack)] + Cost(Top), ScopeId)
    <3> DEFINE r == room[Len(stack)]
    <3>1. r \in Nat
      BY <1>2, <1>3
    <3> HIDE DEF r
    <3>2. r + Cost(Top) \in Nat
      BY <1>5, <3>1
    <3>3. IsGood(res, r + Cost(Top), ScopeId)
      BY <2>1, <2>3, <3>2, PlainIsGood
    <3> QED
      BY <3>3 DEF r
  <2>5. /\ sizes \in Seq(Nat) /\ Len(sizes) \in Nat
        /\ Top.depth \in Nat /\ Top.depth <= UINT8_VALUES - 1 /\ UINT8_VALUES \in Nat
        /\ Node(Top.node) = "NESTED_ARR_INIT" => Top.depth + 1 < Len(sizes)
    BY SizesFacts
  <2>6. Len(res.parts) = sizes[Top.depth + 1]
    BY <1>4, <1>12, <2>1 DEF ArrayHolds
  <2>7. ToSet(res.parts) # {}
    BY <1>7, <2>1
  <2>8. IsShaped(res, Top.type, Top.depth)
    <3>1. CASE Node(Top.node) = "ARR_INIT"
      <4>1. Top.depth + 1 = Len(sizes)
        BY <1>4, <3>1 DEF ArrayHolds
      <4>2. Len(sizes) <= UINT8_VALUES
        BY <2>5, <4>1
      <4>3. \A p \in ToSet(res.parts) : Compared(Tail(Top.type), p.type) = "same"
        BY <1>8, <2>1, <3>1
      <4> QED
        BY <2>1, <2>5, <2>6, <4>1, <4>2, <4>3, LastLevelIsShaped
    <3>2. CASE Node(Top.node) = "NESTED_ARR_INIT"
      <4>1. DepthBelow(Top) = (Top.depth + 1) % UINT8_VALUES
        BY <3>2 DEF DepthBelow
      <4>2. \A p \in ToSet(res.parts) : IsShaped(p, Top.type, (Top.depth + 1) % UINT8_VALUES)
        BY <1>9, <2>1, <3>2, <4>1
      <4> QED
        BY <2>1, <2>5, <2>6, <2>7, <3>2, <4>2, NestedIsShaped
    <3> QED
      BY <3>1, <3>2 DEF ArrayInits
  <2>9. Top.type = below.type /\ Top.depth = DepthBelow(below)
    BY <1>10 DEF IsLinked
  <2>10. IsShaped(res, below.type, DepthBelow(below))
    BY <2>8, <2>9
  <2>11. HasRoom(SubSeq(stack, 1, Len(stack) - 1), "return", res, size, MaxNodes[vocabulary])
    BY <1>2, <1>3, <1>10, <2>4, <2>10, PopRooms DEF Top
  <2> QED
    BY <2>2, <2>11 DEF GInv, Pop
<1> QED
  BY <1>11, <1>12 DEF NextElement

(* Elements of both kinds.                                                  *)
LEMMA EndElementHasRoom ==
  ASSUME TCInv, GInv, EndElement
  PROVE  GInv'
<1>1. /\ Checking("return") /\ Node(Top.node) \in ArrayInits
      /\ \/ Exit \/ End("null_pointer")
         \/ /\ Node(Top.node) = "ARR_INIT"
            /\ Compared(Tail(Top.type), result.type) = "same" /\ NextElement("expression")
         \/ Node(Top.node) = "NESTED_ARR_INIT" /\ NextElement("nested")
  BY DEF EndElement, Returning, ArrayInits, IfSame
<1>2. CASE /\ Node(Top.node) = "ARR_INIT"
           /\ Compared(Tail(Top.type), result.type) = "same" /\ NextElement("expression")
  BY <1>1, <1>2, NextElementHasRoom DEF TakesArray
<1>3. CASE Node(Top.node) = "NESTED_ARR_INIT" /\ NextElement("nested")
  BY <1>1, <1>3, NextElementHasRoom
<1> QED
  BY <1>1, <1>2, <1>3, EndHasRoom DEF Exit, End

(* What is compared with a literal and found the same is one of its types.  *)
LEMMA SameAsLiteral ==
  ASSUME NEW type, IsWritten(type), NEW types, Compared(type, <<LiteralOf(types)>>) = "same"
  PROVE  type[1].symbol \in types
<1> DEFINE second == <<LiteralOf(types)>>
           Right(i) == /\ \A j \in 1 .. (i - 1) : j <= Len(second) /\ GoesOn(type[j], second[j])
                       /\ i > Len(type) \/ i > Len(second) \/ ~GoesOn(type[i], second[i])
           i == CHOOSE k \in 1 .. (Len(type) + 1) : Right(k)
<1>1. Len(second) = 1 /\ second[1] = LiteralOf(types)
  OBVIOUS
<1>2. LiteralOf(types).kind = "NAMED" /\ LiteralOf(types).acceptable = types
      /\ "acceptable" \in DOMAIN LiteralOf(types)
  BY DEF LiteralOf
<1>3. ~GoesOn(type[1], second[1])
  BY <1>1, <1>2 DEF GoesOn
<1>4. IsSeq(type) /\ Len(type) \in Nat /\ Len(type) >= 1
  BY SeqFacts DEF IsWritten, IsSeq, NullType
<1>5. 1 \in 1 .. (Len(type) + 1) /\ Right(1)
  BY <1>3, <1>4
<1>6. i \in 1 .. (Len(type) + 1) /\ Right(i)
  BY <1>5
<1>7. Compared(type, second) =
        CASE i > Len(type) \/ i > Len(second) -> "null"
          [] OTHER ->
             IF /\ Decides(type[i], second[i])
                /\ \A j \in 1 .. (i - 1) :
                     type[j].kind = "ARRAY" => type[j].sizes = second[j].sizes
             THEN "same" ELSE "different"
  BY DEF Compared
<1> HIDE DEF i
<1>8. i = 1
  <2>1. \A j \in 1 .. (i - 1) : GoesOn(type[j], second[j])
    BY <1>6
  <2>2. 1 \notin 1 .. (i - 1)
    BY <1>3, <2>1
  <2> QED
    BY <1>4, <1>6, <2>2
<1>9. Decides(type[1], second[1])
  BY <1>1, <1>4, <1>7, <1>8
<1> HIDE DEF second
<1>10. type[1].kind = "NAMED" /\ SameName(type[1], LiteralOf(types))
  BY <1>1, <1>2, <1>9 DEF Decides
<1>11. ~IsLiteralLayer(type[1]) /\ IsLiteralLayer(LiteralOf(types))
  <2>1. 1 \in DOMAIN type
    BY <1>4, SeqFacts
  <2> QED
    BY <1>2, <2>1 DEF IsWritten, IsLiteralLayer
<1>12. SameName(type[1], LiteralOf(types)) => type[1].symbol \in LiteralOf(types).acceptable
  BY <1>11, Zenon DEF SameName
<1> QED
  BY <1>2, <1>10, <1>12

(* A statement is accepted only if it holds.                                *)
LEMMA AcceptedHolds ==
  ASSUME TCInv, GInv, Checking("return"), Node(Top.node) = "VAR_INIT",
         \/ Node(result.node) \in {"STRUCT_INIT", "ARR_INIT", "NESTED_ARR_INIT"}
         \/ Compared(Top.type, result.type) = "same"
  PROVE  StatementHolds(Filled, MaxNodes[vocabulary])
<1> DEFINE limit == MaxNodes[vocabulary]
<1>1. /\ at = "return" /\ at # "decls" /\ IsSeq(Top.parts)
      /\ Filled.node = Top.node /\ Filled.type = Top.type
      /\ Filled.parts = Append(Top.parts, result)
  BY ReturnedFacts, WaitingFacts
<1>2. PICK room : /\ RoomsFit(stack, at, result, size, limit, room, ScopeId)
                  /\ room[Len(stack)] \in 0 .. size
                  /\ FrameHolds(Top, room[Len(stack)], ScopeId, limit)
  BY <1>1, RoomFacts
<1>3. size \in Nat /\ limit \in Nat /\ size <= limit
  BY <1>1, RoomFacts
<1> HIDE DEF limit
<1>4. Filled.parts = <<result>>
  <2>1. Top.parts = <<>>
    BY <1>2 DEF FrameHolds
  <2> QED
    BY <1>1, <2>1
<1>5. Filled.parts[1] = result
  BY <1>4
<1>6. ASSUME IsSumWithin(result, limit), NEW n \in 0 .. limit, NEW r \in Levels(result)[n],
             Node(r.node) = "INT_LITERAL"
      PROVE  FitsIn(IntLiterals[Datum(r.node)], Top.type[1].symbol)
  <2>1. LiteralsWithin(result, limit)
    <3>1. IsGood(result, room[Len(stack)], ScopeId)
      BY <1>1, <1>2 DEF RoomsFit
    <3>2. room[Len(stack)] \in Nat /\ room[Len(stack)] <= limit
      <4> DEFINE r0 == room[Len(stack)]
      <4>1. r0 \in 0 .. size
        BY <1>2
      <4> HIDE DEF r0
      <4>2. r0 \in Nat /\ r0 <= limit
        BY <1>3, <4>1
      <4> QED
        BY <4>2 DEF r0
    <3>3. IsGood(result, limit, ScopeId)
      BY <1>3, <3>1, <3>2, GoodGrows
    <3> QED
      BY <3>3 DEF IsGood
  <2>2. PICK types : result.type = <<LiteralOf(types)>> /\ FitsAllIn(types, result)
    BY <1>6, <2>1 DEF LiteralsWithin
  <2>3. IsLiteralOrSum(result)
    <3>1. result \in Levels(result)[0]
      BY LevelsAre
    <3>2. 0 \in 0 .. limit
      BY <1>3
    <3> QED
      BY <1>6, <3>1, <3>2 DEF IsSumWithin
  <2>4. Node(result.node) \in {"BINARY", "INT_LITERAL"}
    BY <2>3 DEF IsLiteralOrSum, Node
  <2>5. Compared(Top.type, <<LiteralOf(types)>>) = "same"
    BY <2>2, <2>4
  <2>6. IsWritten(Top.type)
    BY WaitingFacts DEF IsFrame, HasItsType
  <2>7. Top.type[1].symbol \in types
    BY <2>5, <2>6, SameAsLiteral
  <2>8. n \in Nat
    BY <1>3
  <2>9. Top.type[1].symbol \in Acceptable(IntLiterals[Datum(r.node)])
    BY <1>6, <2>2, <2>7, <2>8 DEF FitsAllIn
  <2> QED
    BY <2>9 DEF Acceptable
<1>7. ASSUME Kind(Top.type) = "ARRAY"
      PROVE  Head(Top.type).sizes \in Seq(Nat) /\ IsShaped(result, Top.type, 0)
  <2>1. TakesArray(Top) /\ DepthBelow(Top) = 0
    BY <1>7 DEF TakesArray, DepthBelow
  <2>2. IsShaped(result, Top.type, 0)
    BY <1>1, <1>2, <2>1 DEF RoomsFit, Top
  <2> QED
    BY <2>1, <2>2, SizesFacts
<1>8. Filled.parts = <<Filled.parts[1]>>
  BY <1>4, <1>5
<1> QED
  BY <1>1, <1>5, <1>6, <1>7, <1>8 DEF StatementHolds, limit

(* The function takes the statement.                                        *)
LEMMA EndStatementHasRoom ==
  ASSUME TCInv, GInv, EndStatement
  PROVE  GInv'
<1> DEFINE n == Len(stack) - 1
           st == [Pop EXCEPT ![n].parts = Append(@, Filled)]
           limit == MaxNodes[vocabulary]
<1>1. /\ Checking("return") /\ Node(Top.node) \in StatementKinds
      /\ \/ Exit \/ End("null_pointer")
         \/ /\ Goto("statements", st)
            /\ Node(Top.node) = "VAR_INIT" =>
                 \/ Node(result.node) \in {"STRUCT_INIT", "ARR_INIT", "NESTED_ARR_INIT"}
                 \/ Compared(Top.type, result.type) = "same"
  BY DEF EndStatement, IfSame, StatementKinds
<1>2. /\ at = "return" /\ at \in InStatement /\ at # "decls" /\ Filled.node = Top.node
  BY <1>1, ReturnedFacts
<1>3. CASE /\ Goto("statements", st)
           /\ Node(Top.node) = "VAR_INIT" =>
                \/ Node(result.node) \in {"STRUCT_INIT", "ARR_INIT", "NESTED_ARR_INIT"}
                \/ Compared(Top.type, result.type) = "same"
  <2>1. StatementHolds(Filled, limit)
    <3>1. CASE Node(Top.node) = "VAR_INIT"
      BY <1>1, <1>3, <3>1, AcceptedHolds
    <3>2. CASE Node(Top.node) # "VAR_INIT"
      BY <1>2, <3>2 DEF StatementHolds
    <3> QED
      BY <3>1, <3>2
  <2>2. PICK room : RoomsFit(stack, at, result, size, limit, room, ScopeId)
    BY <1>2, RoomFacts
  <2>3. size \in Nat
    BY <1>2, RoomFacts
  <2>4. IsSeq(stack) /\ Len(stack) \in Nat /\ Len(stack) >= 2
    BY <1>2, <2>2, BelowFacts
  <2>5. StackFits(Pop, "statements") /\ Node(stack[n].node) = "FN"
    BY <1>1, <1>2, WaitingFacts, PopStatement DEF Pop
  <2>6. ~TakesArray(stack[n])
    BY <2>5 DEF TakesArray
  <2>7. HasRoom(Pop, "statements", result, size, limit)
    BY <2>2, <2>3, <2>4, <2>6, PopRooms DEF Pop
  <2>8. IsSeq(Pop) /\ Len(Pop) \in Nat /\ Len(Pop) >= 1 /\ IsFrame(Pop[Len(Pop)])
    BY <2>5, StackFacts
  <2>9. Len(Pop) = n /\ Pop[n] = stack[n]
    <3>1. stack # <<>>
      BY <2>4, SeqFacts
    <3>2. Len(Pop) = n /\ \A i \in 1 .. n : Pop[i] = stack[i]
      BY <2>4, <3>1, FrontSeq DEF Pop
    <3>3. n \in 1 .. n
      BY <2>4
    <3> QED
      BY <3>2, <3>3
  <2> DEFINE f == Pop[n]
             g == [f EXCEPT !.parts = Append(@, Filled)]
  <2>10. Node(f.node) = "FN" /\ IsFrame(f) /\ IsSeq(f.parts)
    BY <2>5, <2>8, <2>9 DEF IsFrame
  <2>11. st = [Pop EXCEPT ![n] = g]
    OBVIOUS
  <2>12. /\ g.node = f.node /\ g.type = f.type /\ g.depth = f.depth
         /\ g.parts = Append(f.parts, Filled)
    BY <2>10 DEF IsFrame
  <2> HIDE DEF g, st, n
  <2>13. PICK room2, scope2 : RoomsFit(Pop, "statements", result, size, limit, room2, scope2)
    BY <2>7 DEF HasRoom
  <2>14. FrameHolds(f, room2[n], scope2, limit)
    <3>1. n \in 1 .. Len(Pop)
      BY <2>8, <2>9
    <3> QED
      BY <2>9, <2>13, <3>1 DEF RoomsFit
  <2>15. ToSet(g.parts) = ToSet(f.parts) \cup {Filled}
    BY <2>10, <2>12, AppendSeq
  <2> HIDE DEF f
  <2>16. Node(g.node) = "FN"
    BY <2>10, <2>12
  <2>17. FrameHolds(g, room2[n], scope2, limit)
    BY <2>1, <2>10, <2>12, <2>14, <2>15, <2>16
       DEF FrameHolds, BodyKinds, StatementKinds, ExpressionKinds, Operators, ArrayInits
  <2>18. ~TakesArray(g)
    BY <2>16 DEF TakesArray
  <2>19. RoomsFit([Pop EXCEPT ![Len(Pop)] = g], "statements", result', size, limit, room2, scope2)
    BY <2>3, <2>8, <2>9, <2>12, <2>13, <2>17, <2>18, ReplaceRooms DEF f
  <2>20. HasRoom(st, "statements", result', size, limit)
    BY <2>9, <2>11, <2>19 DEF HasRoom
  <2>21. at' = "statements" /\ stack' = st /\ size' = size /\ vocabulary' = vocabulary
    BY <1>3 DEF Goto
  <2> QED
    BY <2>20, <2>21 DEF GInv
<1> QED
  BY <1>1, <1>3, EndHasRoom DEF Exit, End

(* The invariant holds of the initial states.                               *)
LEMMA InitGInv ==
  ASSUME Init
  PROVE  GInv
<1>1. TCInv /\ at = "decls"
  BY InitTCInv DEF Init
<1> QED
  BY <1>1, DeclsHaveRoom

(* Every step keeps it.                                                     *)
LEMMA NextGInv ==
  ASSUME TCInv, GInv, [Next]_vars
  PROVE  GInv'
<1>1. ASSUME \/ CheckContainer \/ EndOfContainer \/ CheckField \/ CheckFunction
             \/ EndOfBody \/ CheckOtherStatement \/ CheckExprStatement \/ CheckReturn
             \/ CheckVarDecl \/ CheckInitializer \/ EndStatement
      PROVE  GInv'
  <2>1. CheckOtherStatement => UNCHANGED <<vocabulary, control>>
    BY DEF CheckOtherStatement, Exit, End
  <2> QED
    BY <1>1, <2>1, DeclsStepsHaveRoom, FunctionHasRoom, EndHasRoom, StatementHasRoom,
       InitializerHasRoom, EndStatementHasRoom
<1>2. ASSUME \/ CheckIntLiteral \/ CheckLiteral \/ CheckIdent \/ CheckCall
             \/ EnterExpression \/ CheckCastType
      PROVE  GInv'
  <2>1. CheckCall => UNCHANGED <<vocabulary, control>>
    BY DEF CheckCall, Exit, End
  <2> QED
    BY <1>2, <2>1, LiteralHasRoom, IdentHasRoom, EndHasRoom, EnterExpressionHasRoom
<1>3. ASSUME \/ CheckPrePostIncDec \/ CheckNegateNot \/ CheckAddrOf \/ CheckRefOf
             \/ CheckDeref \/ UnaryOfNull
      PROVE  GInv'
  BY <1>3, UnaryHasRoom
<1>4. ASSUME \/ EndFirstOperand \/ CheckArith \/ CheckShiftLog \/ CheckCmp \/ BinaryOfNull
             \/ CheckTernary \/ CheckAssign \/ CheckCast \/ CheckIndex \/ CheckSubscript
             \/ CheckMemAccess
      PROVE  GInv'
  BY <1>4, BinaryHasRoom, ArithHasRoom, TernaryHasRoom, AssignHasRoom, CastHasRoom,
     SubscriptHasRoom, MemAccessHasRoom
<1>5. ASSUME \/ CheckMember \/ EndMember \/ EndStructInit \/ CheckStructCreate
             \/ CheckNested \/ EndElement
      PROVE  GInv'
  BY <1>5, MemberHasRoom, StructCreateHasRoom, NestedHasRoom, EndElementHasRoom
<1>6. UNCHANGED vars => UNCHANGED <<vocabulary, control>>
  BY DEF vars
<1>7. Step \/ UNCHANGED vars
  BY DEF Next, Ended
<1> QED
  BY <1>1, <1>2, <1>3, <1>4, <1>5, <1>6, <1>7, EndHasRoom DEF Step

(* So both hold in every state.                                             *)
LEMMA RoomForAll == Spec => [](TCInv /\ GInv)
<1>1. Init => TCInv /\ GInv
  BY InitTCInv, InitGInv
<1>2. TCInv /\ GInv /\ [Next]_vars => (TCInv /\ GInv)'
  BY NextTCInv, NextGInv
<1> QED
  BY <1>1, <1>2, PTL DEF Spec

(* What the invariant says of every result the checker works with.          *)
LEMMA ResultsAreGood ==
  ASSUME TCInv, GInv, NEW res \in Results
  PROVE  IsGood(res, MaxNodes[vocabulary], ScopeId)
<1> DEFINE limit == MaxNodes[vocabulary]
<1>1. StackFits(stack, at) /\ DOMAIN stack = 1 .. Len(stack) /\ Len(stack) \in DOMAIN stack
  BY StackFacts DEF TCInv
<1>2. at # "decls"
  <2>1. at = "decls" => ExpressionFrames = {}
    BY <1>1 DEF StackFits, ContainerKinds, ExpressionFrames
  <2> QED
    BY <2>1 DEF Results
<1>3. size \in Nat /\ limit \in Nat /\ size <= limit
  BY <1>2, RoomFacts
<1>4. PICK room : RoomsFit(stack, at, result, size, limit, room, ScopeId)
  BY <1>2, RoomFacts
<1> HIDE DEF limit
<1>5. PICK i \in DOMAIN stack : IsGood(res, room[i], ScopeId)
  <2>1. ASSUME NEW i \in ExpressionFrames, res \in ToSet(stack[i].parts)
        PROVE  i \in DOMAIN stack /\ IsGood(res, room[i], ScopeId)
    <3>1. i \in DOMAIN stack /\ IsFrame(stack[i])
      BY <1>1 DEF ExpressionFrames, StackFits
    <3>2. Node(stack[i].node) \in BodyKinds
      BY <3>1 DEF ExpressionFrames, IsFrame, ContainerKinds
    <3>3. FrameHolds(stack[i], room[i], ScopeId, limit)
      BY <1>1, <1>4, <3>1 DEF RoomsFit
    <3> QED
      BY <2>1, <3>1, <3>2, <3>3 DEF FrameHolds
  <2>2. ASSUME at = "return", res = result
        PROVE  IsGood(res, room[Len(stack)], ScopeId)
    BY <1>4, <2>2 DEF RoomsFit
  <2>3. \/ \E i \in ExpressionFrames : res \in ToSet(stack[i].parts)
        \/ at = "return" /\ res = result
    <3>1. res \in UNION {ToSet(stack[i].parts) : i \in ExpressionFrames}
          \/ res \in (IF at = "return" THEN {result} ELSE {})
      BY DEF Results
    <3> QED
      BY <3>1
  <2> QED
    BY <1>1, <2>1, <2>2, <2>3
<1>6. room[i] \in Nat /\ room[i] <= limit
  <2>1. room[i] \in 0 .. size
    BY <1>1, <1>4 DEF RoomsFit
  <2> DEFINE r == room[i]
  <2> HIDE DEF r
  <2>2. r \in 0 .. size
    BY <2>1 DEF r
  <2>3. r \in Nat /\ r <= limit
    BY <1>3, <2>2
  <2> QED
    BY <2>3 DEF r
<1>7. IsGood(res, limit, ScopeId)
  BY <1>3, <1>5, <1>6, GoodGrows
<1> QED
  BY <1>7 DEF limit

(* And of every statement that has been accepted.                           *)
LEMMA AcceptedStatementHolds ==
  ASSUME TCInv, GInv, NEW stmt \in Accepted
  PROVE  StatementHolds(stmt, MaxNodes[vocabulary])
<1>1. StackFits(stack, at) /\ DOMAIN stack = 1 .. Len(stack)
  BY StackFacts DEF TCInv
<1>2. PICK i \in DOMAIN stack : Node(stack[i].node) = "FN" /\ stmt \in ToSet(stack[i].parts)
  BY DEF Accepted
<1>3. at # "decls"
  BY <1>1, <1>2 DEF StackFits, ContainerKinds
<1>4. PICK room : RoomsFit(stack, at, result, size, MaxNodes[vocabulary], room, ScopeId)
  BY <1>3, RoomFacts
<1>5. FrameHolds(stack[i], room[i], ScopeId, MaxNodes[vocabulary])
  BY <1>1, <1>4 DEF RoomsFit
<1> QED
  BY <1>2, <1>5 DEF FrameHolds

(* A result is mutable only if everything it may stand for was declared     *)
(* mutable, however deep under subscripts, casts and ternaries.             *)
THEOREM MutabilityIsDeclared == Spec => []MutableAsDeclared
<1>1. ASSUME TCInv, GInv
      PROVE  MutableAsDeclared
  <2> SUFFICES ASSUME NEW res \in Results, res.is_var_and_mutable, NEW r \in Denoted(res)
               PROVE  DeclaredMutable(r)
    BY DEF MutableAsDeclared
  <2>1. MutableWithin(res, MaxNodes[vocabulary])
    BY <1>1, ResultsAreGood DEF IsGood
  <2>2. r \in DenotedLevels(res)[MaxNodes[vocabulary]]
    BY DenotedIs
  <2> QED
    BY <2>1, <2>2 DEF MutableWithin, IsOfItself
<1>2. TCInv /\ GInv => MutableAsDeclared
  BY <1>1
<1> QED
  BY <1>2, RoomForAll, PTL

(* A private struct or field is used only by the functions declared where   *)
(* it is, or deeper.                                                        *)
THEOREM PrivateIsUsedInside == Spec => []PrivateStaysInside
<1>1. ASSUME TCInv, GInv
      PROVE  PrivateStaysInside
  BY <1>1, ResultsAreGood DEF PrivateStaysInside, IsGood, UsesInside
<1>2. TCInv /\ GInv => PrivateStaysInside
  BY <1>1
<1> QED
  BY <1>2, RoomForAll, PTL

(* An integer variable is initialized with a sum or product of literals     *)
(* only if its type holds every one of them.                                *)
THEOREM SumsOfLiteralsFit == Spec => []LiteralsFit
<1>1. ASSUME TCInv, GInv
      PROVE  LiteralsFit
  <2> DEFINE limit == MaxNodes[vocabulary]
  <2> SUFFICES ASSUME NEW stmt \in Accepted, Node(stmt.node) = "VAR_INIT",
                      IsArithmeticOfLiterals(stmt.parts[1]),
                      NEW r \in Everything(stmt.parts[1]), Node(r.node) = "INT_LITERAL"
               PROVE  FitsIn(IntLiterals[Datum(r.node)], stmt.type[1].symbol)
    BY DEF LiteralsFit
  <2>1. StatementHolds(stmt, limit)
    BY <1>1, AcceptedStatementHolds
  <2>2. Everything(stmt.parts[1]) = UNION {Levels(stmt.parts[1])[n] : n \in 0 .. limit}
    BY EverythingIs
  <2> HIDE DEF limit
  <2>3. IsSumWithin(stmt.parts[1], limit)
    BY <2>2 DEF IsArithmeticOfLiterals, IsSumWithin
  <2>4. PICK n \in 0 .. limit : r \in Levels(stmt.parts[1])[n]
    BY <2>2
  <2> QED
    BY <2>1, <2>3, <2>4 DEF StatementHolds
<1>2. TCInv /\ GInv => LiteralsFit
  BY <1>1
<1> QED
  BY <1>2, RoomForAll, PTL

(* The initializers of a statement with one, level by level.                *)
LEMMA InitLevelsAre ==
  ASSUME NEW stmt, ToSet(stmt.parts) = {stmt.parts[1]}, NEW depth \in Nat
  PROVE  \A n \in 0 .. depth : InitLevels(stmt, depth)[n] = Levels(stmt.parts[1])[n]
<1> DEFINE p == stmt.parts[1]
           IsLevels(g) ==
             g = [n \in 0 .. depth |-> IF n = 0 THEN ToSet(stmt.parts)
                                       ELSE UNION {ToSet(r.parts) : r \in g[n - 1]}]
           level == InitLevels(stmt, depth)
<1>1. PICK f : Repeats("all", ToSet(stmt.parts), f, 0 .. depth)
  BY RepeatsUpTo
<1>2. \A x : NextOf("all", x) = UNION {ToSet(r.parts) : r \in x}
  BY Zenon DEF NextOf
<1>3. \A g : Repeats("all", ToSet(stmt.parts), g, 0 .. depth) <=> IsLevels(g)
  BY <1>2, Zenon DEF Repeats
<1>4. level = CHOOSE g : IsLevels(g)
  BY Zenon DEF InitLevels
<1> HIDE DEF IsLevels, level
<1>5. Repeats("all", ToSet(stmt.parts), level, 0 .. depth)
  BY <1>1, <1>3, <1>4, Zenon
<1> DEFINE T == {n \in Nat : n <= depth => level[n] = Levels(p)[n]}
<1>6. level[0] = Levels(p)[0]
  <2>1. 0 \in 0 .. depth
    OBVIOUS
  <2>2. level[0] = ToSet(stmt.parts)
    BY <1>5, <2>1 DEF Repeats
  <2> QED
    BY <2>2, LevelsAre
<1>7. ASSUME NEW n \in Nat, n + 1 <= depth, level[n] = Levels(p)[n]
      PROVE  level[n + 1] = Levels(p)[n + 1]
  <2>1. n + 1 \in 0 .. depth /\ n + 1 # 0 /\ (n + 1) - 1 = n
    BY <1>7
  <2>2. level[n + 1] = NextOf("all", level[n])
    BY <1>5, <2>1 DEF Repeats
  <2>3. Levels(p)[n + 1] = UNION {ToSet(r.parts) : r \in Levels(p)[n]}
    BY LevelsAre
  <2> QED
    BY <1>2, <1>7, <2>2, <2>3
<1>8. T = Nat
  <2>1. 0 \in T /\ T \in SUBSET Nat
    BY <1>6
  <2>2. \A n \in T : n + 1 \in T
    <3> SUFFICES ASSUME NEW n \in T, n + 1 <= depth
                 PROVE  level[n + 1] = Levels(p)[n + 1]
      OBVIOUS
    <3>1. n \in Nat /\ n <= depth
      OBVIOUS
    <3> QED
      BY <1>7, <3>1
  <2> HIDE DEF T
  <2> QED
    BY <2>1, <2>2, AllNat
<1> QED
  BY <1>8 DEF level

(* The initializers of arrays are nested as deep as the array has sizes,    *)
(* each level as long as its size, with elements of the right type.         *)
THEOREM InitializersMatch == Spec => []ShapeMatches
<1>1. ASSUME TCInv, GInv
      PROVE  ShapeMatches
  <2> SUFFICES ASSUME NEW stmt \in Accepted, Node(stmt.node) = "VAR_INIT",
                      Kind(stmt.type) = "ARRAY"
               PROVE  LET sizes == Head(stmt.type).sizes
                          level == InitLevels(stmt, Len(sizes))
                      IN  /\ \A n \in DOMAIN sizes : \A r \in level[n - 1] :
                               /\ Node(r.node) \in {"ARR_INIT", "NESTED_ARR_INIT"}
                               /\ Len(r.parts) = sizes[n]
                          /\ \A r \in level[Len(sizes)] :
                               Compared(Tail(stmt.type), r.type) = "same"
    BY DEF ShapeMatches
  <2> DEFINE sizes == Head(stmt.type).sizes
             level == InitLevels(stmt, Len(sizes))
             p == stmt.parts[1]
  <2>1. StatementHolds(stmt, MaxNodes[vocabulary])
    BY <1>1, AcceptedStatementHolds
  <2>2. stmt.parts = <<p>> /\ sizes \in Seq(Nat) /\ IsShaped(p, stmt.type, 0)
    BY <2>1 DEF StatementHolds
  <2>3. Len(sizes) \in Nat /\ DOMAIN sizes = 1 .. Len(sizes)
    BY <2>2
  <2>4. ToSet(stmt.parts) = {p}
    <3>1. \A e : ToSet(<<e>>) = {e}
      BY DEF ToSet
    <3> QED
      BY <2>2, <3>1
  <2>5. /\ \A n \in 0 .. (Len(sizes) - 1) : \A r \in Levels(p)[n] :
             Node(r.node) \in ArrayInits /\ Len(r.parts) = sizes[n + 1]
        /\ \A r \in Levels(p)[Len(sizes)] : Compared(Tail(stmt.type), r.type) = "same"
    <3>1. Len(sizes) - 0 = Len(sizes) /\ \A n \in Nat : 0 + n + 1 = n + 1
      BY <2>3
    <3> QED
      BY <2>2, <2>3, <3>1 DEF IsShaped
  <2>6. \A n \in 0 .. Len(sizes) : level[n] = Levels(p)[n]
    BY <2>3, <2>4, InitLevelsAre
  <2> HIDE DEF level, sizes, p
  <2>7. ASSUME NEW n \in DOMAIN sizes, NEW r \in level[n - 1]
        PROVE  Node(r.node) \in {"ARR_INIT", "NESTED_ARR_INIT"} /\ Len(r.parts) = sizes[n]
    <3>1. n - 1 \in 0 .. (Len(sizes) - 1) /\ n - 1 \in 0 .. Len(sizes) /\ (n - 1) + 1 = n
      BY <2>3
    <3>2. r \in Levels(p)[n - 1]
      BY <2>6, <3>1
    <3> QED
      BY <2>5, <3>1, <3>2 DEF ArrayInits
  <2>8. \A r \in level[Len(sizes)] : Compared(Tail(stmt.type), r.type) = "same"
    <3>1. Len(sizes) \in 0 .. Len(sizes)
      BY <2>3
    <3> QED
      BY <2>5, <2>6, <3>1
  <2> QED
    BY <2>7, <2>8 DEF level, sizes
<1>2. TCInv /\ GInv => ShapeMatches
  BY <1>1
<1> QED
  BY <1>2, RoomForAll, PTL
=============================================================================
