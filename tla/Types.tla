------------------------------- MODULE Types --------------------------------
(***************************************************************************)
(* The types of the Serac compiler (TypeDecl and what derives from it) and *)
(* what the type checker asks of them.  No type has more than one type     *)
(* under it, so a type is the sequence of its layers, outermost first:     *)
(* *mut [i32][3] is <<Ptr(TRUE), Arr(<<3>>), Named("i32")>>.  A pointer to *)
(* a TypeDecl that is null is the empty sequence: the pointee of a builtin *)
(* pointer.                                                                *)
(***************************************************************************)
EXTENDS Naturals, Sequences, SequencesExt

Named(symbol) == [kind |-> "NAMED", symbol |-> symbol]
Ptr(to_mutable) == [kind |-> "PTR", to_mutable |-> to_mutable]
Ref(to_mutable) == [kind |-> "REF", to_mutable |-> to_mutable]
Arr(sizes) == [kind |-> "ARRAY", sizes |-> sizes]

(* The type of a literal: the builtin types it can take on.                 *)
LiteralOf(builtins) == [kind |-> "NAMED", acceptable |-> builtins]

(* The pointers without a pointee.                                          *)
BuiltinPtr(name) == [kind |-> "PTR", to_mutable |-> FALSE, builtin |-> name]

NullType == <<>>

IsBuiltinPtr(layer) == layer.kind = "PTR" /\ "builtin" \in DOMAIN layer
IsBuiltinPtrTo(layer, name) == IsBuiltinPtr(layer) /\ layer.builtin = name
IsLiteralLayer(layer) == layer.kind = "NAMED" /\ "acceptable" \in DOMAIN layer

Kind(type) == Head(type).kind
IsLiteral(type) == IsLiteralLayer(Head(type))

----------------------------------------------------------------------------
(* The number of bits a builtin integer keeps.                              *)
Signed == {"i8", "i16", "i32", "i64"}
Unsigned == {"u8", "u16", "u32", "u64"}
Width(builtin) ==
  CASE builtin \in {"i8", "u8"} -> 8
    [] builtin \in {"i16", "u16"} -> 16
    [] builtin \in {"i32", "u32"} -> 32
    [] builtin \in {"i64", "u64"} -> 64

Integral == Signed \cup Unsigned
Numeric == Integral \cup {"float", "double"}

(* fits_in: value.bits is the length of the value in binary, of its         *)
(* complement if it is negative.                                            *)
FitsIn(value, builtin) ==
  IF builtin \in Signed
  THEN value.bits < Width(builtin)
  ELSE ~value.negative /\ value.bits <= Width(builtin)

(* init_literal_typedecl *)
Acceptable(value) == {b \in Integral : FitsIn(value, b)}

(* is_type_numeric, is_type_integral, is_type_uintegral and is_type_bool: a *)
(* literal is what one of its types is.                                     *)
IsA(type, builtins) ==
  /\ Kind(type) = "NAMED"
  /\ IF IsLiteral(type)
     THEN Head(type).acceptable \cap builtins # {}
     ELSE Head(type).symbol \in builtins

IsNumeric(type) == IsA(type, Numeric)
IsIntegral(type) == IsA(type, Integral)
IsUIntegral(type) == IsA(type, Unsigned)
IsBool(type) == IsA(type, {"bool"})

(* The type with the reference on the outside, if there is one, taken off.  *)
Stripped(type) == IF Kind(type) = "REF" THEN Tail(type) ELSE type

(* clone of a pointer follows its pointee, also when it has none.           *)
CloneFollowsNull(type) == IsBuiltinPtr(Last(type))

----------------------------------------------------------------------------
(* cmp_named_types *)
SameName(first, second) ==
  CASE IsLiteralLayer(first) /\ IsLiteralLayer(second) ->
         first.acceptable \cap second.acceptable # {}
    [] IsLiteralLayer(first) /\ ~IsLiteralLayer(second) ->
         second.symbol \in first.acceptable
    [] ~IsLiteralLayer(first) /\ IsLiteralLayer(second) ->
         first.symbol \in second.acceptable
    [] OTHER -> first.symbol = second.symbol

LosesConst(first, second) == first.to_mutable /\ ~second.to_mutable

(* The layers on which cmp_types decides nothing yet and goes on to those   *)
(* under them.                                                              *)
GoesOn(first, second) ==
  /\ first.kind = second.kind
  /\ CASE first.kind = "ARRAY" -> TRUE
       [] first.kind = "REF" -> ~LosesConst(first, second)
       [] first.kind = "NAMED" -> FALSE
       [] OTHER ->
          /\ ~IsBuiltinPtrTo(second, "null_ptr")
          /\ ~IsBuiltinPtrTo(first, "opaque_ptr")
          /\ ~IsBuiltinPtrTo(second, "opaque_ptr")
          /\ ~LosesConst(first, second)

(* What cmp_types answers for the layers where it does not go on.           *)
Decides(first, second) ==
  /\ first.kind = second.kind
  /\ CASE first.kind = "NAMED" -> SameName(first, second)
       [] first.kind = "PTR" ->
          \/ IsBuiltinPtrTo(second, "null_ptr")
          \/ IsBuiltinPtrTo(first, "opaque_ptr") /\ IsBuiltinPtrTo(second, "opaque_ptr")
       [] OTHER -> FALSE

(* cmp_types: "null" is the answer of a comparison that reads the kind of a *)
(* null pointer.  The sizes of arrays are compared after what is in them.   *)
Compared(first, second) ==
  LET end == Len(first) + 1
      i == CHOOSE i \in 1 .. end :
             /\ \A j \in 1 .. (i - 1) : j <= Len(second) /\ GoesOn(first[j], second[j])
             /\ i > Len(first) \/ i > Len(second) \/ ~GoesOn(first[i], second[i])
  IN  CASE i > Len(first) \/ i > Len(second) -> "null"
        [] OTHER ->
           IF /\ Decides(first[i], second[i])
              /\ \A j \in 1 .. (i - 1) :
                   first[j].kind = "ARRAY" => first[j].sizes = second[j].sizes
           THEN "same" ELSE "different"

(* A type the parser makes: a name or opaque_ptr, the one builtin pointer    *)
(* that can be written, and what is around it.                              *)
IsInnermost(layer) == layer.kind = "NAMED" \/ IsBuiltinPtr(layer)

IsWritten(type) ==
  /\ type # NullType /\ type \in Seq(ToSet(type))
  /\ \A i \in DOMAIN type :
       /\ ~IsLiteralLayer(type[i])
       /\ IsBuiltinPtr(type[i]) => IsBuiltinPtrTo(type[i], "opaque_ptr")
       /\ IsInnermost(type[i]) <=> i = Len(type)
       /\ type[i].kind = "ARRAY" => type[i].sizes \in Seq(Nat)

(* check_type accepts: names of types, and references neither of pointers   *)
(* nor of references.                                                       *)
IsLegal(type, type_symbols) ==
  \A i \in DOMAIN type :
    /\ type[i].kind = "NAMED" => type[i].symbol \in type_symbols
    /\ type[i].kind = "REF" /\ i > 1 => type[i - 1].kind = "ARRAY"
=============================================================================
