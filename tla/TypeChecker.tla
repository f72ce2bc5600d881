---------------------------- MODULE TypeChecker -----------------------------
(***************************************************************************)
(* The type checker of the Serac compiler (TypeChecker): the walk over the *)
(* declarations of a program, and check_expression, whose recursion is an  *)
(* explicit stack.  A frame is a call that waits for the result of a       *)
(* child; the children are checked in the code's order, with the checks    *)
(* the code makes between them.                                            *)
(*                                                                         *)
(* Declarations are those of the symbol table.  Statements and expressions *)
(* are not constants: a node comes into being when the checker first looks *)
(* at it, so the behaviours are the checks of all function bodies.  A node *)
(* is <<its kind, what the checker reads in it>>; its children are parts   *)
(* of the result.  An identifier is the symbol it was resolved to, and a   *)
(* scope has the name of the symbol that opens it.                         *)
(***************************************************************************)
EXTENDS Types, FiniteSets

CONSTANTS
  Symbols,      \* the symbol table: what is declared under each name
  IntLiterals,  \* the value of each integer literal
  Vocabularies, \* by name, the nodes that a function body is made of
  MaxNodes,     \* by vocabulary, a bound on the nodes of a body
  UINT8_VALUES  \* how many values a uint8_t has

VARIABLES
  vocabulary,   \* of the program that is checked
  size,         \* the nodes that are there or are known to come
  at,           \* the point of the active call that is reached
  result,       \* the CheckExprResult just returned
  stack,        \* the calls that wait, the innermost last
  status

control == <<size, at, result, stack>>
vars == <<vocabulary, control, status>>

Builtins == Numeric \cup {"bool", "char", "void"}
OfKind(sym_type) == {s \in DOMAIN Symbols : Symbols[s].sym_type = sym_type}
Structs == OfKind("STRUCT")
Containers == Structs \cup OfKind("COMPONENT") \cup OfKind("MODULE")
TypeSymbols == Builtins \cup Structs \cup OfKind("COMPONENT")
Hideable == Structs \cup OfKind("FIELD")
IsLegalType(type) == IsLegal(type, TypeSymbols)

Node(n) == n[1]
Datum(n) == n[2]

(* How many nodes come with a node: its children, and a statement itself;   *)
(* the first element of an initializer counts as the initializer.           *)
Brings(n) ==
  CASE Node(n) \in {"VAR_DECL", "RETURN_NOTHING", "UNARY", "CAST", ".", "->"} -> 1
    [] Node(n) \in {"EXPR", "RETURN", "VAR_INIT", "BINARY", "ASSIGN", "STRUCT_CREATE"} -> 2
    [] Node(n) = "TERNARY" -> 3
    [] Node(n) = "SUBSCRIPT" -> Datum(n) + 1
    [] Node(n) \in {"ARR_INIT", "NESTED_ARR_INIT"} -> Datum(n) - 1
    [] Node(n) = "STRUCT_INIT" -> Len(Datum(n))
    [] OTHER -> 0

(* The constants are what the parser and the symbol table leave: types are  *)
(* written, lists in braces and subscripts are not empty, and in a struct   *)
(* are fields and structs.  What is used has a type that check_type accepts *)
(* where it is declared: a program that uses another is refused, and what   *)
(* is derived from such types until then is of no interest.                 *)
IsUsable(s) == IsWritten(Symbols[s].type) /\ IsLegalType(Symbols[s].type)

ASSUME BoundsAssumption ==
  /\ UINT8_VALUES \in Nat \ {0}
  /\ \A v \in DOMAIN Vocabularies : MaxNodes[v] \in Nat

ASSUME NodesAssumption ==
  \A v \in DOMAIN Vocabularies : \A n \in Vocabularies[v] :
    /\ Node(n) \in {"UNARY", "BINARY"} => n = <<Node(n), Datum(n)>>
    /\ Node(n) = "MODULE" => Datum(n) \in OfKind("MODULE")
    /\ Node(n) \in {"SUBSCRIPT", "ARR_INIT", "NESTED_ARR_INIT"} => Datum(n) \in Nat \ {0}
    /\ Node(n) = "STRUCT_INIT" => Len(Datum(n)) \in Nat
    /\ Node(n) = "CAST" => IsWritten(Datum(n))
    /\ Node(n) = "VAR_INIT" => IsWritten(Symbols[Datum(n)].type)
    /\ Node(n) = "IDENTIFIER" =>
         /\ Datum(n) \in DOMAIN Symbols
         /\ Symbols[Datum(n)].sym_type \in {"VAR", "PARAM", "FIELD"} => IsUsable(Datum(n))

ASSUME DeclarationsAssumption ==
  /\ \A fn \in OfKind("FN") : IsWritten(Symbols[fn].ret_type)
  /\ \A c \in Containers : Symbols[c].decls \in Seq(DOMAIN Symbols)
  /\ \A c \in TypeSymbols \cap DOMAIN Symbols : \A d \in ToSet(Symbols[c].decls) :
       /\ Symbols[d].sym_type = "FIELD" => IsUsable(d)
       /\ c \in Structs => Symbols[d].sym_type \in {"FIELD", "STRUCT"}

(* What is declared knows the container it is in, and in a container a name *)
(* is that of one field: the builder keeps the two directions of a binding. *)
ASSUME ScopesAssumption ==
  /\ \A s \in Hideable \cup Containers \cup OfKind("FN") : Symbols[s].scope # "none" =>
       Symbols[s].scope \in Containers /\ s \in ToSet(Symbols[Symbols[s].scope].decls)
  /\ \A c \in Containers : \A s, other \in ToSet(Symbols[c].decls) :
       (/\ {Symbols[s].sym_type, Symbols[other].sym_type} = {"FIELD"}
        /\ Symbols[s].name = Symbols[other].name) => s = other

(* A frame: its node, the results of the children checked, the type its     *)
(* call was given and the depth, for initializers.                          *)
Frame(n, type, depth) == [node |-> n, parts |-> <<>>, type |-> type, depth |-> depth]
Call(n) == Frame(n, NullType, 0)

Top == stack[Len(stack)]
Push(f) == Append(stack, f)
Pop == SubSeq(stack, 1, Len(stack) - 1)
ReplaceTop(f) == [stack EXCEPT ![Len(stack)] = f]
Filled == [Top EXCEPT !.parts = Append(@, result)]

(* The scope_id passed down: that of the body of the function.              *)
ScopeId == Datum(stack[CHOOSE i \in DOMAIN stack : Node(stack[i].node) = "FN"].node)

----------------------------------------------------------------------------
Checking(point) == status = "checking" /\ at = point

Goto(point, st) ==
  /\ at' = point /\ stack' = st
  /\ UNCHANGED <<vocabulary, size, result, status>>

(* exit(1), or what the build does where the code is undefined or throws    *)
End(how) == status' = how /\ UNCHANGED <<vocabulary, control>>
Exit == End("exited")

(* A node of one of these kinds is next; in is where the checker stands.    *)
Meet(kinds, n) ==
  /\ n \in Vocabularies[vocabulary]
  /\ Node(n) \in kinds
  /\ size + Brings(n) <= MaxNodes[vocabulary]

Enter(n, point, st) ==
  /\ size' = size + Brings(n)
  /\ at' = point /\ stack' = st
  /\ UNCHANGED <<vocabulary, result, status>>

(* check_expression returns what it found out about the expression e.       *)
Result(e, type, is_lvalue, is_var_and_mutable) ==
  [node |-> e.node, parts |-> e.parts, type |-> type,
   is_lvalue |-> is_lvalue, is_var_and_mutable |-> is_var_and_mutable]

Temporary(e, type) == Result(e, type, FALSE, FALSE)
SameAs(e, res) == Result(e, res.type, res.is_lvalue, res.is_var_and_mutable)
NoResult == Temporary(Call(<<"NONE">>), NullType)

Return(res, st) ==
  /\ result' = res /\ at' = "return" /\ stack' = st
  /\ UNCHANGED <<vocabulary, size, status>>

(* What follows a comparison of types.                                      *)
IfSame(compared, Then) ==
  \/ compared = "same" /\ Then
  \/ compared = "different" /\ Exit
  \/ compared = "null" /\ End("null_pointer")

Init ==
  /\ vocabulary \in DOMAIN Vocabularies
  /\ \E n \in Vocabularies[vocabulary] : Node(n) = "MODULE" /\ stack = <<Call(n)>>
  /\ size = 0
  /\ at = "decls"
  /\ result = NoResult
  /\ status = "checking"

----------------------------------------------------------------------------
(* check_module, check_component and check_struct: the loop over decls, and *)
(* check_decl of the next one.                                              *)
Decls == Symbols[Datum(Top.node)].decls
NextDecl == Decls[Len(Top.parts) + 1]
CheckingDecl(sym_type) ==
  /\ Checking("decls") /\ Len(Top.parts) < Len(Decls)
  /\ Symbols[NextDecl].sym_type = sym_type

DeclChecked == ReplaceTop([Top EXCEPT !.parts = Append(@, NextDecl)])

CheckContainer ==
  /\ \E sym_type \in {"MODULE", "COMPONENT", "STRUCT"} :
       /\ CheckingDecl(sym_type)
       /\ Goto("decls", Append(DeclChecked, Call(<<sym_type, NextDecl>>)))

EndOfContainer ==
  /\ Checking("decls") /\ Len(Top.parts) = Len(Decls)
  /\ IF Len(stack) = 1 THEN End("done") ELSE Goto("decls", Pop)

CheckField ==
  /\ CheckingDecl("FIELD")
  /\ LET field == Symbols[NextDecl]
     IN  IF field.has_init \/ ~IsLegalType(field.type)
         THEN Exit
         ELSE Goto("decls", DeclChecked)

(* A receiver must be a reference to the component that the function is     *)
(* declared in.                                                             *)
ReceiverIsOwner(receiver) ==
  /\ Node(Top.node) = "COMPONENT"
  /\ Kind(receiver) = "REF"
  /\ receiver[2] = Named(Datum(Top.node))

(* check_param *)
IsLegalParam(param) ==
  /\ IsLegalType(param.type)
  /\ Kind(param.type) # "ARRAY"
  /\ param.passed_by_copy \/ Kind(param.type) = "REF"
  /\ ~(Kind(param.type) = "REF" /\ param.mutable)

CheckFunction ==
  /\ CheckingDecl("FN")
  /\ LET fn == Symbols[NextDecl]
     IN  IF /\ fn.receiver # NullType => ReceiverIsOwner(fn.receiver)
            /\ \A i \in DOMAIN fn.params : IsLegalParam(Symbols[fn.params[i]])
         THEN Goto("statements", Append(DeclChecked, Call(<<"FN", NextDecl>>)))
         ELSE Exit

----------------------------------------------------------------------------
(* check_scope_body and check_statement *)
ExpectedReturnType == Symbols[Datum(Top.node)].ret_type

(* Mutant: the call for the body of a function is not ended.                *)
EndOfBodyStays == Checking("statements") /\ Goto("decls", stack)

EndOfBody == Checking("statements") /\ Goto("decls", Pop)

(* Of the statements only these are handled.                                *)
CheckOtherStatement ==
  /\ Checking("statements")
  /\ \E n \in Vocabularies[vocabulary] : Meet({"STRUCT_DECL", "IF", "FOR"}, n)
  /\ Exit

CheckExprStatement ==
  /\ Checking("statements")
  /\ \E n \in Vocabularies[vocabulary] :
       Meet({"EXPR"}, n) /\ Enter(n, "expression", Push(Call(n)))

CheckReturn ==
  /\ Checking("statements")
  /\ \E n \in Vocabularies[vocabulary] :
       \/ /\ Meet({"RETURN"}, n)
          /\ Enter(n, "expression", Push(Frame(n, ExpectedReturnType, 0)))
       \/ /\ Meet({"RETURN_NOTHING"}, n)
          /\ IF ExpectedReturnType = <<Named("void")>>
             THEN Enter(n, "statements", stack)
             ELSE Exit

(* check_var_decl_stmt, up to its initializer                               *)
CheckVarDecl ==
  /\ Checking("statements")
  /\ \E n \in Vocabularies[vocabulary] :
       /\ Meet({"VAR_DECL", "VAR_INIT"}, n)
       /\ LET var == Symbols[Datum(n)]
          IN  IF \/ ~IsLegalType(var.type)
                 \/ Kind(var.type) = "REF" /\ (var.mutable \/ Node(n) = "VAR_DECL")
              THEN Exit
              ELSE Enter(n, IF Node(n) = "VAR_INIT" THEN "initializer" ELSE "statements",
                         IF Node(n) = "VAR_INIT" THEN Push(Frame(n, var.type, 0)) ELSE stack)

(* What the statement makes of the result of its expression.                *)
EndStatement ==
  /\ Checking("return")
  /\ LET accepted == Goto("statements", [Pop EXCEPT ![Len(stack) - 1].parts =
                                           Append(@, Filled)])
     IN  \/ Node(Top.node) = "EXPR" /\ accepted
         \/ Node(Top.node) = "RETURN" /\ IfSame(Compared(Top.type, result.type), accepted)
         \/ /\ Node(Top.node) = "VAR_INIT"
            /\ IF Node(result.node) \in {"STRUCT_INIT", "ARR_INIT", "NESTED_ARR_INIT"}
               THEN accepted
               ELSE IfSame(Compared(Top.type, result.type), accepted)

----------------------------------------------------------------------------
(* check_expression of a node without children                              *)
Leaf(kinds, n) == Checking("expression") /\ Meet(kinds, n)

ReturnLeaf(n, type, is_lvalue, mutable) ==
  Return(Result(Call(n), type, is_lvalue, mutable), stack)

CheckIntLiteral ==
  \E n \in Vocabularies[vocabulary] :
    /\ Leaf({"INT_LITERAL"}, n)
    /\ LET acceptable == Acceptable(IntLiterals[Datum(n)])
       IN  IF acceptable = {}
           THEN Exit
           ELSE ReturnLeaf(n, <<LiteralOf(acceptable)>>, FALSE, FALSE)

LiteralType(kind) ==
  CASE kind = "FLOAT_LITERAL" -> <<LiteralOf({"float", "double"})>>
    [] kind = "CHAR_LITERAL" -> <<LiteralOf({"char"})>>
    [] kind = "BOOL_LITERAL" -> <<LiteralOf({"bool"})>>
    [] kind = "STR_LITERAL" -> <<BuiltinPtr("CStr_ptr")>>
    [] kind = "NULLPTR_LITERAL" -> <<BuiltinPtr("null_ptr")>>

CheckLiteral ==
  \E n \in Vocabularies[vocabulary] :
    /\ Leaf({"FLOAT_LITERAL", "CHAR_LITERAL", "BOOL_LITERAL", "STR_LITERAL",
             "NULLPTR_LITERAL"}, n)
    /\ ReturnLeaf(n, LiteralType(Node(n)), FALSE, FALSE)

(* check_private_access: the scopes from the accessing one upwards.  The    *)
(* scope of the program is in none.                                         *)
ScopesAround(scope) ==
  LET around[n \in Nat] == IF n = 0 THEN scope ELSE
        LET inner == around[n - 1]
        IN  IF inner = "none" THEN "none" ELSE Symbols[inner].scope
  IN  {around[n] : n \in 0 .. Cardinality(Containers)} \ {"none"}

(* Mutant: it is enough that a scope is around both.                        *)
MayAccessFromAbove(symbol) ==
  symbol.is_pub \/ ScopesAround(symbol.scope) \cap ScopesAround(ScopeId) # {}

MayAccess(symbol) == symbol.is_pub \/ symbol.scope \in ScopesAround(ScopeId)

CheckIdent ==
  \E n \in Vocabularies[vocabulary] :
    /\ Leaf({"IDENTIFIER"}, n)
    /\ LET symbol == Symbols[Datum(n)]
       IN  CASE symbol.sym_type \in {"VAR", "PARAM"} ->
                  ReturnLeaf(n, symbol.type, TRUE, symbol.mutable)
             [] symbol.sym_type = "FIELD" ->
                  IF MayAccess(symbol)
                  THEN ReturnLeaf(n, symbol.type, TRUE, symbol.mutable)
                  ELSE Exit
             [] symbol.sym_type = "STRUCT" ->
                  IF MayAccess(symbol)
                  THEN ReturnLeaf(n, <<Named(Datum(n))>>, FALSE, FALSE)
                  ELSE Exit
             [] OTHER -> Exit

(* get_func_decl asks the callee to be of two kinds at once; an initializer *)
(* in braces is none of check_expression's.                                 *)
CheckCall ==
  /\ \E n \in Vocabularies[vocabulary] : Leaf({"CALL"}, n)
  /\ Exit

----------------------------------------------------------------------------
(* check_expression of a node with children: the first child is checked.    *)
EnterExpression ==
  /\ Checking("expression")
  /\ \E n \in Vocabularies[vocabulary] :
       /\ Meet({"UNARY", "BINARY", "TERNARY", "ASSIGN", "SUBSCRIPT", ".", "->",
                "STRUCT_CREATE"}, n)
       /\ Enter(n, "expression", Push(Call(n)))

(* check_cast_expr looks at the type before it looks at the expression.     *)
CheckCastType ==
  /\ Checking("expression")
  /\ \E n \in Vocabularies[vocabulary] :
       /\ Meet({"CAST"}, n)
       /\ IF IsLegalType(Datum(n))
          THEN Enter(n, "expression", Push(Call(n)))
          ELSE Exit

(* The result of a child of a node of this kind: the last, or one before.   *)
Returning(kind) == Checking("return") /\ Node(Top.node) = kind
Part(i) == Filled.parts[i]
IsPart(i) == Len(Filled.parts) = i
NextPart == Goto("expression", ReplaceTop(Filled))
Finish(res) == Return(res, Pop)

HasNull(results) == \E res \in results : res.type = NullType

----------------------------------------------------------------------------
(* check_unary_expr.  RefStripped is ref_stripped_res: what a reference     *)
(* refers to is mutable as the reference says.                              *)
RefStripped(res) ==
  IF Kind(res.type) = "REF"
  THEN [res EXCEPT !.type = Tail(@), !.is_var_and_mutable = Head(res.type).to_mutable]
  ELSE res

ReturningUnary(ops) ==
  Returning("UNARY") /\ Datum(Top.node) \in ops /\ result.type # NullType

CheckPrePostIncDec ==
  /\ ReturningUnary({"++"})
  /\ LET operand == RefStripped(result)
     IN  IF /\ operand.is_lvalue /\ operand.is_var_and_mutable
            /\ Kind(operand.type) = "PTR" \/ IsNumeric(operand.type)
         THEN Finish(SameAs(Filled, result))
         ELSE Exit

CheckNegateNot ==
  /\ ReturningUnary({"-", "~", "!"})
  /\ IF IF Datum(Top.node) = "!"
        THEN IsBool(Stripped(result.type))
        ELSE IsNumeric(Stripped(result.type))
     THEN Finish(SameAs(Filled, result))
     ELSE Exit

(* Mutant: the address of the reference, not of what it refers to.          *)
CheckAddrOfUnstripped ==
  /\ ReturningUnary({"&"})
  /\ CASE ~result.is_lvalue -> Exit
       [] result.is_lvalue /\ CloneFollowsNull(result.type) -> End("null_pointer")
       [] OTHER -> Finish(Temporary(Filled, <<Ptr(result.is_var_and_mutable)>> \o result.type))

(* The type of the operand is cloned into the new one.                      *)
CheckAddrOf ==
  /\ ReturningUnary({"&"})
  /\ LET operand == RefStripped(result)
     IN  CASE ~operand.is_lvalue -> Exit
           [] operand.is_lvalue /\ CloneFollowsNull(operand.type) -> End("null_pointer")
           [] OTHER -> Finish(Temporary(Filled, <<Ptr(operand.is_var_and_mutable)>> \o operand.type))

CheckRefOf ==
  /\ ReturningUnary({"$"})
  /\ CASE ~result.is_lvalue -> Exit
       [] result.is_lvalue /\ CloneFollowsNull(result.type) -> End("null_pointer")
       [] OTHER -> Finish(Temporary(Filled, <<Ref(result.is_var_and_mutable)>> \o result.type))

(* Mutant: as mutable as the pointer, not as what it points to.             *)
CheckDerefAsPointer ==
  /\ ReturningUnary({"*"})
  /\ LET operand == RefStripped(result)
         pointer == Head(operand.type)
     IN  IF \/ pointer.kind # "PTR"
            \/ IsBuiltinPtrTo(pointer, "null_ptr") \/ IsBuiltinPtrTo(pointer, "opaque_ptr")
         THEN Exit
         ELSE Finish(Result(Filled, Tail(operand.type), operand.is_lvalue,
                            operand.is_lvalue /\ operand.is_var_and_mutable))

(* Mutant: the builtin pointers are not told apart.                         *)
CheckDerefOfBuiltin ==
  /\ ReturningUnary({"*"})
  /\ LET operand == RefStripped(result)
         pointer == Head(operand.type)
     IN  IF pointer.kind # "PTR"
         THEN Exit
         ELSE Finish(Result(Filled, Tail(operand.type), operand.is_lvalue,
                            operand.is_lvalue /\ pointer.to_mutable))

CheckDeref ==
  /\ ReturningUnary({"*"})
  /\ LET operand == RefStripped(result)
         pointer == Head(operand.type)
     IN  IF \/ pointer.kind # "PTR"
            \/ IsBuiltinPtrTo(pointer, "null_ptr") \/ IsBuiltinPtrTo(pointer, "opaque_ptr")
         THEN Exit
         ELSE Finish(Result(Filled, Tail(operand.type), operand.is_lvalue,
                            operand.is_lvalue /\ pointer.to_mutable))

UnaryOfNull ==
  Returning("UNARY") /\ result.type = NullType /\ End("null_pointer")

----------------------------------------------------------------------------
(* check_binary_expr: both operands, then what the kind of operator asks.   *)
EndFirstOperand == Returning("BINARY") /\ IsPart(1) /\ NextPart

ReturningBinary(ops) ==
  /\ Returning("BINARY") /\ IsPart(2) /\ Datum(Top.node) \in ops
  /\ ~HasNull({Part(1), Part(2)})

(* Mutant: of two literals, the types that either can take on.              *)
ArithTypeOfEither(lhs, rhs) ==
  LET l == Stripped(lhs.type)
      r == Stripped(rhs.type)
  IN  IF IsLiteral(l) /\ IsLiteral(r)
      THEN <<LiteralOf(Head(l).acceptable \cup Head(r).acceptable)>>
      ELSE IF Kind(rhs.type) = "REF" \/ IsLiteral(l) THEN rhs.type ELSE lhs.type

(* check_arith_expr.  A pointer takes an integer on either side; of two     *)
(* numbers the result is that of the right one if it is a reference or if   *)
(* the left one is a literal, which takes on its type.                      *)
ArithType(lhs, rhs) ==
  LET l == Stripped(lhs.type)
      r == Stripped(rhs.type)
  IN  IF IsLiteral(l) /\ IsLiteral(r)
      THEN <<LiteralOf(Head(l).acceptable \cap Head(r).acceptable)>>
      ELSE IF Kind(rhs.type) = "REF" \/ IsLiteral(l) THEN rhs.type ELSE lhs.type

CheckArith ==
  /\ ReturningBinary({"+", "*"})
  /\ LET l == Stripped(Part(1).type)
         r == Stripped(Part(2).type)
         with_pointer == Datum(Top.node) = "+" /\ "PTR" \in {Kind(l), Kind(r)}
     IN  CASE with_pointer /\ Kind(l) = "PTR" ->
                IF IsNumeric(r) THEN Finish(SameAs(Filled, Part(1))) ELSE Exit
           [] with_pointer /\ Kind(l) # "PTR" ->
                IF IsNumeric(l) THEN Finish(SameAs(Filled, Part(2))) ELSE Exit
           [] OTHER ->
                IF /\ IsNumeric(l) /\ IsNumeric(r)
                   /\ (IsLiteral(l) /\ IsLiteral(r)) \/ Compared(l, r) = "same"
                THEN Finish(Temporary(Filled, ArithType(Part(1), Part(2))))
                ELSE Exit

(* The other operators: what check_shift_expr, check_cmp_expr and            *)
(* check_log_expr ask of their operands, in this order.                     *)
OperandFits(op, i) ==
  CASE op = "<<" -> IF i = 1 THEN IsIntegral(Part(1).type) ELSE IsUIntegral(Part(2).type)
    [] op = "&&" -> IsBool(Part(i).type)
    [] op = "<" -> IsNumeric(Part(i).type)
    [] op = "==" -> IsNumeric(Part(i).type) \/ IsBool(Part(i).type)

OperandsFit == \A i \in {1, 2} : OperandFits(Datum(Top.node), i)

CheckShiftLog ==
  /\ ReturningBinary({"<<", "&&"})
  /\ IF OperandsFit THEN Finish(SameAs(Filled, Part(1))) ELSE Exit

CheckCmp ==
  /\ ReturningBinary({"<", "=="})
  /\ IF OperandsFit /\ Compared(Part(1).type, Part(2).type) = "same"
     THEN Finish(Temporary(Filled, <<LiteralOf({"bool"})>>))
     ELSE Exit

BinaryOfNull ==
  /\ Returning("BINARY") /\ IsPart(2) /\ HasNull({Part(1), Part(2)})
  /\ IF /\ Datum(Top.node) \notin {"+", "*"}
        /\ Part(1).type # NullType /\ ~OperandFits(Datum(Top.node), 1)
     THEN Exit
     ELSE End("null_pointer")

----------------------------------------------------------------------------
(* Mutant: one branch that is an lvalue is enough.                          *)
CheckTernaryEither ==
  \/ /\ Returning("TERNARY") /\ IsPart(1)
     /\ IF result.type = NullType THEN End("null_pointer")
        ELSE IF IsBool(result.type) THEN NextPart ELSE Exit
  \/ /\ Returning("TERNARY") /\ IsPart(2)
     /\ NextPart
  \/ /\ Returning("TERNARY") /\ IsPart(3)
     /\ IfSame(Compared(Part(2).type, Part(3).type),
               Finish(Result(Filled, Part(2).type,
                             Part(2).is_lvalue \/ Part(3).is_lvalue,
                             Part(2).is_var_and_mutable \/ Part(3).is_var_and_mutable)))

(* The condition is tested before the branches are looked at.               *)
CheckTernary ==
  \/ /\ Returning("TERNARY") /\ IsPart(1)
     /\ IF result.type = NullType THEN End("null_pointer")
        ELSE IF IsBool(result.type) THEN NextPart ELSE Exit
  \/ /\ Returning("TERNARY") /\ IsPart(2)
     /\ NextPart
  \/ /\ Returning("TERNARY") /\ IsPart(3)
     /\ IfSame(Compared(Part(2).type, Part(3).type),
               Finish(Result(Filled, Part(2).type,
                             Part(2).is_lvalue /\ Part(3).is_lvalue,
                             Part(2).is_var_and_mutable /\ Part(3).is_var_and_mutable)))

(* The left side is tested before the right one is looked at.               *)
CheckAssign ==
  \/ /\ Returning("ASSIGN") /\ IsPart(1)
     /\ IF result.is_lvalue /\ result.is_var_and_mutable THEN NextPart ELSE Exit
  \/ /\ Returning("ASSIGN") /\ IsPart(2)
     /\ IfSame(Compared(Part(1).type, Part(2).type), Finish(SameAs(Filled, Part(1))))

(* check_named_cast *)
CanCastNamed(to, from) ==
  /\ Head(to).symbol \in Builtins \ {"void"}
  /\ IsLiteral(from) \/ Head(from).symbol \in Builtins

CheckCast ==
  /\ Returning("CAST")
  /\ LET to == Datum(Top.node)
         from == result.type
     IN  CASE Kind(to) \notin {"NAMED", "PTR"} -> Exit
           [] Kind(to) \in {"NAMED", "PTR"} /\ from = NullType -> End("null_pointer")
           [] OTHER ->
              IF Kind(from) = Kind(to) /\ (Kind(to) = "NAMED" => CanCastNamed(to, from))
              THEN Finish([SameAs(Filled, result) EXCEPT !.type = to])
              ELSE Exit

(* The indices are checked before what is indexed.                          *)
IsIndex == Len(Top.parts) < Datum(Top.node)

CheckIndex ==
  /\ Returning("SUBSCRIPT") /\ IsIndex
  /\ IF result.type = NullType THEN End("null_pointer")
     ELSE IF IsIntegral(result.type) THEN NextPart ELSE Exit

CheckSubscript ==
  /\ Returning("SUBSCRIPT") /\ ~IsIndex
  /\ LET indices == Datum(Top.node)
         array == result.type
     IN  IF array = NullType THEN End("null_pointer")
         ELSE IF Kind(array) # "ARRAY" \/ indices > Len(Head(array).sizes) THEN Exit
         ELSE IF indices = Len(Head(array).sizes)
         THEN Finish(Result(Filled, Tail(array), TRUE, result.is_var_and_mutable))
         ELSE IF CloneFollowsNull(array) THEN End("null_pointer")
         ELSE LET rest == SubSeq(Head(array).sizes, indices + 1, Len(Head(array).sizes))
              IN  Finish(Result(Filled, <<Arr(rest)>> \o Tail(array), TRUE, FALSE))

(* check_memaccess_expr.  The members are the fields with the name; those   *)
(* of a component that are private are asked for the scope.                 *)
Members(container, name) ==
  {s \in ToSet(Symbols[container].decls) :
     Symbols[s].sym_type = "FIELD" /\ Symbols[s].name = name}

AccessMember(type) ==
  IF IsLiteral(type) THEN End("bad_optional_access")
  ELSE LET container == Head(type).symbol
       IN  IF container \notin DOMAIN Symbols \/ Members(container, Datum(Top.node)) = {}
           THEN Exit
           ELSE LET field == Symbols[CHOOSE s \in Members(container, Datum(Top.node)) : TRUE]
                IN  IF Symbols[container].sym_type = "COMPONENT" /\ ~MayAccess(field)
                    THEN Exit
                    ELSE Finish(Result(Filled, field.type, TRUE, field.mutable))

CheckMemAccess ==
  \/ /\ Returning(".")
     /\ IF result.type = NullType THEN End("null_pointer")
        ELSE IF Kind(result.type) # "NAMED" THEN Exit
        ELSE AccessMember(result.type)
  \/ /\ Returning("->")
     /\ IF result.type = NullType THEN End("null_pointer")
        ELSE IF \/ Kind(result.type) # "PTR" \/ IsBuiltinPtr(Head(result.type))
                \/ Kind(Tail(result.type)) # "NAMED"
        THEN Exit
        ELSE AccessMember(Tail(result.type))

----------------------------------------------------------------------------
(* check_struct_init_expr for a value of this type: get_struct_decl_from_   *)
(* type and the number of arguments.                                        *)
StartStructInit(n, type, st) ==
  CASE type = NullType -> End("null_pointer")
    [] type # NullType /\ Kind(type) # "NAMED" -> Exit
    [] type # NullType /\ Kind(type) = "NAMED" /\ IsLiteral(type) -> End("bad_optional_access")
    [] OTHER ->
       LET struct == Head(type).symbol
       IN  IF /\ struct \in Structs
              /\ Len(Symbols[struct].decls) = Len(Datum(n))
           THEN Enter(n, "member", Append(st, Frame(n, type, 0)))
           ELSE Exit

(* One round of its loop.  Whatever is declared is taken for a field.       *)
InitDecls == Symbols[Head(Top.type).symbol].decls
NextMember == Symbols[InitDecls[Len(Top.parts) + 1]]

CheckMember ==
  /\ Checking("member") /\ Len(Top.parts) < Len(InitDecls)
  /\ CASE NextMember.sym_type # "FIELD" -> End("bad_cast")
       [] NextMember.sym_type = "FIELD" ->
          IF NextMember.name = Datum(Top.node)[Len(Top.parts) + 1]
          THEN Goto("expression", stack)
          ELSE Exit

EndMember ==
  /\ Returning("STRUCT_INIT")
  /\ IfSame(Compared(NextMember.type, result.type), Goto("member", ReplaceTop(Filled)))

EndStructInit ==
  /\ Checking("member") /\ Len(Top.parts) = Len(InitDecls)
  /\ Finish(Temporary(Top, Top.type))

CheckStructCreate ==
  \/ /\ Returning("STRUCT_CREATE") /\ IsPart(1)
     /\ \E n \in Vocabularies[vocabulary] :
          Meet({"STRUCT_INIT"}, n) /\ StartStructInit(n, result.type, ReplaceTop(Filled))
  \/ /\ Returning("STRUCT_CREATE") /\ IsPart(2)
     /\ Finish(SameAs(Filled, result))

----------------------------------------------------------------------------
(* Mutant: the sizes from the innermost outwards.                           *)
StartArrInitReversed(n, type, depth, st) ==
  LET sizes == Head(type).sizes
      is_inner == depth + 1 < Len(sizes)
  IN  CASE depth >= Len(sizes) -> End("out_of_range")
        [] depth < Len(sizes) ->
           IF Datum(n) = sizes[Len(sizes) - depth] /\ is_inner = (Node(n) = "NESTED_ARR_INIT")
           THEN Enter(n, IF is_inner THEN "nested" ELSE "expression",
                      Append(st, Frame(n, type, depth)))
           ELSE Exit

(* recurse_check_arr_init: the number of elements, and whether they are     *)
(* initializers themselves.                                                 *)
StartArrInit(n, type, depth, st) ==
  LET sizes == Head(type).sizes
      is_inner == depth + 1 < Len(sizes)
  IN  CASE depth >= Len(sizes) -> End("out_of_range")
        [] depth < Len(sizes) ->
           IF Datum(n) = sizes[depth + 1] /\ is_inner = (Node(n) = "NESTED_ARR_INIT")
           THEN Enter(n, IF is_inner THEN "nested" ELSE "expression",
                      Append(st, Frame(n, type, depth)))
           ELSE Exit

CheckNested ==
  /\ Checking("nested")
  /\ \E n \in Vocabularies[vocabulary] :
       /\ Meet({"ARR_INIT", "NESTED_ARR_INIT"}, n)
       /\ StartArrInit(n, Top.type, (Top.depth + 1) % UINT8_VALUES, stack)

NextElement(point) ==
  IF Len(Filled.parts) = Datum(Top.node)
  THEN Finish(Temporary(Filled, Top.type))
  ELSE Goto(point, ReplaceTop(Filled))

EndElement ==
  \/ /\ Returning("ARR_INIT")
     /\ IfSame(Compared(Tail(Top.type), result.type), NextElement("expression"))
  \/ /\ Returning("NESTED_ARR_INIT")
     /\ NextElement("nested")

(* The initializer of a variable: the parser reads braces as those of a     *)
(* struct after a named type, of an array otherwise.                        *)
CheckInitializer ==
  \/ /\ Checking("initializer") /\ Kind(Top.type) = "ARRAY"
     /\ Exit \* an expression
  \/ /\ Checking("initializer") /\ Kind(Top.type) = "ARRAY"
     /\ \E n \in Vocabularies[vocabulary] :
          Meet({"ARR_INIT", "NESTED_ARR_INIT"}, n) /\ StartArrInit(n, Top.type, 0, stack)
  \/ /\ Checking("initializer") /\ Kind(Top.type) = "NAMED"
     /\ \E n \in Vocabularies[vocabulary] :
          Meet({"STRUCT_INIT"}, n) /\ StartStructInit(n, Top.type, stack)
  \/ /\ Checking("initializer") /\ Kind(Top.type) \in {"PTR", "REF"}
     /\ Exit \* braces
  \/ /\ Checking("initializer") /\ Kind(Top.type) # "ARRAY"
     /\ Goto("expression", stack)

----------------------------------------------------------------------------
Step ==
  \/ CheckContainer \/ EndOfContainer \/ CheckField \/ CheckFunction
  \/ EndOfBody \/ CheckOtherStatement \/ CheckExprStatement \/ CheckReturn \/ CheckVarDecl
  \/ CheckInitializer \/ EndStatement
  \/ CheckIntLiteral \/ CheckLiteral \/ CheckIdent \/ CheckCall
  \/ EnterExpression \/ CheckCastType
  \/ CheckPrePostIncDec \/ CheckNegateNot \/ CheckAddrOf \/ CheckRefOf \/ CheckDeref
  \/ UnaryOfNull
  \/ EndFirstOperand \/ CheckArith \/ CheckShiftLog \/ CheckCmp \/ BinaryOfNull
  \/ CheckTernary \/ CheckAssign \/ CheckCast \/ CheckIndex \/ CheckSubscript \/ CheckMemAccess
  \/ CheckMember \/ EndMember \/ EndStructInit \/ CheckStructCreate
  \/ CheckNested \/ EndElement

Ended == status # "checking" /\ UNCHANGED vars

Next == Step \/ Ended

Spec == Init /\ [][Next]_vars
----------------------------------------------------------------------------
Points == {"decls", "statements", "initializer", "expression", "member", "nested", "return"}
Statuses == {"checking", "done", "exited", "null_pointer", "bad_optional_access", "bad_cast",
             "out_of_range"}

TypeOK ==
  /\ vocabulary \in DOMAIN Vocabularies
  /\ size \in 0 .. MaxNodes[vocabulary]
  /\ at \in Points /\ status \in Statuses
  /\ stack # <<>>
  /\ Node(stack[1].node) = "MODULE"
  /\ \A i \in DOMAIN stack : stack[i].depth \in 0 .. (UINT8_VALUES - 1)
  /\ at = "return" => result # NoResult
  /\ at = "decls" <=> \A i \in DOMAIN stack : Node(stack[i].node) # "FN"
  /\ Cardinality({i \in DOMAIN stack : Node(stack[i].node) = "FN"}) <= 1

(* The results the checker works with: of the children of the calls that    *)
(* wait, and the last one.                                                  *)
ExpressionFrames == {i \in DOMAIN stack :
                       Node(stack[i].node) \notin {"MODULE", "COMPONENT", "STRUCT", "FN"}}
Results ==
  (UNION {ToSet(stack[i].parts) : i \in ExpressionFrames})
  \cup (IF at = "return" THEN {result} ELSE {})

(* No type the checker derives has a pointer to a reference, as none that   *)
(* is declared has: & takes the reference off what it points to, and        *)
(* nothing else puts a pointer on a type.                                   *)
NoPointerToReference ==
  \A res \in Results : \A i \in 2 .. Len(res.type) :
    res.type[i].kind = "REF" => res.type[i - 1].kind # "PTR"

(* What may be assigned to, referred to or pointed to has one type, never   *)
(* the several of a literal, and what is mutable is an lvalue: also after   *)
(* ternaries, casts and operators that pass on what they got.               *)
LvaluesAreObjects ==
  \A res \in Results :
    /\ res.is_lvalue => \A i \in DOMAIN res.type : ~IsLiteralLayer(res.type[i])
    /\ res.is_var_and_mutable => res.is_lvalue

(* The results under a result from which it got what it says of mutability, *)
(* down to the identifiers, members and pointers that were declared.        *)
Inner(res) ==
  CASE Node(res.node) \in {"UNARY", "CAST", "ASSIGN"} /\ res.node # <<"UNARY", "*">> ->
         {res.parts[1]}
    [] res.node = <<"BINARY", "+">> ->
         {p \in ToSet(res.parts) : Kind(Stripped(p.type)) = "PTR"}
    [] Node(res.node) = "BINARY" /\ res.node # <<"BINARY", "+">> -> {res.parts[1]}
    [] Node(res.node) = "TERNARY" -> {res.parts[2], res.parts[3]}
    [] Node(res.node) = "SUBSCRIPT" -> {Last(res.parts)}
    [] Node(res.node) = "STRUCT_CREATE" -> {}
    [] OTHER -> {res}

Denoted(res) ==
  LET inner[n \in Nat] == IF n = 0 THEN {res} ELSE UNION {Inner(r) : r \in inner[n - 1]}
  IN  inner[MaxNodes[vocabulary]]

FieldNamed(type, name) == Symbols[CHOOSE s \in Members(Last(type).symbol, name) : TRUE]

DeclaredMutable(res) ==
  CASE Node(res.node) = "IDENTIFIER" -> Symbols[Datum(res.node)].mutable
    [] Node(res.node) \in {".", "->"} -> FieldNamed(res.parts[1].type, Datum(res.node)).mutable
    [] res.node = <<"UNARY", "*">> -> Head(Stripped(res.parts[1].type)).to_mutable
    [] OTHER -> FALSE

(* A result is mutable only if everything it may stand for was declared     *)
(* mutable: the variable, the field, or what the pointer points to, however *)
(* deep under subscripts, casts and ternaries.                              *)
MutableAsDeclared ==
  \A res \in Results : res.is_var_and_mutable => \A r \in Denoted(res) : DeclaredMutable(r)

(* The statements of the body that have been accepted.                      *)
Accepted == UNION {ToSet(stack[i].parts) : i \in {j \in DOMAIN stack : Node(stack[j].node) = "FN"}}

Everything(res) ==
  LET level[n \in Nat] == IF n = 0 THEN {res}
                          ELSE UNION {ToSet(r.parts) : r \in level[n - 1]}
  IN  UNION {level[n] : n \in 0 .. MaxNodes[vocabulary]}

IsLiteralOrSum(res) ==
  res.node \in {<<"BINARY", "+">>, <<"BINARY", "*">>} \/ Node(res.node) = "INT_LITERAL"

IsArithmeticOfLiterals(res) == \A r \in Everything(res) : IsLiteralOrSum(r)

(* An integer variable is initialized with a sum or product of literals     *)
(* only if its type holds every one of them: the types an expression can    *)
(* take on shrink with each operand.                                        *)
LiteralsFit ==
  \A stmt \in Accepted :
    /\ Node(stmt.node) = "VAR_INIT" /\ IsArithmeticOfLiterals(stmt.parts[1])
    => \A r \in Everything(stmt.parts[1]) :
         Node(r.node) = "INT_LITERAL" =>
           FitsIn(IntLiterals[Datum(r.node)], stmt.type[1].symbol)

(* The initializers under a statement: its own, their elements, and so on.  *)
InitLevels(stmt, depth) ==
  LET level[n \in 0 .. depth] ==
        IF n = 0 THEN ToSet(stmt.parts) ELSE UNION {ToSet(r.parts) : r \in level[n - 1]}
  IN  level

(* The initializers of arrays are nested as deep as the array has sizes,    *)
(* with as many elements on each level as its size, and what is on the last *)
(* level has the type of the elements.                                      *)
ShapeMatches ==
  \A stmt \in {x \in Accepted : Node(x.node) = "VAR_INIT" /\ Kind(x.type) = "ARRAY"} :
    LET sizes == Head(stmt.type).sizes
        level == InitLevels(stmt, Len(sizes))
    IN  /\ \A n \in DOMAIN sizes : \A r \in level[n - 1] :
             Node(r.node) \in {"ARR_INIT", "NESTED_ARR_INIT"} /\ Len(r.parts) = sizes[n]
        /\ \A r \in level[Len(sizes)] : Compared(Tail(stmt.type), r.type) = "same"

(* All that is declared inside a container.                                 *)
Inside(container) ==
  LET level[n \in Nat] ==
        IF n = 0 THEN {container}
        ELSE UNION {ToSet(Symbols[c].decls) : c \in level[n - 1] \cap Containers}
  IN  UNION {level[n] : n \in 1 .. Cardinality(Containers)}

(* What a result makes use of: what it names, and the members of a component*)
(* it accesses.                                                             *)
Uses(res) ==
  CASE Node(res.node) = "IDENTIFIER" -> {Datum(res.node)}
    [] Node(res.node) \in {".", "->"} ->
         IF Symbols[Last(res.parts[1].type).symbol].sym_type = "COMPONENT"
         THEN Members(Last(res.parts[1].type).symbol, Datum(res.node)) ELSE {}
    [] OTHER -> {}

IsUsedInside(s, scope) ==
  Symbols[s].is_pub
  \/ \E c \in Containers : s \in ToSet(Symbols[c].decls) /\ scope \in Inside(c)

(* A private struct or field is used only by the functions declared where   *)
(* it is, or deeper: named, or as a member of a component.                  *)
PrivateStaysInside ==
  \A res \in Results : \A s \in Uses(res) \cap Hideable : IsUsedInside(s, ScopeId)

(* Where the checker may end in each of the ways the code does not handle.  *)
MayEnd(how) ==
  LET operands == {result} \cup ToSet(Top.parts)
      OfBuiltinPtr(res) ==
        IF res.type = NullType
        THEN res.node = <<"UNARY", "*">> /\ IsBuiltinPtrTo(Head(res.parts[1].type), "CStr_ptr")
        ELSE IsBuiltinPtr(Last(res.type))
  IN  /\ how = "null_pointer" => \E res \in operands : OfBuiltinPtr(res)
      /\ how = "bad_optional_access" =>
           result.type # NullType /\ IsLiteralLayer(Last(result.type))
      /\ how = "out_of_range" => Head(Top.type).sizes = <<>>
      /\ how = "bad_cast" =>
           \E d \in ToSet(InitDecls) : Symbols[d].sym_type = "STRUCT"

(* The checker follows a null pointer only where an operand has a builtin   *)
(* pointer in its type, or is a dereferenced string; takes the value of an  *)
(* empty optional only for a literal; has no size to compare only for an    *)
(* array without sizes; and casts to a field what is none only in a struct  *)
(* with a struct inside.                                                    *)
FailsOnlyOn == MayEnd(status)

(* What a comment says, and the code does not do.                           *)
(* No expression is a reference to a reference: $ of a reference is not     *)
(* allowed, or one more reference to what it refers to.                     *)
NoReferenceToReference ==
  \A res \in Results : \A i \in 2 .. Len(res.type) :
    ~(res.type[i].kind = "REF" /\ res.type[i - 1].kind = "REF")
=============================================================================
