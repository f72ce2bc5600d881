------------------------ MODULE MCExpressionParser -------------------------
(* Vocabularies in which short sources put the operators of several levels, *)
(* the brackets of several kinds, and prefix, infix and postfix uses of one *)
(* token, side by side.                                                     *)
EXTENDS ExpressionParser

MCVocabularies ==
  {{"x", "=", "?", ":"},               \* right associative: x ? x : x ? x : x
   {"x", "+", "+=", "=="},
   {"x", "-", "*", "++"},              \* one token as prefix, infix and postfix
   {"x", "(", ")", "#cast<T>", "&&"},  \* parentheses, casts and calls
   {"1", "&", "|", "^"},
   {"1", "<<", "<", "||"},
   {"x", "::", ".", "->"},             \* paths and members
   {"x", "[", "]", "!"},
   {"1", "(", ",", ")"},               \* argument lists
   {"x", ".", "=", ",", "{", "}"}}     \* initializers

MCMaxTokens ==
  [V \in MCVocabularies |->
     CASE "?" \in V -> 9 [] V \cap {"-", "("} # {} -> 8 [] OTHER -> 7]
=============================================================================
