------------------------------ MODULE MCLexer -------------------------------
(* Every source of a few units: one alphabet with words, numbers, literals, *)
(* comments and a unit that nothing starts with, one with the characters    *)
(* that operators of several characters are made of, and, one unit longer,  *)
(* one with what a literal with quotes can contain.                         *)
EXTENDS Lexer

MCWords == {"x", "fn", "null_ptr", "1", ".", "-", Quote, "'", "\\", "/", "\n", "#"}
MCOperators == {"-", "+", "*", "/", "%", "=", "!", "^", "<", ">", "&", "|", ":", "x", "1"}
MCQuoted == {Quote, "'", "\\", "x", "\n"}

MCStrings(S, n) == UNION {[1 .. k -> S] : k \in 0 .. n}

MCSources == MCStrings(MCWords, 4) \cup MCStrings(MCOperators, 4) \cup MCStrings(MCQuoted, 5)
=============================================================================
