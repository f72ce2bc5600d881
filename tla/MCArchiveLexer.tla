--------------------------- MODULE MCArchiveLexer ---------------------------
(* The files of every mix of units up to a length, the units chosen so that *)
(* a mix has the tokens that may be confused with each other.               *)
EXTENDS ArchiveLexer

Files(units, n) == UNION {[1 .. k -> units] : k \in 0 .. n}

WordFiles == Files({"x", "ret", "null_ptr", "1", "-", "/", "\n"}, 4)
NumberFiles == Files({"0", "1", "x", "b", ".", "-", "\n"}, 5)
QuotedFiles == Files({Quote, "'", "\\", "x", "\n"}, 5)
OperatorFiles ==
  Files({"-", "+", "*", "/", "%", "=", "!", "^", "<", ">", "&", "|", ":", "@", "(", "~", "#", "\n"}, 2)
LongOperatorFiles == Files({"-", "<", ">", "=", "\n"}, 4)

MCSources ==
  WordFiles \cup NumberFiles \cup QuotedFiles \cup OperatorFiles \cup LongOperatorFiles
    \cup Files({"true", "ret", "_", "2", " "}, 3)
=============================================================================
