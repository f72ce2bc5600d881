------------------------------- MODULE Lexer --------------------------------
(***************************************************************************)
(* The lexer of the Serac compiler (src/Lexer.c): repeated calls of        *)
(* Lexer_get_next_token over one source string, until a call returns the   *)
(* end of file or the process exits.  An action is one round of a loop, or *)
(* one branch taken between two of them.                                   *)
(*                                                                         *)
(* The source is a sequence of units: a character, or a run of letters the *)
(* lexer has a special case for, such as "fn" or "true".  Offsets and      *)
(* columns count units, offsets from 1.                                    *)
(***************************************************************************)
EXTENDS Naturals, Sequences, FiniteSets

CONSTANT Sources  \* the source strings

ASSUME SourcesAssumption == \A source \in Sources : source \in Seq(STRING)

Letters == {"x", "_", "fn", "true", "null_ptr"}
Digits == {"1"}
Blanks == {" ", "\n"}
Quote == "\""

Keywords == {"fn"}  \* the texts tokenID_from_rdbl_kw knows
Bools == {"true"}
NullPtrs == {"null_ptr"}

(* The texts that lex_non_ident_or_num accepts.                             *)
ArithmeticOperators ==
  {<<"-">>, <<"-", ">">>, <<"-", "-">>, <<"-", "=">>,
   <<"+">>, <<"+", "+">>, <<"+", "=">>, <<"*">>, <<"*", "=">>,
   <<"/">>, <<"/", "=">>, <<"%">>, <<"%", "=">>}

ComparisonAndBitOperators ==
  {<<"=">>, <<"=", "=">>, <<"!">>, <<"!", "=">>, <<"^">>, <<"^", "=">>,
   <<"<">>, <<"<", "=">>, <<"<", "-">>, <<"<", "<">>, <<"<", "<", "=">>,
   <<">">>, <<">", "=">>, <<">", ">">>, <<">", ">", "=">>,
   <<"&">>, <<"&", "&">>, <<"&", "=">>, <<"|">>, <<"|", "|">>, <<"|", "=">>}

Punctuation ==
  {<<":">>, <<":", ":">>, <<"@">>, <<"(">>, <<")">>, <<"{">>, <<"}">>, <<"[">>, <<"]">>,
   <<",">>, <<";">>, <<".">>, <<"?">>, <<"\\">>, <<"~">>, <<"$">>}

Operators == ArithmeticOperators \cup ComparisonAndBitOperators \cup Punctuation

(* The id given to such a text, written as Token.h spells that id: "^=" is  *)
(* given the id of "|=".                                                    *)
OperatorId(text) == IF text = <<"^", "=">> THEN <<"|", "=">> ELSE text

VARIABLES
  src_str,                \* the source
  src_idx,                \* the next unit
  line, col,              \* where it is
  mode,                   \* the loop the lexer is in
  t,                      \* the token being lexed, and where its view starts
  dot_found,              \* lex_int_flt_lit: a dot was found
  prev_char_was_bslash,   \* lex_str_lit: the unit before is a backslash
  tokens                  \* the tokens returned so far

state == <<mode, t, dot_found, prev_char_was_bslash, tokens>>
vars == <<src_str, src_idx, line, col, state>>

Modes == {"between", "comment", "ident", "number", "string", "char", "char_body",
          "char_end", "operator", "eof", "exited", "peeked_past_end"}

AtSourceEnd == src_idx > Len(src_str)
IsPeekInRange(offset) == src_idx + offset <= Len(src_str)
Peek(offset) == src_str[src_idx + offset]
IsNextIn(units) == ~AtSourceEnd /\ Peek(0) \in units

(* Mutant: the column is not reset at the end of a line.                    *)
AdvanceOnOneLine ==
  /\ src_idx' = src_idx + 1
  /\ line' = (IF Peek(0) = "\n" THEN line + 1 ELSE line)
  /\ col' = col + 1
  /\ UNCHANGED src_str

Advance ==
  /\ src_idx' = src_idx + 1
  /\ IF Peek(0) = "\n" THEN line' = line + 1 /\ col' = 1
                       ELSE line' = line /\ col' = col + 1
  /\ UNCHANGED src_str

Stay == UNCHANGED <<src_str, src_idx, line, col>>

(* The message and exit(-1) of every kind of malformed source.              *)
Exit ==
  /\ mode' = "exited"
  /\ UNCHANGED <<src_str, src_idx, line, col, t, dot_found, prev_char_was_bslash, tokens>>

Goto(m) ==
  /\ mode' = m
  /\ UNCHANGED <<t, dot_found, prev_char_was_bslash, tokens>>

(* Consume a unit, and exit unless another follows.                         *)
AdvanceTo(m) ==
  IF IsPeekInRange(1) THEN Advance /\ Goto(m) ELSE Exit

(* Mutant: the view ends one too far.                                       *)
ReturnOneMore(id, op) ==
  /\ tokens' = Append(tokens, [id |-> id, op |-> op, line |-> t.line, col |-> t.col,
                               first |-> t.first, past |-> src_idx + 1])
  /\ mode' = "between"
  /\ UNCHANGED <<t, dot_found, prev_char_was_bslash>>

(* The token is complete, its view ending before the next unit; op tells    *)
(* the operators' ids apart.                                                *)
Return(id, op) ==
  /\ tokens' = Append(tokens, [id |-> id, op |-> op, line |-> t.line, col |-> t.col,
                               first |-> t.first, past |-> src_idx])
  /\ mode' = "between"
  /\ UNCHANGED <<t, dot_found, prev_char_was_bslash>>

----------------------------------------------------------------------------
(* Lexer_init and Lexer_read_file                                           *)
Init ==
  /\ src_str \in Sources
  /\ src_idx = 1 /\ line = 1 /\ col = 1
  /\ mode = "between"
  /\ t = [line |-> 0, col |-> 0, first |-> 0]
  /\ dot_found = FALSE /\ prev_char_was_bslash = FALSE
  /\ tokens = <<>>

(* skip_trivia and skip_till_newline *)
IsCommentAhead == Peek(0) = "/" /\ IsPeekInRange(1) /\ Peek(1) = "/"

SkipBlank ==
  /\ mode = "between" /\ IsNextIn(Blanks)
  /\ Advance /\ UNCHANGED state

BeginComment ==
  /\ mode = "between" /\ ~AtSourceEnd
  /\ IsCommentAhead
  /\ Goto("comment") /\ Stay

(* Mutant: only a newline ends a comment.                                   *)
SkipToNewline ==
  /\ mode = "comment"
  /\ IF AtSourceEnd THEN UNCHANGED vars
     ELSE IF Peek(0) # "\n" THEN Advance /\ UNCHANGED state
     ELSE Goto("between") /\ Stay

SkipInComment ==
  /\ mode = "comment"
  /\ IF ~AtSourceEnd /\ Peek(0) # "\n"
     THEN Advance /\ UNCHANGED state
     ELSE Goto("between") /\ Stay

(* Lexer_get_next_token, past the trivia *)
EndOfFile ==
  /\ mode = "between" /\ AtSourceEnd
  /\ Goto("eof") /\ Stay

Begin(m, first) ==
  /\ t' = [line |-> line, col |-> col, first |-> first]
  /\ mode' = m
  /\ dot_found' = FALSE /\ prev_char_was_bslash' = FALSE
  /\ UNCHANGED tokens

AtToken == mode = "between" /\ ~AtSourceEnd /\ Peek(0) \notin Blanks /\ ~IsCommentAhead

(* Mutant: whatever follows the minus.                                      *)
IsMinus == Peek(0) = "-" /\ IsPeekInRange(1)

IsNegative == Peek(0) = "-" /\ IsPeekInRange(1) /\ Peek(1) \in Digits

BeginIdent ==
  /\ AtToken /\ Peek(0) \in Letters
  /\ Begin("ident", src_idx) /\ Stay

(* Mutant: the minus is not in the view.                                    *)
BeginNumberPastSign ==
  /\ AtToken
  /\ \/ Peek(0) \in Digits /\ Begin("number", src_idx) /\ Stay
     \/ IsNegative /\ Begin("number", src_idx + 1) /\ Advance

BeginNumber ==
  /\ AtToken
  /\ \/ Peek(0) \in Digits /\ Stay
     \/ IsNegative /\ Advance
  /\ Begin("number", src_idx)

(* Mutant: the quote may be the last unit of the source.                    *)
BeginQuotedUnchecked ==
  /\ AtToken /\ Peek(0) \in {Quote, "'"}
  /\ Advance /\ Begin(IF Peek(0) = Quote THEN "string" ELSE "char", src_idx + 1)

BeginQuoted ==
  /\ AtToken /\ Peek(0) \in {Quote, "'"}
  /\ IF IsPeekInRange(1)
     THEN Advance /\ Begin(IF Peek(0) = Quote THEN "string" ELSE "char", src_idx + 1)
     ELSE Exit

BeginOperator ==
  /\ AtToken /\ Peek(0) \notin Letters \cup Digits \cup {Quote, "'"} /\ ~IsNegative
  /\ IF <<Peek(0)>> \in Operators
     THEN Advance /\ Begin("operator", src_idx)
     ELSE Exit

----------------------------------------------------------------------------
(* lex_ident.  The texts of the literals are compared without the length.   *)
IdentId ==
  LET text == SubSeq(src_str, t.first, src_idx - 1) IN
  CASE Len(text) = 1 /\ text[1] \in Keywords -> "KEYWORD"
    [] text[1] \in NullPtrs -> "NULLPTR_LITERAL"
    [] text[1] \in Bools -> "BOOL_LITERAL"
    [] OTHER -> "IDENTIFIER"

LexIdent ==
  /\ mode = "ident"
  /\ IF IsNextIn(Letters \cup Digits)
     THEN Advance /\ UNCHANGED state
     ELSE Return(IdentId, <<>>) /\ Stay

(* lex_int_flt_lit: a second dot and a dot at the end are errors.           *)
LexNumber ==
  /\ mode = "number"
  /\ \/ /\ IsNextIn(Digits)
        /\ Advance /\ UNCHANGED state
     \/ /\ IsNextIn({"."}) /\ ~dot_found
        /\ dot_found' = TRUE
        /\ Advance /\ UNCHANGED <<mode, t, prev_char_was_bslash, tokens>>
     \/ /\ IsNextIn({"."}) /\ dot_found
        /\ Exit
     \/ /\ ~IsNextIn(Digits \cup {"."})
        /\ IF src_str[src_idx - 1] = "." THEN Exit
           ELSE Return(IF dot_found THEN "FLOAT_LITERAL" ELSE "INT_LITERAL", <<>>) /\ Stay

(* peek exits with a message of its own past the end.  The loops of the     *)
(* literals with quotes look at the next unit without asking whether there  *)
(* is one.                                                                  *)
PeekPastEnd == Goto("peeked_past_end") /\ Stay

(* lex_str_lit: up to a quote that does not follow a backslash.             *)
LexString ==
  /\ mode = "string"
  /\ IF AtSourceEnd THEN PeekPastEnd
     ELSE IF Peek(0) = Quote /\ ~prev_char_was_bslash
     THEN Return("STR_LITERAL", <<>>) /\ Advance
     ELSE IF IsPeekInRange(1)
          THEN /\ prev_char_was_bslash' = (Peek(0) = "\\")
               /\ Advance /\ UNCHANGED <<mode, t, dot_found, tokens>>
          ELSE Exit

(* lex_char_lit: one unit, or one after a backslash, then the quote, which  *)
(* is not found after the first character of a word.                        *)
LexCharBody ==
  /\ mode \in {"char", "char_body"}
  /\ IF AtSourceEnd THEN PeekPastEnd
     ELSE IF Peek(0) \in Keywords \cup Bools \cup NullPtrs THEN Exit
     ELSE AdvanceTo(IF mode = "char" /\ Peek(0) = "\\" THEN "char_body" ELSE "char_end")

LexCharEnd ==
  /\ mode = "char_end"
  /\ IF AtSourceEnd THEN PeekPastEnd
     ELSE IF Peek(0) = "'" THEN Return("CHAR_LITERAL", <<>>) /\ Advance
     ELSE Exit

(* lex_non_ident_or_num, past the first unit *)
OperatorText == SubSeq(src_str, t.first, src_idx - 1)

LexOperator ==
  /\ mode = "operator"
  /\ IF ~AtSourceEnd /\ Append(OperatorText, Peek(0)) \in Operators
     THEN Advance /\ UNCHANGED state
     ELSE Return("OPERATOR", OperatorId(OperatorText)) /\ Stay

GetNextToken ==
  \/ SkipBlank \/ BeginComment \/ SkipInComment \/ EndOfFile
  \/ BeginIdent \/ BeginNumber \/ BeginQuoted \/ BeginOperator
  \/ LexIdent \/ LexNumber \/ LexString \/ LexCharBody \/ LexCharEnd
  \/ LexOperator

Ended == mode \in {"eof", "exited", "peeked_past_end"} /\ UNCHANGED vars

Next == GetNextToken \/ Ended

(* The caller asks for tokens until the end of file.                        *)
Spec == Init /\ [][Next]_vars /\ WF_vars(GetNextToken)
----------------------------------------------------------------------------
TokenIds == {"KEYWORD", "NULLPTR_LITERAL", "BOOL_LITERAL", "IDENTIFIER", "INT_LITERAL",
             "FLOAT_LITERAL", "STR_LITERAL", "CHAR_LITERAL", "OPERATOR"}

TypeOK ==
  /\ src_idx \in 1 .. (Len(src_str) + 1)
  /\ line \in 1 .. (Len(src_str) + 1) /\ col \in 1 .. (Len(src_str) + 1)
  /\ mode \in Modes
  /\ t.first \in 0 .. Len(src_str)
  /\ dot_found \in BOOLEAN /\ prev_char_was_bslash \in BOOLEAN
  /\ \A i \in DOMAIN tokens : /\ tokens[i].id \in TokenIds
                              /\ tokens[i].op \in Operators \cup {<<>>}
                              /\ 1 <= tokens[i].first
                              /\ tokens[i].first <= tokens[i].past
                              /\ tokens[i].past <= src_idx

(* Where a unit of the source is, counted from the source itself.           *)
Newlines(i) == {j \in 1 .. (i - 1) : src_str[j] = "\n"}
LineOf(i) == 1 + Cardinality(Newlines(i))
ColOf(i) == Cardinality({j \in 1 .. i : \A n \in Newlines(i) : n < j})

(* The position the lexer keeps as it advances is that of the next unit,    *)
(* and every token bears that of its first unit (its quote, for a literal   *)
(* with quotes), though strings and comments may run over several lines.    *)
IsQuoted(tok) == tok.id \in {"STR_LITERAL", "CHAR_LITERAL"}
Start(tok) == IF IsQuoted(tok) THEN tok.first - 1 ELSE tok.first
Past(tok) == IF IsQuoted(tok) THEN tok.past + 1 ELSE tok.past

PositionsAreTrue ==
  /\ line = LineOf(src_idx) /\ col = ColOf(src_idx)
  /\ \A i \in DOMAIN tokens : /\ tokens[i].line = LineOf(Start(tokens[i]))
                              /\ tokens[i].col = ColOf(Start(tokens[i]))

(* Nothing is lost or lexed twice: the tokens follow one another, and what  *)
(* is between them, before the first and after the last is blank or in a    *)
(* comment.                                                                 *)
InComment(i, from) ==
  \E j \in from .. (i - 1) :
    /\ src_str[j] = "/" /\ src_str[j + 1] = "/"
    /\ \A k \in j .. i : src_str[k] # "\n"

IsTrivia(i, from) ==
  \/ src_str[i] \in Blanks \/ InComment(i, from)
  \/ src_str[i] = "/" /\ i < Len(src_str) /\ src_str[i + 1] = "/"

End(i) == IF i = 0 THEN 1 ELSE Past(tokens[i])

OnlyTrivia(from, to) == from <= to /\ \A i \in from .. (to - 1) : IsTrivia(i, from)

TokensCoverTheSource ==
  /\ \A i \in DOMAIN tokens : OnlyTrivia(End(i - 1), Start(tokens[i]))
  /\ mode \in {"between", "comment", "eof"} => OnlyTrivia(End(Len(tokens)), src_idx)

(* Every token's text is one of its kind, and as long as it can be: no unit *)
(* that follows it would have continued it.                                 *)
Text(tok) == SubSeq(src_str, tok.first, tok.past - 1)
Units(text) == {text[i] : i \in DOMAIN text}
Dots(text) == {i \in DOMAIN text : text[i] = "."}
Follower(tok) == IF tok.past > Len(src_str) THEN " " ELSE src_str[tok.past]

IsWholeWord(tok) ==
  /\ Text(tok)[1] \in Letters /\ Units(Text(tok)) \subseteq Letters \cup Digits
  /\ Follower(tok) \notin Letters \cup Digits

IsWholeNumber(tok, dots) ==
  LET text == Text(tok)
  IN  /\ text[Len(text)] \in Digits
      /\ Units(text) \ {text[1]} \subseteq Digits \cup {"."}
      /\ text[1] \in Digits \/ (text[1] = "-" /\ text[2] \in Digits)
      /\ Cardinality(Dots(text)) = dots
      /\ Follower(tok) \notin Digits \cup {"."}

IsWholeOperator(tok) ==
  /\ Text(tok) \in Operators
  /\ Append(Text(tok), Follower(tok)) \notin Operators

IsWholeString(tok) == src_str[tok.first - 1] = Quote /\ Follower(tok) = Quote

IsWholeChar(tok) ==
  /\ src_str[tok.first - 1] = "'" /\ Follower(tok) = "'"
  /\ Len(Text(tok)) = IF Text(tok)[1] = "\\" THEN 2 ELSE 1

WordIds == {"KEYWORD", "NULLPTR_LITERAL", "BOOL_LITERAL", "IDENTIFIER"}

IsWhole(tok) ==
  /\ tok.id \in WordIds => IsWholeWord(tok)
  /\ tok.id = "INT_LITERAL" => IsWholeNumber(tok, 0)
  /\ tok.id = "FLOAT_LITERAL" => IsWholeNumber(tok, 1)
  /\ tok.id = "STR_LITERAL" => IsWholeString(tok)
  /\ tok.id = "CHAR_LITERAL" => IsWholeChar(tok)
  /\ tok.id = "OPERATOR" => IsWholeOperator(tok)

TokensAreWhole == \A i \in DOMAIN tokens : IsWhole(tokens[i])

(* The lexer never trips over the end of its source: whatever it is in the  *)
(* middle of when the source ends is a token or an error of its own.        *)
NeverPeeksPastEnd == mode # "peeked_past_end"

(* Every source is lexed to its end or to an error: each call advances.     *)
LexingEnds == <>(mode \in {"eof", "exited"})

(* What a comment says, and the code does not do.                           *)
(* A string is done at the first quote that is not escaped: it is not read  *)
(* on to an error past one.  A backslash that is escaped escapes nothing.   *)
IsEscaped(i) ==
  \E n \in 1 .. (i - t.first) :
    /\ n % 2 = 1
    /\ \A j \in (i - n) .. (i - 1) : src_str[j] = "\\"
    /\ i - n - 1 >= t.first => src_str[i - n - 1] # "\\"

StringsEndAtTheirQuote ==
  mode = "string" =>
    \A i \in t.first .. (src_idx - 1) : src_str[i] = Quote => IsEscaped(i)
=============================================================================
