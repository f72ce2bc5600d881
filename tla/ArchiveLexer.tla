---------------------------- MODULE ArchiveLexer ----------------------------
(***************************************************************************)
(* The lexer of the C++ compiler (Archive/src/Lexer.cpp): lex asks for     *)
(* tokens until the end of the file, or the process exits.  Unlike the     *)
(* rewrite in C, whose tokens are views of the source, it copies their     *)
(* text character by character, knows hexadecimal and binary literals, and *)
(* looks ahead with a peek that ends the process past the end of the       *)
(* source.  An action is one round of a loop, or one branch between two.   *)
(*                                                                         *)
(* The source is a sequence of units: a character, or a word the lexer     *)
(* knows, none of which begins with a hexadecimal digit; columns count     *)
(* units.  An id is a sequence too: for keywords and operators, which have *)
(* one each, the spelling, and the name of the id for every other kind.    *)
(***************************************************************************)
EXTENDS Naturals, Sequences, FiniteSets, SequencesExt

CONSTANT Sources  \* the files

ASSUME SourcesAssumption == \A file \in Sources : file \in Seq(STRING)

Words == {"ret", "null_ptr", "true"}
Letters == {"x", "b", "_"} \cup Words
Keywords == {<<"ret">>}
Digits == {"0", "1", "2"}
HexDigits == Digits \cup {"b"}
BinDigits == {"0", "1"}
Blanks == {" ", "\n"}
Quote == "\""

(* The spellings parse_non_ident_or_number has an id for.                   *)
LongArithmeticOperators ==
  {<<"-", ">">>, <<"-", "-">>, <<"-", "=">>, <<"+", "+">>, <<"+", "=">>, <<"*", "=">>,
   <<"/", "=">>, <<"%", "=">>, <<"=", "=">>, <<"!", "=">>, <<"^", "=">>}

LongComparisonAndBitOperators ==
  {<<"<", "=">>, <<"<", "<">>, <<"<", "<", "=">>, <<">", "=">>, <<">", ">">>, <<">", ">", "=">>,
   <<"&", "&">>, <<"&", "=">>, <<"|", "|">>, <<"|", "=">>, <<":", ":">>}

LongOperators == LongArithmeticOperators \cup LongComparisonAndBitOperators

ShortOperators ==
  {<<c>> : c \in {"-", "+", "*", "/", "%", "=", "!", "^", "<", ">", "&", "|", ":", "@", "(", ")",
                  "{", "}", "[", "]", ",", ";", ".", "?", "\\", "~", "$"}}

Operators == LongOperators \cup ShortOperators

(* Mutant: an operator of two units is never looked past.                   *)
MayGoOnShort(op) == \E longer \in LongOperators : Len(longer) = 2 /\ Front(longer) = op

(* One more unit is looked at only where it could make the operator longer. *)
MayGoOn(op) == \E longer \in LongOperators : Front(longer) = op

VARIABLES
  source,
  current_idx, current_line, current_col,  \* the next unit and its position
  mode,        \* the loop the lexer is in, or how it ended
  t,           \* the token being lexed
  dot_found,   \* parse_int_or_flt_literal: the text has a dot
  tokens       \* those lexed before

position == <<source, current_idx, current_line, current_col>>
lexed == <<mode, t, dot_found, tokens>>
vars == <<position, lexed>>

AtEof == current_idx > Len(source)
IsPeekWithinRange(offset) == current_idx + offset <= Len(source)
Peek(offset) == source[current_idx + offset]
IsNextIn(units) == ~AtEof /\ Peek(0) \in units

(* Mutant: a newline in a string is a column like any other.                *)
AdvanceInString ==
  /\ current_idx' = current_idx + 1
  /\ IF Peek(0) = "\n" /\ mode # "string"
     THEN current_line' = current_line + 1 /\ current_col' = 1
     ELSE current_line' = current_line /\ current_col' = current_col + 1
  /\ UNCHANGED source

Advance ==
  /\ current_idx' = current_idx + 1
  /\ IF Peek(0) = "\n" THEN current_line' = current_line + 1 /\ current_col' = 1
                       ELSE current_line' = current_line /\ current_col' = current_col + 1
  /\ UNCHANGED source

Stay == UNCHANGED position

Goto(m) == mode' = m /\ UNCHANGED <<t, dot_found, tokens>>

(* A message about the source, and exit(1).                                 *)
Exit == Goto("exited") /\ Stay

(* peek's own message, "Lexer attempted to peek outside source".            *)
PeekOutside == Goto("peeked_outside") /\ Stay

(* push_back the next unit and advance.                                     *)
PushText == t' = [t EXCEPT !.text = Append(@, Peek(0))]

Take(m) == PushText /\ mode' = m /\ Advance /\ UNCHANGED <<dot_found, tokens>>

(* Mutant: the loop goes on at the end of the source.                       *)
TakeUnchecked(m) == Take(m)

(* The same, and handle_unexpected_eof.                                     *)
TakeBeforeMore(m) == IF IsPeekWithinRange(1) THEN Take(m) ELSE Exit

(* The token is complete.                                                   *)
Return(id, text) ==
  /\ tokens' = Append(tokens, [id |-> id, line |-> t.line, col |-> t.col, text |-> text])
  /\ mode' = "between"
  /\ UNCHANGED <<t, dot_found>>

----------------------------------------------------------------------------
(* lex *)
Init ==
  /\ source \in Sources
  /\ current_idx = 1 /\ current_line = 1 /\ current_col = 1
  /\ mode = "between"
  /\ t = [line |-> 0, col |-> 0, text |-> <<>>]
  /\ dot_found = FALSE
  /\ tokens = <<>>

(* skip_trivia and skip_till_newline.  A slash is looked past at once.      *)
SkipBlank ==
  /\ mode = "between" /\ IsNextIn(Blanks)
  /\ Advance /\ UNCHANGED lexed

SkipSlash ==
  /\ mode = "between" /\ IsNextIn({"/"})
  /\ IF ~IsPeekWithinRange(1) THEN PeekOutside
     ELSE Stay /\ Goto(IF Peek(1) = "/" THEN "comment" ELSE "begin")

(* Mutant: the loop has no end but the newline.                             *)
SkipToNewline ==
  /\ mode = "comment"
  /\ \/ ~AtEof /\ Peek(0) # "\n" /\ Advance /\ UNCHANGED lexed
     \/ AtEof /\ UNCHANGED vars
     \/ IsNextIn({"\n"}) /\ Goto("between") /\ Stay

SkipTillNewline ==
  /\ mode = "comment"
  /\ IF ~AtEof /\ Peek(0) # "\n"
     THEN Advance /\ UNCHANGED lexed
     ELSE Goto("between") /\ Stay

SkippedTrivia ==
  /\ mode = "between" /\ ~AtEof /\ Peek(0) \notin Blanks \cup {"/"}
  /\ Goto("begin") /\ Stay

(* next_token, past the trivia: the token of the end, or the branch for the *)
(* first unit.                                                              *)
NewToken(text) == [line |-> current_line, col |-> current_col, text |-> text]

EndOfFile ==
  /\ mode = "between" /\ AtEof
  /\ tokens' = Append(tokens, [id |-> <<"END_OF_FILE">>, line |-> current_line,
                               col |-> current_col, text |-> <<>>])
  /\ mode' = "eof"
  /\ Stay /\ UNCHANGED <<t, dot_found>>

Begin(m, text) ==
  /\ t' = NewToken(text)
  /\ mode' = m
  /\ dot_found' = FALSE
  /\ UNCHANGED tokens

BeginIdent ==
  /\ mode = "begin" /\ Peek(0) \in Letters
  /\ Begin("ident", <<>>) /\ Stay

BeginMinus ==
  /\ mode = "begin" /\ Peek(0) = "-"
  /\ IF ~IsPeekWithinRange(1) THEN PeekOutside
     ELSE IF Peek(1) \in Digits
     THEN Begin("number", <<"-">>) /\ Advance
     ELSE Begin("operator", <<"-">>) /\ Advance

(* A zero is not the end of a source: it may be the start of a prefix.      *)
BeginNumber ==
  /\ mode = "begin" /\ Peek(0) \in Digits
  /\ IF Peek(0) # "0" THEN Begin("number", <<>>) /\ Stay
     ELSE IF IsPeekWithinRange(1)
     THEN Begin("prefix", <<"0">>) /\ Advance
     ELSE Exit

BeginQuoted ==
  /\ mode = "begin" /\ Peek(0) \in {Quote, "'"}
  /\ IF IsPeekWithinRange(1)
     THEN Begin(IF Peek(0) = Quote THEN "string" ELSE "char", <<>>) /\ Advance
     ELSE Exit

BeginOperator ==
  /\ mode = "begin" /\ Peek(0) \notin Letters \cup Digits \cup {Quote, "'", "-"}
  /\ Begin("operator", <<Peek(0)>>) /\ Advance

----------------------------------------------------------------------------
(* parse_ident *)
IdentId(text) ==
  CASE text \in Keywords -> text
    [] text = <<"null_ptr">> -> <<"NULLPTR_LITERAL">>
    [] text = <<"true">> -> <<"BOOL_LITERAL">>
    [] OTHER -> <<"IDENTIFIER">>

ParseIdent ==
  /\ mode = "ident"
  /\ IF IsNextIn(Letters \cup Digits)
     THEN Take("ident")
     ELSE Return(IdentId(t.text), t.text) /\ Stay

(* After a zero: the literals with a prefix, which may have no digit.       *)
ParsePrefix ==
  /\ mode = "prefix"
  /\ CASE Peek(0) = "x" -> TakeBeforeMore("hex")
       [] Peek(0) = "b" -> TakeBeforeMore("bin")
       [] OTHER -> Goto("number") /\ Stay

(* parse_hex_literal and parse_bin_literal *)
ParseHex ==
  /\ mode = "hex"
  /\ IF IsNextIn(HexDigits) THEN Take("hex") ELSE Return(<<"HEX_LITERAL">>, t.text) /\ Stay

ParseBin ==
  /\ mode = "bin"
  /\ IF IsNextIn(BinDigits) THEN Take("bin") ELSE Return(<<"BIN_LITERAL">>, t.text) /\ Stay

(* parse_int_or_flt_literal: a second dot and a dot at the end are errors.  *)
ParseIntOrFlt ==
  /\ mode = "number"
  /\ \/ IsNextIn(Digits) /\ Take("number")
     \/ /\ IsNextIn({"."}) /\ ~dot_found
        /\ PushText /\ dot_found' = TRUE
        /\ Advance /\ UNCHANGED <<mode, tokens>>
     \/ IsNextIn({"."}) /\ dot_found /\ Exit
     \/ /\ ~IsNextIn(Digits \cup {"."})
        /\ IF dot_found /\ Last(t.text) = "." THEN Exit
           ELSE Return(IF dot_found THEN <<"FLOAT_LITERAL">> ELSE <<"INT_LITERAL">>, t.text) /\ Stay

(* parse_str_literal: a backslash takes the unit after it along.            *)
ParseStr ==
  /\ mode = "string"
  /\ CASE Peek(0) = Quote -> Return(<<"STR_LITERAL">>, t.text) /\ Advance
       [] Peek(0) = "\\" -> TakeBeforeMore("string_escape")
       [] OTHER -> TakeBeforeMore("string")

ParseStrEscape ==
  /\ mode = "string_escape"
  /\ TakeBeforeMore("string")

(* parse_char_literal: the quote that closes it is looked for unasked, and  *)
(* not found after the first character of a word.                           *)
ParseChar ==
  /\ mode \in {"char", "char_escape"}
  /\ CASE Peek(0) \in Words -> Exit
       [] mode = "char" /\ Peek(0) = "\\" -> TakeBeforeMore("char_escape")
       [] OTHER -> Take("char_end")

ParseCharEnd ==
  /\ mode = "char_end"
  /\ IF AtEof THEN PeekOutside
     ELSE IF Peek(0) = "'" THEN Return(<<"CHAR_LITERAL">>, t.text) /\ Advance
     ELSE Exit

(* parse_non_ident_or_number, which has taken the first unit.  The spelling *)
(* is kept here only to name the id; the text of the token stays empty.     *)
ParseOperator ==
  /\ mode = "operator"
  /\ IF MayGoOn(t.text) /\ AtEof THEN PeekOutside
     ELSE IF MayGoOn(t.text) /\ Append(t.text, Peek(0)) \in LongOperators THEN Take("operator")
     ELSE IF t.text \in Operators THEN Return(t.text, <<>>) /\ Stay
     ELSE Exit

Ended == mode \in {"eof", "exited", "peeked_outside"} /\ UNCHANGED vars

NextToken ==
  \/ SkipBlank \/ SkipSlash \/ SkipTillNewline \/ SkippedTrivia \/ EndOfFile
  \/ BeginIdent \/ BeginMinus \/ BeginNumber \/ BeginQuoted \/ BeginOperator
  \/ ParseIdent \/ ParsePrefix \/ ParseHex \/ ParseBin \/ ParseIntOrFlt
  \/ ParseStr \/ ParseStrEscape \/ ParseChar \/ ParseCharEnd \/ ParseOperator

Next == NextToken \/ Ended

(* Nothing waits: the lexer runs until it ends.                             *)
Spec == Init /\ [][Next]_vars /\ WF_vars(NextToken)

----------------------------------------------------------------------------
Modes == {"between", "comment", "begin", "ident", "prefix", "number", "hex", "bin", "string",
          "string_escape", "char", "char_escape", "char_end", "operator",
          "eof", "exited", "peeked_outside"}

(* The loops that look at the next unit before they ask for the end of the  *)
(* source are never entered there.                                          *)
TypeOK ==
  /\ source \in Sources
  /\ current_idx \in 1 .. Len(source) + 1
  /\ current_line \in 1 .. current_idx /\ current_col \in 1 .. current_idx
  /\ mode \in Modes /\ dot_found \in BOOLEAN
  /\ mode \in {"begin", "prefix", "string", "string_escape", "char", "char_escape"} => ~AtEof
  /\ Len(tokens) \in 0 .. Len(source) + 1

----------------------------------------------------------------------------
(* What a token says of itself, against the source. *)
NewlinesBefore(i) == {k \in 1 .. i - 1 : source[k] = "\n"}

Starts(tok) ==
  {i \in 1 .. Len(source) + 1 :
     /\ tok.line = Cardinality(NewlinesBefore(i)) + 1
     /\ \E newline \in NewlinesBefore(i) \cup {0} :
          /\ \A other \in NewlinesBefore(i) : other <= newline
          /\ tok.col = i - newline}

Spelling(tok) ==
  CASE tok.id \in Operators -> tok.id
    [] tok.id = <<"STR_LITERAL">> -> <<Quote>> \o tok.text \o <<Quote>>
    [] tok.id = <<"CHAR_LITERAL">> -> <<"'">> \o tok.text \o <<"'">>
    [] OTHER -> tok.text

Ends(tok) == {i + Len(Spelling(tok)) : i \in Starts(tok)}

OnlyTrivia(from, to) ==
  \A k \in from .. to - 1 :
    \/ source[k] \in Blanks
    \/ \E slash \in from .. k :
         /\ slash + 1 < to /\ source[slash] = "/" /\ source[slash + 1] = "/"
         /\ \A inside \in slash .. k : source[inside] # "\n"

(* The tokens are the source and nothing of it is lost: where a token's     *)
(* line and column say it starts, its text stands, quotes and all, and      *)
(* between two tokens, before the first and up to the end of the file are   *)
(* only blanks and comments.  parse_* copy the text character by character, *)
(* some of it before they are called, and count lines in advance alone.     *)
TokensSpellTheSource ==
  /\ \A n \in DOMAIN tokens :
       \E i \in Starts(tokens[n]) :
         /\ SubSeq(source, i, i + Len(Spelling(tokens[n])) - 1) = Spelling(tokens[n])
         /\ \E end \in IF n = 1 THEN {1} ELSE Ends(tokens[n - 1]) : OnlyTrivia(end, i)
  /\ mode = "eof" <=> tokens # <<>> /\ Last(tokens).id = <<"END_OF_FILE">>
  /\ mode = "eof" => Starts(Last(tokens)) = {Len(source) + 1}

(* The units that may not follow a token of this id and text.               *)
NeverAfter(tok) ==
  CASE tok.id = <<"INT_LITERAL">> -> Digits \cup {"."} \cup (IF tok.text = <<"0">> THEN {"x", "b"} ELSE {})
    [] tok.id = <<"FLOAT_LITERAL">> -> Digits \cup {"."}
    [] tok.id = <<"HEX_LITERAL">> -> HexDigits
    [] tok.id = <<"BIN_LITERAL">> -> BinDigits
    [] tok.id \in {<<"STR_LITERAL">>, <<"CHAR_LITERAL">>, <<"END_OF_FILE">>} -> {}
    [] tok.id = <<"-">> -> Digits \cup {">", "-", "="}
    [] tok.id = <<"/">> -> {"/", "="}
    [] tok.id \in Operators \ {<<"-">>, <<"/">>} ->
         {c \in {"-", "+", "=", "<", ">", "&", "|", ":"} : Append(tok.id, c) \in LongOperators}
    [] OTHER -> Letters \cup Digits

Backslashes(text, k) ==  \* the length of the run of backslashes that ends at k
  CHOOSE n \in 0 .. k : /\ \A j \in k - n + 1 .. k : text[j] = "\\"
                        /\ n < k => text[k - n] # "\\"

IsNumber(digits) == digits # <<>> /\ \A k \in DOMAIN digits : digits[k] \in Digits

(* What a text of this id looks like.                                       *)
IsTextOf(id, text) ==
  LET unsigned == IF text # <<>> /\ text[1] = "-" THEN Tail(text) ELSE text
  IN  CASE id = <<"INT_LITERAL">> -> IsNumber(unsigned)
        [] id = <<"FLOAT_LITERAL">> ->
             \E dot \in 2 .. Len(unsigned) - 1 :
               /\ unsigned[dot] = "."
               /\ IsNumber(SubSeq(unsigned, 1, dot - 1)) /\ IsNumber(SubSeq(unsigned, dot + 1, Len(unsigned)))
        [] id = <<"HEX_LITERAL">> ->
             SubSeq(text, 1, 2) = <<"0", "x">> /\ \A k \in 3 .. Len(text) : text[k] \in HexDigits
        [] id = <<"BIN_LITERAL">> ->
             SubSeq(text, 1, 2) = <<"0", "b">> /\ \A k \in 3 .. Len(text) : text[k] \in BinDigits
        [] id = <<"STR_LITERAL">> ->
             /\ \A k \in DOMAIN text : text[k] = Quote => Backslashes(text, k - 1) % 2 = 1
             /\ Backslashes(text, Len(text)) % 2 = 0
        [] id = <<"CHAR_LITERAL">> ->
             \/ Len(text) = 1 /\ text # <<"\\">>
             \/ Len(text) = 2 /\ text[1] = "\\"
        [] id = <<"END_OF_FILE">> \/ id \in Operators -> text = <<>>
        [] OTHER ->
             /\ text # <<>> /\ text[1] \in Letters
             /\ \A k \in DOMAIN text : text[k] \in Letters \cup Digits
             /\ id = <<"NULLPTR_LITERAL">> <=> text = <<"null_ptr">>
             /\ id = <<"BOOL_LITERAL">> <=> text = <<"true">>
             /\ id \in Keywords \/ text \in Keywords => id = text

(* A token ends where the longest one that starts there does, and is of its *)
(* kind: no operator is cut short, no number or word ends before a unit     *)
(* that belongs to it, a keyword is no part of a longer word, and a string  *)
(* ends at its first quote no backslash escapes.                            *)
TokensAreWhole ==
  \A n \in DOMAIN tokens :
    /\ IsTextOf(tokens[n].id, tokens[n].text)
    /\ \A end \in Ends(tokens[n]) : end <= Len(source) => source[end] \notin NeverAfter(tokens[n])

(* The file stops before the quote of a character literal.                  *)
CharIsOpen == \E i \in Starts(t) : i <= Len(source) /\ source[i] = "'"

(* Whatever the file is, lex returns or ends the process with a message     *)
(* about the source; the one about the lexer itself, that it peeked outside *)
(* the source, is left to a file whose last line has no newline and to one  *)
(* that stops in a character literal.                                       *)
LexingEnds ==
  <>(\/ mode \in {"eof", "exited"}
     \/ mode = "peeked_outside" /\ (Last(source) # "\n" \/ CharIsOpen))
=============================================================================
