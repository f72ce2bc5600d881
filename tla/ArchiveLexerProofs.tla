------------------------- MODULE ArchiveLexerProofs --------------------------
(***************************************************************************)
(* Proofs about the lexer of the C++ compiler, for files of every length   *)
(* over every alphabet: its tokens spell the file, each is whole, and no   *)
(* loop looks at a unit it has not asked for.                              *)
(***************************************************************************)
EXTENDS ArchiveLexer, SequenceFacts, FiniteSetTheorems, TLAPS

StringModes == {"string", "string_escape"}
CharModes == {"char", "char_escape", "char_end"}
QuotedModes == StringModes \cup CharModes
PlainModes == {"ident", "prefix", "number", "hex", "bin", "operator"}
TokenModes == PlainModes \cup QuotedModes
AskedModes == {"begin", "prefix", "string", "string_escape", "char", "char_escape"}

(* How many units before its text a token begins.                           *)
Quotes(m) == IF m \in QuotedModes THEN 1 ELSE 0

(* Where a unit of a source is.                                             *)
Newlines(s, i) == {k \in 1 .. i - 1 : s[k] = "\n"}

PlaceAt(s, i, l, c) ==
  /\ l = Cardinality(Newlines(s, i)) + 1
  /\ \E newline \in Newlines(s, i) \cup {0} :
       /\ \A other \in Newlines(s, i) : other <= newline
       /\ c = i - newline

(* What stands at a place, and what is between two.                         *)
Copied(s, i, text) == \A k \in 1 .. Len(text) : s[i + k - 1] = text[k]

Trivia(s, from, to) ==
  \A k \in from .. to - 1 :
    \/ s[k] \in Blanks
    \/ \E slash \in from .. k :
         /\ slash + 1 < to /\ s[slash] = "/" /\ s[slash + 1] = "/"
         /\ \A inside \in slash .. k : s[inside] # "\n"

InComment(s, c, idx) ==
  /\ c <= idx /\ c + 1 <= Len(s) /\ s[c] = "/" /\ s[c + 1] = "/"
  /\ \A k \in c .. idx - 1 : s[k] # "\n"

(* The units the tokens begin at.                                           *)
Places == [Nat -> Nat]

(* A token that is returned stands at its place, and is whole.              *)
TokenAt(s, tok, i) ==
  /\ i \in Nat \ {0}
  /\ PlaceAt(s, i, tok.line, tok.col)
  /\ IsSeq(Spelling(tok))
  /\ i + Len(Spelling(tok)) <= Len(s) + 1
  /\ Copied(s, i, Spelling(tok))
  /\ IsTextOf(tok.id, tok.text)
  /\ i + Len(Spelling(tok)) <= Len(s) => s[i + Len(Spelling(tok))] \notin NeverAfter(tok)

EndOf(toks, places, n) ==
  IF n = 0 THEN 1 ELSE places[n] + Len(Spelling(toks[n]))

Laid(s, toks, places) ==
  \A n \in 1 .. Len(toks) :
    /\ TokenAt(s, toks[n], places[n])
    /\ Trivia(s, EndOf(toks, places, n - 1), places[n])

(* What lies between the last of them and the lexer.                        *)
Gap(s, m, end, start, idx) ==
  /\ m \in TokenModes \cup {"between", "begin"} => end <= start /\ Trivia(s, end, start)
  /\ m = "comment" => \E c \in Nat : end <= c /\ Trivia(s, end, c) /\ InComment(s, c, idx)

(* The token being lexed: it begins at start, and its text is copied from   *)
(* there up to the next unit.                                               *)
Begun(s, m, tok, start, idx) ==
  /\ m \in {"between", "begin"} => start = idx
  /\ m \in TokenModes =>
       /\ PlaceAt(s, start, tok.line, tok.col)
       /\ idx = start + Quotes(m) + Len(tok.text)
       /\ Copied(s, start + Quotes(m), tok.text)
  /\ m \in StringModes => s[start] = Quote
  /\ m \in CharModes => s[start] = "'"

----------------------------------------------------------------------------
(* What the text lexed so far looks like, loop by loop.                     *)
WordFits(text, s, idx) ==
  /\ text = <<>> => idx <= Len(s) /\ s[idx] \in Letters
  /\ text # <<>> => text[1] \in Letters
  /\ \A k \in 1 .. Len(text) : text[k] \in Letters \cup Digits

PrefixedFits(text, prefix, digits) ==
  /\ Len(text) >= 2 /\ text[1] = "0" /\ text[2] = prefix
  /\ \A k \in 3 .. Len(text) : text[k] \in digits

Sign(text) == IF text # <<>> /\ text[1] = "-" THEN 1 ELSE 0

NumberFits(text, dot, s, idx) ==
  /\ \A k \in 1 .. Len(text) : text[k] \in Digits \cup {"."} \/ (k = 1 /\ text[k] = "-")
  /\ ~dot => \A k \in 1 .. Len(text) : text[k] # "."
  /\ dot => \E d \in (Sign(text) + 2) .. Len(text) :
              /\ text[d] = "."
              /\ \A k \in 1 .. Len(text) : k # d => text[k] # "."
  /\ Len(text) = Sign(text) => idx <= Len(s) /\ s[idx] \in Digits
  /\ text = <<>> => s[idx] # "0"
  /\ text = <<"0">> /\ idx <= Len(s) => s[idx] \notin {"x", "b"}

(* A run of backslashes ends a text.                                        *)
IsRun(text, k, n) ==
  /\ n \in 0 .. k
  /\ \A j \in k - n + 1 .. k : text[j] = "\\"
  /\ n < k => text[k - n] # "\\"

StringFits(text, m) ==
  /\ \A k \in 1 .. Len(text) : text[k] = Quote => Backslashes(text, k - 1) % 2 = 1
  /\ \E n \in Nat : IsRun(text, Len(text), n) /\ n % 2 = IF m = "string" THEN 0 ELSE 1

CharFits(text, m) ==
  /\ m = "char" => text = <<>>
  /\ m = "char_escape" => text = <<"\\">>
  /\ m = "char_end" => \/ Len(text) = 1 /\ text[1] # "\\"
                       \/ Len(text) = 2 /\ text[1] = "\\"

OperatorFits(text, s, idx) ==
  /\ text # <<>>
  /\ text = <<"-">> /\ idx <= Len(s) => s[idx] \notin Digits
  /\ text = <<"/">> /\ idx <= Len(s) => s[idx] # "/"

TextFits(m, text, dot, s, idx) ==
  /\ m = "ident" => WordFits(text, s, idx)
  /\ m = "prefix" => text = <<"0">> /\ ~dot
  /\ m = "number" => NumberFits(text, dot, s, idx)
  /\ m = "hex" => PrefixedFits(text, "x", HexDigits)
  /\ m = "bin" => PrefixedFits(text, "b", BinDigits)
  /\ m \in StringModes => StringFits(text, m)
  /\ m \in CharModes => CharFits(text, m)
  /\ m = "operator" => OperatorFits(text, s, idx)

(* A slash that begins a token begins no comment.                           *)
SlashFits(m, s, idx) ==
  m = "begin" /\ s[idx] = "/" => idx + 1 <= Len(s) /\ s[idx + 1] # "/"

----------------------------------------------------------------------------
(* The inductive invariant.                                                 *)
Cursor ==
  /\ source \in Sources
  /\ current_idx \in 1 .. Len(source) + 1
  /\ current_line \in 1 .. current_idx /\ current_col \in 1 .. current_idx
  /\ PlaceAt(source, current_idx, current_line, current_col)

Shape ==
  /\ mode \in Modes /\ dot_found \in BOOLEAN
  /\ t = [line |-> t.line, col |-> t.col, text |-> t.text]
  /\ IsSeq(t.text)
  /\ mode \in AskedModes => current_idx <= Len(source)
  /\ TextFits(mode, t.text, dot_found, source, current_idx)
  /\ SlashFits(mode, source, current_idx)

Finished ==
  /\ IsSeq(tokens) /\ Len(tokens) <= Len(source) + 1
  /\ mode # "eof" => \A n \in 1 .. Len(tokens) : tokens[n].id # <<"END_OF_FILE">>
  /\ mode = "eof" =>
       /\ tokens # <<>> /\ tokens[Len(tokens)].id = <<"END_OF_FILE">>
       /\ PlaceAt(source, Len(source) + 1, tokens[Len(tokens)].line, tokens[Len(tokens)].col)

Scene ==
  \E places \in Places, start \in Nat \ {0}, end \in Nat \ {0} :
    /\ Laid(source, tokens, places)
    /\ end = EndOf(tokens, places, Len(tokens))
    /\ mode # "eof" => Len(tokens) < end /\ end <= Len(source) + 1
    /\ Gap(source, mode, end, start, current_idx)
    /\ Begun(source, mode, t, start, current_idx)

AInv == Cursor /\ Shape /\ Finished /\ Scene

----------------------------------------------------------------------------
(* Where the unit after a unit is.                                          *)
LEMMA NextPlace ==
  ASSUME NEW s, NEW i \in Nat \ {0}, NEW l, NEW c, PlaceAt(s, i, l, c)
  PROVE  /\ l \in Nat \ {0} /\ c \in Nat \ {0}
         /\ PlaceAt(s, i + 1, IF s[i] = "\n" THEN l + 1 ELSE l, IF s[i] = "\n" THEN 1 ELSE c + 1)
<1> DEFINE N == Newlines(s, i)
<1>1. \A k \in N : k \in Nat /\ k >= 1 /\ k < i
  BY DEF Newlines
<1>2. IsFiniteSet(N)
  <2>1. IsFiniteSet(1 .. (i - 1))
    BY FS_Interval
  <2>2. N \in SUBSET (1 .. (i - 1))
    BY DEF Newlines
  <2> QED
    BY <2>1, <2>2, FS_Subset
<1>3. Cardinality(N) \in Nat
  BY <1>2, FS_CardinalityType
<1>4. Newlines(s, i + 1) = IF s[i] = "\n" THEN N \cup {i} ELSE N
  BY DEF Newlines
<1>5. i \notin N
  BY DEF Newlines
<1>6. Cardinality(N \cup {i}) = Cardinality(N) + 1
  BY <1>2, <1>5, FS_AddElement
<1>7. l = Cardinality(N) + 1
  BY DEF PlaceAt
<1>8. PICK newline \in N \cup {0} : (\A other \in N : other <= newline) /\ c = i - newline
  BY DEF PlaceAt
<1> HIDE DEF N
<1>9. newline \in Nat /\ newline < i
  BY <1>1, <1>8
<1>10. CASE s[i] = "\n"
  <2>1. Newlines(s, i + 1) = N \cup {i} /\ Cardinality(Newlines(s, i + 1)) = l
    BY <1>4, <1>6, <1>7, <1>10
  <2>2. \A other \in Newlines(s, i + 1) : other <= i
    BY <2>1, <1>1
  <2>3. i \in Newlines(s, i + 1) \cup {0} /\ 1 = (i + 1) - i
    BY <2>1
  <2>4. PlaceAt(s, i + 1, l + 1, 1)
    BY <2>1, <2>2, <2>3 DEF PlaceAt
  <2> QED
    BY <2>4, <1>3, <1>7, <1>8, <1>9, <1>10
<1>11. CASE s[i] # "\n"
  <2>1. Newlines(s, i + 1) = N /\ Cardinality(Newlines(s, i + 1)) + 1 = l
    BY <1>4, <1>7, <1>11
  <2>2. newline \in Newlines(s, i + 1) \cup {0} /\ c + 1 = (i + 1) - newline
    BY <2>1, <1>8, <1>9
  <2>3. PlaceAt(s, i + 1, l, c + 1)
    BY <2>1, <2>2, <1>8 DEF PlaceAt
  <2> QED
    BY <2>3, <1>3, <1>7, <1>8, <1>9, <1>11
<1> QED
  BY <1>10, <1>11

(* Where the first unit is.                                                 *)
LEMMA FirstPlace ==
  ASSUME NEW s
  PROVE  PlaceAt(s, 1, 1, 1)
<1>1. Newlines(s, 1) = {}
  BY DEF Newlines
<1>2. Cardinality({}) = 0
  BY FS_EmptySet
<1> QED
  BY <1>1, <1>2 DEF PlaceAt

(* A line and a column are those of one unit only.                          *)
LEMMA LaterPlace ==
  ASSUME NEW s, NEW i \in Nat \ {0}, NEW j \in Nat \ {0}, i <= j,
         NEW l, NEW c, PlaceAt(s, i, l, c), PlaceAt(s, j, l, c)
  PROVE  i = j
<1> DEFINE N == Newlines(s, i)
           M == Newlines(s, j)
<1>1. IsFiniteSet(M)
  <2>1. IsFiniteSet(1 .. (j - 1))
    BY FS_Interval
  <2>2. M \in SUBSET (1 .. (j - 1))
    BY DEF Newlines
  <2> QED
    BY <2>1, <2>2, FS_Subset
<1>2. N \in SUBSET M
  BY DEF Newlines
<1>3. Cardinality(M) \in Nat /\ Cardinality(N) \in Nat
  BY <1>1, <1>2, FS_Subset, FS_CardinalityType
<1>4. l = Cardinality(N) + 1 /\ l = Cardinality(M) + 1
  BY DEF PlaceAt
<1>5. M = N
  BY <1>1, <1>2, <1>3, <1>4, FS_Subset
<1>6. PICK m \in N \cup {0} : (\A other \in N : other <= m) /\ c = i - m
  BY DEF PlaceAt
<1>7. PICK n \in M \cup {0} : (\A other \in M : other <= n) /\ c = j - n
  BY DEF PlaceAt
<1>8. \A k \in N : k \in Nat /\ k >= 1
  BY DEF Newlines
<1> HIDE DEF N, M
<1>9. m \in Nat /\ n \in Nat /\ m = n
  BY <1>5, <1>6, <1>7, <1>8
<1> QED
  BY <1>6, <1>7, <1>9

(* ... whichever of the two comes first.                                    *)
LEMMA OnePlace ==
  ASSUME NEW s, NEW i \in Nat \ {0}, NEW j \in Nat \ {0},
         NEW l, NEW c, PlaceAt(s, i, l, c), PlaceAt(s, j, l, c)
  PROVE  i = j
<1>1. CASE i <= j
  BY <1>1, LaterPlace
<1>2. CASE j <= i
  BY <1>2, LaterPlace
<1> QED
  BY <1>1, <1>2

----------------------------------------------------------------------------
(* Texts of one unit, and of two.                                           *)
LEMMA OneUnit ==
  ASSUME NEW text, IsSeq(text), NEW c
  PROVE  text = <<c>> <=> Len(text) = 1 /\ text[1] = c
<1>1. IsSeq(<<c>>) /\ Len(<<c>>) = 1 /\ <<c>>[1] = c
  BY ShortSeqs
<1>2. ASSUME Len(text) = 1, text[1] = c PROVE text = <<c>>
  <2>1. \A i \in 1 .. Len(text) : text[i] = <<c>>[i]
    BY <1>1, <1>2
  <2> QED
    BY <1>1, <1>2, <2>1, SameSeq
<1> QED
  BY <1>1, <1>2

(* A unit behind another.                                                   *)
LEMMA TwoUnits ==
  ASSUME NEW a, NEW c
  PROVE  Append(<<a>>, c) = <<a, c>>
<1> DEFINE both == Append(<<a>>, c)
           pair == <<a, c>>
<1>1. IsSeq(<<a>>) /\ Len(<<a>>) = 1 /\ <<a>>[1] = a
  BY ShortSeqs
<1>2. IsSeq(both) /\ Len(both) = 2 /\ both[1] = a /\ both[2] = c
  BY <1>1, AppendSeq
<1>3. pair \in Seq({a, c}) /\ Len(pair) = 2 /\ pair[1] = a /\ pair[2] = c
  OBVIOUS
<1> HIDE DEF both, pair
<1>4. IsSeq(pair) /\ \A i \in 1 .. 2 : i = 1 \/ i = 2
  BY <1>3, SeqOfItsOwn
<1>5. both = pair
  BY <1>2, <1>3, <1>4, SameSeq
<1> QED
  BY <1>5 DEF both, pair

(* What is copied so far, with the next unit.                               *)
LEMMA CopyMore ==
  ASSUME NEW s, NEW i \in Nat \ {0}, NEW text, IsSeq(text), Copied(s, i, text),
         NEW c, s[i + Len(text)] = c
  PROVE  Copied(s, i, Append(text, c))
<1> DEFINE more == Append(text, c)
<1>1. /\ Len(text) \in Nat /\ Len(more) = Len(text) + 1
      /\ \A k \in 1 .. Len(text) : more[k] = text[k]
      /\ more[Len(text) + 1] = c
  BY AppendSeq, SeqFacts
<1> HIDE DEF more
<1>2. ASSUME NEW k \in 1 .. Len(more) PROVE s[i + k - 1] = more[k]
  <2>1. CASE k \in 1 .. Len(text)
    BY <2>1, <1>1 DEF Copied
  <2>2. CASE k = Len(text) + 1
    <3>1. i + k - 1 = i + Len(text)
      BY <2>2, <1>1
    <3> QED
      BY <3>1, <2>2, <1>1
  <2> QED
    BY <1>1, <2>1, <2>2
<1> QED
  BY <1>2 DEF Copied, more

(* A stretch of a source spells what is copied from it.                     *)
LEMMA Spelled ==
  ASSUME NEW s, IsSeq(s), NEW i \in Nat \ {0}, NEW text, IsSeq(text),
         i + Len(text) <= Len(s) + 1, Copied(s, i, text)
  PROVE  SubSeq(s, i, i + Len(text) - 1) = text
<1> DEFINE j == i + Len(text) - 1
           part == SubSeq(s, i, j)
<1>1. Len(text) \in Nat /\ Len(s) \in Nat
  BY SeqFacts
<1>2. j \in Nat /\ i <= j + 1 /\ j <= Len(s) /\ j + 1 - i = Len(text)
  BY <1>1
<1> HIDE DEF j
<1>3. /\ IsSeq(part) /\ Len(part) = j + 1 - i
      /\ \A k \in 1 .. (j + 1 - i) : part[k] = s[i + k - 1]
  BY <1>2, PartSeq
<1> HIDE DEF part
<1>4. part = text
  BY <1>2, <1>3, SameSeq DEF Copied
<1> QED
  BY <1>4 DEF part, j

(* A text in quotes.                                                        *)
LEMMA Quoted ==
  ASSUME NEW s, NEW i \in Nat \ {0}, NEW text, IsSeq(text), NEW q,
         s[i] = q, Copied(s, i + 1, text), s[i + 1 + Len(text)] = q
  PROVE  /\ IsSeq(<<q>> \o text \o <<q>>)
         /\ Len(<<q>> \o text \o <<q>>) = Len(text) + 2
         /\ Copied(s, i, <<q>> \o text \o <<q>>)
<1> DEFINE open == <<q>> \o text
           all == open \o <<q>>
<1>1. /\ Len(text) \in Nat
      /\ IsSeq(open) /\ Len(open) = Len(text) + 1 /\ open[1] = q
      /\ \A k \in 1 .. Len(text) : open[k + 1] = text[k]
  BY SeqFacts, ConsSeq
<1>2. IsSeq(<<q>>) /\ Len(<<q>>) = 1 /\ <<q>>[1] = q
  BY ShortSeqs
<1> HIDE DEF open
<1>3. /\ IsSeq(all) /\ Len(all) = Len(open) + 1
      /\ \A k \in 1 .. Len(open) : all[k] = open[k]
      /\ \A k \in 1 .. 1 : all[Len(open) + k] = <<q>>[k]
  BY <1>1, <1>2, ConcatSeq
<1> HIDE DEF all
<1>4. Len(all) = Len(text) + 2 /\ all[Len(text) + 2] = q
  <2>1. all[Len(open) + 1] = q /\ Len(open) + 1 = Len(text) + 2
    BY <1>1, <1>2, <1>3
  <2> QED
    BY <2>1, <1>3
<1>5. ASSUME NEW k \in 1 .. Len(all) PROVE s[i + k - 1] = all[k]
  <2>1. CASE k = 1
    <3>1. 1 \in 1 .. Len(open) /\ i + 1 - 1 = i
      BY <1>1
    <3> QED
      BY <2>1, <3>1, <1>1, <1>3
  <2>2. CASE k # 1 /\ k # Len(text) + 2
    <3>1. /\ k - 1 \in 1 .. Len(text) /\ (k - 1) + 1 = k /\ k \in 1 .. Len(open)
          /\ i + k - 1 = (i + 1) + (k - 1) - 1
      BY <2>2, <1>1, <1>4
    <3>2. all[k] = text[k - 1]
      BY <3>1, <1>1, <1>3
    <3>3. s[(i + 1) + (k - 1) - 1] = text[k - 1]
      BY <3>1 DEF Copied
    <3> QED
      BY <3>1, <3>2, <3>3
  <2>3. CASE k = Len(text) + 2
    <3>1. i + k - 1 = i + 1 + Len(text)
      BY <2>3, <1>1
    <3> QED
      BY <3>1, <2>3, <1>4
  <2> QED
    BY <2>1, <2>2, <2>3
<1>6. Copied(s, i, all)
  BY <1>5 DEF Copied
<1> QED
  BY <1>3, <1>4, <1>6 DEF all, open

----------------------------------------------------------------------------
(* The spellings of operators.                                              *)
OperatorUnits ==
  {"-", "+", "*", "/", "%", "=", "!", "^", "<", ">", "&", "|", ":", "@", "(", ")",
   "{", "}", "[", "]", ",", ";", ".", "?", "\\", "~", "$"}

TwoUnitOperators ==
  {<<"<", "=">>, <<"<", "<">>, <<">", "=">>, <<">", ">">>, <<"&", "&">>, <<"&", "=">>,
   <<"|", "|">>, <<"|", "=">>, <<":", ":">>}

ThreeUnitOperators == {<<"<", "<", "=">>, <<">", ">", "=">>}

(* The long ones have two units, or three,                                  *)
LEMMA LongSpellings ==
  \A op \in LongOperators : \E c, d : op = <<c, d>> \/ \E e : op = <<c, d, e>>
<1>1. \A op \in LongArithmeticOperators : \E c, d : op = <<c, d>>
  BY Zenon DEF LongArithmeticOperators
<1>2. \A op \in TwoUnitOperators : \E c, d : op = <<c, d>>
  BY Zenon DEF TwoUnitOperators
<1>3. \A op \in ThreeUnitOperators : \E c, d, e : op = <<c, d, e>>
  BY Zenon DEF ThreeUnitOperators
<1>4. \A op \in LongComparisonAndBitOperators :
        op \in TwoUnitOperators \/ op \in ThreeUnitOperators
  BY Zenon DEF LongComparisonAndBitOperators, TwoUnitOperators, ThreeUnitOperators
<1> QED
  BY <1>1, <1>2, <1>3, <1>4 DEF LongOperators

(* ... and the short ones one.                                              *)
LEMMA ShortSpellings ==
  \A op \in ShortOperators : \E c \in OperatorUnits : op = <<c>>
BY DEF ShortOperators, OperatorUnits

(* The ids that are names, and the keyword, are no operators.               *)
Named ==
  {"END_OF_FILE", "NULLPTR_LITERAL", "BOOL_LITERAL", "IDENTIFIER", "INT_LITERAL",
   "FLOAT_LITERAL", "HEX_LITERAL", "BIN_LITERAL", "STR_LITERAL", "CHAR_LITERAL", "ret"}

(* An operator of one unit is none of these, and the others have two.       *)
LEMMA NamesAreNoOperators ==
  \A name \in Named : <<name>> \notin Operators
<1>1. ASSUME NEW name \in Named, <<name>> \in Operators PROVE FALSE
  <2>1. CASE <<name>> \in ShortOperators
    <3>1. PICK c \in OperatorUnits : <<name>> = <<c>>
      BY <2>1, ShortSpellings
    <3>2. name = c
      BY <3>1
    <3> QED
      BY <3>2 DEF OperatorUnits, Named
  <2>2. CASE <<name>> \in LongOperators
    <3>1. ASSUME NEW c, NEW d, <<name>> = <<c, d>> PROVE FALSE
      BY <3>1
    <3>2. ASSUME NEW c, NEW d, NEW e, <<name>> = <<c, d, e>> PROVE FALSE
      BY <3>2
    <3> QED
      BY <2>2, <3>1, <3>2, LongSpellings
  <2> QED
    BY <1>1, <2>1, <2>2 DEF Operators
<1> QED
  BY <1>1

(* An operator that the next unit would make longer may go on.              *)
LEMMA LongerMayGoOn ==
  ASSUME NEW text, IsSeq(text), NEW c, Append(text, c) \in LongOperators
  PROVE  MayGoOn(text)
<1> DEFINE longer == Append(text, c)
<1>1. /\ IsSeq(longer) /\ Len(text) \in Nat /\ Len(longer) = Len(text) + 1
      /\ \A i \in 1 .. Len(text) : longer[i] = text[i]
  BY AppendSeq, SeqFacts
<1>2. Front(longer) = text
  <2>1. SubSeq(longer, 1, Len(longer) - 1) = text
    <3> HIDE DEF longer
    <3>1. Len(longer) - 1 = Len(text) /\ Copied(longer, 1, text)
          /\ 1 + Len(text) <= Len(longer) + 1 /\ 1 + Len(text) - 1 = Len(text)
      BY <1>1 DEF Copied
    <3> QED
      BY <1>1, <3>1, Spelled
  <2> QED
    BY <2>1 DEF Front
<1> QED
  BY <1>2 DEF MayGoOn

(* The tokens whose spelling a minus and a slash might be the start of.     *)
LEMMA MinusAndSlash ==
  /\ \A c \in {">", "-", "="} : Append(<<"-">>, c) \in LongOperators
  /\ Append(<<"/">>, "=") \in LongOperators
<1>1. \A c \in {">", "-", "="} : <<"-", c>> \in LongOperators
  BY Zenon DEF LongOperators, LongArithmeticOperators
<1>2. <<"/", "=">> \in LongOperators
  BY Zenon DEF LongOperators, LongArithmeticOperators
<1> QED
  BY <1>1, <1>2, TwoUnits

----------------------------------------------------------------------------
(* The run of backslashes at the end of a text is one,                      *)
LEMMA RunIs ==
  ASSUME NEW text, NEW k \in Nat, NEW n \in Nat, IsRun(text, k, n)
  PROVE  Backslashes(text, k) = n
<1>1. n \in 0 .. k
  BY DEF IsRun
<1>2. ASSUME NEW m \in 0 .. k, IsRun(text, k, m) PROVE m = n
  <2>1. CASE m < n
    <3>1. k - m \in k - n + 1 .. k /\ m < k
      BY <1>1, <2>1
    <3> QED
      BY <3>1, <1>2 DEF IsRun
  <2>2. CASE n < m
    <3>1. k - n \in k - m + 1 .. k /\ n < k
      BY <1>1, <2>2
    <3> QED
      BY <3>1, <1>2 DEF IsRun
  <2> QED
    BY <1>1, <2>1, <2>2
<1>3. Backslashes(text, k) = CHOOSE m \in 0 .. k : IsRun(text, k, m)
  <2>1. \A m \in 0 .. k : IsRun(text, k, m) <=>
          /\ \A j \in k - m + 1 .. k : text[j] = "\\"
          /\ m < k => text[k - m] # "\\"
    BY DEF IsRun
  <2> QED
    BY <2>1 DEF Backslashes
<1> QED
  BY <1>1, <1>2, <1>3

(* ... which one more unit ends or makes longer.                            *)
LEMMA RunMore ==
  ASSUME NEW text, IsSeq(text), NEW c, NEW n \in Nat, IsRun(text, Len(text), n)
  PROVE  /\ c = "\\" => IsRun(Append(text, c), Len(text) + 1, n + 1)
         /\ c # "\\" => IsRun(Append(text, c), Len(text) + 1, 0)
<1> DEFINE more == Append(text, c)
           len == Len(text)
<1>1. /\ len \in Nat
      /\ \A k \in 1 .. len : more[k] = text[k]
      /\ more[len + 1] = c
  BY AppendSeq, SeqFacts
<1>2. /\ n \in 0 .. len
      /\ \A j \in len - n + 1 .. len : text[j] = "\\"
      /\ n < len => text[len - n] # "\\"
  BY DEF IsRun
<1> HIDE DEF more, len
<1>3. ASSUME c = "\\" PROVE IsRun(more, len + 1, n + 1)
  <2>1. n + 1 \in 0 .. len + 1
    BY <1>1, <1>2
  <2>2. ASSUME NEW j \in (len + 1) - (n + 1) + 1 .. len + 1 PROVE more[j] = "\\"
    <3>1. j = len + 1 \/ (j \in len - n + 1 .. len /\ j \in 1 .. len)
      BY <1>1, <1>2
    <3> QED
      BY <3>1, <1>1, <1>2, <1>3
  <2>3. ASSUME n + 1 < len + 1 PROVE more[(len + 1) - (n + 1)] # "\\"
    <3>1. n < len /\ (len + 1) - (n + 1) = len - n /\ len - n \in 1 .. len
      BY <1>1, <1>2, <2>3
    <3> QED
      BY <3>1, <1>1, <1>2
  <2> QED
    BY <2>1, <2>2, <2>3 DEF IsRun
<1>4. ASSUME c # "\\" PROVE IsRun(more, len + 1, 0)
  <2>1. 0 \in 0 .. len + 1 /\ (len + 1) - 0 = len + 1
    BY <1>1
  <2>2. \A j \in (len + 1) - 0 + 1 .. len + 1 : FALSE
    BY <1>1
  <2> QED
    BY <2>1, <2>2, <1>1, <1>4 DEF IsRun
<1> QED
  BY <1>3, <1>4 DEF more, len

(* ... and which is as it was before the text grew.                         *)
LEMMA RunBefore ==
  ASSUME NEW text, IsSeq(text), NEW c, NEW k \in 0 .. Len(text)
  PROVE  Backslashes(Append(text, c), k) = Backslashes(text, k)
<1> DEFINE more == Append(text, c)
<1>1. /\ Len(text) \in Nat
      /\ \A j \in 1 .. Len(text) : more[j] = text[j]
  BY AppendSeq, SeqFacts
<1> HIDE DEF more
<1>2. ASSUME NEW n \in 0 .. k
      PROVE  /\ \A j \in k - n + 1 .. k : more[j] = text[j]
             /\ n < k => more[k - n] = text[k - n]
  <2>1. \A j \in k - n + 1 .. k : j \in 1 .. Len(text)
    BY <1>1
  <2>2. n < k => k - n \in 1 .. Len(text)
    BY <1>1
  <2> QED
    BY <2>1, <2>2, <1>1
<1>3. \A n \in 0 .. k :
        (/\ \A j \in k - n + 1 .. k : more[j] = "\\"
         /\ n < k => more[k - n] # "\\")
        <=>
        (/\ \A j \in k - n + 1 .. k : text[j] = "\\"
         /\ n < k => text[k - n] # "\\")
  BY <1>2
<1> QED
  BY <1>3 DEF Backslashes, more

----------------------------------------------------------------------------
(* The source is a sequence, and what is said of the next unit.             *)
LEMMA SourceFacts ==
  ASSUME Cursor
  PROVE  /\ IsSeq(source) /\ Len(source) \in Nat
         /\ current_idx \in Nat \ {0} /\ current_idx <= Len(source) + 1
         /\ AtEof <=> current_idx = Len(source) + 1
         /\ ~AtEof <=> current_idx <= Len(source)
         /\ IsPeekWithinRange(1) <=> current_idx + 1 <= Len(source)
         /\ Peek(0) = source[current_idx] /\ Peek(1) = source[current_idx + 1]
<1>1. IsSeq(source)
  BY SourcesAssumption, SeqOfItsOwn DEF Cursor
<1>2. Len(source) \in Nat
  BY <1>1, SeqFacts
<1>3. /\ current_idx \in Nat \ {0} /\ current_idx <= Len(source) + 1
      /\ current_idx \in 1 .. Len(source) + 1
  BY <1>2 DEF Cursor
<1>4. /\ AtEof <=> current_idx = Len(source) + 1
      /\ ~AtEof <=> current_idx <= Len(source)
      /\ IsPeekWithinRange(1) <=> current_idx + 1 <= Len(source)
  BY <1>2, <1>3 DEF AtEof, IsPeekWithinRange
<1>5. Peek(0) = source[current_idx] /\ Peek(1) = source[current_idx + 1]
  BY <1>3 DEF Peek
<1> QED
  BY <1>1, <1>2, <1>3, <1>4, <1>5

(* One unit further.                                                        *)
LEMMA AdvanceStep ==
  ASSUME Cursor, ~AtEof, Advance
  PROVE  Cursor' /\ current_idx' = current_idx + 1 /\ source' = source
<1>1. /\ current_idx' = current_idx + 1 /\ source' = source
      /\ current_line' = IF source[current_idx] = "\n" THEN current_line + 1 ELSE current_line
      /\ current_col' = IF source[current_idx] = "\n" THEN 1 ELSE current_col + 1
  BY SourceFacts DEF Advance
<1>2. /\ current_idx + 1 \in 1 .. Len(source) + 1 /\ current_idx \in Nat \ {0}
      /\ current_line \in 1 .. current_idx /\ current_col \in 1 .. current_idx
      /\ PlaceAt(source, current_idx, current_line, current_col) /\ source \in Sources
  BY SourceFacts DEF Cursor
<1>3. current_line' \in 1 .. current_idx + 1 /\ current_col' \in 1 .. current_idx + 1
  BY <1>1, <1>2
<1>4. PlaceAt(source, current_idx + 1, current_line', current_col')
  BY <1>1, <1>2, NextPlace
<1> QED
  BY <1>1, <1>2, <1>3, <1>4 DEF Cursor

(* No unit further.                                                         *)
LEMMA StayStep ==
  ASSUME Cursor, Stay
  PROVE  Cursor' /\ current_idx' = current_idx /\ source' = source
BY DEF Cursor, Stay, position

Moves == Stay \/ (~AtEof /\ Advance)

(* Where a step that moves at most one unit leads.                          *)
LEMMA MoveStep ==
  ASSUME Cursor, Moves
  PROVE  /\ Cursor' /\ source' = source
         /\ Stay => current_idx' = current_idx
         /\ Advance => current_idx' = current_idx + 1
<1>1. CASE Stay
  <2>1. Cursor' /\ current_idx' = current_idx /\ source' = source
    BY <1>1, StayStep
  <2>2. Advance => current_idx' = current_idx + 1
    BY DEF Advance
  <2> QED
    BY <2>1, <2>2
<1>2. CASE ~AtEof /\ Advance
  <2>1. Cursor' /\ current_idx' = current_idx + 1 /\ source' = source
    BY <1>2, AdvanceStep
  <2>2. Stay => current_idx' = current_idx
    BY DEF Stay, position
  <2> QED
    BY <2>1, <2>2
<1> QED
  BY <1>1, <1>2 DEF Moves

(* A step that returns no token: the ones before stay where they are, and   *)
(* what is to be shown is where the next one begins.                        *)
LEMMA GoOn ==
  ASSUME AInv, Moves, tokens' = tokens, mode # "eof", mode' # "eof", Shape',
         \A start \in Nat \ {0}, end \in Nat \ {0} :
           /\ Gap(source, mode, end, start, current_idx)
           /\ Begun(source, mode, t, start, current_idx)
           => \E begin \in Nat \ {0} :
                /\ Gap(source, mode', end, begin, current_idx')
                /\ Begun(source, mode', t', begin, current_idx')
  PROVE  AInv'
<1>1. Cursor' /\ source' = source
  BY MoveStep DEF AInv
<1>2. Finished'
  BY <1>1 DEF AInv, Finished
<1>3. PICK places \in Places, start \in Nat \ {0}, end \in Nat \ {0} :
        /\ Laid(source, tokens, places)
        /\ end = EndOf(tokens, places, Len(tokens))
        /\ Len(tokens) < end /\ end <= Len(source) + 1
        /\ Gap(source, mode, end, start, current_idx)
        /\ Begun(source, mode, t, start, current_idx)
  BY DEF AInv, Scene
<1>4. PICK begin \in Nat \ {0} :
        /\ Gap(source, mode', end, begin, current_idx')
        /\ Begun(source, mode', t', begin, current_idx')
  BY <1>3
<1>5. Scene'
  BY <1>1, <1>3, <1>4 DEF Scene
<1> QED
  BY <1>1, <1>2, <1>5 DEF AInv

(* The process exits: nothing more is promised of the token.                *)
LEMMA EndStep ==
  ASSUME AInv, mode # "eof", Exit \/ PeekOutside
  PROVE  AInv'
<1>1. /\ mode' \in {"exited", "peeked_outside"} /\ Stay
      /\ UNCHANGED <<t, dot_found, tokens>>
  BY DEF Exit, PeekOutside, Goto
<1>2. source' = source /\ current_idx' = current_idx
  BY <1>1, StayStep DEF AInv
<1>3. Shape'
  BY <1>1, <1>2
  DEF AInv, Shape, Modes, AskedModes, TextFits, SlashFits, StringModes, CharModes
<1>4. \A start \in Nat \ {0}, end \in Nat \ {0} :
        /\ Gap(source, mode', end, start, current_idx')
        /\ Begun(source, mode', t', start, current_idx')
  BY <1>1 DEF Gap, Begun, TokenModes, PlainModes, QuotedModes, StringModes, CharModes
<1> QED
  BY <1>1, <1>3, <1>4, GoOn DEF Moves

----------------------------------------------------------------------------
(* Trivia, none at first, that a blank or a comment makes longer.           *)
LEMMA TriviaNone ==
  ASSUME NEW s, NEW i \in Nat
  PROVE  Trivia(s, i, i)
BY DEF Trivia

(* A blank goes on with it,                                                 *)
LEMMA TriviaMore ==
  ASSUME NEW s, NEW from \in Nat \ {0}, NEW to \in Nat \ {0}, from <= to,
         Trivia(s, from, to), s[to] \in Blanks
  PROVE  Trivia(s, from, to + 1)
<1>1. ASSUME NEW k \in from .. to
      PROVE  \/ s[k] \in Blanks
             \/ \E slash \in from .. k :
                  /\ slash + 1 < to + 1 /\ s[slash] = "/" /\ s[slash + 1] = "/"
                  /\ \A inside \in slash .. k : s[inside] # "\n"
  <2>1. CASE k = to
    BY <2>1
  <2>2. CASE k # to
    <3>1. k \in from .. to - 1
      BY <2>2
    <3>2. CASE s[k] \in Blanks
      BY <3>2
    <3>3. ASSUME NEW slash \in from .. k,
                 slash + 1 < to, s[slash] = "/", s[slash + 1] = "/",
                 \A inside \in slash .. k : s[inside] # "\n"
          PROVE  \E open \in from .. k :
                   /\ open + 1 < to + 1 /\ s[open] = "/" /\ s[open + 1] = "/"
                   /\ \A inside \in open .. k : s[inside] # "\n"
      <4>1. slash + 1 < to + 1
        BY <3>1, <3>3
      <4> QED
        BY <3>3, <4>1
    <3> QED
      BY <3>1, <3>2, <3>3 DEF Trivia
  <2> QED
    BY <2>1, <2>2
<1>2. (to + 1) - 1 = to
  OBVIOUS
<1> QED
  BY <1>1, <1>2 DEF Trivia

(* ... and so does a comment, up to its newline or the end.                 *)
LEMMA TriviaComment ==
  ASSUME NEW s, Len(s) \in Nat, NEW from \in Nat \ {0}, NEW c \in Nat, from <= c,
         NEW idx \in Nat \ {0}, Trivia(s, from, c), InComment(s, c, idx),
         idx = Len(s) + 1 \/ s[idx] = "\n"
  PROVE  from <= idx /\ Trivia(s, from, idx)
<1>1. /\ c <= idx /\ c + 1 <= Len(s) /\ s[c] = "/" /\ s[c + 1] = "/"
      /\ \A k \in c .. idx - 1 : s[k] # "\n"
  BY DEF InComment
<1>2. c + 1 < idx
  <2>1. CASE idx = Len(s) + 1
    BY <1>1, <2>1
  <2>2. CASE s[idx] = "\n"
    <3>1. idx # c /\ idx # c + 1
      BY <1>1, <2>2
    <3> QED
      BY <1>1, <3>1
  <2> QED
    BY <2>1, <2>2
<1>3. ASSUME NEW k \in from .. idx - 1
      PROVE  \/ s[k] \in Blanks
             \/ \E slash \in from .. k :
                  /\ slash + 1 < idx /\ s[slash] = "/" /\ s[slash + 1] = "/"
                  /\ \A inside \in slash .. k : s[inside] # "\n"
  <2>1. CASE k < c
    <3>1. k \in from .. c - 1
      BY <2>1
    <3>2. CASE s[k] \in Blanks
      BY <3>2
    <3>3. ASSUME NEW slash \in from .. k,
                 slash + 1 < c, s[slash] = "/", s[slash + 1] = "/",
                 \A inside \in slash .. k : s[inside] # "\n"
          PROVE  \E open \in from .. k :
                   /\ open + 1 < idx /\ s[open] = "/" /\ s[open + 1] = "/"
                   /\ \A inside \in open .. k : s[inside] # "\n"
      <4>1. slash + 1 < idx
        BY <1>2, <3>3
      <4> QED
        BY <3>3, <4>1
    <3> QED
      BY <3>1, <3>2, <3>3 DEF Trivia
  <2>2. CASE c <= k
    <3>1. c \in from .. k /\ \A inside \in c .. k : inside \in c .. idx - 1
      BY <2>2
    <3> QED
      BY <3>1, <1>1, <1>2
  <2> QED
    BY <2>1, <2>2
<1> QED
  BY <1>2, <1>3 DEF Trivia

(* The steps over what is between two tokens.                               *)
LEMMA SkipBlankStep ==
  ASSUME AInv, SkipBlank
  PROVE  AInv'
<1> USE SourceFacts
<1>1. /\ mode = "between" /\ mode' = mode /\ t' = t /\ dot_found' = dot_found
      /\ tokens' = tokens /\ ~AtEof /\ source[current_idx] \in Blanks /\ Advance
  BY DEF SkipBlank, lexed, IsNextIn, AInv
<1>2. Moves /\ source' = source /\ current_idx' = current_idx + 1 /\ current_idx \in Nat \ {0}
  BY <1>1, AdvanceStep DEF Moves, AInv
<1>3. Shape'
  BY <1>1, <1>2
  DEF AInv, Shape, AskedModes, TextFits, SlashFits, StringModes, CharModes
<1>4. ASSUME NEW start \in Nat \ {0}, NEW end \in Nat \ {0},
             Gap(source, mode, end, start, current_idx),
             Begun(source, mode, t, start, current_idx)
      PROVE  /\ Gap(source, mode', end, current_idx + 1, current_idx')
             /\ Begun(source, mode', t', current_idx + 1, current_idx')
  <2>1. start = current_idx /\ end <= start /\ Trivia(source, end, start)
    BY <1>1, <1>4 DEF Gap, Begun
  <2>2. end <= current_idx + 1 /\ Trivia(source, end, current_idx + 1)
    BY <2>1, <1>1, <1>2, TriviaMore
  <2> QED
    BY <1>1, <1>2, <2>2
    DEF Gap, Begun, TokenModes, PlainModes, QuotedModes, StringModes, CharModes
<1>5. current_idx + 1 \in Nat \ {0}
  BY <1>2
<1> QED
  BY <1>1, <1>2, <1>3, <1>4, <1>5, GoOn

(* A slash may begin a comment,                                             *)
LEMMA SkipSlashStep ==
  ASSUME AInv, SkipSlash
  PROVE  AInv'
<1>1. mode = "between" /\ ~AtEof /\ source[current_idx] = "/"
  BY SourceFacts DEF SkipSlash, IsNextIn, AInv
<1>2. CASE ~IsPeekWithinRange(1)
  BY <1>1, <1>2, EndStep DEF SkipSlash
<1>3. CASE IsPeekWithinRange(1)
  <2>1. /\ Stay /\ mode' = (IF source[current_idx + 1] = "/" THEN "comment" ELSE "begin")
        /\ UNCHANGED <<t, dot_found, tokens>>
    BY <1>3, SourceFacts DEF SkipSlash, Goto, AInv
  <2>2. /\ Moves /\ source' = source /\ current_idx' = current_idx
        /\ current_idx \in Nat \ {0} /\ current_idx + 1 <= Len(source) /\ Len(source) \in Nat
    BY <2>1, <1>3, StayStep, SourceFacts DEF Moves, AInv
  <2>3. Shape'
    BY <1>1, <2>1, <2>2
    DEF AInv, Shape, Modes, AskedModes, TextFits, SlashFits, StringModes, CharModes
  <2>4. ASSUME NEW start \in Nat \ {0}, NEW end \in Nat \ {0},
               Gap(source, mode, end, start, current_idx),
               Begun(source, mode, t, start, current_idx)
        PROVE  /\ Gap(source, mode', end, start, current_idx')
               /\ Begun(source, mode', t', start, current_idx')
    <3>1. start = current_idx /\ end <= start /\ Trivia(source, end, start)
      BY <1>1, <2>4 DEF Gap, Begun
    <3>2. source[current_idx + 1] = "/" => InComment(source, current_idx, current_idx)
      BY <1>1, <2>2 DEF InComment
    <3> QED
      BY <2>1, <2>2, <3>1, <3>2
      DEF Gap, Begun, TokenModes, PlainModes, QuotedModes, StringModes, CharModes
  <2> QED
    BY <1>1, <2>1, <2>2, <2>3, <2>4, GoOn
<1> QED
  BY <1>2, <1>3

(* ... which ends before a newline,                                         *)
LEMMA SkipTillNewlineStep ==
  ASSUME AInv, SkipTillNewline
  PROVE  AInv'
<1>1. mode = "comment" /\ t' = t /\ dot_found' = dot_found /\ tokens' = tokens
  BY DEF SkipTillNewline, Goto, lexed
<1>2. current_idx \in Nat \ {0} /\ Len(source) \in Nat
  BY SourceFacts DEF AInv
<1>3. CASE ~AtEof /\ source[current_idx] # "\n"
  <2>1. Advance /\ mode' = mode
    BY <1>3, SourceFacts DEF SkipTillNewline, lexed, AInv
  <2>2. Moves /\ source' = source /\ current_idx' = current_idx + 1
    BY <1>3, <2>1, AdvanceStep DEF Moves, AInv
  <2>3. Shape'
    BY <1>1, <2>1, <2>2
    DEF AInv, Shape, AskedModes, TextFits, SlashFits, StringModes, CharModes
  <2>4. ASSUME NEW start \in Nat \ {0}, NEW end \in Nat \ {0},
               Gap(source, mode, end, start, current_idx),
               Begun(source, mode, t, start, current_idx)
        PROVE  /\ Gap(source, mode', end, start, current_idx')
               /\ Begun(source, mode', t', start, current_idx')
    <3>1. PICK c \in Nat : end <= c /\ Trivia(source, end, c) /\ InComment(source, c, current_idx)
      BY <1>1, <2>4 DEF Gap
    <3>2. InComment(source, c, current_idx + 1)
      <4>1. \A k \in c .. (current_idx + 1) - 1 : k \in c .. current_idx - 1 \/ k = current_idx
        BY <1>2
      <4> QED
        BY <3>1, <4>1, <1>2, <1>3 DEF InComment
    <3> QED
      BY <1>1, <2>1, <2>2, <3>1, <3>2
      DEF Gap, Begun, TokenModes, PlainModes, QuotedModes, StringModes, CharModes
  <2> QED
    BY <1>1, <2>1, <2>2, <2>3, <2>4, GoOn
<1>4. CASE ~(~AtEof /\ source[current_idx] # "\n")
  <2>1. mode' = "between" /\ Stay
    BY <1>4, SourceFacts DEF SkipTillNewline, Goto, AInv
  <2>2. Moves /\ source' = source /\ current_idx' = current_idx
    BY <2>1, StayStep DEF Moves, AInv
  <2>3. Shape'
    BY <1>1, <2>1, <2>2
    DEF AInv, Shape, Modes, AskedModes, TextFits, SlashFits, StringModes, CharModes
  <2>4. current_idx = Len(source) + 1 \/ source[current_idx] = "\n"
    BY <1>4, SourceFacts DEF AInv
  <2>5. ASSUME NEW start \in Nat \ {0}, NEW end \in Nat \ {0},
               Gap(source, mode, end, start, current_idx),
               Begun(source, mode, t, start, current_idx)
        PROVE  /\ Gap(source, mode', end, current_idx, current_idx')
               /\ Begun(source, mode', t', current_idx, current_idx')
    <3>1. PICK c \in Nat : end <= c /\ Trivia(source, end, c) /\ InComment(source, c, current_idx)
      BY <1>1, <2>5 DEF Gap
    <3>2. end <= current_idx /\ Trivia(source, end, current_idx)
      BY <1>2, <2>4, <3>1, TriviaComment
    <3> QED
      BY <2>1, <2>2, <3>2
      DEF Gap, Begun, TokenModes, PlainModes, QuotedModes, StringModes, CharModes
  <2> QED
    BY <1>1, <1>2, <2>1, <2>2, <2>3, <2>5, GoOn
<1> QED
  BY <1>3, <1>4

(* ... and any other unit begins a token.                                   *)
LEMMA SkippedTriviaStep ==
  ASSUME AInv, SkippedTrivia
  PROVE  AInv'
<1>1. /\ mode = "between" /\ ~AtEof /\ source[current_idx] # "/"
      /\ mode' = "begin" /\ Stay /\ UNCHANGED <<t, dot_found, tokens>>
  BY SourceFacts DEF SkippedTrivia, Goto, AInv
<1>2. /\ Moves /\ source' = source /\ current_idx' = current_idx
      /\ current_idx <= Len(source)
  BY <1>1, StayStep, SourceFacts DEF Moves, AInv
<1>3. Shape'
  BY <1>1, <1>2
  DEF AInv, Shape, Modes, AskedModes, TextFits, SlashFits, StringModes, CharModes
<1>4. ASSUME NEW start \in Nat \ {0}, NEW end \in Nat \ {0},
             Gap(source, mode, end, start, current_idx),
             Begun(source, mode, t, start, current_idx)
      PROVE  /\ Gap(source, mode', end, start, current_idx')
             /\ Begun(source, mode', t', start, current_idx')
  BY <1>1, <1>2, <1>4
  DEF Gap, Begun, TokenModes, PlainModes, QuotedModes, StringModes, CharModes
<1> QED
  BY <1>1, <1>2, <1>3, <1>4, GoOn

----------------------------------------------------------------------------
(* A token begins: before its first unit, behind it, or behind its quote.   *)
LEMMA BeginStep ==
  ASSUME AInv, mode = "begin",
         NEW m \in TokenModes, NEW text, Begin(m, text),
         \/ Stay /\ text = <<>> /\ m \notin QuotedModes
         \/ Advance /\ text = <<source[current_idx]>> /\ m \notin QuotedModes
         \/ Advance /\ text = <<>> /\ m \in QuotedModes,
         m \in StringModes => source[current_idx] = Quote,
         m \in CharModes => source[current_idx] = "'",
         m \in AskedModes => current_idx' <= Len(source),
         TextFits(m, text, FALSE, source, current_idx')
  PROVE  AInv'
<1>1. /\ mode' = m /\ dot_found' = FALSE /\ tokens' = tokens
      /\ t' = [line |-> current_line, col |-> current_col, text |-> text]
  BY DEF Begin, NewToken
<1>2. /\ current_idx <= Len(source) /\ ~AtEof /\ current_idx \in Nat \ {0}
      /\ PlaceAt(source, current_idx, current_line, current_col)
  BY SourceFacts DEF AInv, Shape, AskedModes, Cursor
<1>3. Moves
  BY <1>2 DEF Moves
<1>4. /\ source' = source /\ Cursor'
      /\ Stay => current_idx' = current_idx
      /\ Advance => current_idx' = current_idx + 1
  BY <1>3, MoveStep DEF AInv
<1>5. m \in Modes /\ m \notin {"begin", "between", "comment", "eof"}
  BY DEF Modes, TokenModes, PlainModes, QuotedModes, StringModes, CharModes
<1>6. /\ IsSeq(<<>>) /\ Len(<<>>) = 0
      /\ IsSeq(<<source[current_idx]>>) /\ Len(<<source[current_idx]>>) = 1
      /\ <<source[current_idx]>>[1] = source[current_idx]
  BY ShortSeqs
<1>7. IsSeq(text) /\ t'.text = text /\ t'.line = current_line /\ t'.col = current_col
  BY <1>1, <1>6
<1>8. Shape'
  <2>1. t' = [line |-> t'.line, col |-> t'.col, text |-> t'.text]
    BY <1>1
  <2>2. mode' \in Modes /\ dot_found' \in BOOLEAN /\ IsSeq(t'.text)
    BY <1>1, <1>5, <1>7
  <2>3. mode' \in AskedModes => current_idx' <= Len(source')
    BY <1>1, <1>4
  <2>4. TextFits(mode', t'.text, dot_found', source', current_idx')
    BY <1>1, <1>4, <1>7
  <2>5. SlashFits(mode', source', current_idx')
    BY <1>1, <1>5 DEF SlashFits
  <2> QED
    BY <2>1, <2>2, <2>3, <2>4, <2>5 DEF Shape
<1>9. ASSUME NEW start \in Nat \ {0}, NEW end \in Nat \ {0},
             Gap(source, mode, end, start, current_idx),
             Begun(source, mode, t, start, current_idx)
      PROVE  /\ Gap(source, mode', end, start, current_idx')
             /\ Begun(source, mode', t', start, current_idx')
  <2>1. start = current_idx /\ end <= start /\ Trivia(source, end, start)
    BY <1>9 DEF Gap, Begun
  <2>2. Gap(source, m, end, start, current_idx')
    BY <2>1, <1>5 DEF Gap
  <2>3. Quotes(m) = IF m \in QuotedModes THEN 1 ELSE 0
    BY DEF Quotes
  <2>4. current_idx' = start + Quotes(m) + Len(text)
    <3>1. CASE Stay /\ text = <<>> /\ m \notin QuotedModes
      <4>1. Quotes(m) = 0 /\ Len(text) = 0 /\ current_idx' = current_idx
        BY <3>1, <2>3, <1>4, <1>6
      <4> QED
        BY <4>1, <2>1
    <3>2. CASE Advance /\ text = <<source[current_idx]>> /\ m \notin QuotedModes
      <4>1. Quotes(m) = 0 /\ Len(text) = 1 /\ current_idx' = current_idx + 1
        BY <3>2, <2>3, <1>4, <1>6
      <4> QED
        BY <4>1, <2>1
    <3>3. CASE Advance /\ text = <<>> /\ m \in QuotedModes
      <4>1. Quotes(m) = 1 /\ Len(text) = 0 /\ current_idx' = current_idx + 1
        BY <3>3, <2>3, <1>4, <1>6
      <4> QED
        BY <4>1, <2>1
    <3> QED
      BY <3>1, <3>2, <3>3
  <2>5. Copied(source, start + Quotes(m), text)
    <3>1. CASE text = <<>>
      BY <3>1, <1>6 DEF Copied
    <3>2. CASE text = <<source[current_idx]>> /\ m \notin QuotedModes
      BY <3>2, <2>1, <2>3, <1>2, <1>6 DEF Copied
    <3> QED
      BY <3>1, <3>2
  <2>6. Begun(source, m, t', start, current_idx')
    BY <2>1, <2>4, <2>5, <1>2, <1>5, <1>7 DEF Begun
  <2> QED
    BY <2>2, <2>6, <1>1
<1> QED
  BY <1>1, <1>3, <1>5, <1>8, <1>9, GoOn

(* A word begins before its first letter,                                   *)
LEMMA BeginIdentStep ==
  ASSUME AInv, BeginIdent
  PROVE  AInv'
<1>1. /\ mode = "begin" /\ Begin("ident", <<>>) /\ Stay
      /\ source[current_idx] \in Letters
  BY SourceFacts DEF BeginIdent, AInv
<1>2. current_idx <= Len(source) /\ current_idx' = current_idx
  BY <1>1, StayStep DEF AInv, Shape, AskedModes
<1>3. TextFits("ident", <<>>, FALSE, source, current_idx')
  BY <1>1, <1>2, ShortSeqs DEF TextFits, WordFits, StringModes, CharModes
<1>4. /\ "ident" \in TokenModes /\ "ident" \notin QuotedModes
      /\ "ident" \notin StringModes /\ "ident" \notin CharModes /\ "ident" \notin AskedModes
  BY DEF TokenModes, PlainModes, QuotedModes, StringModes, CharModes, AskedModes
<1> QED
  BY <1>1, <1>3, <1>4, BeginStep

(* ... a minus is an operator's or a number's first unit,                   *)
LEMMA BeginMinusStep ==
  ASSUME AInv, BeginMinus
  PROVE  AInv'
<1>1. mode = "begin" /\ source[current_idx] = "-"
  BY SourceFacts DEF BeginMinus, AInv
<1>2. CASE ~IsPeekWithinRange(1)
  BY <1>1, <1>2, EndStep DEF BeginMinus
<1> DEFINE text == <<source[current_idx]>>
<1>3. IsSeq(text) /\ Len(text) = 1 /\ text[1] = "-" /\ text = <<"-">> /\ text # <<>>
  BY <1>1, ShortSeqs
<1>4. /\ \A m \in {"number", "operator"} : m \in TokenModes
      /\ \A m \in {"number", "operator"} : m \notin QuotedModes
      /\ \A m \in {"number", "operator"} :
           m \notin StringModes /\ m \notin CharModes /\ m \notin AskedModes
  BY DEF TokenModes, PlainModes, QuotedModes, StringModes, CharModes, AskedModes
<1>5. CASE IsPeekWithinRange(1) /\ source[current_idx + 1] \in Digits
  <2>1. Begin("number", text) /\ Advance
    BY <1>1, <1>3, <1>5, SourceFacts DEF BeginMinus, AInv
  <2>2. current_idx' = current_idx + 1 /\ current_idx + 1 <= Len(source)
    BY <2>1, <1>5, SourceFacts DEF AInv, Advance
  <2>3. Sign(text) = 1
    BY <1>3 DEF Sign
  <2>4. text # <<"0">>
    BY <1>3
  <2>5. \A k \in 1 .. Len(text) : k = 1
    BY <1>3
  <2> HIDE DEF text
  <2>6. NumberFits(text, FALSE, source, current_idx')
    BY <1>3, <1>5, <2>2, <2>3, <2>4, <2>5 DEF NumberFits
  <2>7. TextFits("number", text, FALSE, source, current_idx')
    BY <2>6 DEF TextFits, StringModes, CharModes
  <2> QED
    BY <1>1, <1>4, <2>1, <2>7, BeginStep DEF text
<1>6. CASE IsPeekWithinRange(1) /\ source[current_idx + 1] \notin Digits
  <2>1. Begin("operator", text) /\ Advance
    BY <1>1, <1>3, <1>6, SourceFacts DEF BeginMinus, AInv
  <2>2. current_idx' = current_idx + 1
    BY <2>1 DEF Advance
  <2>3. text # <<"/">>
    BY <1>3
  <2> HIDE DEF text
  <2>4. OperatorFits(text, source, current_idx')
    BY <1>3, <1>6, <2>2, <2>3 DEF OperatorFits
  <2>5. TextFits("operator", text, FALSE, source, current_idx')
    BY <2>4 DEF TextFits, StringModes, CharModes
  <2> QED
    BY <1>1, <1>4, <2>1, <2>5, BeginStep DEF text
<1> QED
  BY <1>2, <1>5, <1>6

(* ... a zero is looked past for a prefix,                                  *)
LEMMA BeginNumberStep ==
  ASSUME AInv, BeginNumber
  PROVE  AInv'
<1>1. mode = "begin" /\ source[current_idx] \in Digits
  BY SourceFacts DEF BeginNumber, AInv
<1>2. current_idx <= Len(source)
  BY <1>1 DEF AInv, Shape, AskedModes
<1>3. CASE source[current_idx] # "0"
  <2>1. Begin("number", <<>>) /\ Stay
    BY <1>3, SourceFacts DEF BeginNumber, AInv
  <2>2. current_idx' = current_idx
    BY <2>1, StayStep DEF AInv
  <2>3. <<>> # <<"0">> /\ Sign(<<>>) = 0 /\ Len(<<>>) = 0
    BY ShortSeqs DEF Sign
  <2>4. NumberFits(<<>>, FALSE, source, current_idx')
    BY <1>1, <1>2, <1>3, <2>2, <2>3 DEF NumberFits
  <2>5. TextFits("number", <<>>, FALSE, source, current_idx')
    BY <2>4 DEF TextFits, StringModes, CharModes
  <2>6. /\ "number" \in TokenModes /\ "number" \notin QuotedModes
        /\ "number" \notin StringModes /\ "number" \notin CharModes
        /\ "number" \notin AskedModes
    BY DEF TokenModes, PlainModes, QuotedModes, StringModes, CharModes, AskedModes
  <2> QED
    BY <1>1, <2>1, <2>5, <2>6, BeginStep
<1>4. CASE source[current_idx] = "0" /\ IsPeekWithinRange(1)
  <2>1. Begin("prefix", <<"0">>) /\ Advance /\ <<"0">> = <<source[current_idx]>>
    BY <1>4, SourceFacts DEF BeginNumber, AInv
  <2>2. current_idx' = current_idx + 1 /\ current_idx + 1 <= Len(source)
    BY <1>4, <2>1, SourceFacts DEF AInv, Advance
  <2>3. TextFits("prefix", <<"0">>, FALSE, source, current_idx')
    BY DEF TextFits, StringModes, CharModes
  <2>4. /\ "prefix" \in TokenModes /\ "prefix" \notin QuotedModes
        /\ "prefix" \notin StringModes /\ "prefix" \notin CharModes
    BY DEF TokenModes, PlainModes, QuotedModes, StringModes, CharModes
  <2> QED
    BY <1>1, <2>1, <2>2, <2>3, <2>4, BeginStep
<1>5. CASE source[current_idx] = "0" /\ ~IsPeekWithinRange(1)
  <2>1. Exit
    BY <1>5, SourceFacts DEF BeginNumber, AInv
  <2> QED
    BY <1>1, <2>1, EndStep
<1> QED
  BY <1>3, <1>4, <1>5

(* ... a quote is left out of the text,                                     *)
LEMMA BeginQuotedStep ==
  ASSUME AInv, BeginQuoted
  PROVE  AInv'
<1>1. mode = "begin" /\ source[current_idx] \in {Quote, "'"}
  BY SourceFacts DEF BeginQuoted, AInv
<1>2. CASE ~IsPeekWithinRange(1)
  BY <1>1, <1>2, EndStep DEF BeginQuoted
<1>3. CASE IsPeekWithinRange(1) /\ source[current_idx] = Quote
  <2>1. Begin("string", <<>>) /\ Advance
    BY <1>3, SourceFacts DEF BeginQuoted, AInv
  <2>2. current_idx' = current_idx + 1 /\ current_idx + 1 <= Len(source)
    BY <1>3, <2>1, SourceFacts DEF AInv, Advance
  <2>3. IsRun(<<>>, 0, 0) /\ 0 % 2 = 0 /\ 0 \in Nat /\ Len(<<>>) = 0
    BY ShortSeqs DEF IsRun
  <2>4. StringFits(<<>>, "string")
    BY <2>3 DEF StringFits
  <2>5. TextFits("string", <<>>, FALSE, source, current_idx')
    BY <2>4 DEF TextFits, StringModes, CharModes
  <2>6. /\ "string" \in TokenModes /\ "string" \in QuotedModes /\ "string" \notin CharModes
    BY DEF TokenModes, QuotedModes, StringModes, CharModes
  <2> QED
    BY <1>1, <1>3, <2>1, <2>2, <2>5, <2>6, BeginStep
<1>4. CASE IsPeekWithinRange(1) /\ source[current_idx] # Quote
  <2>1. Begin("char", <<>>) /\ Advance /\ source[current_idx] = "'"
    BY <1>1, <1>4, SourceFacts DEF BeginQuoted, AInv
  <2>2. current_idx' = current_idx + 1 /\ current_idx + 1 <= Len(source)
    BY <1>4, <2>1, SourceFacts DEF AInv, Advance
  <2>3. TextFits("char", <<>>, FALSE, source, current_idx')
    BY DEF TextFits, CharFits, StringModes, CharModes
  <2>4. /\ "char" \in TokenModes /\ "char" \in QuotedModes /\ "char" \notin StringModes
    BY DEF TokenModes, QuotedModes, StringModes, CharModes
  <2> QED
    BY <1>1, <2>1, <2>2, <2>3, <2>4, BeginStep
<1> QED
  BY <1>1, <1>2, <1>3, <1>4

(* ... and all else is an operator or an error.                             *)
LEMMA BeginOperatorStep ==
  ASSUME AInv, BeginOperator
  PROVE  AInv'
<1> DEFINE text == <<source[current_idx]>>
<1>1. /\ mode = "begin" /\ source[current_idx] # "-"
      /\ Begin("operator", text) /\ Advance
  BY SourceFacts DEF BeginOperator, AInv
<1>2. current_idx' = current_idx + 1
  BY <1>1 DEF Advance
<1>3. text # <<>> /\ text # <<"-">> /\ (text = <<"/">> => source[current_idx] = "/")
  BY <1>1
<1>4. text = <<"/">> => source[current_idx'] # "/"
  BY <1>1, <1>2, <1>3 DEF AInv, Shape, SlashFits
<1> HIDE DEF text
<1>5. OperatorFits(text, source, current_idx')
  BY <1>3, <1>4 DEF OperatorFits
<1>6. TextFits("operator", text, FALSE, source, current_idx')
  BY <1>5 DEF TextFits, StringModes, CharModes
<1>7. /\ "operator" \in TokenModes /\ "operator" \notin QuotedModes
      /\ "operator" \notin StringModes /\ "operator" \notin CharModes
      /\ "operator" \notin AskedModes
  BY DEF TokenModes, PlainModes, QuotedModes, StringModes, CharModes, AskedModes
<1> QED
  BY <1>1, <1>6, <1>7, BeginStep DEF text

----------------------------------------------------------------------------
(* The next unit belongs to the token.                                      *)
LEMMA TakeStep ==
  ASSUME AInv, mode \in TokenModes, ~AtEof, PushText, Advance, tokens' = tokens,
         mode' \in TokenModes, dot_found' \in BOOLEAN,
         mode' \in StringModes <=> mode \in StringModes,
         mode' \in CharModes <=> mode \in CharModes,
         mode' \in AskedModes => current_idx + 1 <= Len(source),
         TextFits(mode', Append(t.text, source[current_idx]), dot_found', source, current_idx + 1)
  PROVE  AInv'
<1> DEFINE more == Append(t.text, source[current_idx])
<1>1. /\ current_idx \in Nat \ {0} /\ IsSeq(t.text)
      /\ t = [line |-> t.line, col |-> t.col, text |-> t.text]
      /\ Peek(0) = source[current_idx]
  BY SourceFacts DEF AInv, Shape
<1>2. t' = [line |-> t.line, col |-> t.col, text |-> more]
  BY <1>1 DEF PushText
<1>3. IsSeq(more) /\ Len(t.text) \in Nat /\ Len(more) = Len(t.text) + 1
  BY <1>1, AppendSeq, SeqFacts
<1> HIDE DEF more
<1>4. t'.text = more /\ t'.line = t.line /\ t'.col = t.col
  BY <1>2
<1>5. Moves /\ source' = source /\ current_idx' = current_idx + 1
  BY AdvanceStep DEF Moves, AInv
<1>6. /\ \A m \in TokenModes : m \in Modes
      /\ \A m \in TokenModes : m \notin {"begin", "between", "comment", "eof"}
  BY DEF Modes, TokenModes, PlainModes, QuotedModes, StringModes, CharModes
<1>7. Shape'
  <2>1. t' = [line |-> t'.line, col |-> t'.col, text |-> t'.text]
    BY <1>2
  <2>2. mode' \in Modes /\ dot_found' \in BOOLEAN /\ IsSeq(t'.text)
    BY <1>3, <1>4, <1>6
  <2>3. mode' \in AskedModes => current_idx' <= Len(source')
    BY <1>5
  <2>4. TextFits(mode', t'.text, dot_found', source', current_idx')
    BY <1>4, <1>5 DEF more
  <2>5. SlashFits(mode', source', current_idx')
    BY <1>6 DEF SlashFits
  <2> QED
    BY <2>1, <2>2, <2>3, <2>4, <2>5 DEF Shape
<1>8. Quotes(mode') = Quotes(mode) /\ Quotes(mode) \in {0, 1}
  BY DEF Quotes, QuotedModes
<1>9. ASSUME NEW start \in Nat \ {0}, NEW end \in Nat \ {0},
             Gap(source, mode, end, start, current_idx),
             Begun(source, mode, t, start, current_idx)
      PROVE  /\ Gap(source, mode', end, start, current_idx')
             /\ Begun(source, mode', t', start, current_idx')
  <2>1. /\ PlaceAt(source, start, t.line, t.col)
        /\ current_idx = start + Quotes(mode) + Len(t.text)
        /\ Copied(source, start + Quotes(mode), t.text)
    BY <1>9 DEF Begun
  <2>2. start + Quotes(mode) \in Nat \ {0}
    BY <1>8
  <2>3. Copied(source, start + Quotes(mode), more)
    BY <2>1, <2>2, <1>1, CopyMore DEF more
  <2>4. current_idx' = start + Quotes(mode') + Len(more)
    BY <2>1, <1>3, <1>5, <1>8
  <2>5. Gap(source, mode', end, start, current_idx')
    BY <1>6, <1>9 DEF Gap
  <2>6. Begun(source, mode', t', start, current_idx')
    BY <1>4, <1>6, <1>8, <1>9, <2>1, <2>3, <2>4 DEF Begun
  <2> QED
    BY <2>5, <2>6
<1> QED
  BY <1>5, <1>6, <1>7, <1>9, GoOn

----------------------------------------------------------------------------
(* What the loops keep of the text they copy: a text and one more unit.     *)
LEMMA WordMore ==
  ASSUME NEW text, IsSeq(text), NEW s, NEW idx \in Nat, WordFits(text, s, idx),
         s[idx] \in Letters \cup Digits
  PROVE  WordFits(Append(text, s[idx]), s, idx + 1)
<1> DEFINE c == s[idx]
           more == Append(text, c)
<1>1. /\ IsSeq(more) /\ more # <<>> /\ Len(text) \in Nat /\ Len(more) = Len(text) + 1
      /\ \A k \in 1 .. Len(text) : more[k] = text[k]
      /\ more[Len(text) + 1] = c
      /\ text # <<>> <=> Len(text) > 0
  BY AppendSeq, SeqFacts
<1> HIDE DEF more
<1>2. more[1] \in Letters
  <2>1. CASE text = <<>>
    <3>1. Len(text) + 1 = 1 /\ s[idx] \in Letters
      BY <2>1, <1>1 DEF WordFits
    <3> QED
      BY <3>1, <1>1
  <2>2. CASE text # <<>>
    <3>1. 1 \in 1 .. Len(text) /\ text[1] \in Letters
      BY <2>2, <1>1 DEF WordFits
    <3> QED
      BY <3>1, <1>1
  <2> QED
    BY <2>1, <2>2
<1>3. ASSUME NEW k \in 1 .. Len(more) PROVE more[k] \in Letters \cup Digits
  <2>1. k \in 1 .. Len(text) \/ k = Len(text) + 1
    BY <1>1
  <2>2. \A i \in 1 .. Len(text) : text[i] \in Letters \cup Digits
    BY DEF WordFits
  <2> QED
    BY <2>1, <2>2, <1>1
<1> QED
  BY <1>1, <1>2, <1>3 DEF WordFits, more, c

(* Digits behind a prefix,                                                  *)
LEMMA PrefixedMore ==
  ASSUME NEW text, IsSeq(text), NEW prefix, NEW digits, PrefixedFits(text, prefix, digits),
         NEW c \in digits
  PROVE  PrefixedFits(Append(text, c), prefix, digits)
<1> DEFINE more == Append(text, c)
<1>1. /\ Len(text) \in Nat /\ Len(more) = Len(text) + 1
      /\ \A k \in 1 .. Len(text) : more[k] = text[k]
      /\ more[Len(text) + 1] = c
  BY AppendSeq, SeqFacts
<1> HIDE DEF more
<1>2. /\ Len(text) >= 2 /\ text[1] = "0" /\ text[2] = prefix
      /\ \A k \in 3 .. Len(text) : text[k] \in digits
  BY DEF PrefixedFits
<1>3. more[1] = "0" /\ more[2] = prefix /\ Len(more) >= 2
  <2>1. 1 \in 1 .. Len(text) /\ 2 \in 1 .. Len(text) /\ Len(more) >= 2
    BY <1>1, <1>2
  <2> QED
    BY <2>1, <1>1, <1>2
<1>4. ASSUME NEW k \in 3 .. Len(more) PROVE more[k] \in digits
  <2>1. (k \in 3 .. Len(text) /\ k \in 1 .. Len(text)) \/ k = Len(text) + 1
    BY <1>1
  <2> QED
    BY <2>1, <1>1, <1>2
<1> QED
  BY <1>3, <1>4 DEF PrefixedFits, more

(* ... and the prefix itself.                                               *)
LEMMA PrefixedFirst ==
  ASSUME NEW text, text = <<"0">>, NEW prefix, NEW digits
  PROVE  PrefixedFits(Append(text, prefix), prefix, digits)
<1> DEFINE more == Append(text, prefix)
<1>1. IsSeq(text) /\ Len(text) = 1 /\ text[1] = "0"
  BY ShortSeqs
<1>2. /\ Len(more) = Len(text) + 1 /\ more[Len(text) + 1] = prefix
      /\ \A k \in 1 .. Len(text) : more[k] = text[k]
  <2> HIDE DEF more
  <2>1. \A e : /\ Len(Append(text, e)) = Len(text) + 1
               /\ Append(text, e)[Len(text) + 1] = e
               /\ \A k \in 1 .. Len(text) : Append(text, e)[k] = text[k]
    BY <1>1, AppendSeq
  <2> QED
    BY <2>1 DEF more
<1> HIDE DEF more
<1>3. Len(more) = 2 /\ more[1] = "0" /\ more[2] = prefix
  BY <1>1, <1>2
<1>4. \A k \in 3 .. Len(more) : FALSE
  BY <1>3
<1> QED
  BY <1>3, <1>4 DEF PrefixedFits, more

(* A sign stays what it is.                                                 *)
LEMMA SignMore ==
  ASSUME NEW text, IsSeq(text), NEW c, c # "-"
  PROVE  /\ Sign(text) \in {0, 1} /\ Sign(text) <= Len(text)
         /\ Sign(Append(text, c)) = Sign(text)
<1> DEFINE more == Append(text, c)
<1>1. /\ more # <<>> /\ Len(text) \in Nat
      /\ \A k \in 1 .. Len(text) : more[k] = text[k]
      /\ more[Len(text) + 1] = c
      /\ text # <<>> <=> Len(text) > 0
  BY AppendSeq, SeqFacts
<1> HIDE DEF more
<1>2. CASE text = <<>>
  <2>1. Len(text) = 0
    BY <1>1, <1>2
  <2>2. more[1] = c
    BY <2>1, <1>1
  <2>3. Sign(text) = 0 /\ Sign(more) = 0
    BY <2>2, <1>2 DEF Sign
  <2> QED
    BY <2>1, <2>3 DEF more
<1>3. CASE text # <<>>
  <2>1. 1 \in 1 .. Len(text) /\ Len(text) >= 1
    BY <1>1, <1>3
  <2>2. more[1] = text[1]
    BY <2>1, <1>1
  <2>3. Sign(text) = (IF text[1] = "-" THEN 1 ELSE 0) /\ Sign(more) = Sign(text)
    BY <2>2, <1>1, <1>3 DEF Sign
  <2> QED
    BY <2>1, <2>3 DEF more
<1> QED
  BY <1>2, <1>3

(* A number takes a digit,                                                  *)
LEMMA NumberMore ==
  ASSUME NEW text, IsSeq(text), NEW dot \in BOOLEAN, NEW s, NEW idx \in Nat,
         NumberFits(text, dot, s, idx), s[idx] \in Digits
  PROVE  NumberFits(Append(text, s[idx]), dot, s, idx + 1)
<1> DEFINE c == s[idx]
           more == Append(text, c)
<1>1. /\ IsSeq(more) /\ more # <<>> /\ Len(text) \in Nat /\ Len(more) = Len(text) + 1
      /\ \A k \in 1 .. Len(text) : more[k] = text[k]
      /\ more[Len(text) + 1] = c
      /\ text # <<>> <=> Len(text) > 0
  BY AppendSeq, SeqFacts
<1>2. c \in Digits /\ c # "." /\ c # "-"
  BY DEF Digits
<1>3. /\ Sign(text) \in {0, 1} /\ Sign(text) <= Len(text)
      /\ Sign(more) = Sign(text)
  BY <1>2, SignMore
<1>4. more = <<"0">> => Len(text) = 0 /\ c = "0"
  <2>1. more = <<"0">> => Len(more) = 1 /\ more[1] = "0"
    BY <1>1, OneUnit
  <2>2. Len(more) = 1 => Len(text) + 1 = 1
    BY <1>1
  <2> QED
    BY <2>1, <2>2, <1>1
<1> HIDE DEF more
<1>5. more # <<"0">>
  <2>1. text = <<>> => c # "0"
    BY DEF NumberFits
  <2> QED
    BY <2>1, <1>1, <1>4
<1> HIDE DEF c
<1>6. \A k \in 1 .. Len(more) : k \in 1 .. Len(text) \/ k = Len(text) + 1
  BY <1>1
<1>7. \A k \in 1 .. Len(more) : more[k] \in Digits \cup {"."} \/ (k = 1 /\ more[k] = "-")
  <2>1. \A k \in 1 .. Len(text) : text[k] \in Digits \cup {"."} \/ (k = 1 /\ text[k] = "-")
    BY DEF NumberFits
  <2> QED
    BY <2>1, <1>1, <1>2, <1>6
<1>8. ASSUME ~dot PROVE \A k \in 1 .. Len(more) : more[k] # "."
  <2>1. \A k \in 1 .. Len(text) : text[k] # "."
    BY <1>8 DEF NumberFits
  <2> QED
    BY <2>1, <1>1, <1>2, <1>6
<1>9. ASSUME dot
      PROVE  \E d \in (Sign(more) + 2) .. Len(more) :
               /\ more[d] = "."
               /\ \A k \in 1 .. Len(more) : k # d => more[k] # "."
  <2>1. PICK d \in (Sign(text) + 2) .. Len(text) :
          /\ text[d] = "."
          /\ \A k \in 1 .. Len(text) : k # d => text[k] # "."
    BY <1>9 DEF NumberFits
  <2>2. d \in 1 .. Len(text) /\ d \in (Sign(more) + 2) .. Len(more)
    BY <1>1, <1>3, <2>1
  <2>3. more[d] = "." /\ \A k \in 1 .. Len(more) : k # d => more[k] # "."
    BY <2>1, <2>2, <1>1, <1>2, <1>6
  <2> QED
    BY <2>2, <2>3
<1>10. Len(more) # Sign(more)
  BY <1>1, <1>3
<1> QED
  BY <1>1, <1>5, <1>7, <1>8, <1>9, <1>10 DEF NumberFits, more, c

(* ... and one dot.                                                         *)
LEMMA NumberDot ==
  ASSUME NEW text, IsSeq(text), NEW s, NEW idx \in Nat,
         NumberFits(text, FALSE, s, idx), s[idx] = "."
  PROVE  NumberFits(Append(text, s[idx]), TRUE, s, idx + 1)
<1> DEFINE c == s[idx]
           more == Append(text, c)
<1>1. /\ IsSeq(more) /\ more # <<>> /\ Len(text) \in Nat /\ Len(more) = Len(text) + 1
      /\ \A k \in 1 .. Len(text) : more[k] = text[k]
      /\ more[Len(text) + 1] = c
  BY AppendSeq, SeqFacts
<1>2. c = "." /\ c \notin Digits /\ c # "-"
  BY DEF Digits
<1>3. /\ Sign(text) \in {0, 1} /\ Sign(text) <= Len(text)
      /\ Sign(more) = Sign(text)
  BY <1>2, SignMore
<1>4. Len(text) # Sign(text)
  BY <1>2 DEF NumberFits
<1>5. Len(more) >= Sign(more) + 2
  BY <1>1, <1>3, <1>4
<1>6. more # <<"0">>
  <2>1. more = <<"0">> => Len(more) = 1
    BY <1>1, OneUnit
  <2>2. Len(more) # 1
    BY <1>1, <1>3, <1>5
  <2> QED
    BY <2>1, <2>2
<1> HIDE DEF more, c
<1>7. \A k \in 1 .. Len(more) : k \in 1 .. Len(text) \/ k = Len(text) + 1
  BY <1>1
<1>8. /\ \A k \in 1 .. Len(text) : text[k] \in Digits \cup {"."} \/ (k = 1 /\ text[k] = "-")
      /\ \A k \in 1 .. Len(text) : text[k] # "."
  BY DEF NumberFits
<1>9. \A k \in 1 .. Len(more) : more[k] \in Digits \cup {"."} \/ (k = 1 /\ more[k] = "-")
  BY <1>1, <1>2, <1>7, <1>8
<1>10. \E d \in (Sign(more) + 2) .. Len(more) :
         /\ more[d] = "."
         /\ \A k \in 1 .. Len(more) : k # d => more[k] # "."
  <2>1. Len(more) \in (Sign(more) + 2) .. Len(more)
    BY <1>1, <1>3, <1>5
  <2>2. \A k \in 1 .. Len(more) : k # Len(more) => more[k] # "."
    BY <1>1, <1>7, <1>8
  <2> QED
    BY <2>1, <2>2, <1>1, <1>2
<1>11. Len(more) # Sign(more)
  BY <1>1, <1>3, <1>5
<1> QED
  BY <1>1, <1>6, <1>9, <1>10, <1>11 DEF NumberFits, more, c

(* In a string a backslash begins an escape, and any unit ends one.         *)
LEMMA StringMore ==
  ASSUME NEW text, IsSeq(text), NEW m \in StringModes, StringFits(text, m), NEW c,
         m = "string" => c # Quote
  PROVE  StringFits(Append(text, c), IF m = "string" /\ c = "\\" THEN "string_escape" ELSE "string")
<1> DEFINE more == Append(text, c)
           then == IF m = "string" /\ c = "\\" THEN "string_escape" ELSE "string"
<1>1. /\ Len(text) \in Nat /\ Len(more) = Len(text) + 1
      /\ \A k \in 1 .. Len(text) : more[k] = text[k]
      /\ more[Len(text) + 1] = c
  BY AppendSeq, SeqFacts
<1>2. /\ \A k \in 1 .. Len(text) : text[k] = Quote => Backslashes(text, k - 1) % 2 = 1
      /\ \E n \in Nat : IsRun(text, Len(text), n) /\ n % 2 = IF m = "string" THEN 0 ELSE 1
  BY DEF StringFits
<1>3. PICK n \in Nat : IsRun(text, Len(text), n) /\ n % 2 = IF m = "string" THEN 0 ELSE 1
  BY <1>2
<1>4. Backslashes(text, Len(text)) = n
  BY <1>1, <1>3, RunIs
<1>5. \A k \in 0 .. Len(text) : Backslashes(more, k) = Backslashes(text, k)
  BY RunBefore
<1>6. /\ c = "\\" => IsRun(more, Len(text) + 1, n + 1)
      /\ c # "\\" => IsRun(more, Len(text) + 1, 0)
  BY <1>3, RunMore
<1> HIDE DEF more
<1>7. ASSUME NEW k \in 1 .. Len(more), more[k] = Quote
      PROVE  Backslashes(more, k - 1) % 2 = 1
  <2>1. CASE k \in 1 .. Len(text)
    <3>1. k - 1 \in 0 .. Len(text) /\ text[k] = Quote
      BY <2>1, <1>1, <1>7
    <3>2. Backslashes(more, k - 1) = Backslashes(text, k - 1)
      BY <3>1, <1>5
    <3>3. Backslashes(text, k - 1) % 2 = 1
      BY <2>1, <3>1, <1>2
    <3> QED
      BY <3>2, <3>3
  <2>2. CASE k = Len(text) + 1
    <3>1. k - 1 = Len(text) /\ Len(text) \in 0 .. Len(text)
      BY <2>2, <1>1
    <3>2. m # "string"
      BY <2>2, <1>1, <1>7
    <3>3. Backslashes(more, k - 1) = n
      BY <3>1, <1>4, <1>5
    <3> QED
      BY <3>2, <3>3, <1>3
  <2> QED
    BY <1>1, <2>1, <2>2
<1>8. (n % 2 = 0 => (n + 1) % 2 = 1) /\ (n % 2 = 1 => (n + 1) % 2 = 0) /\ 0 % 2 = 0 /\ n + 1 \in Nat
  BY <1>3
<1>9. \E r \in Nat : IsRun(more, Len(more), r) /\ r % 2 = IF then = "string" THEN 0 ELSE 1
  <2>1. CASE c = "\\"
    <3>1. (n + 1) % 2 = IF then = "string" THEN 0 ELSE 1
      BY <2>1, <1>3, <1>8
    <3> QED
      BY <3>1, <2>1, <1>1, <1>6, <1>8
  <2>2. CASE c # "\\"
    <3>1. 0 % 2 = IF then = "string" THEN 0 ELSE 1
      BY <2>2, <1>8
    <3> QED
      BY <3>1, <2>2, <1>1, <1>6
  <2> QED
    BY <2>1, <2>2
<1> QED
  BY <1>7, <1>9 DEF StringFits, more

----------------------------------------------------------------------------
(* What is said of a token whose id is a name, and of an operator.          *)
LEMMA NamesDiffer ==
  ASSUME NEW name \in Named, NEW id, id = <<name>>
  PROVE  /\ id \notin Operators /\ id # <<"-">> /\ id # <<"/">>
         /\ \A other \in Named : id = <<other>> <=> name = other
<1>1. id \notin Operators
  BY NamesAreNoOperators
<1>2. \A other : id = <<other>> <=> name = other
  OBVIOUS
<1>3. name # "-" /\ name # "/"
  BY DEF Named
<1> QED
  BY <1>1, <1>2, <1>3

(* How it is spelled,                                                       *)
LEMMA NamedSpelling ==
  ASSUME NEW name \in Named, NEW tok, tok.id = <<name>>
  PROVE  /\ name = "STR_LITERAL" => Spelling(tok) = <<Quote>> \o tok.text \o <<Quote>>
         /\ name = "CHAR_LITERAL" => Spelling(tok) = <<"'">> \o tok.text \o <<"'">>
         /\ name \notin {"STR_LITERAL", "CHAR_LITERAL"} => Spelling(tok) = tok.text
<1>1. /\ tok.id \notin Operators
      /\ tok.id = <<"STR_LITERAL">> <=> name = "STR_LITERAL"
      /\ tok.id = <<"CHAR_LITERAL">> <=> name = "CHAR_LITERAL"
  BY NamesDiffer DEF Named
<1> QED
  BY <1>1 DEF Spelling

(* ... what does not follow it,                                             *)
LEMMA NamedFollowers ==
  ASSUME NEW name \in Named, NEW tok, tok.id = <<name>>
  PROVE  /\ name = "INT_LITERAL" =>
              NeverAfter(tok) = Digits \cup {"."} \cup
                                (IF tok.text = <<"0">> THEN {"x", "b"} ELSE {})
         /\ name = "FLOAT_LITERAL" => NeverAfter(tok) = Digits \cup {"."}
         /\ name = "HEX_LITERAL" => NeverAfter(tok) = HexDigits
         /\ name = "BIN_LITERAL" => NeverAfter(tok) = BinDigits
         /\ name \in {"STR_LITERAL", "CHAR_LITERAL", "END_OF_FILE"} => NeverAfter(tok) = {}
         /\ name \in {"ret", "NULLPTR_LITERAL", "BOOL_LITERAL", "IDENTIFIER"} =>
              NeverAfter(tok) = Letters \cup Digits
<1>1. /\ tok.id \notin Operators /\ tok.id # <<"-">> /\ tok.id # <<"/">>
      /\ tok.id = <<"INT_LITERAL">> <=> name = "INT_LITERAL"
      /\ tok.id = <<"FLOAT_LITERAL">> <=> name = "FLOAT_LITERAL"
      /\ tok.id = <<"HEX_LITERAL">> <=> name = "HEX_LITERAL"
      /\ tok.id = <<"BIN_LITERAL">> <=> name = "BIN_LITERAL"
      /\ tok.id \in {<<"STR_LITERAL">>, <<"CHAR_LITERAL">>, <<"END_OF_FILE">>}
           <=> name \in {"STR_LITERAL", "CHAR_LITERAL", "END_OF_FILE"}
  BY NamesDiffer DEF Named
<1> QED
  BY <1>1 DEF NeverAfter

(* ... and what its text looks like.                                        *)
LEMMA NamedText ==
  ASSUME NEW name \in Named, NEW id, id = <<name>>, NEW text
  PROVE  LET unsigned == IF text # <<>> /\ text[1] = "-" THEN Tail(text) ELSE text
         IN  /\ name = "INT_LITERAL" => (IsTextOf(id, text) <=> IsNumber(unsigned))
             /\ name = "FLOAT_LITERAL" =>
                  (IsTextOf(id, text) <=>
                     \E dot \in 2 .. Len(unsigned) - 1 :
                       /\ unsigned[dot] = "."
                       /\ IsNumber(SubSeq(unsigned, 1, dot - 1))
                       /\ IsNumber(SubSeq(unsigned, dot + 1, Len(unsigned))))
             /\ name = "HEX_LITERAL" =>
                  (IsTextOf(id, text) <=>
                     /\ SubSeq(text, 1, 2) = <<"0", "x">>
                     /\ \A k \in 3 .. Len(text) : text[k] \in HexDigits)
             /\ name = "BIN_LITERAL" =>
                  (IsTextOf(id, text) <=>
                     /\ SubSeq(text, 1, 2) = <<"0", "b">>
                     /\ \A k \in 3 .. Len(text) : text[k] \in BinDigits)
             /\ name = "STR_LITERAL" =>
                  (IsTextOf(id, text) <=>
                     /\ \A k \in DOMAIN text : text[k] = Quote => Backslashes(text, k - 1) % 2 = 1
                     /\ Backslashes(text, Len(text)) % 2 = 0)
             /\ name = "CHAR_LITERAL" =>
                  (IsTextOf(id, text) <=>
                     \/ Len(text) = 1 /\ text # <<"\\">>
                     \/ Len(text) = 2 /\ text[1] = "\\")
             /\ name = "END_OF_FILE" => (IsTextOf(id, text) <=> text = <<>>)
             /\ name \in {"ret", "NULLPTR_LITERAL", "BOOL_LITERAL", "IDENTIFIER"} =>
                  (IsTextOf(id, text) <=>
                     /\ text # <<>> /\ text[1] \in Letters
                     /\ \A k \in DOMAIN text : text[k] \in Letters \cup Digits
                     /\ name = "NULLPTR_LITERAL" <=> text = <<"null_ptr">>
                     /\ name = "BOOL_LITERAL" <=> text = <<"true">>
                     /\ id \in Keywords \/ text \in Keywords => id = text)
<1>1. /\ id \notin Operators
      /\ id = <<"INT_LITERAL">> <=> name = "INT_LITERAL"
      /\ id = <<"FLOAT_LITERAL">> <=> name = "FLOAT_LITERAL"
      /\ id = <<"HEX_LITERAL">> <=> name = "HEX_LITERAL"
      /\ id = <<"BIN_LITERAL">> <=> name = "BIN_LITERAL"
      /\ id = <<"STR_LITERAL">> <=> name = "STR_LITERAL"
      /\ id = <<"CHAR_LITERAL">> <=> name = "CHAR_LITERAL"
      /\ id = <<"END_OF_FILE">> <=> name = "END_OF_FILE"
      /\ id = <<"NULLPTR_LITERAL">> <=> name = "NULLPTR_LITERAL"
      /\ id = <<"BOOL_LITERAL">> <=> name = "BOOL_LITERAL"
  BY NamesDiffer DEF Named
<1> QED
  BY <1>1 DEF IsTextOf

(* An operator is spelled by its id and has no text.                        *)
LEMMA OperatorArms ==
  ASSUME NEW tok, tok.id \in Operators
  PROVE  /\ Spelling(tok) = tok.id
         /\ \A name \in Named : tok.id # <<name>>
         /\ IsTextOf(tok.id, tok.text) <=> tok.text = <<>>
         /\ tok.id = <<"-">> => NeverAfter(tok) = Digits \cup {">", "-", "="}
         /\ tok.id = <<"/">> => NeverAfter(tok) = {"/", "="}
         /\ tok.id \notin {<<"-">>, <<"/">>} =>
              \A c \in NeverAfter(tok) : Append(tok.id, c) \in LongOperators
<1>1. \A name \in Named : tok.id # <<name>>
  BY NamesAreNoOperators
<1>2. /\ tok.id # <<"INT_LITERAL">> /\ tok.id # <<"FLOAT_LITERAL">>
      /\ tok.id # <<"HEX_LITERAL">> /\ tok.id # <<"BIN_LITERAL">>
      /\ tok.id # <<"STR_LITERAL">> /\ tok.id # <<"CHAR_LITERAL">>
      /\ tok.id # <<"END_OF_FILE">>
  BY <1>1 DEF Named
<1>3. Spelling(tok) = tok.id
  BY <1>2 DEF Spelling
<1>4. IsTextOf(tok.id, tok.text) <=> tok.text = <<>>
  BY <1>2 DEF IsTextOf
<1>5. tok.id \notin {<<"STR_LITERAL">>, <<"CHAR_LITERAL">>, <<"END_OF_FILE">>}
  BY <1>2
<1>6. tok.id = <<"-">> => NeverAfter(tok) = Digits \cup {">", "-", "="}
  <2>1. tok.id = <<"-">> => tok.id # <<"/">>
    OBVIOUS
  <2> QED
    BY <2>1, <1>2, <1>5 DEF NeverAfter
<1>7. tok.id = <<"/">> => tok.id # <<"-">>
  OBVIOUS
<1>8. tok.id = <<"/">> => NeverAfter(tok) = {"/", "="}
  BY <1>2, <1>5, <1>7 DEF NeverAfter
<1>9. tok.id \notin {<<"-">>, <<"/">>} =>
        NeverAfter(tok) = {c \in {"-", "+", "=", "<", ">", "&", "|", ":"} :
                             Append(tok.id, c) \in LongOperators}
  BY <1>2, <1>5 DEF NeverAfter
<1> QED
  BY <1>1, <1>3, <1>4, <1>6, <1>8, <1>9

(* The tokens, with one more.                                               *)
LEMMA LaidMore ==
  ASSUME NEW s, NEW toks, IsSeq(toks), NEW places \in Places, Laid(s, toks, places),
         NEW tok, NEW start \in Nat \ {0}, TokenAt(s, tok, start),
         Trivia(s, EndOf(toks, places, Len(toks)), start)
  PROVE  \E more \in Places :
           /\ Laid(s, Append(toks, tok), more)
           /\ EndOf(Append(toks, tok), more, Len(Append(toks, tok))) = start + Len(Spelling(tok))
<1> DEFINE n == Len(toks)
           all == Append(toks, tok)
           more == [k \in Nat |-> IF k = n + 1 THEN start ELSE places[k]]
<1>1. /\ n \in Nat /\ Len(all) = n + 1
      /\ \A k \in 1 .. n : all[k] = toks[k]
      /\ all[n + 1] = tok
  <2> HIDE DEF more
  <2>1. n \in Nat
    BY SeqFacts
  <2>2. /\ Len(all) = n + 1
        /\ \A k \in 1 .. n : all[k] = toks[k]
        /\ all[n + 1] = tok
    BY AppendSeq
  <2> QED
    BY <2>1, <2>2
<1>2. more \in Places /\ more[n + 1] = start /\ \A k \in Nat : k # n + 1 => more[k] = places[k]
  <2>1. n \in Nat
    BY <1>1
  <2> HIDE DEF n, all
  <2> QED
    BY <2>1 DEF Places
<1> HIDE DEF all, more
<1>3. ASSUME NEW k \in 0 .. n PROVE EndOf(all, more, k) = EndOf(toks, places, k)
  <2>1. k \in Nat /\ k # n + 1 /\ (k # 0 => k \in 1 .. n)
    BY <1>1
  <2> QED
    BY <2>1, <1>1, <1>2 DEF EndOf
<1>4. EndOf(all, more, n + 1) = start + Len(Spelling(tok))
  <2>1. n + 1 # 0
    BY <1>1
  <2> QED
    BY <2>1, <1>1, <1>2 DEF EndOf
<1>5. ASSUME NEW k \in 1 .. Len(all)
      PROVE  TokenAt(s, all[k], more[k]) /\ Trivia(s, EndOf(all, more, k - 1), more[k])
  <2>1. CASE k \in 1 .. n
    <3>1. k \in Nat /\ k # n + 1 /\ k - 1 \in 0 .. n
      BY <2>1, <1>1
    <3>2. all[k] = toks[k] /\ more[k] = places[k] /\ EndOf(all, more, k - 1) = EndOf(toks, places, k - 1)
      BY <2>1, <3>1, <1>1, <1>2, <1>3
    <3>3. TokenAt(s, toks[k], places[k]) /\ Trivia(s, EndOf(toks, places, k - 1), places[k])
      BY <2>1 DEF Laid
    <3> QED
      BY <3>2, <3>3
  <2>2. CASE k = n + 1
    <3>1. k - 1 = n /\ n \in 0 .. n
      BY <2>2, <1>1
    <3>2. EndOf(all, more, k - 1) = EndOf(toks, places, n)
      BY <3>1, <1>3
    <3> QED
      BY <2>2, <3>2, <1>1, <1>2
  <2> QED
    BY <1>1, <2>1, <2>2
<1>6. Laid(s, all, more)
  BY <1>5 DEF Laid
<1> QED
  BY <1>1, <1>2, <1>4, <1>6 DEF all

(* A token is returned.  Where it begins is where its text was copied from, *)
(* and it is not empty.                                                     *)
LEMMA ReturnStep ==
  ASSUME AInv, mode \in TokenModes, NEW id, NEW text, Return(id, text), Moves,
         NEW tok, tok = [id |-> id, line |-> t.line, col |-> t.col, text |-> text],
         id # <<"END_OF_FILE">>, IsTextOf(id, text),
         current_idx' <= Len(source) => source[current_idx'] \notin NeverAfter(tok),
         \A start \in Nat \ {0} :
           Begun(source, mode, t, start, current_idx) =>
             /\ IsSeq(Spelling(tok)) /\ Spelling(tok) # <<>>
             /\ Copied(source, start, Spelling(tok))
             /\ start + Len(Spelling(tok)) = current_idx'
  PROVE  AInv'
<1>1. tokens' = Append(tokens, tok) /\ mode' = "between" /\ t' = t /\ dot_found' = dot_found
  BY DEF Return
<1>2. Cursor' /\ source' = source
  BY MoveStep DEF AInv
<1>3. /\ IsSeq(source) /\ Len(source) \in Nat
      /\ current_idx' \in Nat \ {0} /\ current_idx' <= Len(source) + 1
  <2>1. IsSeq(source) /\ Len(source) \in Nat
    BY SourceFacts DEF AInv
  <2>2. current_idx' \in 1 .. Len(source) + 1
    BY <1>2 DEF Cursor
  <2> QED
    BY <2>1, <2>2
<1>4. mode # "eof"
  BY DEF TokenModes, PlainModes, QuotedModes, StringModes, CharModes
<1>5. PICK places \in Places, start \in Nat \ {0}, end \in Nat \ {0} :
        /\ Laid(source, tokens, places)
        /\ end = EndOf(tokens, places, Len(tokens))
        /\ Len(tokens) < end /\ end <= Len(source) + 1
        /\ Gap(source, mode, end, start, current_idx)
        /\ Begun(source, mode, t, start, current_idx)
  BY <1>4 DEF AInv, Scene
<1>6. end <= start /\ Trivia(source, end, start) /\ PlaceAt(source, start, t.line, t.col)
  BY <1>5 DEF Gap, Begun
<1>7. /\ IsSeq(Spelling(tok)) /\ Spelling(tok) # <<>>
      /\ Copied(source, start, Spelling(tok))
      /\ start + Len(Spelling(tok)) = current_idx'
  BY <1>5
<1>8. Len(Spelling(tok)) \in Nat /\ Len(Spelling(tok)) > 0
  BY <1>7, SeqFacts
<1>9. tok.id = id /\ tok.text = text /\ tok.line = t.line /\ tok.col = t.col
  OBVIOUS
<1>10. TokenAt(source, tok, start)
  BY <1>3, <1>6, <1>7, <1>9 DEF TokenAt
<1>11. IsSeq(tokens)
  BY DEF AInv, Finished
<1>12. PICK more \in Places :
         /\ Laid(source, Append(tokens, tok), more)
         /\ EndOf(Append(tokens, tok), more, Len(Append(tokens, tok))) = start + Len(Spelling(tok))
  BY <1>5, <1>6, <1>10, <1>11, LaidMore
<1>13. /\ IsSeq(tokens') /\ Len(tokens) \in Nat /\ Len(tokens') = Len(tokens) + 1
       /\ \A n \in 1 .. Len(tokens) : tokens'[n] = tokens[n]
       /\ tokens'[Len(tokens) + 1] = tok
  <2>1. Len(tokens) \in Nat
    BY <1>11, SeqFacts
  <2>2. /\ IsSeq(Append(tokens, tok)) /\ Len(Append(tokens, tok)) = Len(tokens) + 1
        /\ \A n \in 1 .. Len(tokens) : Append(tokens, tok)[n] = tokens[n]
        /\ Append(tokens, tok)[Len(tokens) + 1] = tok
    BY <1>11, AppendSeq
  <2> QED
    BY <2>1, <2>2, <1>1
<1>14. Len(tokens') < current_idx'
  BY <1>5, <1>6, <1>7, <1>8, <1>13
<1>15. Finished'
  <2>1. Len(tokens') <= Len(source') + 1
    BY <1>2, <1>3, <1>13, <1>14
  <2>2. ASSUME NEW n \in 1 .. Len(tokens') PROVE tokens'[n].id # <<"END_OF_FILE">>
    <3>1. n \in 1 .. Len(tokens) \/ n = Len(tokens) + 1
      BY <1>13
    <3>2. \A k \in 1 .. Len(tokens) : tokens[k].id # <<"END_OF_FILE">>
      BY <1>4 DEF AInv, Finished
    <3> QED
      BY <3>1, <3>2, <1>9, <1>13
  <2> QED
    BY <2>1, <2>2, <1>1, <1>13 DEF Finished
<1>16. Shape'
  <2>1. /\ mode' \in Modes /\ mode' \notin AskedModes
        /\ mode' \notin StringModes /\ mode' \notin CharModes
    BY <1>1 DEF Modes, AskedModes, StringModes, CharModes
  <2>2. TextFits(mode', t'.text, dot_found', source', current_idx')
    BY <1>1, <2>1 DEF TextFits
  <2>3. SlashFits(mode', source', current_idx')
    BY <1>1 DEF SlashFits
  <2> QED
    BY <2>1, <2>2, <2>3, <1>1 DEF AInv, Shape
<1>17. Scene'
  <2>1. /\ Laid(source', tokens', more)
        /\ current_idx' = EndOf(tokens', more, Len(tokens'))
        /\ Len(tokens') < current_idx' /\ current_idx' <= Len(source') + 1
    BY <1>1, <1>2, <1>3, <1>7, <1>12, <1>14
  <2>2. Trivia(source', current_idx', current_idx')
    BY <1>3, TriviaNone
  <2>3. Gap(source', mode', current_idx', current_idx', current_idx')
    BY <2>2, <1>1, <1>3 DEF Gap
  <2>4. Begun(source', mode', t', current_idx', current_idx')
    BY <1>1 DEF Begun, TokenModes, PlainModes, QuotedModes, StringModes, CharModes
  <2> QED
    BY <2>1, <2>3, <2>4, <1>3 DEF Scene
<1> QED
  BY <1>2, <1>15, <1>16, <1>17 DEF AInv

----------------------------------------------------------------------------
(* The texts that are returned are of their kind.                           *)
LEMMA WordId ==
  ASSUME NEW text
  PROVE  \E name \in {"ret", "NULLPTR_LITERAL", "BOOL_LITERAL", "IDENTIFIER"} :
           /\ IdentId(text) = <<name>>
           /\ name = "NULLPTR_LITERAL" <=> text = <<"null_ptr">>
           /\ name = "BOOL_LITERAL" <=> text = <<"true">>
           /\ <<name>> \in Keywords \/ text \in Keywords => <<name>> = text
<1>1. /\ \A a, c : <<a>> = <<c>> <=> a = c
      /\ \A id : id \in Keywords <=> id = <<"ret">>
  BY DEF Keywords
<1>2. CASE text = <<"ret">>
  <2>1. IdentId(text) = <<"ret">> /\ text # <<"null_ptr">> /\ text # <<"true">>
    BY <1>1, <1>2 DEF IdentId
  <2> QED
    BY <2>1, <1>1, <1>2
<1>3. CASE text = <<"null_ptr">>
  <2>1. text # <<"ret">> /\ text # <<"true">>
    BY <1>1, <1>3
  <2>2. IdentId(text) = <<"NULLPTR_LITERAL">> /\ <<"NULLPTR_LITERAL">> # <<"ret">>
    BY <2>1, <1>1, <1>3 DEF IdentId
  <2> QED
    BY <2>1, <2>2, <1>1, <1>3
<1>4. CASE text = <<"true">>
  <2>1. text # <<"ret">> /\ text # <<"null_ptr">>
    BY <1>1, <1>4
  <2>2. IdentId(text) = <<"BOOL_LITERAL">> /\ <<"BOOL_LITERAL">> # <<"ret">>
    BY <2>1, <1>1, <1>4 DEF IdentId
  <2> QED
    BY <2>1, <2>2, <1>1, <1>4
<1>5. CASE text # <<"ret">> /\ text # <<"null_ptr">> /\ text # <<"true">>
  <2>1. IdentId(text) = <<"IDENTIFIER">> /\ <<"IDENTIFIER">> # <<"ret">>
    BY <1>1, <1>5 DEF IdentId
  <2> QED
    BY <2>1, <1>1, <1>5
<1> QED
  BY <1>2, <1>3, <1>4, <1>5

(* A text without its sign.                                                 *)
Unsigned(text) == IF text # <<>> /\ text[1] = "-" THEN Tail(text) ELSE text

(* It is as long as the text, but for the sign.                             *)
LEMMA UnsignedIs ==
  ASSUME NEW text, IsSeq(text)
  PROVE  /\ Sign(text) \in {0, 1} /\ IsSeq(Unsigned(text)) /\ Len(text) \in Nat
         /\ Len(Unsigned(text)) = Len(text) - Sign(text) /\ Len(Unsigned(text)) \in Nat
         /\ \A k \in 1 .. Len(Unsigned(text)) : Unsigned(text)[k] = text[k + Sign(text)]
         /\ Sign(text) = 0 => (text # <<>> => text[1] # "-")
<1>1. Len(text) \in Nat /\ (text # <<>> <=> Len(text) > 0)
  BY SeqFacts
<1>2. CASE text # <<>> /\ text[1] = "-"
  <2>1. Sign(text) = 1 /\ Unsigned(text) = Tail(text)
    BY <1>2 DEF Sign, Unsigned
  <2>2. /\ IsSeq(Tail(text)) /\ Len(Tail(text)) = Len(text) - 1
        /\ \A k \in 1 .. (Len(text) - 1) : Tail(text)[k] = text[k + 1]
    BY <1>2, TailSeq
  <2>3. Len(text) - 1 \in Nat
    BY <1>1, <1>2
  <2> QED
    BY <2>1, <2>2, <2>3, <1>1
<1>3. CASE ~(text # <<>> /\ text[1] = "-")
  <2>1. Sign(text) = 0 /\ Unsigned(text) = text
    BY <1>3 DEF Sign, Unsigned
  <2>2. Len(text) = Len(text) - 0 /\ \A k \in 1 .. Len(text) : k + 0 = k
    BY <1>1
  <2> QED
    BY <2>1, <2>2, <1>1, <1>3
<1> QED
  BY <1>2, <1>3

(* Where no digit follows, a text with no dot is an integer's,              *)
LEMMA IntegerText ==
  ASSUME NEW text, IsSeq(text), NEW s, NEW idx, NumberFits(text, FALSE, s, idx),
         ~(idx <= Len(s) /\ s[idx] \in Digits)
  PROVE  IsTextOf(<<"INT_LITERAL">>, text)
<1> DEFINE u == Unsigned(text)
<1>1. /\ Sign(text) \in {0, 1} /\ IsSeq(u) /\ Len(text) \in Nat
      /\ Len(u) = Len(text) - Sign(text) /\ Len(u) \in Nat
      /\ \A k \in 1 .. Len(u) : u[k] = text[k + Sign(text)]
      /\ Sign(text) = 0 => (text # <<>> => text[1] # "-")
  BY UnsignedIs
<1>2. DOMAIN u = 1 .. Len(u) /\ (u # <<>> <=> Len(u) > 0)
  BY <1>1, SeqFacts
<1> HIDE DEF u
<1>3. Len(text) # Sign(text)
  BY DEF NumberFits
<1>4. u # <<>>
  <2>1. Len(u) > 0
    BY <1>1, <1>3
  <2> QED
    BY <2>1, <1>2
<1>5. ASSUME NEW k \in 1 .. Len(u) PROVE u[k] \in Digits
  <2> DEFINE j == k + Sign(text)
  <2>1. j \in 1 .. Len(text) /\ (j = 1 => Sign(text) = 0) /\ (Sign(text) = 0 => Len(text) > 0)
    BY <1>1
  <2>2. u[k] = text[j]
    BY <1>1
  <2> HIDE DEF j
  <2>3. text[j] \in Digits \cup {"."} \/ (j = 1 /\ text[j] = "-")
    BY <2>1 DEF NumberFits
  <2>4. text[j] # "."
    BY <2>1 DEF NumberFits
  <2>5. ~(j = 1 /\ text[j] = "-")
    <3>1. Len(text) > 0 => text # <<>>
      BY SeqFacts
    <3> QED
      BY <3>1, <2>1, <1>1
  <2> QED
    BY <2>2, <2>3, <2>4, <2>5
<1>6. IsNumber(u)
  BY <1>2, <1>4, <1>5 DEF IsNumber
<1>7. IsTextOf(<<"INT_LITERAL">>, text) <=> IsNumber(u)
  BY NamedText DEF Named, Unsigned, u
<1> QED
  BY <1>6, <1>7

(* ... and one whose dot is not its last unit is a float's.                 *)
LEMMA FloatText ==
  ASSUME NEW text, IsSeq(text), NEW s, NEW idx, NumberFits(text, TRUE, s, idx),
         text[Len(text)] # "."
  PROVE  IsTextOf(<<"FLOAT_LITERAL">>, text)
<1> DEFINE u == Unsigned(text)
<1>1. /\ Sign(text) \in {0, 1} /\ IsSeq(u) /\ Len(text) \in Nat
      /\ Len(u) = Len(text) - Sign(text) /\ Len(u) \in Nat
      /\ \A k \in 1 .. Len(u) : u[k] = text[k + Sign(text)]
      /\ Sign(text) = 0 => (text # <<>> => text[1] # "-")
  BY UnsignedIs
<1> HIDE DEF u
<1>2. PICK d \in (Sign(text) + 2) .. Len(text) :
        /\ text[d] = "."
        /\ \A k \in 1 .. Len(text) : k # d => text[k] # "."
  BY DEF NumberFits
<1> DEFINE e == d - Sign(text)
<1>3. d # Len(text)
  BY <1>2
<1>4. e \in 2 .. Len(u) - 1 /\ e \in Nat /\ e - 1 \in Nat /\ e + 1 \in Nat \ {0} /\ e + Sign(text) = d
  BY <1>1, <1>2, <1>3
<1>5. u[e] = "."
  <2>1. e \in 1 .. Len(u)
    BY <1>4, <1>1
  <2> QED
    BY <2>1, <1>1, <1>2, <1>4
<1> HIDE DEF e
<1>6. ASSUME NEW k \in 1 .. Len(u), k # e PROVE u[k] \in Digits
  <2> DEFINE j == k + Sign(text)
  <2>1. j \in 1 .. Len(text) /\ (j = 1 => Sign(text) = 0) /\ j # d /\ (Sign(text) = 0 => Len(text) > 0)
    BY <1>1, <1>4, <1>6
  <2>2. u[k] = text[j]
    BY <1>1
  <2> HIDE DEF j
  <2>3. text[j] \in Digits \cup {"."} \/ (j = 1 /\ text[j] = "-")
    BY <2>1 DEF NumberFits
  <2>4. text[j] # "."
    BY <2>1, <1>2
  <2>5. ~(j = 1 /\ text[j] = "-")
    <3>1. Len(text) > 0 => text # <<>>
      BY SeqFacts
    <3> QED
      BY <3>1, <2>1, <1>1
  <2> QED
    BY <2>2, <2>3, <2>4, <2>5
<1>7. ASSUME NEW i \in Nat \ {0}, NEW j \in Nat, i <= j, j <= Len(u), e \notin i .. j
      PROVE  IsNumber(SubSeq(u, i, j))
  <2> DEFINE part == SubSeq(u, i, j)
  <2>1. /\ IsSeq(part) /\ Len(part) = j + 1 - i
        /\ \A k \in 1 .. (j + 1 - i) : part[k] = u[i + k - 1]
    BY <1>1, <1>7, PartSeq
  <2>2. DOMAIN part = 1 .. Len(part) /\ (part # <<>> <=> Len(part) > 0)
    BY <2>1, SeqFacts
  <2> HIDE DEF part
  <2>3. Len(part) > 0
    BY <2>1, <1>7
  <2>4. ASSUME NEW k \in 1 .. Len(part) PROVE part[k] \in Digits
    <3>1. k \in 1 .. (j + 1 - i) /\ i + k - 1 \in 1 .. Len(u) /\ i + k - 1 \in i .. j
      BY <2>1, <1>1, <1>7
    <3>2. part[k] = u[i + k - 1] /\ i + k - 1 # e
      BY <3>1, <2>1, <1>7
    <3> QED
      BY <3>1, <3>2, <1>6
  <2> QED
    BY <2>2, <2>3, <2>4 DEF IsNumber, part
<1>8. IsNumber(SubSeq(u, 1, e - 1))
  <2>1. 1 <= e - 1 /\ e - 1 <= Len(u) /\ e \notin 1 .. (e - 1)
    BY <1>1, <1>4
  <2> QED
    BY <2>1, <1>4, <1>7
<1>9. IsNumber(SubSeq(u, e + 1, Len(u)))
  <2>1. e + 1 <= Len(u) /\ Len(u) <= Len(u) /\ e \notin (e + 1) .. Len(u)
    BY <1>1, <1>4
  <2> QED
    BY <2>1, <1>1, <1>4, <1>7
<1>10. IsTextOf(<<"FLOAT_LITERAL">>, text) <=>
         \E dot \in 2 .. Len(u) - 1 :
           /\ u[dot] = "."
           /\ IsNumber(SubSeq(u, 1, dot - 1)) /\ IsNumber(SubSeq(u, dot + 1, Len(u)))
  BY NamedText DEF Named, Unsigned, u
<1> QED
  BY <1>4, <1>5, <1>8, <1>9, <1>10

(* A prefix and digits.                                                     *)
LEMMA PrefixedText ==
  ASSUME NEW text, IsSeq(text)
  PROVE  /\ PrefixedFits(text, "x", HexDigits) => IsTextOf(<<"HEX_LITERAL">>, text)
         /\ PrefixedFits(text, "b", BinDigits) => IsTextOf(<<"BIN_LITERAL">>, text)
<1>1. ASSUME NEW prefix, Len(text) >= 2, text[1] = "0", text[2] = prefix
      PROVE  SubSeq(text, 1, 2) = <<"0", prefix>>
  <2> DEFINE part == SubSeq(text, 1, 2)
             pair == <<"0", prefix>>
  <2>1. 1 \in Nat \ {0} /\ 2 \in Nat /\ 1 <= 2 + 1 /\ 2 <= Len(text) /\ 2 + 1 - 1 = 2
    BY <1>1, SeqFacts
  <2>2. /\ IsSeq(part) /\ Len(part) = 2 + 1 - 1
        /\ \A k \in 1 .. (2 + 1 - 1) : part[k] = text[1 + k - 1]
    BY <2>1, PartSeq
  <2>3. pair \in Seq({"0", prefix}) /\ Len(pair) = 2 /\ pair[1] = "0" /\ pair[2] = prefix
    OBVIOUS
  <2> HIDE DEF part, pair
  <2>4. IsSeq(pair) /\ \A k \in 1 .. 2 : k = 1 \/ k = 2
    BY <2>3, SeqOfItsOwn
  <2>5. part[1] = "0" /\ part[2] = prefix
    <3>1. 1 \in 1 .. (2 + 1 - 1) /\ 2 \in 1 .. (2 + 1 - 1) /\ 1 + 1 - 1 = 1 /\ 1 + 2 - 1 = 2
      OBVIOUS
    <3> QED
      BY <3>1, <2>2, <1>1
  <2>6. part = pair
    BY <2>1, <2>2, <2>3, <2>4, <2>5, SameSeq
  <2> QED
    BY <2>6 DEF part, pair
<1>2. ASSUME PrefixedFits(text, "x", HexDigits) PROVE IsTextOf(<<"HEX_LITERAL">>, text)
  <2>1. IsTextOf(<<"HEX_LITERAL">>, text) <=>
          /\ SubSeq(text, 1, 2) = <<"0", "x">>
          /\ \A k \in 3 .. Len(text) : text[k] \in HexDigits
    BY NamedText DEF Named
  <2> QED
    BY <2>1, <1>1, <1>2 DEF PrefixedFits
<1>3. ASSUME PrefixedFits(text, "b", BinDigits) PROVE IsTextOf(<<"BIN_LITERAL">>, text)
  <2>1. IsTextOf(<<"BIN_LITERAL">>, text) <=>
          /\ SubSeq(text, 1, 2) = <<"0", "b">>
          /\ \A k \in 3 .. Len(text) : text[k] \in BinDigits
    BY NamedText DEF Named
  <2> QED
    BY <2>1, <1>1, <1>3 DEF PrefixedFits
<1> QED
  BY <1>2, <1>3

(* The text of a string that a quote may close,                             *)
LEMMA StringText ==
  ASSUME NEW text, IsSeq(text), StringFits(text, "string")
  PROVE  IsTextOf(<<"STR_LITERAL">>, text)
<1>1. Len(text) \in Nat /\ DOMAIN text = 1 .. Len(text)
  BY SeqFacts
<1>2. PICK n \in Nat : IsRun(text, Len(text), n) /\ n % 2 = 0
  BY DEF StringFits
<1>3. Backslashes(text, Len(text)) % 2 = 0
  BY <1>1, <1>2, RunIs
<1>4. \A k \in 1 .. Len(text) : text[k] = Quote => Backslashes(text, k - 1) % 2 = 1
  BY DEF StringFits
<1>5. IsTextOf(<<"STR_LITERAL">>, text) <=>
        /\ \A k \in DOMAIN text : text[k] = Quote => Backslashes(text, k - 1) % 2 = 1
        /\ Backslashes(text, Len(text)) % 2 = 0
  BY NamedText DEF Named
<1> QED
  BY <1>1, <1>3, <1>4, <1>5

(* ... and that of a character.                                             *)
LEMMA CharText ==
  ASSUME NEW text, IsSeq(text), CharFits(text, "char_end")
  PROVE  IsTextOf(<<"CHAR_LITERAL">>, text)
<1>1. \/ Len(text) = 1 /\ text[1] # "\\"
      \/ Len(text) = 2 /\ text[1] = "\\"
  BY DEF CharFits
<1>2. text = <<"\\">> => text[1] = "\\"
  BY OneUnit
<1>3. IsTextOf(<<"CHAR_LITERAL">>, text) <=>
        \/ Len(text) = 1 /\ text # <<"\\">>
        \/ Len(text) = 2 /\ text[1] = "\\"
  BY NamedText DEF Named
<1> QED
  BY <1>1, <1>2, <1>3

(* A character, and what an escape takes.                                   *)
LEMMA CharMore ==
  ASSUME NEW text, IsSeq(text), NEW c
  PROVE  /\ CharFits(text, "char") /\ c = "\\" => CharFits(Append(text, c), "char_escape")
         /\ CharFits(text, "char") /\ c # "\\" => CharFits(Append(text, c), "char_end")
         /\ CharFits(text, "char_escape") => CharFits(Append(text, c), "char_end")
<1> DEFINE more == Append(text, c)
<1>1. /\ IsSeq(more) /\ Len(text) \in Nat /\ Len(more) = Len(text) + 1
      /\ \A k \in 1 .. Len(text) : more[k] = text[k]
      /\ more[Len(text) + 1] = c
  BY AppendSeq, SeqFacts
<1>2. /\ CharFits(text, "char") => Len(text) = 0
      /\ CharFits(text, "char_escape") => Len(text) = 1 /\ text[1] = "\\"
  BY OneUnit, SeqFacts DEF CharFits
<1>3. more = <<"\\">> <=> Len(more) = 1 /\ more[1] = "\\"
  BY <1>1, OneUnit
<1> HIDE DEF more
<1>4. /\ CharFits(text, "char") => Len(more) = 1 /\ more[1] = c
      /\ CharFits(text, "char_escape") => Len(more) = 2 /\ more[1] = "\\"
  BY <1>1, <1>2
<1>5. /\ CharFits(more, "char_escape") <=> more = <<"\\">>
      /\ CharFits(more, "char_end") <=> \/ Len(more) = 1 /\ more[1] # "\\"
                                        \/ Len(more) = 2 /\ more[1] = "\\"
  BY DEF CharFits
<1> QED
  BY <1>3, <1>4, <1>5 DEF more

----------------------------------------------------------------------------
(* A literal with no quotes, or a word, is returned.                        *)
LEMMA PlainReturn ==
  ASSUME AInv, mode \in PlainModes,
         NEW name \in Named, name \notin {"STR_LITERAL", "CHAR_LITERAL", "END_OF_FILE"},
         Return(<<name>>, t.text), Stay, t.text # <<>>, IsTextOf(<<name>>, t.text),
         \A tok : /\ tok.id = <<name>> /\ tok.text = t.text /\ ~AtEof
                  => source[current_idx] \notin NeverAfter(tok)
  PROVE  AInv'
<1> DEFINE tok == [id |-> <<name>>, line |-> t.line, col |-> t.col, text |-> t.text]
<1>1. tok.id = <<name>> /\ tok.text = t.text
  OBVIOUS
<1>2. tok = [id |-> <<name>>, line |-> t.line, col |-> t.col, text |-> t.text]
  OBVIOUS
<1> HIDE DEF tok
<1>3. Spelling(tok) = t.text
  BY <1>1, NamedSpelling
<1>4. <<name>> # <<"END_OF_FILE">>
  OBVIOUS
<1>5. current_idx' = current_idx /\ (current_idx <= Len(source) <=> ~AtEof)
  BY StayStep, SourceFacts DEF AInv
<1>6. IsSeq(t.text)
  BY DEF AInv, Shape
<1>7. mode \in TokenModes /\ Quotes(mode) = 0
  BY DEF TokenModes, PlainModes, Quotes, QuotedModes, StringModes, CharModes
<1>8. ASSUME NEW start \in Nat \ {0}, Begun(source, mode, t, start, current_idx)
      PROVE  Copied(source, start, t.text) /\ start + Len(t.text) = current_idx'
  <2>1. /\ current_idx = start + Quotes(mode) + Len(t.text)
        /\ Copied(source, start + Quotes(mode), t.text)
    BY <1>7, <1>8 DEF Begun
  <2>2. start + Quotes(mode) = start
    BY <1>7
  <2> QED
    BY <2>1, <2>2, <1>5
<1>9. current_idx' <= Len(source) => source[current_idx'] \notin NeverAfter(tok)
  BY <1>1, <1>5
<1>10. Moves
  BY DEF Moves
<1> QED
  BY <1>2, <1>3, <1>4, <1>6, <1>7, <1>8, <1>9, <1>10, ReturnStep

(* The letters and digits of a word, up to the first other unit.            *)
LEMMA ParseIdentStep ==
  ASSUME AInv, ParseIdent
  PROVE  AInv'
<1>1. mode = "ident" /\ mode \in TokenModes /\ mode \in PlainModes
  BY DEF ParseIdent, TokenModes, PlainModes
<1>2. IsSeq(t.text) /\ WordFits(t.text, source, current_idx) /\ dot_found \in BOOLEAN
  BY <1>1 DEF AInv, Shape, TextFits
<1>3. /\ current_idx \in Nat \ {0} /\ Peek(0) = source[current_idx]
      /\ current_idx <= Len(source) <=> ~AtEof
  BY SourceFacts DEF AInv
<1>4. /\ mode \notin StringModes /\ mode \notin CharModes /\ mode \notin AskedModes
  BY <1>1 DEF StringModes, CharModes, AskedModes
<1>5. CASE IsNextIn(Letters \cup Digits)
  <2>1. ~AtEof /\ source[current_idx] \in Letters \cup Digits
    BY <1>3, <1>5 DEF IsNextIn
  <2>2. /\ PushText /\ mode' = mode /\ Advance /\ dot_found' = dot_found /\ tokens' = tokens
    BY <1>1, <1>5 DEF ParseIdent, Take
  <2>3. TextFits(mode, Append(t.text, source[current_idx]), dot_found, source, current_idx + 1)
    <3>1. WordFits(Append(t.text, source[current_idx]), source, current_idx + 1)
      BY <1>2, <1>3, <2>1, WordMore
    <3> QED
      BY <3>1, <1>1, <1>4 DEF TextFits
  <2> QED
    BY <1>1, <1>2, <1>4, <2>1, <2>2, <2>3, TakeStep
<1>6. CASE ~IsNextIn(Letters \cup Digits)
  <2>1. Return(IdentId(t.text), t.text) /\ Stay
    BY <1>6 DEF ParseIdent
  <2>2. ~AtEof => source[current_idx] \notin Letters \cup Digits
    BY <1>3, <1>6 DEF IsNextIn
  <2>3. t.text # <<>>
    BY <1>2, <1>3, <2>2 DEF WordFits
  <2>4. PICK name \in {"ret", "NULLPTR_LITERAL", "BOOL_LITERAL", "IDENTIFIER"} :
          /\ IdentId(t.text) = <<name>>
          /\ name = "NULLPTR_LITERAL" <=> t.text = <<"null_ptr">>
          /\ name = "BOOL_LITERAL" <=> t.text = <<"true">>
          /\ <<name>> \in Keywords \/ t.text \in Keywords => <<name>> = t.text
    BY WordId
  <2>5. name \in Named /\ name \notin {"STR_LITERAL", "CHAR_LITERAL", "END_OF_FILE"}
    BY DEF Named
  <2>6. DOMAIN t.text = 1 .. Len(t.text)
    BY <1>2, SeqFacts
  <2>7. IsTextOf(<<name>>, t.text)
    <3>1. IsTextOf(<<name>>, t.text) <=>
            /\ t.text # <<>> /\ t.text[1] \in Letters
            /\ \A k \in DOMAIN t.text : t.text[k] \in Letters \cup Digits
            /\ name = "NULLPTR_LITERAL" <=> t.text = <<"null_ptr">>
            /\ name = "BOOL_LITERAL" <=> t.text = <<"true">>
            /\ <<name>> \in Keywords \/ t.text \in Keywords => <<name>> = t.text
      BY <2>5, NamedText
    <3> QED
      BY <3>1, <1>2, <2>3, <2>4, <2>6 DEF WordFits
  <2>8. ASSUME NEW tok, tok.id = <<name>>, tok.text = t.text, ~AtEof
        PROVE  source[current_idx] \notin NeverAfter(tok)
    BY <2>2, <2>5, <2>8, NamedFollowers
  <2> QED
    BY <1>1, <2>1, <2>3, <2>4, <2>5, <2>7, <2>8, PlainReturn
<1> QED
  BY <1>5, <1>6

(* The digits after a prefix: hexadecimal ones and binary ones.             *)
LEMMA DigitsStep ==
  ASSUME AInv, NEW m \in {"hex", "bin"}, NEW prefix, NEW digits, NEW name \in Named,
         \/ m = "hex" /\ prefix = "x" /\ digits = HexDigits /\ name = "HEX_LITERAL"
         \/ m = "bin" /\ prefix = "b" /\ digits = BinDigits /\ name = "BIN_LITERAL",
         mode = m,
         IF IsNextIn(digits) THEN Take(m) ELSE Return(<<name>>, t.text) /\ Stay
  PROVE  AInv'
<1>1. mode \in TokenModes /\ mode \in PlainModes
  BY DEF TokenModes, PlainModes
<1>2. IsSeq(t.text) /\ PrefixedFits(t.text, prefix, digits) /\ dot_found \in BOOLEAN
  BY DEF AInv, Shape, TextFits
<1>3. /\ current_idx \in Nat \ {0} /\ Peek(0) = source[current_idx]
      /\ current_idx <= Len(source) <=> ~AtEof
  BY SourceFacts DEF AInv
<1>4. /\ mode \notin StringModes /\ mode \notin CharModes /\ mode \notin AskedModes
  BY DEF StringModes, CharModes, AskedModes
<1>5. CASE IsNextIn(digits)
  <2>1. ~AtEof /\ source[current_idx] \in digits
    BY <1>3, <1>5 DEF IsNextIn
  <2>2. /\ PushText /\ mode' = mode /\ Advance /\ dot_found' = dot_found /\ tokens' = tokens
    BY <1>5 DEF Take
  <2>3. PrefixedFits(Append(t.text, source[current_idx]), prefix, digits)
    BY <1>2, <2>1, PrefixedMore
  <2>4. TextFits(mode, Append(t.text, source[current_idx]), dot_found, source, current_idx + 1)
    BY <2>3, <1>4 DEF TextFits
  <2> QED
    BY <1>1, <1>2, <1>4, <2>1, <2>2, <2>4, TakeStep
<1>6. CASE ~IsNextIn(digits)
  <2>1. Return(<<name>>, t.text) /\ Stay
    BY <1>6
  <2>2. ~AtEof => source[current_idx] \notin digits
    BY <1>3, <1>6 DEF IsNextIn
  <2>3. t.text # <<>>
    BY <1>2, SeqFacts DEF PrefixedFits
  <2>4. IsTextOf(<<name>>, t.text)
    BY <1>2, PrefixedText
  <2>5. name \notin {"STR_LITERAL", "CHAR_LITERAL", "END_OF_FILE"}
    OBVIOUS
  <2>6. ASSUME NEW tok, tok.id = <<name>>, tok.text = t.text, ~AtEof
        PROVE  source[current_idx] \notin NeverAfter(tok)
    <3>1. NeverAfter(tok) = digits
      BY <2>6, NamedFollowers
    <3> QED
      BY <3>1, <2>2, <2>6
  <2> QED
    BY <1>1, <2>1, <2>3, <2>4, <2>5, <2>6, PlainReturn
<1> QED
  BY <1>5, <1>6

(* The hexadecimal ones,                                                    *)
LEMMA ParseHexStep ==
  ASSUME AInv, ParseHex
  PROVE  AInv'
<1>1. /\ mode = "hex"
      /\ IF IsNextIn(HexDigits) THEN Take("hex") ELSE Return(<<"HEX_LITERAL">>, t.text) /\ Stay
  BY DEF ParseHex
<1>2. "HEX_LITERAL" \in Named
  BY DEF Named
<1> QED
  BY <1>1, <1>2, DigitsStep

(* ... and the binary ones.                                                 *)
LEMMA ParseBinStep ==
  ASSUME AInv, ParseBin
  PROVE  AInv'
<1>1. /\ mode = "bin"
      /\ IF IsNextIn(BinDigits) THEN Take("bin") ELSE Return(<<"BIN_LITERAL">>, t.text) /\ Stay
  BY DEF ParseBin
<1>2. "BIN_LITERAL" \in Named
  BY DEF Named
<1> QED
  BY <1>1, <1>2, DigitsStep

(* A prefix, or a number that begins with a zero.                           *)
LEMMA ParsePrefixStep ==
  ASSUME AInv, ParsePrefix
  PROVE  AInv'
<1>1. mode = "prefix" /\ mode \in TokenModes /\ mode # "eof"
  BY DEF ParsePrefix, TokenModes, PlainModes
<1>2. /\ IsSeq(t.text) /\ t.text = <<"0">> /\ ~dot_found /\ dot_found \in BOOLEAN
      /\ current_idx <= Len(source)
  BY <1>1 DEF AInv, Shape, TextFits, AskedModes
<1>3. /\ ~AtEof /\ Peek(0) = source[current_idx] /\ current_idx \in Nat \ {0}
      /\ IsPeekWithinRange(1) <=> current_idx + 1 <= Len(source)
  BY <1>2, SourceFacts DEF AInv
<1>4. \A m \in {"prefix", "number", "hex", "bin"} :
        m \in TokenModes /\ m \notin StringModes /\ m \notin CharModes
  BY DEF TokenModes, PlainModes, StringModes, CharModes
<1>5. ASSUME NEW m \in {"hex", "bin"}, TakeBeforeMore(m),
             \/ m = "hex" /\ source[current_idx] = "x"
             \/ m = "bin" /\ source[current_idx] = "b"
      PROVE  AInv'
  <2>1. CASE ~IsPeekWithinRange(1)
    BY <1>1, <1>5, <2>1, EndStep DEF TakeBeforeMore
  <2>2. CASE IsPeekWithinRange(1)
    <3>1. /\ PushText /\ mode' = m /\ Advance /\ dot_found' = dot_found /\ tokens' = tokens
      BY <1>5, <2>2 DEF TakeBeforeMore, Take
    <3>2. \A digits : PrefixedFits(Append(t.text, source[current_idx]), source[current_idx], digits)
      BY <1>2, PrefixedFirst
    <3>3. TextFits(m, Append(t.text, source[current_idx]), dot_found, source, current_idx + 1)
      BY <3>2, <1>4, <1>5 DEF TextFits
    <3> QED
      BY <1>1, <1>2, <1>3, <1>4, <2>2, <3>1, <3>3, TakeStep
  <2> QED
    BY <2>1, <2>2
<1>6. CASE source[current_idx] = "x"
  BY <1>3, <1>5, <1>6 DEF ParsePrefix
<1>7. CASE source[current_idx] = "b"
  BY <1>3, <1>5, <1>7 DEF ParsePrefix
<1>8. CASE source[current_idx] # "x" /\ source[current_idx] # "b"
  <2>1. mode' = "number" /\ Stay /\ UNCHANGED <<t, dot_found, tokens>>
    BY <1>3, <1>8 DEF ParsePrefix, Goto
  <2>2. Moves /\ source' = source /\ current_idx' = current_idx
    BY <2>1, StayStep DEF Moves, AInv
  <2>3. NumberFits(t.text, FALSE, source, current_idx)
    <3>1. Len(t.text) = 1 /\ t.text[1] = "0" /\ t.text # <<>>
      BY <1>2, OneUnit, SeqFacts
    <3>2. Sign(t.text) = 0 /\ \A k \in 1 .. Len(t.text) : t.text[k] = "0"
      BY <3>1 DEF Sign
    <3>3. "0" \in Digits
      BY DEF Digits
    <3> QED
      BY <3>1, <3>2, <3>3, <1>8 DEF NumberFits
  <2>4. TextFits(mode', t'.text, dot_found', source', current_idx')
    <3>1. dot_found = FALSE
      BY <1>2
    <3> QED
      BY <3>1, <2>1, <2>2, <2>3, <1>4 DEF TextFits
  <2>5. Shape'
    <3>1. mode' \in Modes /\ mode' \notin AskedModes
      BY <2>1 DEF Modes, AskedModes
    <3>2. SlashFits(mode', source', current_idx')
      BY <2>1 DEF SlashFits
    <3> QED
      BY <3>1, <3>2, <2>1, <2>4 DEF AInv, Shape
  <2>6. Quotes(mode') = 0 /\ Quotes(mode) = 0
    BY <1>1, <2>1 DEF Quotes, QuotedModes, StringModes, CharModes
  <2>7. ASSUME NEW start \in Nat \ {0}, NEW end \in Nat \ {0},
               Gap(source, mode, end, start, current_idx),
               Begun(source, mode, t, start, current_idx)
        PROVE  /\ Gap(source, mode', end, start, current_idx')
               /\ Begun(source, mode', t', start, current_idx')
    <3>1. end <= start /\ Trivia(source, end, start)
      BY <1>1, <2>7 DEF Gap
    <3>2. Gap(source, mode', end, start, current_idx')
      BY <3>1, <2>1 DEF Gap
    <3>3. Begun(source, mode', t', start, current_idx')
      BY <1>1, <1>4, <2>1, <2>2, <2>6, <2>7 DEF Begun
    <3> QED
      BY <3>2, <3>3
  <2> QED
    BY <1>1, <2>1, <2>2, <2>5, <2>7, GoOn
<1> QED
  BY <1>6, <1>7, <1>8

(* The digits of a number and its dot, up to the first other unit.          *)
LEMMA ParseIntOrFltStep ==
  ASSUME AInv, ParseIntOrFlt
  PROVE  AInv'
<1>1. mode = "number" /\ mode \in TokenModes /\ mode \in PlainModes /\ mode # "eof"
  BY DEF ParseIntOrFlt, TokenModes, PlainModes
<1>2. IsSeq(t.text) /\ NumberFits(t.text, dot_found, source, current_idx) /\ dot_found \in BOOLEAN
  BY <1>1 DEF AInv, Shape, TextFits
<1>3. /\ current_idx \in Nat \ {0} /\ Peek(0) = source[current_idx]
      /\ current_idx <= Len(source) <=> ~AtEof
  BY SourceFacts DEF AInv
<1>4. /\ mode \notin StringModes /\ mode \notin CharModes /\ mode \notin AskedModes
  BY <1>1 DEF StringModes, CharModes, AskedModes
<1>5. CASE IsNextIn(Digits) /\ Take("number")
  <2>1. ~AtEof /\ source[current_idx] \in Digits
    BY <1>3, <1>5 DEF IsNextIn
  <2>2. /\ PushText /\ mode' = mode /\ Advance /\ dot_found' = dot_found /\ tokens' = tokens
    BY <1>1, <1>5 DEF Take
  <2>3. NumberFits(Append(t.text, source[current_idx]), dot_found, source, current_idx + 1)
    BY <1>2, <1>3, <2>1, NumberMore
  <2>4. TextFits(mode, Append(t.text, source[current_idx]), dot_found, source, current_idx + 1)
    BY <2>3, <1>1, <1>4 DEF TextFits
  <2> QED
    BY <1>1, <1>2, <1>4, <2>1, <2>2, <2>4, TakeStep
<1>6. CASE /\ IsNextIn({"."}) /\ ~dot_found
           /\ PushText /\ dot_found' = TRUE
           /\ Advance /\ UNCHANGED <<mode, tokens>>
  <2>1. ~AtEof /\ source[current_idx] = "."
    BY <1>3, <1>6 DEF IsNextIn
  <2>2. NumberFits(t.text, FALSE, source, current_idx)
    <3>1. dot_found = FALSE
      BY <1>2, <1>6
    <3> QED
      BY <3>1, <1>2
  <2>3. NumberFits(Append(t.text, source[current_idx]), TRUE, source, current_idx + 1)
    BY <1>2, <1>3, <2>1, <2>2, NumberDot
  <2>4. TextFits(mode, Append(t.text, source[current_idx]), TRUE, source, current_idx + 1)
    BY <2>3, <1>1, <1>4 DEF TextFits
  <2> QED
    BY <1>1, <1>2, <1>4, <1>6, <2>1, <2>4, TakeStep
<1>7. CASE Exit
  BY <1>1, <1>7, EndStep
<1>8. CASE /\ ~IsNextIn(Digits \cup {"."}) /\ ~(dot_found /\ Last(t.text) = ".")
           /\ Return(IF dot_found THEN <<"FLOAT_LITERAL">> ELSE <<"INT_LITERAL">>, t.text) /\ Stay
  <2>1. ~AtEof => source[current_idx] \notin Digits \cup {"."}
    BY <1>3, <1>8 DEF IsNextIn
  <2>2. t.text # <<>>
    <3>1. Sign(<<>>) = 0 /\ Len(<<>>) = 0
      BY ShortSeqs DEF Sign
    <3> QED
      BY <3>1, <1>2, <1>3, <2>1 DEF NumberFits
  <2>3. CASE dot_found
    <3>1. Return(<<"FLOAT_LITERAL">>, t.text) /\ dot_found = TRUE /\ t.text[Len(t.text)] # "."
      BY <1>2, <1>8, <2>3 DEF Last
    <3>2. IsTextOf(<<"FLOAT_LITERAL">>, t.text)
      BY <1>2, <3>1, FloatText
    <3>3. /\ "FLOAT_LITERAL" \in Named
          /\ "FLOAT_LITERAL" \notin {"STR_LITERAL", "CHAR_LITERAL", "END_OF_FILE"}
      BY DEF Named
    <3>4. ASSUME NEW tok, tok.id = <<"FLOAT_LITERAL">>, tok.text = t.text, ~AtEof
          PROVE  source[current_idx] \notin NeverAfter(tok)
      <4>1. NeverAfter(tok) = Digits \cup {"."}
        BY <3>3, <3>4, NamedFollowers
      <4> QED
        BY <4>1, <2>1, <3>4
    <3> QED
      BY <1>1, <1>8, <2>2, <3>1, <3>2, <3>3, <3>4, PlainReturn
  <2>4. CASE ~dot_found
    <3>1. Return(<<"INT_LITERAL">>, t.text) /\ dot_found = FALSE
      BY <1>2, <1>8, <2>4
    <3>2. IsTextOf(<<"INT_LITERAL">>, t.text)
      <4>1. NumberFits(t.text, FALSE, source, current_idx)
        BY <1>2, <3>1
      <4>2. ~(current_idx <= Len(source) /\ source[current_idx] \in Digits)
        BY <1>3, <2>1
      <4> QED
        BY <1>2, <4>1, <4>2, IntegerText
    <3>3. /\ "INT_LITERAL" \in Named
          /\ "INT_LITERAL" \notin {"STR_LITERAL", "CHAR_LITERAL", "END_OF_FILE"}
      BY DEF Named
    <3>4. ASSUME NEW tok, tok.id = <<"INT_LITERAL">>, tok.text = t.text, ~AtEof
          PROVE  source[current_idx] \notin NeverAfter(tok)
      <4>1. NeverAfter(tok) = Digits \cup {"."} \cup
                              (IF t.text = <<"0">> THEN {"x", "b"} ELSE {})
        BY <3>3, <3>4, NamedFollowers
      <4>2. t.text = <<"0">> => source[current_idx] \notin {"x", "b"}
        BY <1>2, <1>3, <3>4 DEF NumberFits
      <4> QED
        BY <4>1, <4>2, <2>1, <3>4
    <3> QED
      BY <1>1, <1>8, <2>2, <3>1, <3>2, <3>3, <3>4, PlainReturn
  <2> QED
    BY <2>3, <2>4
<1> QED
  BY <1>5, <1>6, <1>7, <1>8 DEF ParseIntOrFlt

(* The text and its quotes end where the one that closes it does.           *)
LEMMA QuotedUpTo ==
  ASSUME NEW s, NEW i \in Nat \ {0}, NEW text, IsSeq(text), NEW q, NEW idx,
         s[i] = q, Copied(s, i + 1, text), idx = i + 1 + Len(text), s[idx] = q
  PROVE  /\ IsSeq(<<q>> \o text \o <<q>>) /\ <<q>> \o text \o <<q>> # <<>>
         /\ Copied(s, i, <<q>> \o text \o <<q>>)
         /\ i + Len(<<q>> \o text \o <<q>>) = idx + 1
<1> DEFINE all == <<q>> \o text \o <<q>>
<1>1. s[i + 1 + Len(text)] = q
  OBVIOUS
<1>2. IsSeq(all) /\ Len(all) = Len(text) + 2 /\ Copied(s, i, all)
  BY <1>1, Quoted
<1>3. Len(text) \in Nat
  BY SeqFacts
<1> HIDE DEF all
<1>4. Len(all) > 0 /\ i + Len(all) = idx + 1
  BY <1>2, <1>3
<1>5. all # <<>>
  BY <1>2, <1>4, SeqFacts
<1> QED
  BY <1>2, <1>4, <1>5 DEF all

(* A literal in quotes is returned, past the one that closes it.            *)
LEMMA QuotedReturn ==
  ASSUME AInv, NEW name, NEW q,
         \/ mode = "string" /\ name = "STR_LITERAL" /\ q = Quote
         \/ mode = "char_end" /\ name = "CHAR_LITERAL" /\ q = "'",
         ~AtEof, source[current_idx] = q, Advance,
         Return(<<name>>, t.text), IsTextOf(<<name>>, t.text)
  PROVE  AInv'
<1> DEFINE tok == [id |-> <<name>>, line |-> t.line, col |-> t.col, text |-> t.text]
<1>1. tok.id = <<name>> /\ tok.text = t.text
  OBVIOUS
<1>2. tok = [id |-> <<name>>, line |-> t.line, col |-> t.col, text |-> t.text]
  OBVIOUS
<1> HIDE DEF tok
<1>3. name \in Named
  BY DEF Named
<1>4. Spelling(tok) = <<q>> \o t.text \o <<q>>
  BY <1>1, <1>3, NamedSpelling
<1>5. NeverAfter(tok) = {}
  BY <1>1, <1>3, NamedFollowers
<1>6. <<name>> # <<"END_OF_FILE">>
  OBVIOUS
<1>7. IsSeq(t.text) /\ Len(t.text) \in Nat /\ current_idx \in Nat \ {0}
  BY SeqFacts, SourceFacts DEF AInv, Shape
<1>8. Moves /\ current_idx' = current_idx + 1
  BY DEF Moves, Advance
<1>9. /\ mode \in TokenModes /\ Quotes(mode) = 1
      /\ mode = "string" => mode \in StringModes
      /\ mode = "char_end" => mode \in CharModes
  BY DEF TokenModes, Quotes, QuotedModes, StringModes, CharModes
<1>10. ASSUME NEW start \in Nat \ {0}, Begun(source, mode, t, start, current_idx)
       PROVE  /\ IsSeq(Spelling(tok)) /\ Spelling(tok) # <<>>
              /\ Copied(source, start, Spelling(tok))
              /\ start + Len(Spelling(tok)) = current_idx'
  <2>1. /\ current_idx = start + Quotes(mode) + Len(t.text)
        /\ Copied(source, start + Quotes(mode), t.text)
    BY <1>9, <1>10 DEF Begun
  <2>2. source[start] = q
    BY <1>9, <1>10 DEF Begun
  <2>3. current_idx = start + 1 + Len(t.text) /\ Copied(source, start + 1, t.text)
    BY <2>1, <1>9
  <2> DEFINE all == <<q>> \o t.text \o <<q>>
  <2>4. IsSeq(all) /\ all # <<>> /\ Copied(source, start, all) /\ start + Len(all) = current_idx + 1
    <3> HIDE DEF all
    <3>1. \A text : /\ IsSeq(text) /\ Copied(source, start + 1, text)
                    /\ current_idx = start + 1 + Len(text)
                    => /\ IsSeq(<<q>> \o text \o <<q>>) /\ <<q>> \o text \o <<q>> # <<>>
                       /\ Copied(source, start, <<q>> \o text \o <<q>>)
                       /\ start + Len(<<q>> \o text \o <<q>>) = current_idx + 1
      BY <2>2, QuotedUpTo
    <3> QED
      BY <3>1, <2>3, <1>7 DEF all
  <2> QED
    BY <2>4, <1>4, <1>8
<1>11. current_idx' <= Len(source) => source[current_idx'] \notin NeverAfter(tok)
  BY <1>5
<1> QED
  BY <1>2, <1>6, <1>8, <1>9, <1>10, <1>11, ReturnStep

(* A unit in quotes, where the source goes on behind it.                    *)
LEMMA TakeQuoted ==
  ASSUME AInv, mode \in AskedModes, mode \in QuotedModes,
         NEW m \in QuotedModes, m \in StringModes <=> mode \in StringModes,
         m \in StringModes => StringFits(Append(t.text, source[current_idx]), m),
         m \in CharModes => CharFits(Append(t.text, source[current_idx]), m),
         TakeBeforeMore(m) \/ (m = "char_end" /\ Take(m))
  PROVE  AInv'
<1>1. /\ current_idx <= Len(source) /\ ~AtEof
      /\ IsPeekWithinRange(1) <=> current_idx + 1 <= Len(source)
  BY SourceFacts DEF AInv, Shape
<1>2. /\ \A k \in QuotedModes : k \in TokenModes /\ k # "eof" /\ k \notin PlainModes
      /\ \A k \in QuotedModes : k \in CharModes <=> k \notin StringModes
      /\ "char_end" \notin AskedModes
  BY DEF TokenModes, PlainModes, QuotedModes, StringModes, CharModes, AskedModes
<1>3. TextFits(m, Append(t.text, source[current_idx]), dot_found, source, current_idx + 1)
  BY <1>2 DEF TextFits, PlainModes
<1>4. dot_found \in BOOLEAN
  BY DEF AInv, Shape
<1>5. CASE ~Take(m)
  <2>1. Exit
    BY <1>5 DEF TakeBeforeMore
  <2> QED
    BY <2>1, <1>2, EndStep
<1>6. CASE Take(m)
  <2>1. PushText /\ mode' = m /\ Advance /\ dot_found' = dot_found /\ tokens' = tokens
    BY <1>6 DEF Take
  <2>2. ASSUME m \in AskedModes PROVE current_idx + 1 <= Len(source)
    <3>1. TakeBeforeMore(m) /\ mode # "exited"
      BY <1>2, <2>2 DEF AskedModes
    <3>2. m # "exited"
      BY <2>2 DEF AskedModes
    <3>3. IsPeekWithinRange(1)
      BY <3>1, <3>2, <2>1 DEF TakeBeforeMore, Exit, Goto
    <3> QED
      BY <3>3, <1>1
  <2> QED
    BY <1>1, <1>2, <1>3, <1>4, <2>1, <2>2, TakeStep
<1> QED
  BY <1>5, <1>6

(* The units of a string, up to its quote,                                  *)
LEMMA ParseStrStep ==
  ASSUME AInv, ParseStr
  PROVE  AInv'
<1>1. mode = "string"
  BY DEF ParseStr
<1>2. /\ mode \in AskedModes /\ mode \in QuotedModes /\ mode \in StringModes
      /\ \A m \in StringModes : m \in QuotedModes /\ m \notin CharModes
      /\ "string_escape" \in StringModes /\ "string" \in StringModes
  BY <1>1 DEF AskedModes, QuotedModes, StringModes, CharModes
<1>3. /\ IsSeq(t.text) /\ StringFits(t.text, "string") /\ current_idx <= Len(source)
  BY <1>1, <1>2 DEF AInv, Shape, TextFits
<1>4. ~AtEof /\ Peek(0) = source[current_idx]
  BY <1>3, SourceFacts DEF AInv
<1>5. CASE source[current_idx] = Quote
  <2>1. Return(<<"STR_LITERAL">>, t.text) /\ Advance
    BY <1>4, <1>5 DEF ParseStr, Quote
  <2>2. IsTextOf(<<"STR_LITERAL">>, t.text)
    BY <1>3, StringText
  <2> QED
    BY <1>1, <1>4, <1>5, <2>1, <2>2, QuotedReturn
<1>6. CASE source[current_idx] = "\\"
  <2>1. TakeBeforeMore("string_escape") /\ source[current_idx] # Quote
    BY <1>4, <1>6 DEF ParseStr, Quote
  <2>2. StringFits(Append(t.text, source[current_idx]), "string_escape")
    BY <1>2, <1>3, <1>6, <2>1, StringMore
  <2> QED
    BY <1>2, <2>1, <2>2, TakeQuoted
<1>7. CASE source[current_idx] # Quote /\ source[current_idx] # "\\"
  <2>1. TakeBeforeMore("string")
    BY <1>4, <1>7 DEF ParseStr
  <2>2. StringFits(Append(t.text, source[current_idx]), "string")
    BY <1>2, <1>3, <1>7, <2>1, StringMore
  <2> QED
    BY <1>2, <2>1, <2>2, TakeQuoted
<1> QED
  BY <1>5, <1>6, <1>7

(* ... and the one an escape takes along.                                   *)
LEMMA ParseStrEscapeStep ==
  ASSUME AInv, ParseStrEscape
  PROVE  AInv'
<1>1. mode = "string_escape" /\ TakeBeforeMore("string")
  BY DEF ParseStrEscape
<1>2. /\ mode \in AskedModes /\ mode \in QuotedModes /\ mode \in StringModes
      /\ "string" \in QuotedModes /\ "string" \in StringModes /\ "string" \notin CharModes
  BY <1>1 DEF AskedModes, QuotedModes, StringModes, CharModes
<1>3. IsSeq(t.text) /\ StringFits(t.text, "string_escape")
  BY <1>1, <1>2 DEF AInv, Shape, TextFits
<1>4. StringFits(Append(t.text, source[current_idx]), "string")
  BY <1>1, <1>2, <1>3, StringMore
<1> QED
  BY <1>1, <1>2, <1>4, TakeQuoted

(* The unit of a character, or the two of an escape,                        *)
LEMMA ParseCharStep ==
  ASSUME AInv, ParseChar
  PROVE  AInv'
<1>1. mode \in {"char", "char_escape"}
  BY DEF ParseChar
<1>2. /\ mode \in AskedModes /\ mode \in QuotedModes /\ mode \in CharModes /\ mode # "eof"
      /\ mode \notin StringModes
      /\ \A m \in CharModes : m \in QuotedModes /\ m \notin StringModes
      /\ "char_escape" \in CharModes /\ "char_end" \in CharModes
  BY <1>1 DEF AskedModes, QuotedModes, StringModes, CharModes
<1>3. IsSeq(t.text) /\ CharFits(t.text, mode) /\ current_idx <= Len(source)
  BY <1>2 DEF AInv, Shape, TextFits
<1>4. ~AtEof /\ Peek(0) = source[current_idx]
  BY <1>3, SourceFacts DEF AInv
<1>5. CASE source[current_idx] \in Words
  <2>1. Exit \/ (mode = "char" /\ source[current_idx] = "\\")
    BY <1>4, <1>5 DEF ParseChar, Words
  <2>2. source[current_idx] # "\\"
    BY <1>5 DEF Words
  <2> QED
    BY <2>1, <2>2, <1>2, EndStep
<1>6. CASE source[current_idx] \notin Words /\ mode = "char" /\ source[current_idx] = "\\"
  <2>1. TakeBeforeMore("char_escape")
    BY <1>4, <1>6 DEF ParseChar
  <2>2. CharFits(Append(t.text, source[current_idx]), "char_escape")
    BY <1>3, <1>6, CharMore
  <2> QED
    BY <1>2, <2>1, <2>2, TakeQuoted
<1>7. CASE source[current_idx] \notin Words /\ ~(mode = "char" /\ source[current_idx] = "\\")
  <2>1. Take("char_end")
    BY <1>4, <1>7 DEF ParseChar
  <2>2. CharFits(Append(t.text, source[current_idx]), "char_end")
    BY <1>1, <1>3, <1>7, CharMore
  <2> QED
    BY <1>2, <2>1, <2>2, TakeQuoted
<1> QED
  BY <1>5, <1>6, <1>7

(* ... and the quote behind it.                                             *)
LEMMA ParseCharEndStep ==
  ASSUME AInv, ParseCharEnd
  PROVE  AInv'
<1>1. mode = "char_end" /\ mode # "eof"
  BY DEF ParseCharEnd
<1>2. IsSeq(t.text) /\ CharFits(t.text, "char_end")
  BY <1>1 DEF AInv, Shape, TextFits, CharModes
<1>3. Peek(0) = source[current_idx]
  BY SourceFacts DEF AInv
<1>4. CASE ~AtEof /\ source[current_idx] = "'"
  <2>1. Return(<<"CHAR_LITERAL">>, t.text) /\ Advance
    BY <1>3, <1>4 DEF ParseCharEnd
  <2>2. IsTextOf(<<"CHAR_LITERAL">>, t.text)
    BY <1>2, CharText
  <2> QED
    BY <1>1, <1>4, <2>1, <2>2, QuotedReturn
<1>5. CASE AtEof \/ source[current_idx] # "'"
  <2>1. Exit \/ PeekOutside
    BY <1>3, <1>5 DEF ParseCharEnd
  <2> QED
    BY <2>1, <1>1, EndStep
<1> QED
  BY <1>4, <1>5

(* The units of an operator, as long as one more makes a longer one.        *)
LEMMA ParseOperatorStep ==
  ASSUME AInv, ParseOperator
  PROVE  AInv'
<1>1. mode = "operator" /\ mode \in TokenModes /\ mode # "eof"
  BY DEF ParseOperator, TokenModes, PlainModes
<1>2. /\ IsSeq(t.text) /\ OperatorFits(t.text, source, current_idx) /\ dot_found \in BOOLEAN
  BY <1>1 DEF AInv, Shape, TextFits
<1>3. /\ current_idx \in Nat \ {0} /\ Peek(0) = source[current_idx]
      /\ current_idx <= Len(source) <=> ~AtEof
  BY SourceFacts DEF AInv
<1>4. /\ mode \notin StringModes /\ mode \notin CharModes /\ mode \notin AskedModes
      /\ Quotes(mode) = 0
  BY <1>1 DEF StringModes, CharModes, QuotedModes, AskedModes, Quotes
<1>5. t.text # <<>>
  BY <1>2 DEF OperatorFits
<1>6. CASE /\ MayGoOn(t.text) /\ ~AtEof
           /\ Append(t.text, source[current_idx]) \in LongOperators
  <2> DEFINE c == source[current_idx]
             more == Append(t.text, c)
  <2>1. /\ PushText /\ mode' = mode /\ Advance /\ dot_found' = dot_found /\ tokens' = tokens
    BY <1>1, <1>3, <1>6 DEF ParseOperator, Take
  <2>2. /\ IsSeq(more) /\ more # <<>> /\ Len(more) = Len(t.text) + 1
        /\ Len(t.text) \in Nat /\ Len(t.text) > 0
    BY <1>2, <1>5, AppendSeq, SeqFacts
  <2>3. /\ more = <<"-">> => Len(more) = 1
        /\ more = <<"/">> => Len(more) = 1
    BY <2>2, OneUnit
  <2> HIDE DEF more
  <2>4. Len(more) # 1
    BY <2>2
  <2>5. OperatorFits(more, source, current_idx + 1)
    BY <2>2, <2>3, <2>4 DEF OperatorFits
  <2>6. TextFits(mode, more, dot_found, source, current_idx + 1)
    BY <2>5, <1>1, <1>4 DEF TextFits
  <2> QED
    BY <1>1, <1>2, <1>4, <1>6, <2>1, <2>6, TakeStep DEF more
<1>7. CASE /\ ~(MayGoOn(t.text) /\ AtEof)
           /\ ~(MayGoOn(t.text) /\ Append(t.text, source[current_idx]) \in LongOperators)
           /\ t.text \in Operators
  <2>1. Return(t.text, <<>>) /\ Stay
    BY <1>3, <1>7 DEF ParseOperator
  <2> DEFINE tok == [id |-> t.text, line |-> t.line, col |-> t.col, text |-> <<>>]
  <2>2. tok.id = t.text /\ tok.text = <<>>
    OBVIOUS
  <2>3. tok = [id |-> t.text, line |-> t.line, col |-> t.col, text |-> <<>>]
    OBVIOUS
  <2> HIDE DEF tok
  <2>4. /\ Spelling(tok) = t.text
        /\ IsTextOf(t.text, <<>>)
        /\ t.text = <<"-">> => NeverAfter(tok) = Digits \cup {">", "-", "="}
        /\ t.text = <<"/">> => NeverAfter(tok) = {"/", "="}
        /\ t.text \notin {<<"-">>, <<"/">>} =>
             \A c \in NeverAfter(tok) : Append(t.text, c) \in LongOperators
    BY <1>7, <2>2, OperatorArms
  <2>5. t.text # <<"END_OF_FILE">>
    BY <1>7, NamesAreNoOperators DEF Named
  <2>6. current_idx' = current_idx
    BY <2>1, StayStep DEF AInv
  <2>7. ~AtEof => Append(t.text, source[current_idx]) \notin LongOperators
    BY <1>2, <1>7, LongerMayGoOn
  <2>8. ASSUME ~AtEof PROVE source[current_idx] \notin NeverAfter(tok)
    <3>1. CASE t.text = <<"-">>
      <4>1. source[current_idx] \notin Digits
        BY <1>2, <1>3, <2>8, <3>1 DEF OperatorFits
      <4>2. source[current_idx] \notin {">", "-", "="}
        BY <2>7, <2>8, <3>1, MinusAndSlash
      <4> QED
        BY <4>1, <4>2, <2>4, <3>1
    <3>2. CASE t.text = <<"/">>
      <4>1. source[current_idx] # "/"
        BY <1>2, <1>3, <2>8, <3>2 DEF OperatorFits
      <4>2. source[current_idx] # "="
        BY <2>7, <2>8, <3>2, MinusAndSlash
      <4> QED
        BY <4>1, <4>2, <2>4, <3>2
    <3>3. CASE t.text \notin {<<"-">>, <<"/">>}
      BY <2>4, <2>7, <2>8, <3>3
    <3> QED
      BY <3>1, <3>2, <3>3
  <2>9. ASSUME NEW start \in Nat \ {0}, Begun(source, mode, t, start, current_idx)
        PROVE  Copied(source, start, t.text) /\ start + Len(t.text) = current_idx'
    <3>1. /\ current_idx = start + Quotes(mode) + Len(t.text)
          /\ Copied(source, start + Quotes(mode), t.text)
      BY <1>1, <2>9 DEF Begun
    <3>2. start + Quotes(mode) = start
      BY <1>4
    <3> QED
      BY <3>1, <3>2, <2>6
  <2>10. current_idx' <= Len(source) => source[current_idx'] \notin NeverAfter(tok)
    BY <1>3, <2>6, <2>8
  <2>11. Moves
    BY <2>1 DEF Moves
  <2> QED
    BY <1>1, <1>2, <1>5, <2>1, <2>3, <2>4, <2>5, <2>9, <2>10, <2>11, ReturnStep
<1>8. CASE Exit \/ PeekOutside
  BY <1>1, <1>8, EndStep
<1> QED
  BY <1>3, <1>6, <1>7, <1>8 DEF ParseOperator

----------------------------------------------------------------------------
(* The end of the file is a token with no text, behind the last unit.       *)
LEMMA EndOfFileStep ==
  ASSUME AInv, EndOfFile
  PROVE  AInv'
<1> DEFINE tok == [id |-> <<"END_OF_FILE">>, line |-> current_line,
                   col |-> current_col, text |-> <<>>]
<1>1. /\ mode = "between" /\ mode' = "eof" /\ t' = t /\ dot_found' = dot_found
      /\ tokens' = Append(tokens, tok) /\ Stay /\ AtEof
  BY DEF EndOfFile
<1>2. /\ tok.id = <<"END_OF_FILE">> /\ tok.text = <<>>
      /\ tok.line = current_line /\ tok.col = current_col
  OBVIOUS
<1> HIDE DEF tok
<1>3. /\ Cursor' /\ source' = source /\ current_idx' = current_idx
      /\ current_idx \in Nat \ {0} /\ current_idx = Len(source) + 1 /\ Len(source) \in Nat
  BY <1>1, StayStep, SourceFacts DEF AInv
<1>4. PlaceAt(source, current_idx, tok.line, tok.col)
  BY <1>2 DEF AInv, Cursor
<1>5. Spelling(tok) = <<>> /\ IsTextOf(tok.id, tok.text)
  <2>1. /\ "END_OF_FILE" \in Named
        /\ "END_OF_FILE" \notin {"STR_LITERAL", "CHAR_LITERAL"}
    BY DEF Named
  <2> QED
    BY <2>1, <1>2, NamedSpelling, NamedText
<1>6. /\ IsSeq(Spelling(tok)) /\ Len(Spelling(tok)) = 0
  BY <1>5, ShortSeqs
<1>7. TokenAt(source, tok, current_idx)
  <2>1. current_idx + Len(Spelling(tok)) = Len(source) + 1
    BY <1>3, <1>6
  <2>2. Copied(source, current_idx, Spelling(tok))
    BY <1>6 DEF Copied
  <2>3. ~(current_idx + Len(Spelling(tok)) <= Len(source))
    BY <1>3, <2>1
  <2>4. current_idx + Len(Spelling(tok)) <= Len(source) + 1
    BY <1>3, <2>1
  <2> QED
    BY <1>3, <1>4, <1>5, <1>6, <2>2, <2>3, <2>4 DEF TokenAt
<1>8. PICK places \in Places, start \in Nat \ {0}, end \in Nat \ {0} :
        /\ Laid(source, tokens, places)
        /\ end = EndOf(tokens, places, Len(tokens))
        /\ Len(tokens) < end /\ end <= Len(source) + 1
        /\ Gap(source, mode, end, start, current_idx)
        /\ Begun(source, mode, t, start, current_idx)
  BY <1>1 DEF AInv, Scene
<1>9. Trivia(source, end, current_idx)
  BY <1>1, <1>8 DEF Gap, Begun
<1>10. IsSeq(tokens)
  BY DEF AInv, Finished
<1>11. PICK more \in Places :
         /\ Laid(source, Append(tokens, tok), more)
         /\ EndOf(Append(tokens, tok), more, Len(Append(tokens, tok)))
              = current_idx + Len(Spelling(tok))
  BY <1>3, <1>7, <1>8, <1>9, <1>10, LaidMore
<1>12. /\ Len(tokens) \in Nat /\ IsSeq(tokens') /\ tokens' # <<>>
       /\ Len(tokens') = Len(tokens) + 1 /\ tokens'[Len(tokens')] = tok
  <2>1. Len(tokens) \in Nat
    BY <1>10, SeqFacts
  <2>2. /\ IsSeq(Append(tokens, tok)) /\ Append(tokens, tok) # <<>>
        /\ Len(Append(tokens, tok)) = Len(tokens) + 1
        /\ Append(tokens, tok)[Len(tokens) + 1] = tok
    BY <1>10, AppendSeq
  <2> QED
    BY <2>1, <2>2, <1>1
<1>13. Finished'
  <2>1. Len(tokens') <= Len(source') + 1
    BY <1>3, <1>8, <1>12
  <2>2. tokens'[Len(tokens')].id = <<"END_OF_FILE">>
    BY <1>2, <1>12
  <2>3. PlaceAt(source', Len(source') + 1, tokens'[Len(tokens')].line, tokens'[Len(tokens')].col)
    BY <1>3, <1>4, <1>12
  <2> QED
    BY <1>1, <1>12, <2>1, <2>2, <2>3 DEF Finished
<1>14. Shape'
  <2>1. /\ mode' \in Modes /\ mode' \notin AskedModes
        /\ mode' \notin StringModes /\ mode' \notin CharModes
    BY <1>1 DEF Modes, AskedModes, StringModes, CharModes
  <2>2. TextFits(mode', t'.text, dot_found', source', current_idx')
    BY <1>1, <2>1 DEF TextFits
  <2>3. SlashFits(mode', source', current_idx')
    BY <1>1 DEF SlashFits
  <2> QED
    BY <2>1, <2>2, <2>3, <1>1 DEF AInv, Shape
<1>15. Scene'
  <2>1. current_idx = EndOf(tokens', more, Len(tokens'))
    BY <1>1, <1>3, <1>6, <1>11
  <2>2. Laid(source', tokens', more)
    BY <1>1, <1>3, <1>11
  <2>3. mode' \notin TokenModes /\ mode' \notin StringModes /\ mode' \notin CharModes
    BY <1>1 DEF TokenModes, PlainModes, QuotedModes, StringModes, CharModes
  <2>4. Gap(source', mode', current_idx, current_idx, current_idx')
    BY <1>1, <2>3 DEF Gap
  <2>5. Begun(source', mode', t', current_idx, current_idx')
    BY <1>1, <2>3 DEF Begun
  <2> QED
    BY <1>1, <1>3, <2>1, <2>2, <2>4, <2>5 DEF Scene
<1> QED
  BY <1>3, <1>13, <1>14, <1>15 DEF AInv

(* Nothing happens.                                                         *)
LEMMA UnchangedStep ==
  ASSUME AInv, UNCHANGED vars
  PROVE  AInv'
<1>1. /\ source' = source /\ current_idx' = current_idx /\ current_line' = current_line
      /\ current_col' = current_col /\ mode' = mode /\ t' = t /\ dot_found' = dot_found
      /\ tokens' = tokens
  BY DEF vars, position, lexed
<1>2. Cursor'
  BY <1>1 DEF AInv, Cursor
<1>3. Shape'
  BY <1>1 DEF AInv, Shape
<1>4. Finished'
  BY <1>1 DEF AInv, Finished
<1>5. Scene'
  BY <1>1 DEF AInv, Scene
<1> QED
  BY <1>2, <1>3, <1>4, <1>5 DEF AInv

----------------------------------------------------------------------------
(* The invariant holds at first,                                            *)
LEMMA InitHolds ==
  ASSUME Init
  PROVE  AInv
<1>1. /\ source \in Sources /\ current_idx = 1 /\ current_line = 1 /\ current_col = 1
      /\ mode = "between" /\ t = [line |-> 0, col |-> 0, text |-> <<>>]
      /\ dot_found = FALSE /\ tokens = <<>>
  BY DEF Init
<1>2. IsSeq(source)
  BY <1>1, SourcesAssumption, SeqOfItsOwn
<1>3. Len(source) \in Nat
  BY <1>2, SeqFacts
<1>4. Cursor
  BY <1>1, <1>3, FirstPlace DEF Cursor
<1>5. Shape
  <2>1. t = [line |-> t.line, col |-> t.col, text |-> t.text] /\ t.text = <<>>
    BY <1>1
  <2>2. /\ mode \in Modes /\ mode \notin AskedModes
        /\ mode \notin StringModes /\ mode \notin CharModes
    BY <1>1 DEF Modes, AskedModes, StringModes, CharModes
  <2>3. TextFits(mode, t.text, dot_found, source, current_idx)
    BY <1>1, <2>2 DEF TextFits
  <2>4. SlashFits(mode, source, current_idx)
    BY <1>1 DEF SlashFits
  <2> QED
    BY <1>1, <2>1, <2>2, <2>3, <2>4, ShortSeqs DEF Shape
<1>6. Finished
  <2>1. IsSeq(tokens) /\ Len(tokens) = 0
    BY <1>1, ShortSeqs
  <2>2. Len(tokens) <= Len(source) + 1 /\ \A n \in 1 .. Len(tokens) : FALSE
    BY <1>3, <2>1
  <2> QED
    BY <1>1, <2>1, <2>2 DEF Finished
<1>7. Scene
  <2> DEFINE places == [n \in Nat |-> 1]
  <2>1. places \in Places
    BY DEF Places
  <2> HIDE DEF places
  <2>2. Len(tokens) = 0
    BY <1>1, ShortSeqs
  <2>3. Laid(source, tokens, places)
    BY <2>2 DEF Laid
  <2>4. 1 = EndOf(tokens, places, Len(tokens))
    BY <2>2 DEF EndOf
  <2>5. Len(tokens) < 1 /\ 1 <= Len(source) + 1 /\ 1 \in Nat \ {0}
    BY <2>2, <1>3
  <2>6. mode \notin TokenModes /\ mode \notin StringModes /\ mode \notin CharModes
    BY <1>1 DEF TokenModes, PlainModes, QuotedModes, StringModes, CharModes
  <2>7. Trivia(source, 1, 1)
    BY TriviaNone
  <2>8. Gap(source, mode, 1, 1, current_idx)
    BY <1>1, <2>7 DEF Gap
  <2>9. Begun(source, mode, t, 1, current_idx)
    BY <1>1, <2>6 DEF Begun
  <2> QED
    BY <2>1, <2>3, <2>4, <2>5, <2>8, <2>9 DEF Scene
<1> QED
  BY <1>4, <1>5, <1>6, <1>7 DEF AInv

(* ... and every step keeps it.                                             *)
LEMMA NextHolds ==
  ASSUME AInv, [Next]_vars
  PROVE  AInv'
<1>1. CASE SkipBlank
  BY <1>1, SkipBlankStep
<1>2. CASE SkipSlash
  BY <1>2, SkipSlashStep
<1>3. CASE SkipTillNewline
  BY <1>3, SkipTillNewlineStep
<1>4. CASE SkippedTrivia
  BY <1>4, SkippedTriviaStep
<1>5. CASE EndOfFile
  BY <1>5, EndOfFileStep
<1>6. CASE BeginIdent
  BY <1>6, BeginIdentStep
<1>7. CASE BeginMinus
  BY <1>7, BeginMinusStep
<1>8. CASE BeginNumber
  BY <1>8, BeginNumberStep
<1>9. CASE BeginQuoted
  BY <1>9, BeginQuotedStep
<1>10. CASE BeginOperator
  BY <1>10, BeginOperatorStep
<1>11. CASE ParseIdent
  BY <1>11, ParseIdentStep
<1>12. CASE ParsePrefix
  BY <1>12, ParsePrefixStep
<1>13. CASE ParseHex
  BY <1>13, ParseHexStep
<1>14. CASE ParseBin
  BY <1>14, ParseBinStep
<1>15. CASE ParseIntOrFlt
  BY <1>15, ParseIntOrFltStep
<1>16. CASE ParseStr
  BY <1>16, ParseStrStep
<1>17. CASE ParseStrEscape
  BY <1>17, ParseStrEscapeStep
<1>18. CASE ParseChar
  BY <1>18, ParseCharStep
<1>19. CASE ParseCharEnd
  BY <1>19, ParseCharEndStep
<1>20. CASE ParseOperator
  BY <1>20, ParseOperatorStep
<1>21. CASE Ended
  BY <1>21, UnchangedStep DEF Ended
<1>22. CASE UNCHANGED vars
  BY <1>22, UnchangedStep
<1> QED
  BY <1>1, <1>2, <1>3, <1>4, <1>5, <1>6, <1>7, <1>8, <1>9, <1>10, <1>11, <1>12, <1>13,
     <1>14, <1>15, <1>16, <1>17, <1>18, <1>19, <1>20, <1>21, <1>22
  DEF Next, NextToken

(* The tokens lexed lie one behind the other where their lines and columns  *)
(* say, each whole, with only trivia between them, and the one in the works *)
(* is copied from behind the last of them: at every round of every loop of  *)
(* lex, for every file.                                                     *)
THEOREM TokensAreLaid == Spec => []AInv
<1>1. Init => AInv
  BY InitHolds
<1>2. AInv /\ [Next]_vars => AInv'
  BY NextHolds
<1> QED
  BY <1>1, <1>2, PTL DEF Spec

(* The cursor stays in the file, its line and column within what was read,  *)
(* and each loop that looks at the next unit before it asks for the end of  *)
(* the source is entered in front of one.                                   *)
THEOREM ArchiveTypeCorrect == Spec => []TypeOK
<1>1. AInv => TypeOK
  <2> SUFFICES ASSUME AInv PROVE TypeOK
    OBVIOUS
  <2>1. Len(source) \in Nat /\ (~AtEof <=> current_idx <= Len(source))
    BY SourceFacts DEF AInv
  <2>2. IsSeq(tokens) /\ Len(tokens) <= Len(source) + 1
    BY DEF AInv, Finished
  <2>3. Len(tokens) \in 0 .. Len(source) + 1
    <3>1. Len(tokens) \in Nat
      BY <2>2, SeqFacts
    <3> QED
      BY <3>1, <2>1, <2>2
  <2>4. /\ source \in Sources
        /\ current_idx \in 1 .. Len(source) + 1
        /\ current_line \in 1 .. current_idx /\ current_col \in 1 .. current_idx
    BY DEF AInv, Cursor
  <2>5. /\ mode \in Modes /\ dot_found \in BOOLEAN
        /\ mode \in AskedModes => current_idx <= Len(source)
    BY DEF AInv, Shape
  <2> QED
    BY <2>1, <2>3, <2>4, <2>5 DEF TypeOK, AskedModes
<1> QED
  BY <1>1, TokensAreLaid, PTL

(* A token that stands at a unit stands at no other one.                    *)
LEMMA StartsAre ==
  ASSUME IsSeq(source), NEW tok, NEW i \in Nat \ {0}, i <= Len(source) + 1,
         PlaceAt(source, i, tok.line, tok.col)
  PROVE  Starts(tok) = {i} /\ Ends(tok) = {i + Len(Spelling(tok))}
<1>1. Len(source) \in Nat
  BY SeqFacts
<1>2. \A j \in 1 .. Len(source) + 1 :
        PlaceAt(source, j, tok.line, tok.col) <=>
          /\ tok.line = Cardinality(NewlinesBefore(j)) + 1
          /\ \E newline \in NewlinesBefore(j) \cup {0} :
               /\ \A other \in NewlinesBefore(j) : other <= newline
               /\ tok.col = j - newline
  BY DEF PlaceAt, NewlinesBefore, Newlines
<1>3. Starts(tok) = {j \in 1 .. Len(source) + 1 : PlaceAt(source, j, tok.line, tok.col)}
  BY <1>2 DEF Starts
<1>4. ASSUME NEW j \in 1 .. Len(source) + 1, PlaceAt(source, j, tok.line, tok.col)
      PROVE  j = i
  <2>1. j \in Nat \ {0}
    BY <1>1
  <2> QED
    BY <2>1, <1>4, OnePlace
<1>5. i \in 1 .. Len(source) + 1
  BY <1>1
<1>6. Starts(tok) = {i}
  BY <1>3, <1>4, <1>5
<1> QED
  BY <1>6 DEF Ends

(* Where each token is.                                                     *)
LEMMA TokensStand ==
  ASSUME AInv
  PROVE  /\ IsSeq(source) /\ Len(source) \in Nat /\ DOMAIN tokens = 1 .. Len(tokens)
         /\ \E places \in Places :
              /\ Laid(source, tokens, places)
              /\ \A n \in 1 .. Len(tokens) :
                   /\ Starts(tokens[n]) = {places[n]}
                   /\ Ends(tokens[n]) = {places[n] + Len(Spelling(tokens[n]))}
<1>1. IsSeq(source) /\ Len(source) \in Nat
  BY SourceFacts DEF AInv
<1>2. DOMAIN tokens = 1 .. Len(tokens)
  BY SeqFacts DEF AInv, Finished
<1>3. PICK places \in Places : Laid(source, tokens, places)
  BY DEF AInv, Scene
<1>4. ASSUME NEW n \in 1 .. Len(tokens)
      PROVE  /\ Starts(tokens[n]) = {places[n]}
             /\ Ends(tokens[n]) = {places[n] + Len(Spelling(tokens[n]))}
  <2>1. TokenAt(source, tokens[n], places[n])
    BY <1>3 DEF Laid
  <2> DEFINE tok == tokens[n]
             i == places[n]
  <2> HIDE DEF tok, i
  <2>2. /\ i \in Nat \ {0} /\ PlaceAt(source, i, tok.line, tok.col)
        /\ IsSeq(Spelling(tok)) /\ i + Len(Spelling(tok)) <= Len(source) + 1
    BY <2>1 DEF TokenAt, tok, i
  <2>3. i <= Len(source) + 1
    BY <2>2, <1>1, SeqFacts
  <2>4. Starts(tok) = {i} /\ Ends(tok) = {i + Len(Spelling(tok))}
    BY <1>1, <2>2, <2>3, StartsAre
  <2> QED
    BY <2>4 DEF tok, i
<1> QED
  BY <1>1, <1>2, <1>3, <1>4

(* Where a token's line and column say it starts its text stands, between   *)
(* two tokens are only blanks and comments, and the token of the end comes  *)
(* last and behind the last unit: nothing of a file gets lost in parse_*,   *)
(* skip_trivia or advance.                                                  *)
THEOREM TokensAreSpelled == Spec => []TokensSpellTheSource
<1>1. AInv => TokensSpellTheSource
  <2> SUFFICES ASSUME AInv PROVE TokensSpellTheSource
    OBVIOUS
  <2>1. /\ IsSeq(source) /\ Len(source) \in Nat /\ DOMAIN tokens = 1 .. Len(tokens)
        /\ IsSeq(tokens) /\ Len(tokens) \in Nat /\ (tokens # <<>> <=> Len(tokens) > 0)
    BY TokensStand, SeqFacts DEF AInv, Finished
  <2>2. PICK places \in Places :
          /\ Laid(source, tokens, places)
          /\ \A n \in 1 .. Len(tokens) :
               /\ Starts(tokens[n]) = {places[n]}
               /\ Ends(tokens[n]) = {places[n] + Len(Spelling(tokens[n]))}
    BY TokensStand
  <2>3. ASSUME NEW n \in DOMAIN tokens
        PROVE  \E i \in Starts(tokens[n]) :
                 /\ SubSeq(source, i, i + Len(Spelling(tokens[n])) - 1) = Spelling(tokens[n])
                 /\ \E end \in IF n = 1 THEN {1} ELSE Ends(tokens[n - 1]) : OnlyTrivia(end, i)
    <3>1. n \in 1 .. Len(tokens)
      BY <2>1
    <3>2. /\ TokenAt(source, tokens[n], places[n])
          /\ Trivia(source, EndOf(tokens, places, n - 1), places[n])
          /\ Starts(tokens[n]) = {places[n]}
      BY <2>2, <3>1 DEF Laid
    <3>3. SubSeq(source, places[n], places[n] + Len(Spelling(tokens[n])) - 1)
            = Spelling(tokens[n])
      BY <2>1, <3>2, Spelled DEF TokenAt
    <3>4. EndOf(tokens, places, n - 1) \in IF n = 1 THEN {1} ELSE Ends(tokens[n - 1])
      <4>1. CASE n = 1
        <5>1. n - 1 = 0
          BY <4>1
        <5> QED
          BY <4>1, <5>1 DEF EndOf
      <4>2. CASE n # 1
        <5>1. n - 1 \in 1 .. Len(tokens) /\ n - 1 # 0
          BY <2>1, <3>1, <4>2
        <5>2. EndOf(tokens, places, n - 1) = places[n - 1] + Len(Spelling(tokens[n - 1]))
          BY <5>1 DEF EndOf
        <5> QED
          BY <2>2, <4>2, <5>1, <5>2
      <4> QED
        BY <4>1, <4>2
    <3>5. OnlyTrivia(EndOf(tokens, places, n - 1), places[n])
      BY <3>2 DEF OnlyTrivia, Trivia
    <3> QED
      BY <3>2, <3>3, <3>4, <3>5
  <2>4. mode = "eof" <=> tokens # <<>> /\ Last(tokens).id = <<"END_OF_FILE">>
    <3>1. tokens # <<>> => Len(tokens) \in 1 .. Len(tokens)
      BY <2>1
    <3> QED
      BY <3>1 DEF AInv, Finished, Last
  <2>5. ASSUME mode = "eof" PROVE Starts(Last(tokens)) = {Len(source) + 1}
    <3> DEFINE tok == tokens[Len(tokens)]
    <3>1. PlaceAt(source, Len(source) + 1, tok.line, tok.col)
      BY <2>5 DEF AInv, Finished
    <3> HIDE DEF tok
    <3>2. Len(source) + 1 \in Nat \ {0} /\ Len(source) + 1 <= Len(source) + 1
      BY <2>1
    <3>3. Starts(tok) = {Len(source) + 1}
      BY <2>1, <3>1, <3>2, StartsAre
    <3> QED
      BY <3>3 DEF tok, Last
  <2> QED
    BY <2>3, <2>4, <2>5 DEF TokensSpellTheSource
<1> QED
  BY <1>1, TokensAreLaid, PTL

(* Each token is of its kind and ends where the longest one that starts     *)
(* there does: the peeks of parse_non_ident_or_number find the longest      *)
(* operator, the loops of parse_* stop at the first unit that is not        *)
(* theirs, and a string at its first quote no backslash escapes.            *)
THEOREM NoTokenIsCut == Spec => []TokensAreWhole
<1>1. AInv => TokensAreWhole
  <2> SUFFICES ASSUME AInv,
                      NEW n \in DOMAIN tokens
               PROVE  /\ IsTextOf(tokens[n].id, tokens[n].text)
                      /\ \A end \in Ends(tokens[n]) :
                           end <= Len(source) => source[end] \notin NeverAfter(tokens[n])
    BY DEF TokensAreWhole
  <2>1. n \in 1 .. Len(tokens)
    BY TokensStand
  <2>2. PICK places \in Places :
          /\ Laid(source, tokens, places)
          /\ \A k \in 1 .. Len(tokens) :
               Ends(tokens[k]) = {places[k] + Len(Spelling(tokens[k]))}
    BY TokensStand
  <2>3. TokenAt(source, tokens[n], places[n])
    BY <2>1, <2>2 DEF Laid
  <2> QED
    BY <2>1, <2>2, <2>3 DEF TokenAt
<1> QED
  BY <1>1, TokensAreLaid, PTL
=============================================================================
