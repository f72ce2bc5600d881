---------------------------- MODULE LexerProofs -----------------------------
(***************************************************************************)
(* Proofs about the lexer of the C rewrite, for sources of every length    *)
(* over every alphabet.                                                    *)
(***************************************************************************)
EXTENDS Lexer, FiniteSetTheorems, SequenceTheorems, TLAPS

WordOrNumber == {"ident", "number"}
CharModes == {"char", "char_body", "char_end"}
QuotedModes == CharModes \cup {"string"}
TokenModes == WordOrNumber \cup QuotedModes \cup {"operator"}
TokenRecords == [id : TokenIds, op : Operators \cup {<<>>}, line : Nat, col : Nat,
                 first : Nat, past : Nat]

(* The first unit of the token being lexed, or of what is lexed next.       *)
CurrentStart == IF mode \in QuotedModes THEN t.first - 1
                ELSE IF mode \in TokenModes THEN t.first ELSE src_idx

(* The next unit is in the source or just past it, and where line and col   *)
(* say it is.                                                               *)
Cursor ==
  /\ src_str \in Sources
  /\ src_idx \in 1 .. (Len(src_str) + 1)
  /\ line \in 1 .. src_idx /\ col \in 1 .. src_idx
  /\ line = LineOf(src_idx) /\ col = ColOf(src_idx)

(* What the part of a token that has been lexed is made of.                 *)
InWord ==
  /\ t.first \in 1 .. src_idx /\ src_str[t.first] \in Letters
  /\ \A k \in t.first .. (src_idx - 1) : src_str[k] \in Letters \cup Digits

DotsLexed == {k \in t.first .. (src_idx - 1) : src_str[k] = "."}

InNumber ==
  /\ t.first \in 1 .. src_idx
  /\ \/ src_str[t.first] \in Digits
     \/ /\ src_str[t.first] = "-" /\ t.first < src_idx /\ t.first < Len(src_str)
        /\ src_str[t.first + 1] \in Digits
  /\ \A k \in (t.first + 1) .. (src_idx - 1) : src_str[k] \in Digits \cup {"."}
  /\ ~dot_found => DotsLexed = {}
  /\ dot_found => \E k \in Nat : DotsLexed = {k}

InQuotes(quote) ==
  /\ t.first \in 2 .. src_idx /\ ~AtSourceEnd
  /\ src_str[t.first - 1] = quote

InChar ==
  /\ mode = "char" => src_idx = t.first
  /\ mode = "char_body" => src_idx = t.first + 1 /\ src_str[t.first] = "\\"
  /\ mode = "char_end" =>
       src_idx = IF src_str[t.first] = "\\" THEN t.first + 2 ELSE t.first + 1

InOperator == t.first \in 1 .. (src_idx - 1) /\ OperatorText \in Operators

Current ==
  /\ mode \in Modes \ {"peeked_past_end"}
  /\ dot_found \in BOOLEAN /\ prev_char_was_bslash \in BOOLEAN
  /\ t \in [line : Nat, col : Nat, first : Nat] /\ t.first <= Len(src_str)
  /\ mode = "ident" => InWord
  /\ mode = "number" => InNumber
  /\ mode = "string" => InQuotes(Quote)
  /\ mode \in CharModes => InQuotes("'") /\ InChar
  /\ mode = "operator" => InOperator
  /\ mode \in TokenModes => t.line = LineOf(CurrentStart) /\ t.col = ColOf(CurrentStart)

(* The tokens returned are sound, and nothing between them is lost.         *)
TokenSound(tok) ==
  /\ 1 <= tok.first /\ tok.first <= tok.past
  /\ tok.line = LineOf(Start(tok)) /\ tok.col = ColOf(Start(tok))
  /\ IsWhole(tok)

Returned ==
  /\ tokens \in Seq(TokenRecords)
  /\ \A i \in 1 .. Len(tokens) : /\ TokenSound(tokens[i])
                                 /\ tokens[i].past <= src_idx
                                 /\ OnlyTrivia(End(i - 1), Start(tokens[i]))

BeginsComment(c) ==
  /\ c \in 1 .. src_idx /\ c < Len(src_str) /\ src_str[c] = "/" /\ src_str[c + 1] = "/"
  /\ \A k \in c .. (src_idx - 1) : src_str[k] # "\n"

Covered ==
  /\ mode # "exited" => OnlyTrivia(End(Len(tokens)), CurrentStart)
  /\ mode = "comment" => \E c \in Nat : End(Len(tokens)) <= c /\ BeginsComment(c)

LInv == Cursor /\ Current /\ Returned /\ Covered

----------------------------------------------------------------------------
(* Where the unit after a unit is.                                          *)
LEMMA NextPosition ==
  ASSUME NEW i \in Nat \ {0}
  PROVE  /\ LineOf(i) \in Nat \ {0} /\ ColOf(i) \in Nat
         /\ LineOf(i + 1) = IF src_str[i] = "\n" THEN LineOf(i) + 1 ELSE LineOf(i)
         /\ ColOf(i + 1) = IF src_str[i] = "\n" THEN 1 ELSE ColOf(i) + 1
<1> DEFINE N == Newlines(i)
           C == {j \in 1 .. i : \A n \in N : n < j}
<1>1. IsFiniteSet(1 .. (i - 1)) /\ IsFiniteSet(1 .. i)
  BY FS_Interval
<1>2. IsFiniteSet(N) /\ IsFiniteSet(C)
  BY <1>1, FS_Subset DEF Newlines
<1>3. Cardinality(N) \in Nat /\ Cardinality(C) \in Nat
  BY <1>2, FS_CardinalityType
<1>4. i \notin N /\ i + 1 \notin C
  BY DEF Newlines
<1>5. 1 .. ((i + 1) - 1) = (1 .. (i - 1)) \cup {i} /\ 1 .. (i + 1) = (1 .. i) \cup {i + 1}
  OBVIOUS
<1>6. CASE src_str[i] = "\n"
  <2>1. Newlines(i + 1) = N \cup {i}
    BY <1>5, <1>6 DEF Newlines
  <2>2. Cardinality(Newlines(i + 1)) = Cardinality(N) + 1
    BY <2>1, <1>2, <1>4, FS_AddElement
  <2>3. {j \in 1 .. (i + 1) : \A n \in Newlines(i + 1) : n < j} = {i + 1}
    <3>1. \A n \in N : n < i + 1
      BY DEF Newlines
    <3> HIDE DEF N
    <3> QED
      BY <2>1, <3>1
  <2>4. Cardinality({i + 1}) = 1
    BY FS_Singleton
  <2> QED
    BY <2>2, <2>3, <2>4, <1>3, <1>6 DEF LineOf, ColOf
<1>7. CASE src_str[i] # "\n"
  <2>1. Newlines(i + 1) = N
    BY <1>5, <1>7 DEF Newlines
  <2>2. {j \in 1 .. (i + 1) : \A n \in Newlines(i + 1) : n < j} = C \cup {i + 1}
    <3>1. \A n \in N : n < i + 1
      BY DEF Newlines
    <3> HIDE DEF N
    <3> QED
      BY <2>1, <3>1, <1>5
  <2>3. Cardinality(C \cup {i + 1}) = Cardinality(C) + 1
    BY <1>2, <1>4, FS_AddElement
  <2> QED
    BY <2>1, <2>2, <2>3, <1>3, <1>7 DEF LineOf, ColOf
<1> QED
  BY <1>6, <1>7

(* The first unit is the first of the first line.                           *)
LEMMA FirstPosition == LineOf(1) = 1 /\ ColOf(1) = 1
<1>1. Newlines(1) = {}
  BY DEF Newlines
<1>2. {j \in 1 .. 1 : \A n \in Newlines(1) : n < j} = {1}
  BY <1>1
<1>3. Cardinality({}) = 0 /\ Cardinality({1}) = 1
  BY FS_EmptySet, FS_Singleton
<1> QED
  BY <1>1, <1>2, <1>3 DEF LineOf, ColOf

(* What is said of the source alone is said for good.                       *)
LEMMA SourceStays ==
  ASSUME src_str' = src_str
  PROVE  /\ \A i : LineOf(i)' = LineOf(i) /\ ColOf(i)' = ColOf(i)
         /\ \A tok : TokenSound(tok)' <=> TokenSound(tok)
         /\ \A i, j : OnlyTrivia(i, j)' <=> OnlyTrivia(i, j)
<1>1. \A i : LineOf(i)' = LineOf(i) /\ ColOf(i)' = ColOf(i)
  BY DEF LineOf, ColOf, Newlines
<1>2. \A tok : Text(tok)' = Text(tok) /\ Follower(tok)' = Follower(tok)
  BY DEF Text, Follower
<1>3. \A tok : IsWhole(tok)' <=> IsWhole(tok)
  BY <1>2 DEF IsWhole, IsWholeWord, IsWholeNumber, IsWholeString, IsWholeChar, IsWholeOperator
<1>4. \A tok : TokenSound(tok)' <=> TokenSound(tok)
  BY <1>1, <1>3 DEF TokenSound
<1>5. \A i, j : OnlyTrivia(i, j)' <=> OnlyTrivia(i, j)
  BY DEF OnlyTrivia, IsTrivia, InComment
<1> QED
  BY <1>1, <1>4, <1>5

(* The units of a stretch of the source.                                    *)
LEMMA Stretch ==
  ASSUME NEW s \in Seq(STRING), NEW i \in Nat \ {0}, NEW j \in Nat,
         i - 1 <= j, j <= Len(s)
  PROVE  /\ SubSeq(s, i, j) \in Seq(STRING) /\ Len(SubSeq(s, i, j)) = j - i + 1
         /\ \A k \in 1 .. (j - i + 1) : SubSeq(s, i, j)[k] = s[i + k - 1]
<1>1. \A k \in i .. j : s[k] \in STRING
  OBVIOUS
<1>2. i \in Int /\ j \in Int
  OBVIOUS
<1>3. /\ SubSeq(s, i, j) \in Seq(STRING)
      /\ Len(SubSeq(s, i, j)) = IF i <= j THEN j - i + 1 ELSE 0
      /\ \A k \in 1 .. (j - i + 1) : SubSeq(s, i, j)[k] = s[i + k - 1]
  BY <1>1, <1>2, SubSeqProperties
<1> QED
  BY <1>3

----------------------------------------------------------------------------
(* The source is a sequence, and what is said of the next unit.             *)
LEMMA SourceFacts ==
  ASSUME Cursor
  PROVE  /\ src_str \in Seq(STRING) /\ Len(src_str) \in Nat
         /\ src_idx \in Nat \ {0} /\ src_idx <= Len(src_str) + 1
         /\ AtSourceEnd <=> src_idx = Len(src_str) + 1
         /\ IsPeekInRange(1) <=> src_idx < Len(src_str)
         /\ Peek(0) = src_str[src_idx] /\ Peek(1) = src_str[src_idx + 1]
<1>1. src_str \in Seq(STRING)
  BY SourcesAssumption DEF Cursor
<1> QED
  BY <1>1 DEF Cursor, AtSourceEnd, IsPeekInRange, Peek

(* One unit further.                                                        *)
LEMMA AdvanceStep ==
  ASSUME Cursor, ~AtSourceEnd, Advance
  PROVE  Cursor' /\ src_idx' = src_idx + 1 /\ src_str' = src_str
<1>1. /\ src_idx' = src_idx + 1 /\ src_str' = src_str
      /\ line' = IF src_str[src_idx] = "\n" THEN line + 1 ELSE line
      /\ col' = IF src_str[src_idx] = "\n" THEN 1 ELSE col + 1
  BY SourceFacts DEF Advance
<1>2. src_idx' \in 1 .. (Len(src_str) + 1) /\ src_idx \in Nat \ {0}
      /\ line \in 1 .. src_idx /\ col \in 1 .. src_idx
      /\ line = LineOf(src_idx) /\ col = ColOf(src_idx)
  BY <1>1, SourceFacts DEF Cursor
<1>3. line' \in 1 .. src_idx' /\ col' \in 1 .. src_idx'
  BY <1>1, <1>2
<1>4. line' = LineOf(src_idx + 1) /\ col' = ColOf(src_idx + 1)
  BY <1>1, <1>2, NextPosition
<1>5. \A i : LineOf(i)' = LineOf(i) /\ ColOf(i)' = ColOf(i)
  BY <1>1, SourceStays
<1>6. LineOf(src_idx)' = LineOf(src_idx + 1) /\ ColOf(src_idx)' = ColOf(src_idx + 1)
  BY <1>1, <1>5 DEF LineOf, ColOf, Newlines
<1> QED
  BY <1>1, <1>2, <1>3, <1>4, <1>6 DEF Cursor

(* No unit further.                                                         *)
LEMMA StayStep ==
  ASSUME Cursor, Stay
  PROVE  Cursor' /\ src_idx' = src_idx /\ src_str' = src_str
BY DEF Cursor, Stay, LineOf, ColOf, Newlines

(* A step that returns nothing: what it leaves to show is where the current *)
(* token is and what it is made of.                                         *)
LEMMA GoOn ==
  ASSUME LInv, \/ Stay
               \/ ~AtSourceEnd /\ Advance,
         tokens' = tokens, Current', Covered'
  PROVE  LInv'
<1>1. /\ Cursor' /\ src_str' = src_str
      /\ src_idx \in Nat /\ src_idx' \in Nat /\ src_idx <= src_idx'
  BY AdvanceStep, StayStep, SourceFacts DEF LInv
<1>2. /\ \A tok : TokenSound(tok)' <=> TokenSound(tok)
      /\ \A i, j : OnlyTrivia(i, j)' <=> OnlyTrivia(i, j)
  BY <1>1, SourceStays
<1>3. \A i : End(i)' = End(i)
  BY DEF End
<1>4. Returned'
  <2>1. tokens \in Seq(TokenRecords)
    BY DEF LInv, Returned
  <2>2. ASSUME NEW i \in 1 .. Len(tokens)
        PROVE  /\ TokenSound(tokens[i])'
               /\ tokens[i].past <= src_idx'
               /\ OnlyTrivia(End(i - 1), Start(tokens[i]))'
    <3>1. tokens[i] \in TokenRecords
      BY <2>1
    <3>a. tokens[i].past \in Nat
      BY <3>1 DEF TokenRecords
    <3>2. Start(tokens[i])' = Start(tokens[i])
      BY DEF Start, IsQuoted
    <3> QED
      BY <3>a, <3>2, <1>1, <1>2, <1>3 DEF LInv, Returned
  <2> QED
    BY <2>1, <2>2 DEF Returned
<1> QED
  BY <1>1, <1>4 DEF LInv

(* Trivia, and one more unit of it.                                         *)
LEMMA MoreTrivia ==
  ASSUME NEW from \in Nat, NEW to \in Nat, OnlyTrivia(from, to), IsTrivia(to, from)
  PROVE  OnlyTrivia(from, to + 1)
BY DEF OnlyTrivia

(* The end of the last token returned is a place in the source.             *)
LEMMA EndFacts ==
  ASSUME LInv
  PROVE  End(Len(tokens)) \in Nat \ {0}
<1>1. tokens \in Seq(TokenRecords) /\ Len(tokens) \in Nat
  BY DEF LInv, Returned
<1>2. CASE Len(tokens) = 0
  BY <1>2 DEF End
<1>3. CASE Len(tokens) # 0
  <2>1. Len(tokens) \in 1 .. Len(tokens)
    BY <1>1, <1>3
  <2>2. tokens[Len(tokens)] \in TokenRecords /\ TokenSound(tokens[Len(tokens)])
    BY <1>1, <2>1 DEF LInv, Returned
  <2>3. tokens[Len(tokens)].past \in Nat \ {0}
    BY <2>2 DEF TokenRecords, TokenSound
  <2> QED
    BY <1>3, <2>3 DEF End, Past
<1> QED
  BY <1>2, <1>3

(* A blank, or a unit of a comment.                                         *)
LEMMA SkipBlankStep ==
  ASSUME LInv, SkipBlank
  PROVE  LInv'
<1>1. /\ mode = "between" /\ ~AtSourceEnd /\ Advance /\ Peek(0) \in Blanks
      /\ UNCHANGED <<mode, t, dot_found, prev_char_was_bslash, tokens>>
  BY DEF SkipBlank, IsNextIn, state
<1>2. Cursor' /\ src_idx' = src_idx + 1 /\ src_str' = src_str
  BY <1>1, AdvanceStep DEF LInv
<1>3. Current'
  BY <1>1, <1>2 DEF LInv, Current, TokenModes, WordOrNumber, QuotedModes, CharModes
<1>4. /\ CurrentStart = src_idx /\ CurrentStart' = src_idx + 1
  BY <1>1, <1>2 DEF CurrentStart, TokenModes, WordOrNumber, QuotedModes, CharModes
<1>5. IsTrivia(src_idx, End(Len(tokens))) /\ End(Len(tokens)) \in Nat /\ src_idx \in Nat
  BY <1>1, EndFacts, SourceFacts DEF IsTrivia, LInv
<1>6. OnlyTrivia(End(Len(tokens)), src_idx + 1)
  BY <1>1, <1>4, <1>5, MoreTrivia DEF LInv, Covered
<1>7. Covered'
  BY <1>1, <1>2, <1>4, <1>6, SourceStays DEF Covered, End
<1> QED
  BY <1>1, <1>3, <1>7, GoOn

(* From the trivia to a comment, from a comment to the trivia, and to the   *)
(* end of the source.                                                       *)
LEMMA BetweenStep ==
  ASSUME LInv, NEW m \in {"between", "comment", "eof"},
         mode \in {"between", "comment"}, Goto(m), Stay,
         m = "comment" => /\ ~AtSourceEnd
                          /\ IsCommentAhead
  PROVE  LInv'
<1>1. mode' = m /\ UNCHANGED <<t, dot_found, prev_char_was_bslash, tokens>>
  BY DEF Goto
<1>2. src_idx' = src_idx /\ src_str' = src_str
  BY StayStep DEF LInv
<1>3. Current'
  BY <1>1, <1>2 DEF LInv, Current, TokenModes, WordOrNumber, QuotedModes, CharModes, Modes
<1>4. CurrentStart = src_idx /\ CurrentStart' = src_idx
  BY <1>1, <1>2 DEF CurrentStart, TokenModes, WordOrNumber, QuotedModes, CharModes
<1>5. OnlyTrivia(End(Len(tokens)), src_idx) /\ End(Len(tokens)) <= src_idx
  BY <1>4 DEF LInv, Covered, OnlyTrivia
<1>6. OnlyTrivia(End(Len(tokens)), CurrentStart)'
  BY <1>1, <1>2, <1>4, <1>5, SourceStays DEF End
<1>7. m = "comment" => BeginsComment(src_idx)'
  BY <1>2, SourceFacts DEF LInv, IsCommentAhead, BeginsComment
<1>8. Covered'
  BY <1>1, <1>2, <1>5, <1>6, <1>7, SourceFacts DEF LInv, Covered, End
<1> QED
  BY <1>1, <1>3, <1>8, GoOn

(* A unit of a comment, which begins before it or with it.                  *)
LEMMA SkipInCommentStep ==
  ASSUME LInv, SkipInComment
  PROVE  LInv'
<1>1. CASE /\ ~AtSourceEnd /\ Peek(0) # "\n"
           /\ Advance /\ UNCHANGED state
  <2>1. /\ mode = "comment"
        /\ UNCHANGED <<mode, t, dot_found, prev_char_was_bslash, tokens>>
    BY <1>1 DEF SkipInComment, state
  <2>2. Cursor' /\ src_idx' = src_idx + 1 /\ src_str' = src_str
    BY <1>1, AdvanceStep DEF LInv
  <2>3. Current'
    BY <2>1, <2>2 DEF LInv, Current, TokenModes, WordOrNumber, QuotedModes, CharModes
  <2>4. CurrentStart = src_idx /\ CurrentStart' = src_idx + 1
    BY <2>1, <2>2 DEF CurrentStart, TokenModes, WordOrNumber, QuotedModes, CharModes
  <2>5. PICK c \in Nat : End(Len(tokens)) <= c /\ BeginsComment(c)
    BY <2>1 DEF LInv, Covered
  <2>6. /\ End(Len(tokens)) \in Nat /\ src_idx \in Nat
        /\ src_str[src_idx] # "\n"
    BY <1>1, EndFacts, SourceFacts DEF LInv
  <2>7. BeginsComment(c)'
    BY <2>2, <2>5, <2>6 DEF BeginsComment
  <2>8. IsTrivia(src_idx, End(Len(tokens)))
    <3>1. CASE c = src_idx
      BY <3>1, <2>5 DEF BeginsComment, IsTrivia
    <3>2. CASE c # src_idx
      <4>1. c \in End(Len(tokens)) .. (src_idx - 1)
        BY <3>2, <2>5, <2>6 DEF BeginsComment
      <4>2. \A k \in c .. src_idx : src_str[k] # "\n"
        BY <2>5, <2>6 DEF BeginsComment
      <4> QED
        BY <4>1, <4>2, <2>5 DEF BeginsComment, IsTrivia, InComment
    <3> QED
      BY <3>1, <3>2
  <2>9. OnlyTrivia(End(Len(tokens)), src_idx + 1)
    BY <2>1, <2>4, <2>6, <2>8, MoreTrivia DEF LInv, Covered
  <2>10. Covered'
    BY <2>1, <2>2, <2>4, <2>5, <2>7, <2>9, SourceStays DEF Covered, End
  <2> QED
    BY <1>1, <2>1, <2>3, <2>10, GoOn
<1>2. CASE Goto("between") /\ Stay
  BY <1>2, BetweenStep DEF SkipInComment
<1> QED
  BY <1>1, <1>2 DEF SkipInComment

----------------------------------------------------------------------------
(* A token begins where the trivia ends: at the next unit, or just past its *)
(* quote.                                                                   *)
LEMMA BeginStep ==
  ASSUME LInv, NEW m \in TokenModes, NEW first \in Nat, mode = "between", Begin(m, first),
         \/ Stay
         \/ ~AtSourceEnd /\ Advance,
         first = IF m \in QuotedModes THEN src_idx + 1 ELSE src_idx,
         first <= Len(src_str),
         m = "ident" => InWord',
         m = "number" => InNumber',
         m = "string" => InQuotes(Quote)',
         m \in CharModes => InQuotes("'")' /\ InChar',
         m = "operator" => InOperator'
  PROVE  LInv'
<1>1. /\ mode' = m /\ t' = [line |-> line, col |-> col, first |-> first]
      /\ dot_found' = FALSE /\ prev_char_was_bslash' = FALSE /\ tokens' = tokens
      /\ m # "exited" /\ m # "comment" /\ m \in Modes \ {"peeked_past_end"}
  BY DEF Begin, TokenModes, WordOrNumber, QuotedModes, CharModes, Modes
<1>2. Cursor' /\ src_str' = src_str /\ src_idx \in Nat
  BY AdvanceStep, StayStep, SourceFacts DEF LInv
<1>3. CurrentStart = src_idx /\ CurrentStart' = src_idx
  BY <1>1, <1>2 DEF CurrentStart, TokenModes, WordOrNumber, QuotedModes, CharModes
<1>4. /\ line \in Nat /\ col \in Nat
      /\ line = LineOf(src_idx) /\ col = ColOf(src_idx)
  BY <1>2 DEF LInv, Cursor
<1>5. t' \in [line : Nat, col : Nat, first : Nat] /\ t'.first = first
      /\ t'.line = line /\ t'.col = col
  BY <1>1, <1>4
<1>6. \A i : LineOf(i)' = LineOf(i) /\ ColOf(i)' = ColOf(i)
  BY <1>2, SourceStays
<1>7. LineOf(CurrentStart)' = LineOf(src_idx) /\ ColOf(CurrentStart)' = ColOf(src_idx)
  BY <1>2, <1>3, <1>6 DEF LineOf, ColOf, Newlines
<1>8. Current'
  BY <1>1, <1>2, <1>4, <1>5, <1>7 DEF Current
<1>9. OnlyTrivia(End(Len(tokens)), src_idx)
  BY <1>3 DEF LInv, Covered
<1>10. OnlyTrivia(End(Len(tokens)), CurrentStart)'
  BY <1>1, <1>2, <1>3, <1>9, SourceStays DEF End
<1>11. Covered'
  BY <1>1, <1>10 DEF Covered
<1> QED
  BY <1>1, <1>8, <1>11, GoOn

(* lex_ident begins with a letter it has not consumed.                      *)
LEMMA BeginIdentStep ==
  ASSUME LInv, BeginIdent
  PROVE  LInv'
<1>1. /\ mode = "between" /\ ~AtSourceEnd /\ Peek(0) \in Letters
      /\ Begin("ident", src_idx) /\ Stay
  BY DEF BeginIdent, AtToken
<1>2. /\ t'.first = src_idx /\ src_idx' = src_idx /\ src_str' = src_str
      /\ src_idx \in Nat \ {0} /\ src_idx <= Len(src_str) /\ Len(src_str) \in Nat
      /\ src_str[src_idx] \in Letters
  BY <1>1, SourceFacts, StayStep DEF LInv, Begin
<1>3. InWord'
  BY <1>2 DEF InWord
<1> QED
  BY <1>1, <1>2, <1>3, BeginStep DEF TokenModes, WordOrNumber, QuotedModes, CharModes

(* lex_int_flt_lit begins with a digit it has not consumed, or with the     *)
(* minus it has, before one.                                                *)
LEMMA BeginNumberStep ==
  ASSUME LInv, BeginNumber
  PROVE  LInv'
<1>1. /\ mode = "between" /\ ~AtSourceEnd
      /\ Begin("number", src_idx)
      /\ t'.first = src_idx /\ dot_found' = FALSE
      /\ src_idx \in Nat \ {0} /\ src_idx <= Len(src_str) /\ Len(src_str) \in Nat
  BY SourceFacts DEF BeginNumber, AtToken, Begin, LInv
<1>2. CASE Peek(0) \in Digits /\ Stay
  <2>1. src_idx' = src_idx /\ src_str' = src_str /\ src_str[src_idx] \in Digits
    BY <1>2, SourceFacts, StayStep DEF LInv
  <2>2. InNumber'
    BY <1>1, <2>1 DEF InNumber, DotsLexed
  <2> QED
    BY <1>1, <1>2, <2>2, BeginStep DEF TokenModes, WordOrNumber, QuotedModes, CharModes
<1>3. CASE IsNegative /\ Advance
  <2>1. /\ src_idx' = src_idx + 1 /\ src_str' = src_str
        /\ src_str[src_idx] = "-" /\ src_str[src_idx + 1] \in Digits
        /\ src_idx < Len(src_str)
    BY <1>1, <1>3, SourceFacts, AdvanceStep DEF LInv, IsNegative
  <2>2. {k \in t'.first .. (src_idx' - 1) : src_str'[k] = "."} = {}
    BY <1>1, <2>1
  <2>3. InNumber'
    BY <1>1, <2>1, <2>2 DEF InNumber, DotsLexed
  <2> QED
    BY <1>1, <1>3, <2>3, BeginStep DEF TokenModes, WordOrNumber, QuotedModes, CharModes
<1> QED
  BY <1>2, <1>3 DEF BeginNumber

(* The process exits: nothing more is promised of the token.                *)
LEMMA ExitStep ==
  ASSUME LInv, Exit
  PROVE  LInv'
<1>1. /\ mode' = "exited" /\ Stay
      /\ UNCHANGED <<t, dot_found, prev_char_was_bslash, tokens>>
  BY DEF Exit, Stay
<1>2. src_str' = src_str
  BY <1>1 DEF Stay
<1>3. Current'
  BY <1>1, <1>2 DEF LInv, Current, TokenModes, WordOrNumber, QuotedModes, CharModes, Modes
<1>4. Covered'
  BY <1>1 DEF Covered
<1> QED
  BY <1>1, <1>3, <1>4, GoOn

(* lex_str_lit and lex_char_lit begin past a quote that is not the last     *)
(* unit.                                                                    *)
LEMMA BeginQuotedStep ==
  ASSUME LInv, BeginQuoted
  PROVE  LInv'
<1>1. CASE Exit
  BY <1>1, ExitStep
<1>2. CASE IsPeekInRange(1) /\ Advance
           /\ Begin(IF Peek(0) = Quote THEN "string" ELSE "char", src_idx + 1)
  <2> DEFINE m == IF Peek(0) = Quote THEN "string" ELSE "char"
  <2>1. /\ mode = "between" /\ ~AtSourceEnd
        /\ src_idx' = src_idx + 1 /\ src_str' = src_str
        /\ src_idx \in Nat \ {0} /\ src_idx < Len(src_str) /\ Len(src_str) \in Nat
        /\ src_str[src_idx] \in {Quote, "'"}
        /\ m = IF src_str[src_idx] = Quote THEN "string" ELSE "char"
    BY <1>2, SourceFacts, AdvanceStep DEF LInv, BeginQuoted, AtToken
  <2>2. t'.first = src_idx + 1 /\ mode' = m /\ Begin(m, src_idx + 1)
    BY <1>2 DEF Begin
  <2> HIDE DEF m
  <2>3. m = "string" => InQuotes(Quote)'
    BY <2>1, <2>2 DEF InQuotes, AtSourceEnd
  <2>4. m = "char" => InQuotes("'")' /\ InChar'
    BY <2>1, <2>2 DEF InQuotes, InChar, AtSourceEnd
  <2>5. m \in QuotedModes /\ (m = "string" \/ m = "char")
    BY <2>1 DEF QuotedModes, CharModes
  <2>6. LInv /\ mode = "between" /\ m \in TokenModes /\ src_idx + 1 \in Nat
        /\ src_idx + 1 <= Len(src_str)
    BY <2>1, <2>5 DEF TokenModes
  <2>7. m # "ident" /\ m # "number" /\ m # "operator" /\ (m \in CharModes => m = "char")
    BY <2>5 DEF CharModes
  <2>8. ~AtSourceEnd /\ Advance
    BY <1>2, <2>1
  <2> QED
    BY <2>2, <2>3, <2>4, <2>5, <2>6, <2>7, <2>8, BeginStep
<1> QED
  BY <1>1, <1>2 DEF BeginQuoted

(* lex_non_ident_or_num begins past a unit that is an operator.             *)
LEMMA BeginOperatorStep ==
  ASSUME LInv, BeginOperator
  PROVE  LInv'
<1>1. CASE Exit
  BY <1>1, ExitStep
<1>2. CASE <<Peek(0)>> \in Operators /\ Advance /\ Begin("operator", src_idx)
  <2>1. /\ mode = "between" /\ ~AtSourceEnd
        /\ src_idx' = src_idx + 1 /\ src_str' = src_str
        /\ src_idx \in Nat \ {0} /\ src_idx <= Len(src_str) /\ Len(src_str) \in Nat
        /\ <<src_str[src_idx]>> \in Operators /\ src_str \in Seq(STRING)
        /\ t'.first = src_idx
    BY <1>2, SourceFacts, AdvanceStep DEF LInv, BeginOperator, AtToken, Begin
  <2>2. SubSeq(src_str, src_idx, src_idx) = <<src_str[src_idx]>>
    <3>1. /\ SubSeq(src_str, src_idx, src_idx) \in Seq(STRING)
          /\ Len(SubSeq(src_str, src_idx, src_idx)) = 1
          /\ \A k \in 1 .. 1 : SubSeq(src_str, src_idx, src_idx)[k] = src_str[src_idx + k - 1]
      BY <2>1, Stretch
    <3> DEFINE s == SubSeq(src_str, src_idx, src_idx)
    <3>2. s \in Seq(STRING) /\ Len(s) = 1 /\ s[1] = src_str[src_idx]
      BY <3>1, <2>1
    <3> HIDE DEF s
    <3>3. s = <<src_str[src_idx]>>
      BY <3>2
    <3> QED
      BY <3>3 DEF s
  <2>3. OperatorText' = <<src_str[src_idx]>>
    BY <2>1, <2>2 DEF OperatorText
  <2>4. InOperator'
    BY <2>1, <2>3 DEF InOperator
  <2> QED
    BY <1>2, <2>1, <2>4, BeginStep DEF TokenModes, WordOrNumber, QuotedModes, CharModes
<1> QED
  BY <1>1, <1>2 DEF BeginOperator

----------------------------------------------------------------------------
(* One more unit of a token, whose view starts where it did.                *)
LEMMA TakeStep ==
  ASSUME LInv, mode \in TokenModes, NEW m \in TokenModes, mode' = m,
         m \in QuotedModes <=> mode \in QuotedModes,
         UNCHANGED <<t, tokens>>, dot_found' \in BOOLEAN, prev_char_was_bslash' \in BOOLEAN,
         ~AtSourceEnd, Advance,
         m = "ident" => InWord',
         m = "number" => InNumber',
         m = "string" => InQuotes(Quote)',
         m \in CharModes => InQuotes("'")' /\ InChar',
         m = "operator" => InOperator'
  PROVE  LInv'
<1>1. src_str' = src_str
  BY AdvanceStep DEF LInv
<1>2. m \in Modes \ {"peeked_past_end"} /\ m # "exited" /\ m # "comment"
      /\ mode # "exited" /\ mode # "comment"
  BY DEF TokenModes, WordOrNumber, QuotedModes, CharModes, Modes
<1>3. CurrentStart' = CurrentStart
  BY DEF CurrentStart
<1>4. LineOf(CurrentStart)' = LineOf(CurrentStart) /\ ColOf(CurrentStart)' = ColOf(CurrentStart)
  BY <1>1, <1>3 DEF LineOf, ColOf, Newlines
<1>5. Current'
  BY <1>1, <1>2, <1>4 DEF LInv, Current
<1>6. OnlyTrivia(End(Len(tokens)), CurrentStart)'
  BY <1>1, <1>2, <1>3, SourceStays DEF LInv, Covered, End
<1>7. Covered'
  BY <1>2, <1>6 DEF Covered
<1> QED
  BY <1>5, <1>7, GoOn

(* The token returned for the part of the source that has been lexed.       *)
Returning(id, op) == [id |-> id, op |-> op, line |-> t.line, col |-> t.col,
                      first |-> t.first, past |-> src_idx]

(* A token that is whole is returned, and the next begins where it ends.    *)
LEMMA ReturnStep ==
  ASSUME LInv, mode \in TokenModes, NEW id \in TokenIds, NEW op \in Operators \cup {<<>>},
         Return(id, op),
         \/ /\ mode \in QuotedModes /\ id \in {"STR_LITERAL", "CHAR_LITERAL"}
            /\ ~AtSourceEnd /\ Advance
         \/ /\ mode \notin QuotedModes /\ id \notin {"STR_LITERAL", "CHAR_LITERAL"}
            /\ Stay,
         t.first \in 1 .. src_idx,
         IsWhole(Returning(id, op))
  PROVE  LInv'
<1> DEFINE tok == Returning(id, op)
           n == Len(tokens)
<1>1. /\ mode' = "between" /\ tokens' = Append(tokens, tok)
      /\ UNCHANGED <<t, dot_found, prev_char_was_bslash>>
  BY DEF Return, Returning
<1>2. /\ tok.id = id /\ tok.line = t.line /\ tok.col = t.col
      /\ tok.first = t.first /\ tok.past = src_idx
  BY DEF Returning
<1>3. /\ Cursor' /\ src_str' = src_str /\ src_idx \in Nat /\ src_idx' \in Nat
      /\ src_idx' = IF mode \in QuotedModes THEN src_idx + 1 ELSE src_idx
  BY AdvanceStep, StayStep, SourceFacts DEF LInv
<1>4. tok \in TokenRecords
  BY <1>3 DEF Returning, TokenRecords, LInv, Current
<1>5. Start(tok) = CurrentStart /\ Past(tok) = src_idx'
  BY <1>2, <1>3 DEF Start, Past, IsQuoted, CurrentStart
<1>6. TokenSound(tok)
  BY <1>2, <1>3, <1>5 DEF TokenSound, LInv, Current
<1>7. tokens \in Seq(TokenRecords) /\ n \in Nat
  BY DEF LInv, Returned
<1> HIDE DEF tok
<1>8. /\ tokens' \in Seq(TokenRecords) /\ Len(tokens') = n + 1
      /\ tokens'[n + 1] = tok /\ \A i \in 1 .. n : tokens'[i] = tokens[i]
  BY <1>1, <1>4, <1>7
<1>9. \A i \in 0 .. n : End(i)' = End(i)
  BY <1>8, <1>7 DEF End
<1>10. ASSUME NEW i \in 1 .. (n + 1)
       PROVE  /\ TokenSound(tokens'[i])
              /\ tokens'[i].past <= src_idx'
              /\ OnlyTrivia(End(i - 1), Start(tokens'[i]))
  <2>1. CASE i = n + 1
    <3>1. OnlyTrivia(End(n), CurrentStart)
      BY DEF LInv, Covered, TokenModes, WordOrNumber, QuotedModes, CharModes
    <3> QED
      BY <3>1, <2>1, <1>2, <1>3, <1>5, <1>6, <1>7, <1>8
  <2>2. CASE i \in 1 .. n
    <3>1. TokenSound(tokens[i]) /\ tokens[i].past <= src_idx
          /\ OnlyTrivia(End(i - 1), Start(tokens[i])) /\ tokens[i] \in TokenRecords
      BY <2>2, <1>7 DEF LInv, Returned
    <3>2. tokens[i].past \in Nat
      BY <3>1 DEF TokenRecords
    <3> QED
      BY <3>1, <3>2, <2>2, <1>3, <1>8
  <2> QED
    BY <2>1, <2>2, <1>7
<1>11. Returned'
  <2>1. ASSUME NEW i \in 1 .. (n + 1)
        PROVE  /\ TokenSound(tokens[i])'
               /\ OnlyTrivia(End(i - 1), Start(tokens[i]))'
    <3>1. \A tk : TokenSound(tk)' <=> TokenSound(tk)
      BY <1>3, SourceStays
    <3>2. TokenSound(tokens[i])' <=> TokenSound(tokens'[i])
      BY <1>3 DEF TokenSound, LineOf, ColOf, Newlines, IsWhole, IsWholeWord, IsWholeNumber,
                  IsWholeString, IsWholeChar, IsWholeOperator, Text, Follower
    <3>3. End(i - 1)' = End(i - 1)
      BY <1>7, <1>9
    <3>4. OnlyTrivia(End(i - 1), Start(tokens[i]))' <=> OnlyTrivia(End(i - 1), Start(tokens'[i]))
      BY <1>3, <3>3 DEF OnlyTrivia, IsTrivia, InComment, Start, IsQuoted
    <3> QED
      BY <3>2, <3>4, <1>10
  <2> QED
    BY <2>1, <1>8, <1>10 DEF Returned
<1>12. Current'
  BY <1>1, <1>3 DEF LInv, Current, TokenModes, WordOrNumber, QuotedModes, CharModes, Modes
<1>13. Covered'
  <2>1. CurrentStart' = src_idx'
    BY <1>1 DEF CurrentStart, TokenModes, WordOrNumber, QuotedModes, CharModes
  <2>2. End(Len(tokens))' = src_idx'
    <3>1. End(Len(tokens))' = Past(tok)
      BY <1>7, <1>8 DEF End, Past, IsQuoted
    <3> QED
      BY <3>1, <1>5
  <2>3. OnlyTrivia(End(Len(tokens)), CurrentStart)'
    BY <2>1, <2>2, <1>3 DEF OnlyTrivia
  <2> QED
    BY <2>3, <1>1 DEF Covered
<1> QED
  BY <1>3, <1>11, <1>12, <1>13 DEF LInv

----------------------------------------------------------------------------
(* The text of a token that would be returned now, and the unit after it.   *)
LEMMA TextFacts ==
  ASSUME LInv, NEW n \in Nat, t.first \in 1 .. src_idx, n = src_idx - t.first,
         NEW tok, tok.first = t.first, tok.past = src_idx
  PROVE  /\ Text(tok) \in Seq(STRING) /\ Len(Text(tok)) = n
         /\ DOMAIN Text(tok) = 1 .. n
         /\ \A k \in 1 .. n : Text(tok)[k] = src_str[t.first + k - 1]
         /\ Follower(tok) = IF AtSourceEnd THEN " " ELSE src_str[src_idx]
         /\ OperatorText = Text(tok)
<1> DEFINE text == SubSeq(src_str, t.first, src_idx - 1)
<1>1. /\ src_str \in Seq(STRING) /\ Len(src_str) \in Nat /\ src_idx <= Len(src_str) + 1
      /\ src_idx \in Nat \ {0} /\ t.first \in Nat \ {0} /\ t.first <= src_idx
      /\ AtSourceEnd <=> src_idx > Len(src_str)
  BY SourceFacts DEF LInv, AtSourceEnd
<1>2. /\ text \in Seq(STRING) /\ Len(text) = (src_idx - 1) - t.first + 1
      /\ \A k \in 1 .. ((src_idx - 1) - t.first + 1) : text[k] = src_str[t.first + k - 1]
  BY <1>1, Stretch
<1>3. (src_idx - 1) - t.first + 1 = n /\ n \in Nat
  BY <1>1
<1>4. Text(tok) = text /\ OperatorText = text
  BY DEF Text, OperatorText
<1>5. Follower(tok) = IF AtSourceEnd THEN " " ELSE src_str[src_idx]
  BY <1>1 DEF Follower
<1> HIDE DEF text
<1>6. /\ text \in Seq(STRING) /\ Len(text) = n /\ DOMAIN text = 1 .. n
      /\ \A k \in 1 .. n : text[k] = src_str[t.first + k - 1]
  BY <1>2, <1>3
<1> QED
  BY <1>4, <1>5, <1>6

(* The kinds of token are apart.                                            *)
LEMMA IdsApart ==
  /\ WordIds \cup {"INT_LITERAL", "FLOAT_LITERAL", "STR_LITERAL", "CHAR_LITERAL", "OPERATOR"}
       = TokenIds
  /\ \A id \in WordIds :
       id \notin {"INT_LITERAL", "FLOAT_LITERAL", "STR_LITERAL", "CHAR_LITERAL", "OPERATOR"}
BY DEF TokenIds, WordIds

(* lex_ident: a word ends where no letter or digit follows.                 *)
LEMMA LexIdentStep ==
  ASSUME LInv, LexIdent
  PROVE  LInv'
<1>1. mode = "ident" /\ mode \in TokenModes /\ mode \notin QuotedModes /\ InWord
  BY DEF LexIdent, LInv, Current, TokenModes, WordOrNumber, QuotedModes, CharModes
<1>2. CASE IsNextIn(Letters \cup Digits) /\ Advance /\ UNCHANGED state
  <2>1. /\ ~AtSourceEnd /\ src_str[src_idx] \in Letters \cup Digits
        /\ src_idx' = src_idx + 1 /\ src_str' = src_str /\ src_idx \in Nat
        /\ UNCHANGED <<mode, t, dot_found, prev_char_was_bslash, tokens>>
    BY <1>2, SourceFacts, AdvanceStep DEF LInv, IsNextIn, state
  <2>2. InWord'
    BY <1>1, <2>1 DEF InWord
  <2>3. dot_found \in BOOLEAN /\ prev_char_was_bslash \in BOOLEAN
    BY DEF LInv, Current
  <2> QED
    BY <1>1, <1>2, <2>1, <2>2, <2>3, TakeStep
    DEF TokenModes, WordOrNumber, QuotedModes, CharModes
<1>3. CASE ~IsNextIn(Letters \cup Digits) /\ Return(IdentId, <<>>) /\ Stay
  <2> DEFINE tok == Returning(IdentId, <<>>)
             n == src_idx - t.first
  <2>1. IdentId \in WordIds
    BY DEF IdentId, WordIds
  <2>2. /\ src_idx \in Nat /\ t.first \in 1 .. src_idx
        /\ src_str[t.first] \in Letters
        /\ \A k \in t.first .. (src_idx - 1) : src_str[k] \in Letters \cup Digits
        /\ AtSourceEnd \/ src_str[src_idx] \notin Letters \cup Digits
        /\ t.first <= Len(src_str) /\ Len(src_str) \in Nat
        /\ AtSourceEnd => src_idx = Len(src_str) + 1
    BY <1>1, <1>3, SourceFacts DEF LInv, Current, InWord, IsNextIn
  <2>3. t.first # src_idx
    BY <2>2
  <2>a. n \in Nat /\ n >= 1 /\ t.first \in Nat /\ n = src_idx - t.first
    BY <2>2, <2>3
  <2>b. tok.first = t.first /\ tok.past = src_idx
    BY DEF Returning
  <2> HIDE DEF tok, n
  <2>4. /\ Len(Text(tok)) = n /\ DOMAIN Text(tok) = 1 .. n
        /\ \A k \in 1 .. n : Text(tok)[k] = src_str[t.first + k - 1]
        /\ Follower(tok) = IF AtSourceEnd THEN " " ELSE src_str[src_idx]
    BY <2>2, <2>a, <2>b, TextFacts
  <2>5. /\ Text(tok)[1] \in Letters
        /\ \A k \in 1 .. n : Text(tok)[k] \in Letters \cup Digits
    <3>1. 1 \in 1 .. n /\ t.first + 1 - 1 = t.first
      BY <2>a
    <3>2. ASSUME NEW k \in 1 .. n PROVE t.first + k - 1 \in t.first .. (src_idx - 1)
      BY <2>2, <2>a
    <3> QED
      BY <3>1, <3>2, <2>2, <2>4
  <2>6. Follower(tok) \notin Letters \cup Digits
    BY <2>2, <2>4 DEF Letters, Digits
  <2>7. IsWholeWord(tok)
    BY <2>4, <2>5, <2>6 DEF IsWholeWord, Units
  <2>8. IsWhole(tok)
    BY <2>1, <2>7, IdsApart DEF IsWhole, tok, Returning
  <2> QED
    BY <1>1, <1>3, <2>1, <2>2, <2>8, ReturnStep, IdsApart DEF tok
<1> QED
  BY <1>2, <1>3 DEF LexIdent

(* lex_int_flt_lit: a number ends with a digit, where no digit or dot       *)
(* follows.                                                                 *)
LEMMA WholeNumber ==
  ASSUME LInv, InNumber, ~IsNextIn(Digits \cup {"."}), src_str[src_idx - 1] # ".",
         NEW n \in Nat, n = src_idx - t.first,
         NEW tok, tok.first = t.first, tok.past = src_idx
  PROVE  IsWholeNumber(tok, IF dot_found THEN 1 ELSE 0)
<1>1. /\ src_idx \in Nat /\ t.first \in Nat /\ t.first >= 1 /\ t.first <= src_idx
      /\ t.first \in 1 .. src_idx
      /\ t.first <= Len(src_str) /\ Len(src_str) \in Nat
  BY SourceFacts DEF LInv, Current, InNumber
<1>a. \/ src_str[t.first] \in Digits
      \/ /\ src_str[t.first] = "-" /\ t.first < Len(src_str)
         /\ src_str[t.first + 1] \in Digits
  BY DEF InNumber
<1>b. \A k \in (t.first + 1) .. (src_idx - 1) : src_str[k] \in Digits \cup {"."}
  BY DEF InNumber
<1>c. src_str[src_idx] \in Digits => src_idx = Len(src_str) + 1
  BY SourceFacts DEF LInv, IsNextIn
<1>d. AtSourceEnd \/ src_str[src_idx] \notin Digits \cup {"."}
  BY SourceFacts DEF LInv, IsNextIn
<1>2. t.first # src_idx
  <2>1. CASE src_str[t.first] \in Digits
    BY <2>1, <1>1, <1>c
  <2>2. CASE src_str[t.first] = "-" /\ t.first < src_idx
    BY <2>2, <1>1
  <2> QED
    BY <2>1, <2>2 DEF InNumber
<1>3. src_str[t.first] = "-" => t.first + 1 # src_idx
  <2>1. "-" \notin Digits
    BY DEF Digits
  <2> QED
    BY <2>1, <1>1, <1>a, <1>c
<1>4. n >= 1 /\ (src_str[t.first] = "-" => n >= 2)
  BY <1>1, <1>2, <1>3
<1>5. /\ Len(Text(tok)) = n /\ DOMAIN Text(tok) = 1 .. n
      /\ \A k \in 1 .. n : Text(tok)[k] = src_str[t.first + k - 1]
      /\ Follower(tok) = IF AtSourceEnd THEN " " ELSE src_str[src_idx]
  BY <1>1, TextFacts
<1>6. t.first + 1 - 1 = t.first /\ t.first + 2 - 1 = t.first + 1 /\ t.first + n - 1 = src_idx - 1
      /\ 1 \in 1 .. n /\ n \in 1 .. n /\ (n >= 2 => 2 \in 1 .. n)
  BY <1>1, <1>4
<1>7. /\ Text(tok)[1] = src_str[t.first] /\ Text(tok)[n] = src_str[src_idx - 1]
      /\ n >= 2 => Text(tok)[2] = src_str[t.first + 1]
  BY <1>5, <1>6
<1>8. ASSUME NEW k \in 1 .. n, k # 1
      PROVE  Text(tok)[k] \in Digits \cup {"."}
  <2>1. t.first + k - 1 \in (t.first + 1) .. (src_idx - 1)
    BY <1>1, <1>8
  <2> QED
    BY <2>1, <1>b, <1>5
<1>9. Text(tok)[n] \in Digits
  <2>1. CASE n = 1
    BY <2>1, <1>a, <1>4, <1>7
  <2>2. CASE n # 1
    <3>1. Text(tok)[n] \in Digits \cup {"."}
      BY <2>2, <1>6, <1>8
    <3> QED
      BY <3>1, <1>7
  <2> QED
    BY <2>1, <2>2
<1>10. Units(Text(tok)) \ {Text(tok)[1]} \subseteq Digits \cup {"."}
  BY <1>5, <1>8 DEF Units
<1>11. Text(tok)[1] \in Digits \/ (Text(tok)[1] = "-" /\ Text(tok)[2] \in Digits)
  BY <1>a, <1>4, <1>7
<1>12. Cardinality(Dots(Text(tok))) = IF dot_found THEN 1 ELSE 0
  <2>1. ASSUME NEW k \in 1 .. n
        PROVE  Text(tok)[k] = "." <=> t.first + k - 1 \in DotsLexed
    <3>1. t.first + k - 1 \in t.first .. (src_idx - 1)
      BY <1>1
    <3> QED
      BY <3>1, <1>5 DEF DotsLexed
  <2>2. CASE ~dot_found
    <3>1. DotsLexed = {}
      BY <2>2 DEF InNumber
    <3>2. Dots(Text(tok)) = {}
      BY <3>1, <2>1, <1>5 DEF Dots
    <3> QED
      BY <3>2, <2>2, FS_EmptySet
  <2>3. CASE dot_found
    <3>1. PICK d \in Nat : DotsLexed = {d}
      BY <2>3 DEF InNumber
    <3>2. d \in t.first .. (src_idx - 1)
      BY <3>1 DEF DotsLexed
    <3> DEFINE e == d - t.first + 1
    <3>3. e \in 1 .. n /\ t.first + e - 1 = d
      BY <3>2, <1>1
    <3>4. \A k \in 1 .. n : t.first + k - 1 = d => k = e
      BY <3>2, <1>1
    <3> HIDE DEF e
    <3>5. Dots(Text(tok)) = {e}
      BY <3>1, <3>3, <3>4, <2>1, <1>5 DEF Dots
    <3> QED
      BY <3>5, <2>3, FS_Singleton
  <2> QED
    BY <2>2, <2>3
<1>13. Follower(tok) \notin Digits \cup {"."}
  BY <1>d, <1>5 DEF Digits
<1> QED
  BY <1>5, <1>9, <1>10, <1>11, <1>12, <1>13 DEF IsWholeNumber

(* One unit more of a number, or the number.                                *)
LEMMA LexNumberStep ==
  ASSUME LInv, LexNumber
  PROVE  LInv'
<1>1. /\ mode = "number" /\ mode \in TokenModes /\ mode \notin QuotedModes /\ InNumber
      /\ src_idx \in Nat /\ t.first \in 1 .. src_idx
      /\ dot_found \in BOOLEAN /\ prev_char_was_bslash \in BOOLEAN
  BY SourceFacts
  DEF LexNumber, LInv, Current, TokenModes, WordOrNumber, QuotedModes, CharModes, InNumber
<1>2. ASSUME Advance, ~AtSourceEnd, UNCHANGED <<mode, t, prev_char_was_bslash, tokens>>,
             dot_found' \in BOOLEAN,
             \/ src_str[src_idx] \in Digits /\ dot_found' = dot_found
             \/ src_str[src_idx] = "." /\ ~dot_found /\ dot_found'
      PROVE  LInv'
  <2>1. src_idx' = src_idx + 1 /\ src_str' = src_str
    BY <1>2, AdvanceStep DEF LInv
  <2>2. t.first .. ((src_idx + 1) - 1) = (t.first .. (src_idx - 1)) \cup {src_idx}
    BY <1>1
  <2>3. DotsLexed' = IF src_str[src_idx] = "." THEN DotsLexed \cup {src_idx} ELSE DotsLexed
    BY <1>2, <2>1, <2>2 DEF DotsLexed
  <2>4. /\ ~dot_found' => DotsLexed' = {}
        /\ dot_found' => \E k \in Nat : DotsLexed' = {k}
    <3>1. CASE src_str[src_idx] \in Digits /\ dot_found' = dot_found
      BY <3>1, <2>3, <1>1 DEF Digits, InNumber
    <3>2. CASE src_str[src_idx] = "." /\ ~dot_found /\ dot_found'
      <4>1. DotsLexed = {}
        BY <3>2, <1>1 DEF InNumber
      <4>2. DotsLexed' = {src_idx}
        BY <3>2, <4>1, <2>3
      <4> QED
        BY <3>2, <4>2, <1>1
    <3> QED
      BY <3>1, <3>2, <1>2
  <2>5. /\ t'.first \in 1 .. src_idx'
        /\ \/ src_str'[t'.first] \in Digits
           \/ /\ src_str'[t'.first] = "-" /\ t'.first < src_idx' /\ t'.first < Len(src_str')
              /\ src_str'[t'.first + 1] \in Digits
        /\ \A k \in (t'.first + 1) .. (src_idx' - 1) : src_str'[k] \in Digits \cup {"."}
    <3>1. /\ t' = t /\ t.first \in Nat /\ t.first <= src_idx
          /\ \/ src_str[t.first] \in Digits
             \/ /\ src_str[t.first] = "-" /\ t.first < src_idx /\ t.first < Len(src_str)
                /\ src_str[t.first + 1] \in Digits
          /\ \A k \in (t.first + 1) .. (src_idx - 1) : src_str[k] \in Digits \cup {"."}
      BY <1>1, <1>2 DEF InNumber
    <3>2. src_str[src_idx] \in Digits \cup {"."}
      BY <1>2
    <3>3. t.first \in 1 .. (src_idx + 1) /\ (t.first < src_idx => t.first < src_idx + 1)
      BY <1>1
    <3>4. \A k \in (t.first + 1) .. ((src_idx + 1) - 1) :
             k \in (t.first + 1) .. (src_idx - 1) \/ k = src_idx
      BY <1>1
    <3> QED
      BY <3>1, <3>2, <3>3, <3>4, <2>1
  <2>6. InNumber'
    BY <2>4, <2>5 DEF InNumber
  <2>7. /\ mode' = "number" /\ "number" \in TokenModes /\ "number" \notin QuotedModes
        /\ prev_char_was_bslash' \in BOOLEAN /\ UNCHANGED <<t, tokens>>
        /\ "number" \notin CharModes
    BY <1>1, <1>2 DEF CharModes, QuotedModes
  <2> QED
    BY <1>1, <1>2, <2>6, <2>7, TakeStep
<1>3. CASE IsNextIn(Digits) /\ Advance /\ UNCHANGED state
  <2>1. /\ ~AtSourceEnd /\ src_str[src_idx] \in Digits
        /\ UNCHANGED <<mode, t, dot_found, prev_char_was_bslash, tokens>>
    BY <1>3, SourceFacts DEF LInv, IsNextIn, state
  <2> QED
    BY <1>1, <1>2, <1>3, <2>1
<1>4. CASE /\ IsNextIn({"."}) /\ ~dot_found
           /\ dot_found' = TRUE
           /\ Advance /\ UNCHANGED <<mode, t, prev_char_was_bslash, tokens>>
  <2>1. ~AtSourceEnd /\ src_str[src_idx] = "."
    BY <1>4, SourceFacts DEF LInv, IsNextIn
  <2> QED
    BY <1>2, <1>4, <2>1
<1>5. CASE Exit
  BY <1>5, ExitStep
<1>6. CASE /\ ~IsNextIn(Digits \cup {"."}) /\ src_str[src_idx - 1] # "."
           /\ Return(IF dot_found THEN "FLOAT_LITERAL" ELSE "INT_LITERAL", <<>>) /\ Stay
  <2> DEFINE id == IF dot_found THEN "FLOAT_LITERAL" ELSE "INT_LITERAL"
             tok == Returning(id, <<>>)
             n == src_idx - t.first
  <2>1. n \in Nat
    BY <1>1
  <2>2. tok.first = t.first /\ tok.past = src_idx /\ tok.id = id
    BY DEF Returning
  <2>3. /\ id \in TokenIds /\ id \notin WordIds
        /\ id \notin {"STR_LITERAL", "CHAR_LITERAL", "OPERATOR"}
        /\ id = "INT_LITERAL" => ~dot_found
        /\ id = "FLOAT_LITERAL" => dot_found
    BY DEF TokenIds, WordIds
  <2>4. Return(id, <<>>) /\ Stay
    BY <1>6
  <2> HIDE DEF id, tok, n
  <2>5. IsWholeNumber(tok, IF dot_found THEN 1 ELSE 0)
    BY <1>1, <1>6, <2>1, <2>2, WholeNumber DEF n
  <2>6. IsWhole(tok)
    BY <2>2, <2>3, <2>5 DEF IsWhole
  <2> QED
    BY <1>1, <2>3, <2>4, <2>6, ReturnStep DEF tok
<1> QED
  BY <1>3, <1>4, <1>5, <1>6 DEF LexNumber

(* lex_str_lit: a unit of the string, or the quote that ends it.            *)
LEMMA LexStringStep ==
  ASSUME LInv, LexString
  PROVE  LInv'
<1>1. /\ mode = "string" /\ mode \in TokenModes /\ mode \in QuotedModes /\ InQuotes(Quote)
      /\ ~AtSourceEnd /\ src_idx \in Nat
      /\ dot_found \in BOOLEAN
      /\ mode # "ident" /\ mode # "number" /\ mode # "operator" /\ mode \notin CharModes
  BY SourceFacts
  DEF LexString, LInv, Current, TokenModes, WordOrNumber, QuotedModes, CharModes, InQuotes
<1>2. CASE /\ Peek(0) = Quote
           /\ Return("STR_LITERAL", <<>>) /\ Advance
  <2> DEFINE tok == Returning("STR_LITERAL", <<>>)
             n == src_idx - t.first
  <2>1. t.first \in 1 .. src_idx /\ n \in Nat /\ src_str[t.first - 1] = Quote
    BY <1>1 DEF InQuotes
  <2>2. tok.first = t.first /\ tok.past = src_idx /\ tok.id = "STR_LITERAL"
    BY DEF Returning
  <2> HIDE DEF tok, n
  <2>3. Follower(tok) = src_str[src_idx] /\ src_str[src_idx] = Quote
    BY <1>1, <1>2, <2>1, <2>2, TextFacts, SourceFacts DEF n, LInv
  <2>4. IsWhole(tok)
    BY <2>1, <2>2, <2>3, IdsApart DEF IsWhole, IsWholeString
  <2>5. "STR_LITERAL" \in TokenIds
    BY DEF TokenIds
  <2> QED
    BY <1>1, <1>2, <2>1, <2>4, <2>5, ReturnStep DEF tok
<1>3. CASE /\ IsPeekInRange(1)
           /\ prev_char_was_bslash' = (Peek(0) = "\\")
           /\ Advance /\ UNCHANGED <<mode, t, dot_found, tokens>>
  <2>1. src_idx' = src_idx + 1 /\ src_str' = src_str /\ src_idx < Len(src_str)
        /\ Len(src_str) \in Nat
    BY <1>1, <1>3, AdvanceStep, SourceFacts DEF LInv
  <2>2. InQuotes(Quote)'
    BY <1>1, <1>3, <2>1 DEF InQuotes, AtSourceEnd
  <2>3. prev_char_was_bslash' \in BOOLEAN
    BY <1>3
  <2> QED
    BY <1>1, <1>3, <2>2, <2>3, TakeStep
<1>4. CASE Exit
  BY <1>4, ExitStep
<1> QED
  BY <1>1, <1>2, <1>3, <1>4 DEF LexString

(* lex_char_lit up to its end: the unit, or the backslash before it.        *)
LEMMA LexCharBodyStep ==
  ASSUME LInv, LexCharBody
  PROVE  LInv'
<1> DEFINE m == IF mode = "char" /\ Peek(0) = "\\" THEN "char_body" ELSE "char_end"
<1>1. /\ mode \in {"char", "char_body"} /\ mode \in TokenModes /\ mode \in QuotedModes
      /\ InQuotes("'") /\ InChar
      /\ ~AtSourceEnd /\ src_idx \in Nat /\ t.first \in 2 .. src_idx
      /\ dot_found \in BOOLEAN /\ prev_char_was_bslash \in BOOLEAN
  BY SourceFacts
  DEF LexCharBody, LInv, Current, TokenModes, WordOrNumber, QuotedModes, CharModes, InQuotes
<1>2. CASE Exit
  BY <1>2, ExitStep
<1>3. CASE IsPeekInRange(1) /\ Advance /\ Goto(m)
  <2>1. /\ src_idx' = src_idx + 1 /\ src_str' = src_str /\ src_idx < Len(src_str)
        /\ Len(src_str) \in Nat
        /\ m = IF mode = "char" /\ src_str[src_idx] = "\\" THEN "char_body" ELSE "char_end"
    BY <1>1, <1>3, AdvanceStep, SourceFacts DEF LInv
  <2>2. mode' = m /\ UNCHANGED <<t, dot_found, prev_char_was_bslash, tokens>>
    BY <1>3 DEF Goto
  <2> HIDE DEF m
  <2>3. InQuotes("'")'
    BY <1>1, <2>1, <2>2 DEF InQuotes, AtSourceEnd
  <2>4. InChar'
    <3>1. CASE mode = "char"
      BY <3>1, <1>1, <2>1, <2>2 DEF InChar
    <3>2. CASE mode = "char_body"
      BY <3>2, <1>1, <2>1, <2>2 DEF InChar
    <3> QED
      BY <3>1, <3>2, <1>1
  <2>5. /\ m \in CharModes /\ m \in TokenModes /\ m \in QuotedModes
        /\ m # "ident" /\ m # "number" /\ m # "operator" /\ m # "string"
    BY <2>1 DEF CharModes, QuotedModes, TokenModes
  <2> QED
    BY <1>1, <1>3, <2>2, <2>3, <2>4, <2>5, TakeStep
<1> QED
  BY <1>1, <1>2, <1>3 DEF LexCharBody, AdvanceTo

(* The quote that ends a character, one unit after its first or, past a     *)
(* backslash, two.                                                          *)
LEMMA LexCharEndStep ==
  ASSUME LInv, LexCharEnd
  PROVE  LInv'
<1>1. /\ mode = "char_end" /\ mode \in TokenModes /\ mode \in QuotedModes
      /\ InQuotes("'") /\ InChar /\ ~AtSourceEnd /\ src_idx \in Nat
      /\ t.first \in 1 .. src_idx /\ src_str[t.first - 1] = "'"
  BY SourceFacts
  DEF LexCharEnd, LInv, Current, TokenModes, WordOrNumber, QuotedModes, CharModes, InQuotes
<1>2. CASE /\ Peek(0) = "'"
           /\ Return("CHAR_LITERAL", <<>>) /\ Advance
  <2> DEFINE tok == Returning("CHAR_LITERAL", <<>>)
             n == src_idx - t.first
  <2>1. n \in Nat /\ n = IF src_str[t.first] = "\\" THEN 2 ELSE 1
    BY <1>1 DEF InChar
  <2>2. tok.first = t.first /\ tok.past = src_idx /\ tok.id = "CHAR_LITERAL"
    BY DEF Returning
  <2>a. n = src_idx - t.first /\ t.first + 1 - 1 = t.first /\ 1 \in 1 .. n
    BY <1>1, <2>1
  <2> HIDE DEF tok, n
  <2>3. /\ Follower(tok) = src_str[src_idx] /\ src_str[src_idx] = "'"
        /\ Len(Text(tok)) = n /\ Text(tok)[1] = src_str[t.first + 1 - 1]
    BY <1>1, <1>2, <2>1, <2>2, <2>a, TextFacts, SourceFacts DEF LInv
  <2>4. IsWhole(tok)
    BY <1>1, <2>1, <2>2, <2>3, <2>a, IdsApart DEF IsWhole, IsWholeChar
  <2>5. "CHAR_LITERAL" \in TokenIds
    BY DEF TokenIds
  <2> QED
    BY <1>1, <1>2, <2>4, <2>5, ReturnStep DEF tok
<1>3. CASE Exit
  BY <1>3, ExitStep
<1> QED
  BY <1>1, <1>2, <1>3 DEF LexCharEnd

(* What comes after a sequence, whatever it is.                             *)
LEMMA AppendedUnit ==
  ASSUME NEW S, NEW seq \in Seq(S), NEW unit
  PROVE  /\ Len(seq) \in Nat /\ Len(Append(seq, unit)) = Len(seq) + 1
         /\ Append(seq, unit)[Len(seq) + 1] = unit
<1> DEFINE Wider == S \cup {unit}
<1>1. /\ \A i \in 1 .. Len(seq) : seq[i] \in S
      /\ Len(seq) \in Nat /\ seq = [i \in 1 .. Len(seq) |-> seq[i]]
  OBVIOUS
<1>2. /\ \A i \in 1 .. Len(seq) : seq[i] \in Wider
      /\ unit \in Wider
  BY <1>1
<1> HIDE DEF Wider
<1>3. seq \in Seq(Wider)
  BY <1>1, <1>2
<1> QED
  BY <1>1, <1>2, <1>3, AppendProperties

(* No operator ends with a blank, and "|=" is one.                          *)
LEMMA OperatorFacts ==
  /\ <<"|", "=">> \in Operators
  /\ \A text \in Seq(STRING) : Append(text, " ") \notin Operators
<1>1. ASSUME NEW text \in Seq(STRING) PROVE Append(text, " ") \notin Operators
  <2> DEFINE longer == Append(text, " ")
  <2>1. /\ Len(longer) = Len(text) + 1 /\ Len(text) \in Nat
        /\ longer[Len(text) + 1] = " "
    BY AppendedUnit
  <2> HIDE DEF longer
  <2>2. ASSUME NEW a, longer = <<a>> PROVE a = " "
    <3>1. Len(longer) = 1 /\ longer[1] = a
      BY <2>2
    <3> QED
      BY <3>1, <2>1
  <2>3. ASSUME NEW a, NEW b, longer = <<a, b>> PROVE b = " "
    <3>1. Len(longer) = 2 /\ longer[2] = b
      BY <2>3
    <3> QED
      BY <3>1, <2>1
  <2>4. ASSUME NEW a, NEW b, NEW c, longer = <<a, b, c>> PROVE c = " "
    <3>1. Len(longer) = 3 /\ longer[3] = c
      BY <2>4
    <3> QED
      BY <3>1, <2>1
  <2>5. longer \notin ArithmeticOperators
    BY <2>2, <2>3 DEF ArithmeticOperators
  <2>6. longer \notin ComparisonAndBitOperators
    BY <2>2, <2>3, <2>4 DEF ComparisonAndBitOperators
  <2>7. longer \notin Punctuation
    BY <2>2, <2>3 DEF Punctuation
  <2> QED
    BY <2>5, <2>6, <2>7 DEF Operators, longer
<1>2. <<"|", "=">> \in Operators
  BY DEF Operators, ComparisonAndBitOperators
<1> QED
  BY <1>1, <1>2

(* A stretch that is one unit longer.                                       *)
LEMMA LongerStretch ==
  ASSUME NEW s \in Seq(STRING), NEW i \in Nat \ {0}, NEW j \in Nat,
         i - 1 <= j, j + 1 <= Len(s)
  PROVE  SubSeq(s, i, j + 1) = Append(SubSeq(s, i, j), s[j + 1])
<1> DEFINE short == SubSeq(s, i, j)
           long == SubSeq(s, i, j + 1)
           n == j - i + 1
<1>1. /\ short \in Seq(STRING) /\ Len(short) = j - i + 1
      /\ \A k \in 1 .. (j - i + 1) : short[k] = s[i + k - 1]
  BY Stretch
<1>2. /\ long \in Seq(STRING) /\ Len(long) = (j + 1) - i + 1
      /\ \A k \in 1 .. ((j + 1) - i + 1) : long[k] = s[i + k - 1]
  BY Stretch
<1>3. n \in Nat /\ (j + 1) - i + 1 = n + 1 /\ i + (n + 1) - 1 = j + 1
      /\ j + 1 \in 1 .. Len(s)
  OBVIOUS
<1>4. s[j + 1] \in STRING
  BY <1>3
<1> HIDE DEF short, long
<1>a. /\ Len(short) = n /\ \A k \in 1 .. n : short[k] = s[i + k - 1]
  BY <1>1
<1>b. /\ Len(long) = n + 1 /\ \A k \in 1 .. (n + 1) : long[k] = s[i + k - 1]
  BY <1>2, <1>3
<1> HIDE DEF n
<1>5. /\ \A k \in 1 .. n : long[k] = short[k]
      /\ long[n + 1] = s[j + 1]
  <2>1. ASSUME NEW k \in 1 .. n PROVE long[k] = short[k]
    <3>1. k \in 1 .. (n + 1)
      BY <1>3
    <3> QED
      BY <3>1, <1>a, <1>b
  <2>2. n + 1 \in 1 .. (n + 1)
    BY <1>3
  <2> QED
    BY <2>1, <2>2, <1>b, <1>3
<1>6. long = Append(short, s[j + 1])
  BY <1>1, <1>2, <1>3, <1>4, <1>a, <1>b, <1>5
<1> QED
  BY <1>6 DEF short, long

(* lex_non_ident_or_num: an operator is as long as it can be.               *)
LEMMA LexOperatorStep ==
  ASSUME LInv, LexOperator
  PROVE  LInv'
<1>1. /\ mode = "operator" /\ mode \in TokenModes /\ mode \notin QuotedModes
      /\ mode \notin CharModes
      /\ mode # "ident" /\ mode # "number" /\ mode # "string"
      /\ OperatorText \in Operators
      /\ src_idx \in Nat /\ t.first \in Nat \ {0} /\ t.first <= src_idx - 1
      /\ t.first \in 1 .. src_idx /\ src_str \in Seq(STRING)
      /\ dot_found \in BOOLEAN /\ prev_char_was_bslash \in BOOLEAN
  BY SourceFacts
  DEF LexOperator, LInv, Current, TokenModes, WordOrNumber, QuotedModes, CharModes, InOperator
<1>2. CASE /\ ~AtSourceEnd /\ Append(OperatorText, Peek(0)) \in Operators
           /\ Advance /\ UNCHANGED state
  <2>1. /\ src_idx' = src_idx + 1 /\ src_str' = src_str /\ Peek(0) = src_str[src_idx]
        /\ src_idx <= Len(src_str)
        /\ UNCHANGED <<mode, t, dot_found, prev_char_was_bslash, tokens>>
    BY <1>2, AdvanceStep, SourceFacts DEF LInv, state
  <2>2. /\ src_idx - 1 \in Nat /\ (src_idx - 1) + 1 = src_idx
        /\ (src_idx + 1) - 1 = src_idx /\ t.first - 1 <= src_idx - 1
    BY <1>1
  <2>3. OperatorText' = Append(OperatorText, Peek(0))
    <3>1. SubSeq(src_str, t.first, (src_idx - 1) + 1) =
            Append(SubSeq(src_str, t.first, src_idx - 1), src_str[(src_idx - 1) + 1])
      BY <1>1, <2>1, <2>2, LongerStretch
    <3> QED
      BY <3>1, <2>1, <2>2 DEF OperatorText
  <2>4. InOperator'
    BY <1>1, <1>2, <2>1, <2>2, <2>3 DEF InOperator
  <2> QED
    BY <1>1, <1>2, <2>1, <2>4, TakeStep
<1>3. CASE /\ ~(~AtSourceEnd /\ Append(OperatorText, Peek(0)) \in Operators)
           /\ Return("OPERATOR", OperatorId(OperatorText)) /\ Stay
  <2> DEFINE tok == Returning("OPERATOR", OperatorId(OperatorText))
             n == src_idx - t.first
  <2>1. n \in Nat /\ n = src_idx - t.first
    BY <1>1
  <2>2. tok.first = t.first /\ tok.past = src_idx /\ tok.id = "OPERATOR"
    BY DEF Returning
  <2> HIDE DEF tok, n
  <2>3. /\ Text(tok) = OperatorText /\ Text(tok) \in Seq(STRING)
        /\ Follower(tok) = IF AtSourceEnd THEN " " ELSE src_str[src_idx]
    BY <1>1, <2>1, <2>2, TextFacts
  <2>4. Append(Text(tok), Follower(tok)) \notin Operators
    <3>1. CASE AtSourceEnd
      BY <3>1, <2>3, OperatorFacts
    <3>2. CASE ~AtSourceEnd
      BY <3>2, <2>3, <1>3, SourceFacts DEF LInv
    <3> QED
      BY <3>1, <3>2
  <2>5. IsWhole(tok)
    BY <1>1, <2>2, <2>3, <2>4, IdsApart DEF IsWhole, IsWholeOperator
  <2>6. "OPERATOR" \in TokenIds /\ OperatorId(OperatorText) \in Operators
    BY <1>1, OperatorFacts DEF TokenIds, OperatorId
  <2> QED
    BY <1>1, <1>3, <2>5, <2>6, ReturnStep DEF tok
<1> QED
  BY <1>2, <1>3 DEF LexOperator

----------------------------------------------------------------------------
(* A step that changes nothing.                                             *)
LEMMA StutterStep ==
  ASSUME LInv, UNCHANGED vars
  PROVE  LInv'
<1>1. /\ Stay /\ src_str' = src_str /\ src_idx' = src_idx
      /\ UNCHANGED <<mode, t, dot_found, prev_char_was_bslash, tokens>>
  BY DEF vars, state, Stay
<1>2. Current'
  BY <1>1
  DEF LInv, Current, InWord, InNumber, DotsLexed, InQuotes, InChar, InOperator, OperatorText,
      AtSourceEnd, CurrentStart, LineOf, ColOf, Newlines
<1>3. Covered'
  BY <1>1 DEF LInv, Covered, BeginsComment, OnlyTrivia, IsTrivia, InComment, End, Past,
              IsQuoted, CurrentStart
<1> QED
  BY <1>1, <1>2, <1>3, GoOn

(* Every step of the lexer keeps the invariant: no loop looks past the end  *)
(* of the source.                                                           *)
LEMMA NextLInv ==
  ASSUME LInv, [Next]_vars
  PROVE  LInv'
<1>1. CASE SkipBlank
  BY <1>1, SkipBlankStep
<1>2. CASE BeginComment
  BY <1>2, BetweenStep DEF BeginComment
<1>3. CASE SkipInComment
  BY <1>3, SkipInCommentStep
<1>4. CASE EndOfFile
  BY <1>4, BetweenStep DEF EndOfFile
<1>5. CASE BeginIdent
  BY <1>5, BeginIdentStep
<1>6. CASE BeginNumber
  BY <1>6, BeginNumberStep
<1>7. CASE BeginQuoted
  BY <1>7, BeginQuotedStep
<1>8. CASE BeginOperator
  BY <1>8, BeginOperatorStep
<1>9. CASE LexIdent
  BY <1>9, LexIdentStep
<1>10. CASE LexNumber
  BY <1>10, LexNumberStep
<1>11. CASE LexString
  BY <1>11, LexStringStep
<1>12. CASE LexCharBody
  BY <1>12, LexCharBodyStep
<1>13. CASE LexCharEnd
  BY <1>13, LexCharEndStep
<1>14. CASE LexOperator
  BY <1>14, LexOperatorStep
<1>15. CASE Ended \/ UNCHANGED vars
  BY <1>15, StutterStep DEF Ended
<1> QED
  BY <1>1, <1>2, <1>3, <1>4, <1>5, <1>6, <1>7, <1>8, <1>9, <1>10, <1>11, <1>12, <1>13, <1>14,
     <1>15 DEF Next, GetNextToken

(* The source is open, and nothing is read of it.                           *)
LEMMA InitLInv ==
  ASSUME Init
  PROVE  LInv
<1>1. /\ src_str \in Sources /\ src_idx = 1 /\ line = 1 /\ col = 1 /\ mode = "between"
      /\ t = [line |-> 0, col |-> 0, first |-> 0]
      /\ dot_found = FALSE /\ prev_char_was_bslash = FALSE /\ tokens = <<>>
  BY DEF Init
<1>2. src_str \in Seq(STRING) /\ Len(src_str) \in Nat
  BY <1>1, SourcesAssumption
<1>3. Cursor
  BY <1>1, <1>2, FirstPosition DEF Cursor
<1>4. Current
  <2>1. /\ mode \in Modes \ {"peeked_past_end"} /\ mode \notin TokenModes /\ mode \notin CharModes
        /\ mode # "ident" /\ mode # "number" /\ mode # "string" /\ mode # "operator"
    BY <1>1 DEF Modes, TokenModes, WordOrNumber, QuotedModes, CharModes
  <2>2. t \in [line : Nat, col : Nat, first : Nat] /\ t.first <= Len(src_str)
    BY <1>1, <1>2
  <2> QED
    BY <1>1, <2>1, <2>2 DEF Current
<1>5. Returned
  BY <1>1 DEF Returned
<1>6. CurrentStart = 1 /\ End(Len(tokens)) = 1
  BY <1>1 DEF CurrentStart, End, TokenModes, WordOrNumber, QuotedModes, CharModes
<1>7. Covered
  BY <1>1, <1>6 DEF Covered, OnlyTrivia
<1> QED
  BY <1>3, <1>4, <1>5, <1>7 DEF LInv

(* The lexer keeps its invariant for good.                                  *)
LEMMA LexerInvariance == Spec => []LInv
<1>1. Init => LInv
  BY InitLInv
<1>2. LInv /\ [Next]_vars => LInv'
  BY NextLInv
<1> QED
  BY <1>1, <1>2, PTL DEF Spec

----------------------------------------------------------------------------
(* The lexer's state stays within its types: it never reads past its source *)
(* and every token's view lies in what was read.                            *)
THEOREM LexerTypeCorrect == Spec => []TypeOK
<1>1. LInv => TypeOK
  <2> SUFFICES ASSUME LInv PROVE TypeOK
    OBVIOUS
  <2>1. /\ src_idx \in 1 .. (Len(src_str) + 1) /\ Len(src_str) \in Nat
        /\ line \in 1 .. src_idx /\ col \in 1 .. src_idx
    BY SourceFacts DEF LInv, Cursor
  <2>2. line \in 1 .. (Len(src_str) + 1) /\ col \in 1 .. (Len(src_str) + 1)
    BY <2>1
  <2>3. /\ mode \in Modes /\ dot_found \in BOOLEAN /\ prev_char_was_bslash \in BOOLEAN
        /\ t.first \in Nat /\ t.first <= Len(src_str)
    BY DEF LInv, Current
  <2>4. ASSUME NEW i \in DOMAIN tokens
        PROVE  /\ tokens[i].id \in TokenIds
               /\ tokens[i].op \in Operators \cup {<<>>}
               /\ 1 <= tokens[i].first
               /\ tokens[i].first <= tokens[i].past
               /\ tokens[i].past <= src_idx
    <3>1. i \in 1 .. Len(tokens) /\ tokens[i] \in TokenRecords
      BY DEF LInv, Returned
    <3>2. TokenSound(tokens[i]) /\ tokens[i].past <= src_idx
      BY <3>1 DEF LInv, Returned
    <3> QED
      BY <3>1, <3>2 DEF TokenRecords, TokenSound
  <2> QED
    BY <2>1, <2>2, <2>3, <2>4 DEF TypeOK
<1> QED
  BY <1>1, LexerInvariance, PTL

(* The loops of the literals with quotes, which do not ask whether a unit   *)
(* follows, always find one: peek never exits with its own message.         *)
THEOREM LexerNeverPeeks == Spec => []NeverPeeksPastEnd
<1>1. LInv => NeverPeeksPastEnd
  BY DEF LInv, Current, NeverPeeksPastEnd
<1> QED
  BY <1>1, LexerInvariance, PTL

(* The line and column a token bears are those of its first unit, and the   *)
(* lexer's own are those of the next, whatever the lines in between.        *)
THEOREM LexerPositions == Spec => []PositionsAreTrue
<1>1. LInv => PositionsAreTrue
  <2> SUFFICES ASSUME LInv PROVE PositionsAreTrue
    OBVIOUS
  <2>1. line = LineOf(src_idx) /\ col = ColOf(src_idx)
    BY DEF LInv, Cursor
  <2>2. ASSUME NEW i \in DOMAIN tokens
        PROVE  /\ tokens[i].line = LineOf(Start(tokens[i]))
               /\ tokens[i].col = ColOf(Start(tokens[i]))
    BY DEF LInv, Returned, TokenSound
  <2> QED
    BY <2>1, <2>2 DEF PositionsAreTrue
<1> QED
  BY <1>1, LexerInvariance, PTL

(* No unit is lost or lexed twice: between two tokens, before the first and *)
(* after the last there are only blanks and comments.                       *)
THEOREM LexerCoversTheSource == Spec => []TokensCoverTheSource
<1>1. LInv => TokensCoverTheSource
  <2> SUFFICES ASSUME LInv PROVE TokensCoverTheSource
    OBVIOUS
  <2>1. \A i \in DOMAIN tokens : OnlyTrivia(End(i - 1), Start(tokens[i]))
    BY DEF LInv, Returned
  <2>2. mode \in {"between", "comment", "eof"} => OnlyTrivia(End(Len(tokens)), src_idx)
    BY DEF LInv, Covered, CurrentStart, TokenModes, WordOrNumber, QuotedModes, CharModes
  <2> QED
    BY <2>1, <2>2 DEF TokensCoverTheSource
<1> QED
  BY <1>1, LexerInvariance, PTL

(* Every token's text is one of its kind, and no unit that follows it would *)
(* have continued it.                                                       *)
THEOREM LexerTokensAreWhole == Spec => []TokensAreWhole
<1>1. LInv => TokensAreWhole
  BY DEF LInv, Returned, TokenSound, TokensAreWhole
<1> QED
  BY <1>1, LexerInvariance, PTL
=============================================================================
