---------------------------- MODULE SequenceFacts ----------------------------
(***************************************************************************)
(* Sequences, whatever they hold: what the operations the models use make  *)
(* of them, place by place.                                                *)
(***************************************************************************)
EXTENDS Naturals, Sequences, SequencesExt, SequenceTheorems, TLAPS

IsSeq(s) == s \in Seq(ToSet(s))

(* What a sequence is made of.                                              *)
LEMMA SeqFacts ==
  ASSUME NEW s, IsSeq(s)
  PROVE  /\ Len(s) \in Nat /\ DOMAIN s = 1 .. Len(s)
         /\ \A i \in 1 .. Len(s) : s[i] \in ToSet(s)
         /\ \A x \in ToSet(s) : \E i \in 1 .. Len(s) : s[i] = x
         /\ s # <<>> <=> Len(s) > 0
<1>1. s \in Seq(ToSet(s))
  BY DEF IsSeq
<1>2. Len(s) \in Nat /\ DOMAIN s = 1 .. Len(s)
  BY <1>1
<1>3. s # <<>> <=> Len(s) > 0
  BY <1>1, <1>2, EmptySeq
<1> QED
  BY <1>2, <1>3 DEF ToSet

(* A sequence of anything is one.                                           *)
LEMMA SeqOfItsOwn ==
  ASSUME NEW S, NEW s \in Seq(S)
  PROVE  IsSeq(s)
<1>1. Len(s) \in Nat /\ DOMAIN s = 1 .. Len(s) /\ s = [i \in 1 .. Len(s) |-> s[i]]
  OBVIOUS
<1>2. \A i \in 1 .. Len(s) : s[i] \in ToSet(s)
  BY <1>1 DEF ToSet
<1> HIDE DEF ToSet
<1> QED
  BY <1>1, <1>2 DEF IsSeq

(* A sequence given place by place.                                         *)
LEMMA SeqByPlaces ==
  ASSUME NEW n \in Nat, NEW s, s = [i \in 1 .. n |-> s[i]]
  PROVE  IsSeq(s) /\ Len(s) = n
<1> DEFINE S == {s[i] : i \in 1 .. n}
<1>1. s \in [1 .. n -> S]
  OBVIOUS
<1>2. s \in Seq(S)
  BY <1>1
<1>3. Len(s) = n
  BY <1>1, <1>2
<1> HIDE DEF S
<1> QED
  BY <1>2, <1>3, SeqOfItsOwn

(* One more at the end.                                                     *)
LEMMA AppendSeq ==
  ASSUME NEW s, IsSeq(s), NEW e
  PROVE  /\ IsSeq(Append(s, e)) /\ Append(s, e) # <<>>
         /\ Len(Append(s, e)) = Len(s) + 1
         /\ \A i \in 1 .. Len(s) : Append(s, e)[i] = s[i]
         /\ Append(s, e)[Len(s) + 1] = e
         /\ ToSet(Append(s, e)) = ToSet(s) \cup {e}
<1> DEFINE S == ToSet(s) \cup {e}
           t == Append(s, e)
<1>1. /\ Len(s) \in Nat /\ DOMAIN s = 1 .. Len(s)
      /\ \A i \in 1 .. Len(s) : s[i] \in ToSet(s)
      /\ \A x \in ToSet(s) : \E i \in 1 .. Len(s) : s[i] = x
  BY SeqFacts
<1>2. s \in Seq(S) /\ e \in S
  <2>1. s \in Seq(ToSet(s))
    BY DEF IsSeq
  <2> HIDE DEF ToSet
  <2> QED
    BY <2>1
<1> HIDE DEF S
<1>3. /\ t \in Seq(S) /\ t # <<>> /\ Len(t) = Len(s) + 1
      /\ \A i \in 1 .. Len(s) : t[i] = s[i]
      /\ t[Len(s) + 1] = e
  BY <1>2, AppendProperties
<1> HIDE DEF t
<1>4. IsSeq(t)
  BY <1>3, SeqOfItsOwn
<1>5. DOMAIN t = (1 .. Len(s)) \cup {Len(s) + 1}
  BY <1>1, <1>3
<1>6. ToSet(t) = {t[i] : i \in 1 .. Len(s)} \cup {t[Len(s) + 1]}
  BY <1>5 DEF ToSet
<1>7. ToSet(s) = {s[i] : i \in 1 .. Len(s)}
  BY <1>1 DEF ToSet
<1>8. ToSet(t) = ToSet(s) \cup {e}
  BY <1>3, <1>6, <1>7
<1> QED
  BY <1>3, <1>4, <1>8 DEF t

(* The last taken off.                                                      *)
LEMMA FrontSeq ==
  ASSUME NEW s, IsSeq(s), s # <<>>
  PROVE  /\ IsSeq(SubSeq(s, 1, Len(s) - 1)) /\ Len(SubSeq(s, 1, Len(s) - 1)) = Len(s) - 1
         /\ \A i \in 1 .. (Len(s) - 1) : SubSeq(s, 1, Len(s) - 1)[i] = s[i]
<1>1. Len(s) \in Nat /\ Len(s) > 0 /\ DOMAIN s = 1 .. Len(s)
      /\ \A i \in 1 .. Len(s) : s[i] \in ToSet(s)
  BY SeqFacts
<1> DEFINE n == Len(s) - 1
<1>2. n \in Nat /\ n \in Int /\ 1 \in Int /\ (1 <= n \/ n = 0) /\ n <= Len(s)
  BY <1>1
<1>3. \A i \in 1 .. n : s[i] \in ToSet(s)
  BY <1>1, <1>2
<1> HIDE DEF n
<1>4. /\ SubSeq(s, 1, n) \in Seq(ToSet(s))
      /\ Len(SubSeq(s, 1, n)) = IF 1 <= n THEN n - 1 + 1 ELSE 0
      /\ \A i \in 1 .. (n - 1 + 1) : SubSeq(s, 1, n)[i] = s[1 + i - 1]
  BY <1>2, <1>3, SubSeqProperties
<1>5. /\ Len(SubSeq(s, 1, n)) = n
      /\ \A i \in 1 .. n : SubSeq(s, 1, n)[i] = s[i]
  BY <1>2, <1>4
<1>6. IsSeq(SubSeq(s, 1, n))
  BY <1>4, SeqOfItsOwn
<1> QED
  BY <1>5, <1>6 DEF n

(* The first taken off.                                                     *)
LEMMA TailSeq ==
  ASSUME NEW s, IsSeq(s), s # <<>>
  PROVE  /\ IsSeq(Tail(s)) /\ Len(Tail(s)) = Len(s) - 1 /\ Head(s) = s[1]
         /\ \A i \in 1 .. (Len(s) - 1) : Tail(s)[i] = s[i + 1]
<1>1. s \in Seq(ToSet(s))
  BY DEF IsSeq
<1> HIDE DEF ToSet
<1>2. /\ Head(s) = s[1] /\ Tail(s) \in Seq(ToSet(s)) /\ Len(Tail(s)) = Len(s) - 1
      /\ \A i \in 1 .. Len(Tail(s)) : Tail(s)[i] = s[i + 1]
  BY <1>1, HeadTailProperties
<1> QED
  BY <1>2, SeqOfItsOwn

(* One more at the front.                                                   *)
LEMMA ConsSeq ==
  ASSUME NEW s, IsSeq(s), NEW e
  PROVE  /\ IsSeq(<<e>> \o s) /\ Len(<<e>> \o s) = Len(s) + 1 /\ (<<e>> \o s)[1] = e
         /\ \A i \in 1 .. Len(s) : (<<e>> \o s)[i + 1] = s[i]
<1> DEFINE S == ToSet(s) \cup {e}
<1>1. s \in Seq(ToSet(s)) /\ Len(s) \in Nat
  BY SeqFacts DEF IsSeq
<1>2. s \in Seq(S) /\ e \in S
  BY <1>1
<1> HIDE DEF S
<1>3. <<e>> \in Seq(S) /\ Len(<<e>>) = 1 /\ <<e>>[1] = e
  BY <1>2
<1>4. /\ <<e>> \o s \in Seq(S) /\ Len(<<e>> \o s) = 1 + Len(s)
      /\ \A i \in 1 .. (1 + Len(s)) : (<<e>> \o s)[i] = IF i <= 1 THEN <<e>>[i] ELSE s[i - 1]
  BY <1>2, <1>3, ConcatProperties
<1>5. /\ 1 \in 1 .. (1 + Len(s))
      /\ \A i \in 1 .. Len(s) : i + 1 \in 1 .. (1 + Len(s)) /\ (i + 1) - 1 = i /\ ~(i + 1 <= 1)
  BY <1>1
<1>6. (<<e>> \o s)[1] = e /\ \A i \in 1 .. Len(s) : (<<e>> \o s)[i + 1] = s[i]
  BY <1>3, <1>4, <1>5
<1>7. IsSeq(<<e>> \o s)
  BY <1>4, SeqOfItsOwn
<1>8. Len(<<e>> \o s) = Len(s) + 1
  BY <1>1, <1>4
<1> QED
  BY <1>6, <1>7, <1>8

(* One in the place of another.                                             *)
LEMMA ReplaceSeq ==
  ASSUME NEW s, IsSeq(s), NEW k \in 1 .. Len(s), NEW e
  PROVE  /\ IsSeq([s EXCEPT ![k] = e]) /\ Len([s EXCEPT ![k] = e]) = Len(s)
         /\ [s EXCEPT ![k] = e][k] = e
         /\ \A i \in 1 .. Len(s) : i # k => [s EXCEPT ![k] = e][i] = s[i]
<1> DEFINE t == [s EXCEPT ![k] = e]
<1>1. Len(s) \in Nat /\ DOMAIN s = 1 .. Len(s)
  BY SeqFacts
<1>2. DOMAIN t = 1 .. Len(s) /\ t[k] = e /\ \A i \in 1 .. Len(s) : i # k => t[i] = s[i]
  BY <1>1
<1>3. t = [i \in 1 .. Len(s) |-> t[i]]
  BY <1>1
<1> HIDE DEF t
<1>4. IsSeq(t) /\ Len(t) = Len(s)
  BY <1>1, <1>3, SeqByPlaces
<1> QED
  BY <1>2, <1>4 DEF t

(* One put before another.                                                  *)
LEMMA ConcatSeq ==
  ASSUME NEW s, IsSeq(s), NEW u, IsSeq(u)
  PROVE  /\ IsSeq(s \o u) /\ Len(s \o u) = Len(s) + Len(u)
         /\ \A i \in 1 .. Len(s) : (s \o u)[i] = s[i]
         /\ \A i \in 1 .. Len(u) : (s \o u)[Len(s) + i] = u[i]
<1> DEFINE S == ToSet(s) \cup ToSet(u)
<1>1. s \in Seq(ToSet(s)) /\ u \in Seq(ToSet(u)) /\ Len(s) \in Nat /\ Len(u) \in Nat
  BY SeqFacts DEF IsSeq
<1>2. s \in Seq(S) /\ u \in Seq(S)
  <2> HIDE DEF ToSet
  <2> QED
    BY <1>1
<1> HIDE DEF S
<1>3. /\ s \o u \in Seq(S) /\ Len(s \o u) = Len(s) + Len(u)
      /\ \A i \in 1 .. (Len(s) + Len(u)) : (s \o u)[i] = IF i <= Len(s) THEN s[i] ELSE u[i - Len(s)]
  BY <1>2, ConcatProperties
<1> DEFINE n == Len(s)
           m == Len(u)
<1>4. n \in Nat /\ m \in Nat
  BY <1>1
<1>5. \A i \in 1 .. n : (s \o u)[i] = s[i]
  <2> SUFFICES ASSUME NEW i \in 1 .. n PROVE (s \o u)[i] = s[i]
    OBVIOUS
  <2>1. i \in 1 .. (n + m) /\ i <= n
    <3> HIDE DEF n, m
    <3> QED
      BY <1>4
  <2> QED
    BY <2>1, <1>3
<1>6. \A i \in 1 .. m : (s \o u)[n + i] = u[i]
  <2> SUFFICES ASSUME NEW i \in 1 .. m PROVE (s \o u)[n + i] = u[i]
    OBVIOUS
  <2>1. n + i \in 1 .. (n + m) /\ ~(n + i <= n) /\ (n + i) - n = i
    <3> HIDE DEF n, m
    <3> QED
      BY <1>4
  <2> QED
    BY <2>1, <1>3
<1>7. IsSeq(s \o u)
  BY <1>3, SeqOfItsOwn
<1> QED
  BY <1>3, <1>5, <1>6, <1>7

(* The sequences of nothing and of one.                                     *)
LEMMA ShortSeqs ==
  /\ IsSeq(<<>>) /\ Len(<<>>) = 0
  /\ \A e : IsSeq(<<e>>) /\ Len(<<e>>) = 1 /\ <<e>>[1] = e
<1>1. IsSeq(<<>>) /\ Len(<<>>) = 0
  <2>1. <<>> \in Seq({1}) /\ Len(<<>>) = 0
    OBVIOUS
  <2> QED
    BY <2>1, SeqOfItsOwn
<1>2. ASSUME NEW e PROVE IsSeq(<<e>>) /\ Len(<<e>>) = 1 /\ <<e>>[1] = e
  <2>1. <<e>> \in Seq({e}) /\ Len(<<e>>) = 1
    OBVIOUS
  <2> QED
    BY <2>1, SeqOfItsOwn
<1> QED
  BY <1>1, <1>2

(* Sequences that agree place by place are the same.                        *)
LEMMA SameSeq ==
  ASSUME NEW s, IsSeq(s), NEW u, IsSeq(u), Len(s) = Len(u),
         \A i \in 1 .. Len(s) : s[i] = u[i]
  PROVE  s = u
<1> DEFINE S == ToSet(s) \cup ToSet(u)
<1>1. s \in Seq(ToSet(s)) /\ u \in Seq(ToSet(u))
  BY DEF IsSeq
<1>2. s \in Seq(S) /\ u \in Seq(S)
  <2> HIDE DEF ToSet
  <2> QED
    BY <1>1
<1> HIDE DEF S
<1> QED
  BY <1>2

(* A part of a sequence.                                                    *)
LEMMA PartSeq ==
  ASSUME NEW s, IsSeq(s), NEW i \in Nat \ {0}, NEW j \in Nat, i <= j + 1, j <= Len(s)
  PROVE  /\ IsSeq(SubSeq(s, i, j)) /\ Len(SubSeq(s, i, j)) = j + 1 - i
         /\ \A k \in 1 .. (j + 1 - i) : SubSeq(s, i, j)[k] = s[i + k - 1]
<1> DEFINE part == SubSeq(s, i, j)
<1>1. Len(s) \in Nat /\ \A k \in 1 .. Len(s) : s[k] \in ToSet(s)
  BY SeqFacts
<1>2. i \in Int /\ j \in Int /\ \A k \in i .. j : s[k] \in ToSet(s)
  BY <1>1
<1>3. /\ part \in Seq(ToSet(s))
      /\ Len(part) = IF i <= j THEN j - i + 1 ELSE 0
      /\ \A k \in 1 .. (j - i + 1) : part[k] = s[i + k - 1]
  BY <1>2, SubSeqProperties
<1> HIDE DEF part
<1>4. j - i + 1 = j + 1 - i /\ (i <= j \/ j + 1 - i = 0)
  OBVIOUS
<1>5. IsSeq(part)
  BY <1>3, SeqOfItsOwn
<1> QED
  BY <1>3, <1>4, <1>5 DEF part
=============================================================================
