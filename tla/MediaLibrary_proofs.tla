-------------------------- MODULE MediaLibrary_proofs --------------------------
(***************************************************************************)
(* Theorems about names and their escapes, for every sequence of letters.  *)
(*                                                                         *)
(* FlattenSeq and urlDecode are recursive functions, chosen among those    *)
(* with their recursion: there is one such function, and it grows with the *)
(* sequence.  What they compute follows by induction over the sequence:    *)
(* the set of sequences a fact holds of has the empty one and is closed    *)
(* under one more letter, so that it has all of them.                      *)
(***************************************************************************)
EXTENDS MediaLibrary, SequenceTheorems, WellFoundedInduction, TLAPS

----------------------------------------------------------------------------
(* Induction over sequences.                                               *)

\* A set of numbers has a smallest one.
LEMMA Smallest ==
    ASSUME NEW S \in SUBSET Nat, S # {}
    PROVE  \E i \in S : \A j \in S : i <= j
<1>1. PICK i \in S : \A j \in S : ~(<<j, i>> \in OpToRel(<, Nat))
  BY WFMin, NatLessThanWellFounded, Zenon
<1>2. ASSUME NEW j \in S
      PROVE  i <= j
  <2>1. i \in Nat /\ j \in Nat
    OBVIOUS
  <2>2. <<j, i>> \in Nat \X Nat /\ ~(<<j, i>>[1] < <<j, i>>[2])
    BY <1>1, <2>1 DEF OpToRel
  <2> QED
    BY <2>1, <2>2
<1> QED
  BY <1>2

\* Induction, as a fact about sets.
LEMMA NatSet ==
    ASSUME NEW W, 0 \in W, \A n \in Nat : n \in W => n + 1 \in W
    PROVE  Nat \subseteq W
<1> SUFFICES ASSUME Nat \ W # {} PROVE FALSE
  OBVIOUS
<1>1. PICK i \in Nat \ W : \A j \in Nat \ W : i <= j
  BY Smallest
<1>2. i # 0
  BY <1>1
<1>3. i - 1 \in Nat /\ ~(i <= i - 1) /\ i = (i - 1) + 1
  BY <1>1, <1>2
<1>4. i - 1 \in W
  BY <1>1, <1>3
<1> QED
  BY <1>1, <1>3, <1>4

LEMMA Prepended ==
    ASSUME NEW S, NEW s \in Seq(S), NEW x \in S
    PROVE  /\ <<x>> \o s \in Seq(S)
           /\ Len(<<x>> \o s) = Len(s) + 1
           /\ (<<x>> \o s)[1] = x
           /\ \A i \in 1..Len(s) : (<<x>> \o s)[i + 1] = s[i]
OBVIOUS

LEMMA HeadTail ==
    ASSUME NEW S, NEW s \in Seq(S), Len(s) # 0
    PROVE  /\ s = <<s[1]>> \o Tail(s)
           /\ s[1] \in S
           /\ Tail(s) \in Seq(S)
           /\ Len(Tail(s)) = Len(s) - 1
<1>1. s # << >>
  OBVIOUS
<1>2. Len(s) \in Nat \ {0}
  BY LenProperties
<1>3. /\ Tail(s) \in Seq(S) /\ Len(Tail(s)) = Len(s) - 1
      /\ \A i \in 1..Len(Tail(s)) : Tail(s)[i] = s[i + 1]
  BY <1>1, HeadTailProperties
<1>4. s[1] \in S
  BY <1>2, ElementOfSeq
<1>5. s = <<s[1]>> \o Tail(s)
  <2>1. <<s[1]>> \o Tail(s) \in Seq(S) /\ Len(<<s[1]>> \o Tail(s)) = Len(s)
    BY <1>2, <1>3, <1>4, Prepended
  <2>2. (<<s[1]>> \o Tail(s))[1] = s[1]
    BY <1>3, <1>4, Prepended
  <2>3. ASSUME NEW i \in 1..Len(s), i # 1 PROVE (<<s[1]>> \o Tail(s))[i] = s[i]
    <3>1. i - 1 \in 1..Len(Tail(s)) /\ i = (i - 1) + 1
      BY <1>2, <1>3, <2>3
    <3>2. (<<s[1]>> \o Tail(s))[(i - 1) + 1] = Tail(s)[i - 1]
      BY <1>3, <1>4, <3>1, Prepended
    <3> QED
      BY <1>3, <3>1, <3>2
  <2> QED
    BY <2>1, <2>2, <2>3, SeqEqual
<1> QED
  BY <1>3, <1>4, <1>5

\* What holds of the empty sequence and of one more letter before a sequence
\* it holds of, holds of every sequence.
LEMMA SeqSet ==
    ASSUME NEW S, NEW W, << >> \in W,
           \A s \in Seq(S), x \in S : s \in W => <<x>> \o s \in W
    PROVE  Seq(S) \subseteq W
<1> DEFINE N == {n \in Nat : \A s \in Seq(S) : Len(s) = n => s \in W}
<1>1. 0 \in N
  BY EmptySeq, SeqEqual
<1>2. ASSUME NEW n \in Nat, n \in N
      PROVE  n + 1 \in N
  <2> SUFFICES ASSUME NEW s \in Seq(S), Len(s) = n + 1
               PROVE  s \in W
    OBVIOUS
  <2>1. Len(s) # 0 /\ Len(s) - 1 = n
    OBVIOUS
  <2>2. s = <<s[1]>> \o Tail(s) /\ s[1] \in S /\ Tail(s) \in Seq(S) /\ Len(Tail(s)) = n
    BY <2>1, HeadTail
  <2>3. Tail(s) \in W
    BY <1>2, <2>2
  <2>4. <<s[1]>> \o Tail(s) \in W
    BY <2>2, <2>3
  <2> QED
    BY <2>2, <2>4
<1>3. Nat \subseteq N
  BY <1>1, <1>2, NatSet
<1>4. ASSUME NEW s \in Seq(S) PROVE s \in W
  BY <1>3, LenProperties
<1> QED
  BY <1>4

\* The same from left to right.
LEMMA SeqSetAppend ==
    ASSUME NEW S, NEW W, << >> \in W,
           \A s \in Seq(S), x \in S : s \in W => Append(s, x) \in W
    PROVE  Seq(S) \subseteq W
<1> DEFINE N == {n \in Nat : \A s \in Seq(S) : Len(s) = n => s \in W}
<1>1. 0 \in N
  BY EmptySeq, SeqEqual
<1>2. ASSUME NEW n \in Nat, n \in N
      PROVE  n + 1 \in N
  <2> SUFFICES ASSUME NEW s \in Seq(S), Len(s) = n + 1
               PROVE  s \in W
    OBVIOUS
  <2> DEFINE t == [i \in 1..n |-> s[i]]
  <2>0. s \in [1..n + 1 -> S] /\ n + 1 \in 1..n + 1 /\ \A i \in 1..n : i \in 1..n + 1
    BY LenProperties
  <2>1. t \in [1..n -> S] /\ s[n + 1] \in S
    BY <2>0
  <2>2. t \in Seq(S) /\ Len(t) = n
    BY <2>1, SeqDef
  <2>3. Append(t, s[n + 1]) \in Seq(S) /\ Len(Append(t, s[n + 1])) = n + 1
    BY <2>1, <2>2
  <2>4. \A i \in 1..n + 1 : Append(t, s[n + 1])[i] = s[i]
    BY <2>2
  <2>5. s = Append(t, s[n + 1])
    BY <2>3, <2>4, SeqEqual
  <2>6. t \in W
    BY <1>2, <2>2
  <2>7. Append(t, s[n + 1]) \in W
    BY <2>1, <2>2, <2>6
  <2> QED
    BY <2>5, <2>7
<1>3. Nat \subseteq N
  BY <1>1, <1>2, NatSet
<1>4. ASSUME NEW s \in Seq(S) PROVE s \in W
  BY <1>3, LenProperties
<1> QED
  BY <1>4

----------------------------------------------------------------------------
(* FlattenSeq.                                                             *)

\* The function FlattenSeq is the last value of.
Flattening(ss, f) ==
    f = [i \in 1..Len(ss) |-> IF i = 1 THEN ss[i] ELSE f[i - 1] \o ss[i]]

LEMMA FlattenDef ==
    ASSUME NEW ss
    PROVE  FlattenSeq(ss) = IF Len(ss) = 0 THEN ss
                            ELSE (CHOOSE f : Flattening(ss, f))[Len(ss)]
BY DEF FlattenSeq, Flattening

\* There is one such function.
LEMMA FlatteningUnique ==
    ASSUME NEW ss, Len(ss) \in Nat, NEW f, Flattening(ss, f), NEW g, Flattening(ss, g)
    PROVE  f = g
<1> DEFINE W == {n \in Nat : n \in 1..Len(ss) => f[n] = g[n]}
<1>1. /\ \A i \in 1..Len(ss) : f[i] = IF i = 1 THEN ss[i] ELSE f[i - 1] \o ss[i]
      /\ \A i \in 1..Len(ss) : g[i] = IF i = 1 THEN ss[i] ELSE g[i - 1] \o ss[i]
      /\ f = [i \in 1..Len(ss) |-> f[i]] /\ g = [i \in 1..Len(ss) |-> g[i]]
  BY DEF Flattening
<1>2. 0 \in W
  OBVIOUS
<1>3. ASSUME NEW n \in Nat, n \in W
      PROVE  n + 1 \in W
  <2> SUFFICES ASSUME n + 1 \in 1..Len(ss) PROVE f[n + 1] = g[n + 1]
    OBVIOUS
  <2>1. CASE n = 0
    <3>1. n + 1 = 1 /\ 1 \in 1..Len(ss)
      BY <2>1
    <3>2. f[1] = ss[1] /\ g[1] = ss[1]
      BY <1>1, <3>1
    <3> QED
      BY <3>1, <3>2
  <2>2. CASE n # 0
    <3>1. n \in 1..Len(ss) /\ (n + 1) - 1 = n /\ n + 1 # 1
      BY <2>2
    <3>2. f[n] = g[n]
      BY <1>3, <3>1
    <3>3. f[n + 1] = f[n] \o ss[n + 1] /\ g[n + 1] = g[n] \o ss[n + 1]
      BY <1>1, <3>1
    <3> QED
      BY <3>2, <3>3
  <2> QED
    BY <2>1, <2>2
<1>4. Nat \subseteq W
  BY <1>2, <1>3, NatSet
<1>5. \A i \in 1..Len(ss) : f[i] = g[i]
  BY <1>4
<1> QED
  BY <1>1, <1>5

LEMMA FlattenIs ==
    ASSUME NEW ss, Len(ss) \in Nat \ {0}, NEW f, Flattening(ss, f)
    PROVE  FlattenSeq(ss) = f[Len(ss)]
<1>1. Flattening(ss, CHOOSE g : Flattening(ss, g))
  OBVIOUS
<1>2. f = CHOOSE g : Flattening(ss, g)
  BY <1>1, FlatteningUnique
<1> QED
  BY <1>2, FlattenDef

\* One sequence more.
LEMMA FlattenMore ==
    ASSUME NEW S, NEW ss \in Seq(Seq(S)), NEW s \in Seq(S),
           NEW f \in [1..Len(ss) -> Seq(S)], Flattening(ss, f)
    PROVE  \E g \in [1..Len(ss) + 1 -> Seq(S)] :
              /\ Flattening(Append(ss, s), g)
              /\ g[Len(ss) + 1] = IF Len(ss) = 0 THEN s ELSE f[Len(ss)] \o s
<1> DEFINE n == Len(ss)
           tt == Append(ss, s)
           last == IF n = 0 THEN s ELSE f[n] \o s
           g == [i \in 1..n + 1 |-> IF i <= n THEN f[i] ELSE last]
<1>1. n \in Nat
  OBVIOUS
<1>2. Len(tt) = n + 1 /\ tt[n + 1] = s /\ \A i \in 1..n : tt[i] = ss[i]
  OBVIOUS
<1>3. last \in Seq(S)
  <2>1. n # 0 => f[n] \in Seq(S)
    <3>1. n # 0 => n \in 1..n
      BY <1>1
    <3> QED
      BY <3>1
  <2> QED
    BY <2>1, ConcatProperties
<1> HIDE DEF last
<1>4. g \in [1..n + 1 -> Seq(S)]
  BY <1>1, <1>3
<1>5. \A i \in 1..n : f[i] = IF i = 1 THEN ss[i] ELSE f[i - 1] \o ss[i]
  BY DEF Flattening
<1>6. ASSUME NEW i \in 1..n + 1
      PROVE  g[i] = IF i = 1 THEN tt[i] ELSE g[i - 1] \o tt[i]
  <2>1. CASE i \in 1..n
    <3>1. g[i] = f[i] /\ tt[i] = ss[i] /\ (i # 1 => g[i - 1] = f[i - 1])
      BY <1>1, <1>2, <2>1
    <3> QED
      BY <1>5, <2>1, <3>1
  <2>2. CASE i = n + 1
    <3>1. g[i] = last /\ tt[i] = s /\ (i # 1 => g[i - 1] = f[n]) /\ (i = 1 <=> n = 0)
      BY <1>1, <1>2, <2>2
    <3> QED
      BY <3>1 DEF last
  <2> QED
    BY <1>1, <2>1, <2>2
<1>7. Flattening(tt, g)
  BY <1>2, <1>6 DEF Flattening
<1>8. g[n + 1] = last
  BY <1>1
<1> QED
  BY <1>4, <1>7, <1>8 DEF last

LEMMA FlatteningExists ==
    ASSUME NEW S, NEW ss \in Seq(Seq(S))
    PROVE  \E f \in [1..Len(ss) -> Seq(S)] : Flattening(ss, f)
<1> DEFINE Good(tt) == \E f \in [1..Len(tt) -> Seq(S)] : Flattening(tt, f)
           W == {tt \in Seq(Seq(S)) : Good(tt)}
<1>1. << >> \in W
  <2>1. << >> \in Seq(Seq(S)) /\ Len(<< >>) = 0
    BY EmptySeq
  <2>2. Good(<< >>)
    <3> DEFINE f == [i \in {} |-> << >>]
    <3>1. 1..Len(<< >>) = {}
      BY <2>1
    <3>2. f \in [1..Len(<< >>) -> Seq(S)]
      BY <3>1
    <3>3. Flattening(<< >>, f)
      BY <3>1 DEF Flattening
    <3> QED
      BY <3>2, <3>3
  <2> QED
    BY <2>1, <2>2
<1>2. ASSUME NEW tt \in Seq(Seq(S)), NEW s \in Seq(S), tt \in W
      PROVE  Append(tt, s) \in W
  <2>1. PICK f \in [1..Len(tt) -> Seq(S)] : Flattening(tt, f)
    BY <1>2
  <2>2. Append(tt, s) \in Seq(Seq(S)) /\ Len(Append(tt, s)) = Len(tt) + 1
    OBVIOUS
  <2>3. Good(Append(tt, s))
    BY <2>1, <2>2, FlattenMore
  <2> QED
    BY <2>2, <2>3
<1>3. Seq(Seq(S)) \subseteq W
  BY <1>1, <1>2, SeqSetAppend
<1> QED
  BY <1>3

\* What FlattenSeq makes of no sequence and of one more.
LEMMA FlattenAppend ==
    ASSUME NEW S, NEW ss \in Seq(Seq(S)), NEW s \in Seq(S)
    PROVE  /\ FlattenSeq(ss) \in Seq(S)
           /\ FlattenSeq(Append(ss, s)) = FlattenSeq(ss) \o s
<1> DEFINE n == Len(ss)
<1>0. n \in Nat
  OBVIOUS
<1>1. PICK f \in [1..n -> Seq(S)] : Flattening(ss, f)
  BY FlatteningExists
<1>2. PICK g \in [1..n + 1 -> Seq(S)] :
         /\ Flattening(Append(ss, s), g)
         /\ g[n + 1] = IF n = 0 THEN s ELSE f[n] \o s
  BY <1>1, FlattenMore
<1>3. Len(Append(ss, s)) = n + 1 /\ n + 1 \in Nat \ {0}
  OBVIOUS
<1>4. FlattenSeq(Append(ss, s)) = g[n + 1]
  BY <1>2, <1>3, FlattenIs
<1>5. CASE n = 0
  <2>1. ss = << >>
    BY <1>5, EmptySeq, SeqEqual
  <2>2. FlattenSeq(ss) = << >>
    BY <1>5, <2>1, FlattenDef
  <2>3. << >> \o s = s
    BY ConcatEmptySeq
  <2> QED
    BY <1>2, <1>4, <1>5, <2>2, <2>3, EmptySeq
<1>6. CASE n # 0
  <2>1. n \in Nat \ {0} /\ n \in 1..n
    BY <1>0, <1>6
  <2>2. FlattenSeq(ss) = f[n]
    BY <1>1, <2>1, FlattenIs
  <2> QED
    BY <1>1, <1>2, <1>4, <1>6, <2>1, <2>2
<1> QED
  BY <1>5, <1>6

LEMMA FlattenEmpty == FlattenSeq(<< >>) = << >>
BY FlattenDef

\* FlattenSeq from right to left.
LEMMA FlattenPrepend ==
    ASSUME NEW S, NEW ss \in Seq(Seq(S)), NEW s \in Seq(S)
    PROVE  FlattenSeq(<<s>> \o ss) = s \o FlattenSeq(ss)
<1> DEFINE W == {tt \in Seq(Seq(S)) : FlattenSeq(<<s>> \o tt) = s \o FlattenSeq(tt)}
<1>1. << >> \in W
  <2>1. << >> \in Seq(Seq(S)) /\ << >> \in Seq(S)
    BY EmptySeq
  <2>2. <<s>> \o << >> = Append(<< >>, s)
    OBVIOUS
  <2>3. FlattenSeq(Append(<< >>, s)) = FlattenSeq(<< >>) \o s
    BY <2>1, FlattenAppend
  <2>4. << >> \o s = s /\ s \o << >> = s
    BY ConcatEmptySeq
  <2> QED
    BY <2>1, <2>2, <2>3, <2>4, FlattenEmpty
<1>2. ASSUME NEW tt \in Seq(Seq(S)), NEW t \in Seq(S), tt \in W
      PROVE  Append(tt, t) \in W
  <2>1. <<s>> \o tt \in Seq(Seq(S)) /\ Append(tt, t) \in Seq(Seq(S))
    OBVIOUS
  <2>2. <<s>> \o Append(tt, t) = Append(<<s>> \o tt, t)
    <3>1. <<s>> \in Seq(Seq(S)) /\ <<t>> \in Seq(Seq(S))
      OBVIOUS
    <3>2. Append(tt, t) = tt \o <<t>> /\ Append(<<s>> \o tt, t) = (<<s>> \o tt) \o <<t>>
      BY <2>1, AppendIsConcat
    <3> QED
      BY <3>1, <3>2, ConcatAssociative
  <2>3. FlattenSeq(Append(<<s>> \o tt, t)) = FlattenSeq(<<s>> \o tt) \o t
    BY <2>1, FlattenAppend
  <2>4. FlattenSeq(Append(tt, t)) = FlattenSeq(tt) \o t /\ FlattenSeq(tt) \in Seq(S)
    BY FlattenAppend
  <2>5. (s \o FlattenSeq(tt)) \o t = s \o (FlattenSeq(tt) \o t)
    BY <2>4, ConcatAssociative
  <2> QED
    BY <1>2, <2>1, <2>2, <2>3, <2>4, <2>5
<1>3. Seq(Seq(S)) \subseteq W
  BY <1>1, <1>2, SeqSetAppend
<1> QED
  BY <1>3

----------------------------------------------------------------------------
(* urlDecode.                                                              *)

Byte(high, low) == 16 * hexValue(high) + hexValue(low)

EscapeAt(value, i) == /\ value[i] = Percent /\ i + 2 <= Len(value)
                      /\ {value[i + 1], value[i + 2]} \subseteq HexDigit

Decoding(value, f) ==
    f = [i \in 1..Len(value) + 1 |->
            IF i > Len(value) THEN << >>
            ELSE IF EscapeAt(value, i)
            THEN <<Byte(value[i + 1], value[i + 2])>> \o f[i + 3]
            ELSE <<value[i]>> \o f[i + 1]]

LEMMA DecodeDef ==
    ASSUME NEW value
    PROVE  urlDecode(value) = (CHOOSE f : Decoding(value, f))[1]
BY DEF urlDecode, Decoding, EscapeAt, Byte

\* What Decoding says of one place.
LEMMA AtPlace ==
    ASSUME NEW value, NEW f, Decoding(value, f), NEW i \in 1..Len(value) + 1
    PROVE  f[i] = IF i > Len(value) THEN << >>
                  ELSE IF EscapeAt(value, i)
                  THEN <<Byte(value[i + 1], value[i + 2])>> \o f[i + 3]
                  ELSE <<value[i]>> \o f[i + 1]
BY DEF Decoding

LEMMA AtEnd ==
    ASSUME NEW value, Len(value) \in Nat, NEW f, Decoding(value, f)
    PROVE  f[Len(value) + 1] = << >>
<1>1. Len(value) + 1 \in 1..Len(value) + 1 /\ Len(value) + 1 > Len(value)
  OBVIOUS
<1> QED
  BY <1>1, AtPlace, Zenon

LEMMA AtEscape ==
    ASSUME NEW value, Len(value) \in Nat, NEW f, Decoding(value, f),
           NEW i \in 1..Len(value), EscapeAt(value, i)
    PROVE  /\ i + 3 \in 1..Len(value) + 1
           /\ f[i] = <<Byte(value[i + 1], value[i + 2])>> \o f[i + 3]
<1>1. i \in 1..Len(value) + 1 /\ ~(i > Len(value))
  OBVIOUS
<1>2. i + 3 \in 1..Len(value) + 1
  BY DEF EscapeAt
<1>3. f[i] = <<Byte(value[i + 1], value[i + 2])>> \o f[i + 3]
  BY <1>1, AtPlace, Zenon
<1> QED
  BY <1>2, <1>3

LEMMA AtLetter ==
    ASSUME NEW value, Len(value) \in Nat, NEW f, Decoding(value, f),
           NEW i \in 1..Len(value), ~ EscapeAt(value, i)
    PROVE  f[i] = <<value[i]>> \o f[i + 1]
<1>1. i \in 1..Len(value) + 1 /\ ~(i > Len(value))
  OBVIOUS
<1> QED
  BY <1>1, AtPlace, Zenon

LEMMA DecodingUnique ==
    ASSUME NEW value, Len(value) \in Nat, NEW f, Decoding(value, f), NEW g, Decoding(value, g)
    PROVE  f = g
<1> DEFINE L == Len(value)
           Agree(n) == \A i \in 1..L + 1 : L + 1 - i <= n => f[i] = g[i]
           W == {n \in Nat : Agree(n)}
<1>1. 0 \in W
  <2>1. \A i \in 1..L + 1 : L + 1 - i <= 0 => i = L + 1
    OBVIOUS
  <2>2. f[L + 1] = g[L + 1]
    BY AtEnd
  <2> QED
    BY <2>1, <2>2
<1>2. ASSUME NEW n \in Nat, n \in W
      PROVE  n + 1 \in W
  <2> SUFFICES ASSUME NEW i \in 1..L + 1, L + 1 - i <= n + 1, ~(L + 1 - i <= n)
               PROVE  f[i] = g[i]
    BY <1>2
  <2>1. i \in 1..L /\ i + 1 \in 1..L + 1 /\ L + 1 - (i + 1) <= n /\ L + 1 - (i + 3) <= n
    OBVIOUS
  <2>2. f[i + 1] = g[i + 1]
    BY <1>2, <2>1
  <2>3. i + 3 \in 1..L + 1 => f[i + 3] = g[i + 3]
    BY <1>2, <2>1
  <2>4. CASE EscapeAt(value, i)
    <3>1. /\ i + 3 \in 1..L + 1
          /\ f[i] = <<Byte(value[i + 1], value[i + 2])>> \o f[i + 3]
      BY <2>1, <2>4, AtEscape, Zenon
    <3>2. g[i] = <<Byte(value[i + 1], value[i + 2])>> \o g[i + 3]
      BY <2>1, <2>4, AtEscape, Zenon
    <3> QED
      BY <2>3, <3>1, <3>2, Zenon
  <2>5. CASE ~ EscapeAt(value, i)
    <3>1. f[i] = <<value[i]>> \o f[i + 1] /\ g[i] = <<value[i]>> \o g[i + 1]
      BY <2>1, <2>5, AtLetter, Zenon
    <3> QED
      BY <2>2, <3>1
  <2> QED
    BY <2>4, <2>5
<1>3. Nat \subseteq W
  BY <1>1, <1>2, NatSet
<1>4. ASSUME NEW i \in 1..L + 1 PROVE f[i] = g[i]
  <2>1. L + 1 \in Nat /\ L + 1 - i <= L + 1
    OBVIOUS
  <2> QED
    BY <1>3, <2>1
<1> QED
  BY <1>4 DEF Decoding

LEMMA DecodeIs ==
    ASSUME NEW value, Len(value) \in Nat, NEW f, Decoding(value, f)
    PROVE  urlDecode(value) = f[1]
<1>1. Decoding(value, CHOOSE g : Decoding(value, g))
  OBVIOUS
<1>2. f = CHOOSE g : Decoding(value, g)
  BY <1>1, DecodingUnique
<1> QED
  BY <1>2, DecodeDef

LEMMA ByteType == \A high, low \in HexDigit : Byte(high, low) \in Nat
BY DEF Byte, hexValue, HexDigit, Digit, Upper

\* A letter before value.
LEMMA DecodeMore ==
    ASSUME NEW value \in Seq(Nat), NEW c \in Nat,
           NEW f \in [1..Len(value) + 1 -> Seq(Nat)], Decoding(value, f)
    PROVE  \E g \in [1..Len(value) + 2 -> Seq(Nat)] :
              /\ Decoding(<<c>> \o value, g)
              /\ \A i \in 1..Len(value) + 1 : g[i + 1] = f[i]
<1> DEFINE L == Len(value)
           w == <<c>> \o value
           first == IF EscapeAt(w, 1) THEN <<Byte(w[2], w[3])>> \o f[3] ELSE <<c>> \o f[1]
           g == [i \in 1..L + 2 |-> IF i = 1 THEN first ELSE f[i - 1]]
<1>1. /\ L \in Nat /\ w \in Seq(Nat) /\ Len(w) = L + 1 /\ w[1] = c
      /\ \A i \in 1..L : w[i + 1] = value[i]
  BY Prepended
<1>2. first \in Seq(Nat)
  <2>1. EscapeAt(w, 1) => 3 \in 1..L + 1 /\ w[2] \in HexDigit /\ w[3] \in HexDigit
    BY <1>1 DEF EscapeAt
  <2>2. EscapeAt(w, 1) => <<Byte(w[2], w[3])>> \in Seq(Nat) /\ f[3] \in Seq(Nat)
    BY <2>1, ByteType
  <2>3. <<c>> \in Seq(Nat) /\ f[1] \in Seq(Nat)
    BY <1>1
  <2> QED
    BY <2>2, <2>3, ConcatProperties
<1> HIDE DEF first, w
<1>3. g \in [1..L + 2 -> Seq(Nat)] /\ \A i \in 1..L + 1 : g[i + 1] = f[i]
  BY <1>1, <1>2
<1>4. ASSUME NEW i \in 1..L
      PROVE  EscapeAt(w, i + 1) <=> EscapeAt(value, i)
  <2>1. /\ w[i + 1] = value[i]
        /\ i + 2 <= L => w[(i + 1) + 1] = value[i + 1] /\ w[(i + 1) + 2] = value[i + 2]
        /\ (i + 1) + 2 <= Len(w) <=> i + 2 <= L
    <3>1. w[i + 1] = value[i]
      BY <1>1
    <3>2. (i + 1) + 2 <= Len(w) <=> i + 2 <= L
      BY <1>1
    <3>3. ASSUME i + 2 <= L
          PROVE  w[(i + 1) + 1] = value[i + 1] /\ w[(i + 1) + 2] = value[i + 2]
      <4>1. i + 1 \in 1..L /\ i + 2 \in 1..L /\ (i + 1) + 2 = (i + 2) + 1
        BY <1>1, <3>3
      <4> QED
        BY <1>1, <4>1
    <3> QED
      BY <3>1, <3>2, <3>3
  <2> QED
    BY <2>1 DEF EscapeAt
<1>5. ASSUME NEW i \in 1..L + 2
      PROVE  g[i] = IF i > Len(w) THEN << >>
                    ELSE IF EscapeAt(w, i) THEN <<Byte(w[i + 1], w[i + 2])>> \o g[i + 3]
                    ELSE <<w[i]>> \o g[i + 1]
  <2>1. CASE i = 1
    <3>1. ~(i > Len(w)) /\ g[i] = first /\ g[2] = f[1]
      BY <1>1, <2>1
    <3>2. EscapeAt(w, 1) => g[4] = f[3]
      BY <1>1 DEF EscapeAt
    <3>3. first = IF EscapeAt(w, 1) THEN <<Byte(w[2], w[3])>> \o f[3] ELSE <<w[1]>> \o f[1]
      BY <1>1 DEF first
    <3> HIDE DEF g
    <3>4. 1 + 1 = 2 /\ 1 + 2 = 3 /\ 1 + 3 = 4
      OBVIOUS
    <3> QED
      BY <2>1, <3>1, <3>2, <3>3, <3>4
  <2>2. CASE i \in 2..L + 1
    <3> DEFINE j == i - 1
    <3>0. j \in 1..L /\ j \in 1..L + 1 /\ i = j + 1 /\ ~(i > Len(w))
      BY <1>1, <2>2
    <3>1. j \in 1..L /\ i = j + 1 /\ ~(i > Len(w)) /\ g[i] = f[j] /\ w[i] = value[j]
      <4> HIDE DEF j, g
      <4> QED
        BY <1>1, <1>3, <3>0
    <3> HIDE DEF j, g
    <3>2. CASE EscapeAt(value, j)
      <4>1. EscapeAt(w, i)
        BY <1>4, <3>1, <3>2
      <4>2. /\ j + 3 \in 1..L + 1 /\ j + 1 \in 1..L /\ j + 2 \in 1..L
            /\ f[j] = <<Byte(value[j + 1], value[j + 2])>> \o f[j + 3]
        <5>0. Len(value) \in Nat /\ j \in 1..Len(value)
          BY <1>1, <3>1
        <5>1. /\ j + 3 \in 1..L + 1
              /\ f[j] = <<Byte(value[j + 1], value[j + 2])>> \o f[j + 3]
          BY <3>2, <5>0, AtEscape, Zenon
        <5>2. \A l \in Nat : \A k \in 1..l : k + 3 \in 1..l + 1 => k + 1 \in 1..l /\ k + 2 \in 1..l
          OBVIOUS
        <5>3. j + 1 \in 1..L /\ j + 2 \in 1..L
          BY <5>0, <5>1, <5>2, Zenon
        <5> QED
          BY <5>1, <5>3
      <4>3. /\ i + 3 = (j + 3) + 1 /\ i + 1 = (j + 1) + 1 /\ i + 2 = (j + 2) + 1
        BY <3>1
      <4>4. g[i + 3] = f[j + 3] /\ w[i + 1] = value[j + 1] /\ w[i + 2] = value[j + 2]
        <5>1. i + 3 = (j + 3) + 1 /\ g[(j + 3) + 1] = f[j + 3]
          BY <1>3, <4>2, <4>3
        <5>2. w[(j + 1) + 1] = value[j + 1] /\ w[(j + 2) + 1] = value[j + 2]
          BY <1>1, <4>2
        <5> QED
          BY <4>3, <5>1, <5>2
      <4> QED
        BY <3>1, <4>1, <4>2, <4>4
    <3>3. CASE ~ EscapeAt(value, j)
      <4>1. ~ EscapeAt(w, i)
        BY <1>4, <3>1, <3>3
      <4>2. f[j] = <<value[j]>> \o f[j + 1]
        BY <1>1, <3>1, <3>3, AtLetter, Zenon
      <4>3. j + 1 \in 1..L + 1 /\ i + 1 = (j + 1) + 1
        BY <1>1, <3>1
      <4>4. g[i + 1] = f[j + 1]
        BY <1>3, <4>3
      <4> QED
        BY <3>1, <4>1, <4>2, <4>4
    <3> QED
      BY <3>2, <3>3
  <2>3. CASE i = L + 2
    <3>1. i > Len(w) /\ g[i] = f[L + 1]
      BY <1>1, <2>3
    <3>2. f[L + 1] = << >>
      BY <1>1, AtEnd
    <3> QED
      BY <3>1, <3>2
  <2> QED
    BY <1>1, <2>1, <2>2, <2>3
<1>6. Decoding(w, g)
  <2>1. Len(w) + 1 = L + 2
    BY <1>1
  <2>2. g = [i \in 1..Len(w) + 1 |-> g[i]]
    BY <2>1
  <2> HIDE DEF g
  <2> QED
    BY <1>5, <2>1, <2>2 DEF Decoding
<1> QED
  BY <1>3, <1>6 DEF w

LEMMA DecodingExists ==
    ASSUME NEW value \in Seq(Nat)
    PROVE  \E f \in [1..Len(value) + 1 -> Seq(Nat)] : Decoding(value, f)
<1> DEFINE Good(v) == \E f \in [1..Len(v) + 1 -> Seq(Nat)] : Decoding(v, f)
           W == {v \in Seq(Nat) : Good(v)}
<1>1. << >> \in W
  <2> DEFINE f == [i \in 1..1 |-> << >>]
  <2>1. << >> \in Seq(Nat) /\ Len(<< >>) = 0
    BY EmptySeq
  <2>2. f \in [1..Len(<< >>) + 1 -> Seq(Nat)]
    BY <2>1
  <2>3. \A i \in 1..1 : i > 0
    OBVIOUS
  <2>4. Decoding(<< >>, f)
    BY <2>1, <2>3 DEF Decoding
  <2> QED
    BY <2>1, <2>2, <2>4
<1>2. ASSUME NEW v \in Seq(Nat), NEW c \in Nat, v \in W
      PROVE  <<c>> \o v \in W
  <2>1. PICK f \in [1..Len(v) + 1 -> Seq(Nat)] : Decoding(v, f)
    BY <1>2
  <2>2. PICK g \in [1..Len(v) + 2 -> Seq(Nat)] : Decoding(<<c>> \o v, g)
    BY <2>1, DecodeMore
  <2>3. <<c>> \o v \in Seq(Nat) /\ Len(<<c>> \o v) + 1 = Len(v) + 2
    BY Prepended
  <2> QED
    BY <2>2, <2>3
<1>3. Seq(Nat) \subseteq W
  BY <1>1, <1>2, SeqSet
<1> QED
  BY <1>3

\* What urlDecode makes of nothing, of a letter, and of an escape.
LEMMA DecodeType ==
    ASSUME NEW value \in Seq(Nat)
    PROVE  urlDecode(value) \in Seq(Nat)
<1>1. PICK f \in [1..Len(value) + 1 -> Seq(Nat)] : Decoding(value, f)
  BY DecodingExists
<1>2. Len(value) \in Nat
  OBVIOUS
<1>3. urlDecode(value) = f[1]
  BY <1>1, <1>2, DecodeIs
<1> QED
  BY <1>2, <1>3

LEMMA DecodeEmpty == urlDecode(<< >>) = << >>
<1>1. << >> \in Seq(Nat) /\ Len(<< >>) = 0
  BY EmptySeq
<1>2. PICK f : Decoding(<< >>, f)
  BY <1>1, DecodingExists
<1>3. f[Len(<< >>) + 1] = << >>
  BY <1>1, <1>2, AtEnd
<1>4. urlDecode(<< >>) = f[1]
  BY <1>1, <1>2, DecodeIs
<1> QED
  BY <1>1, <1>3, <1>4

HexPair(value) == /\ 2 <= Len(value)
                  /\ {value[1], value[2]} \subseteq HexDigit

LEMMA EscapeFirst ==
    ASSUME NEW value \in Seq(Nat), NEW c \in Nat
    PROVE  EscapeAt(<<c>> \o value, 1) <=> c = Percent /\ HexPair(value)
<1> DEFINE w == <<c>> \o value
<1>1. /\ Len(value) \in Nat /\ Len(w) = Len(value) + 1 /\ w[1] = c
      /\ \A i \in 1..Len(value) : w[i + 1] = value[i]
  BY Prepended
<1> HIDE DEF w
<1>2. 1 + 2 <= Len(w) <=> 2 <= Len(value)
  BY <1>1
<1>3. 2 <= Len(value) => w[1 + 1] = value[1] /\ w[1 + 2] = value[2]
  <2>1. 2 <= Len(value) => 1 \in 1..Len(value) /\ 2 \in 1..Len(value)
    BY <1>1
  <2>2. 1 + 2 = 2 + 1
    OBVIOUS
  <2> QED
    BY <1>1, <2>1, <2>2
<1>4. EscapeAt(w, 1) <=> c = Percent /\ HexPair(value)
  BY <1>1, <1>2, <1>3 DEF EscapeAt, HexPair
<1> QED
  BY <1>4 DEF w

LEMMA DecodeLetter ==
    ASSUME NEW value \in Seq(Nat), NEW c \in Nat, ~(c = Percent /\ HexPair(value))
    PROVE  urlDecode(<<c>> \o value) = <<c>> \o urlDecode(value)
<1> DEFINE w == <<c>> \o value
<1>1. w \in Seq(Nat) /\ w[1] = c /\ Len(w) = Len(value) + 1 /\ Len(value) \in Nat
  BY Prepended
<1>2. PICK f \in [1..Len(value) + 1 -> Seq(Nat)] : Decoding(value, f)
  BY DecodingExists
<1>3. PICK g \in [1..Len(value) + 2 -> Seq(Nat)] :
         Decoding(w, g) /\ \A i \in 1..Len(value) + 1 : g[i + 1] = f[i]
  BY <1>2, DecodeMore
<1>4. ~ EscapeAt(w, 1)
  BY EscapeFirst
<1> HIDE DEF w
<1>5. urlDecode(value) = f[1] /\ urlDecode(w) = g[1]
  BY <1>1, <1>2, <1>3, DecodeIs
<1>6. 1 \in 1..Len(w) /\ Len(w) \in Nat /\ 1 \in 1..Len(value) + 1
  BY <1>1
<1>7. g[1] = <<w[1]>> \o g[1 + 1]
  <2>1. Decoding(w, g)
    BY <1>3
  <2> QED
    BY <1>4, <1>6, <2>1, AtLetter, Zenon
<1>8. g[1 + 1] = f[1]
  BY <1>3, <1>6
<1>9. urlDecode(w) = <<c>> \o urlDecode(value)
  BY <1>1, <1>5, <1>7, <1>8
<1> QED
  BY <1>9 DEF w

LEMMA DecodeEscape ==
    ASSUME NEW value \in Seq(Nat), NEW high \in HexDigit, NEW low \in HexDigit
    PROVE  urlDecode(<<Percent>> \o (<<high>> \o (<<low>> \o value)))
              = <<Byte(high, low)>> \o urlDecode(value)
<1> DEFINE v == <<low>> \o value
           w == <<high>> \o v
           u == <<Percent>> \o w
           n == Len(value)
<1>0. high \in Nat /\ low \in Nat /\ Percent \in Nat /\ n \in Nat
  BY DEF HexDigit, Digit, Percent
<1>1. /\ v \in Seq(Nat) /\ Len(v) = n + 1 /\ v[1] = low
  BY <1>0, Prepended
<1>2. w \in Seq(Nat) /\ Len(w) = n + 2 /\ w[1] = high /\ w[2] = low
  <2> HIDE DEF v
  <2>1. /\ w \in Seq(Nat) /\ Len(w) = Len(v) + 1 /\ w[1] = high
        /\ \A i \in 1..Len(v) : w[i + 1] = v[i]
    BY <1>0, <1>1, Prepended
  <2>2. 1 \in 1..Len(v) /\ 1 + 1 = 2 /\ Len(v) + 1 = n + 2
    BY <1>0, <1>1
  <2> QED
    BY <1>1, <2>1, <2>2
<1>3. HexPair(w)
  BY <1>0, <1>2 DEF HexPair
<1>4. u \in Seq(Nat) /\ Len(u) = n + 3 /\ u[1 + 1] = high /\ u[1 + 2] = low
  <2> HIDE DEF w
  <2>1. /\ u \in Seq(Nat) /\ Len(u) = Len(w) + 1
        /\ \A i \in 1..Len(w) : u[i + 1] = w[i]
    BY <1>0, <1>2, Prepended
  <2>2. 1 \in 1..Len(w) /\ 2 \in 1..Len(w) /\ 1 + 2 = 2 + 1 /\ Len(w) + 1 = n + 3
    BY <1>0, <1>2
  <2> QED
    BY <1>2, <2>1, <2>2
<1>5. EscapeAt(u, 1)
  BY <1>0, <1>2, <1>3, EscapeFirst
<1>6. PICK f \in [1..n + 1 -> Seq(Nat)] : Decoding(value, f)
  BY DecodingExists
<1> HIDE DEF n
<1>7. PICK g \in [1..n + 2 -> Seq(Nat)] :
         Decoding(v, g) /\ \A i \in 1..n + 1 : g[i + 1] = f[i]
  BY <1>0, <1>6, DecodeMore DEF n
<1> HIDE DEF v
<1>8. PICK h \in [1..n + 3 -> Seq(Nat)] :
         Decoding(w, h) /\ \A i \in 1..n + 2 : h[i + 1] = g[i]
  <2>1. Len(v) + 1 = n + 2 /\ Len(v) + 2 = n + 3
    BY <1>0, <1>1
  <2>2. v \in Seq(Nat) /\ Decoding(v, g) /\ g \in [1..Len(v) + 1 -> Seq(Nat)]
    BY <1>1, <1>7, <2>1
  <2>3. \E e \in [1..Len(v) + 2 -> Seq(Nat)] :
           /\ Decoding(<<high>> \o v, e)
           /\ \A i \in 1..Len(v) + 1 : e[i + 1] = g[i]
    BY <1>0, <2>2, DecodeMore
  <2> QED
    BY <2>1, <2>3
<1> HIDE DEF w
<1>9. PICK k \in [1..n + 4 -> Seq(Nat)] :
         Decoding(u, k) /\ \A i \in 1..n + 3 : k[i + 1] = h[i]
  <2>1. Len(w) + 1 = n + 3 /\ Len(w) + 2 = n + 4
    BY <1>0, <1>2
  <2>2. w \in Seq(Nat) /\ Decoding(w, h) /\ h \in [1..Len(w) + 1 -> Seq(Nat)]
    BY <1>2, <1>8, <2>1
  <2>3. \E e \in [1..Len(w) + 2 -> Seq(Nat)] :
           /\ Decoding(<<Percent>> \o w, e)
           /\ \A i \in 1..Len(w) + 1 : e[i + 1] = h[i]
    BY <1>0, <2>2, DecodeMore
  <2> QED
    BY <2>1, <2>3
<1> HIDE DEF u
<1>10. urlDecode(value) = f[1] /\ urlDecode(u) = k[1]
  BY <1>0, <1>4, <1>6, <1>9, DecodeIs DEF n
<1>11. k[1] = <<Byte(u[1 + 1], u[1 + 2])>> \o k[1 + 3]
  <2>1. 1 \in 1..Len(u) /\ Len(u) \in Nat
    BY <1>0, <1>4
  <2>2. Decoding(u, k)
    BY <1>9
  <2> QED
    BY <1>5, <2>1, <2>2, AtEscape, Zenon
<1>12. k[1 + 3] = f[1]
  <2>1. 1 \in 1..n + 1 /\ 2 \in 1..n + 2 /\ 3 \in 1..n + 3 /\ 1 + 1 = 2 /\ 2 + 1 = 3 /\ 3 + 1 = 1 + 3
    BY <1>0
  <2> QED
    BY <1>7, <1>8, <1>9, <2>1
<1>13. urlDecode(u) = <<Byte(high, low)>> \o urlDecode(value)
  BY <1>4, <1>10, <1>11, <1>12
<1> QED
  BY <1>13 DEF u, w, v

----------------------------------------------------------------------------
(* Names with some of their letters escaped.                               *)

\* The letters of U escaped, the others as they are.
Letter(c, U) == IF c \in U THEN escaped(c) ELSE <<c>>
Letters(value, U) == [i \in DOMAIN value |-> Letter(value[i], U)]
Spelling(value, U) == FlattenSeq(Letters(value, U))

LEMMA HexOK ==
    ASSUME NEW d \in 0..15
    PROVE  hex(d) \in 48..57 \cup 65..70 /\ hexValue(hex(d)) = d
BY DEF hex, hexValue, Digit, Upper

LEMMA EscapedOK ==
    ASSUME NEW c \in 0..255
    PROVE  \E high, low \in 48..57 \cup 65..70 :
              /\ escaped(c) = <<Percent, high, low>>
              /\ Byte(high, low) = c
<1>1. c \div 16 \in 0..15 /\ c % 16 \in 0..15 /\ c = 16 * (c \div 16) + (c % 16)
  OBVIOUS
<1> DEFINE high == hex(c \div 16)
           low == hex(c % 16)
<1>2. /\ high \in 48..57 \cup 65..70 /\ hexValue(high) = c \div 16
      /\ low \in 48..57 \cup 65..70 /\ hexValue(low) = c % 16
  BY <1>1, HexOK
<1>3. escaped(c) = <<Percent, high, low>>
  BY DEF escaped
<1>4. Byte(high, low) = c
  BY <1>1, <1>2 DEF Byte
<1> QED
  BY <1>2, <1>3, <1>4

LEMMA LetterType ==
    ASSUME NEW U \in SUBSET (0..255), NEW c \in Nat
    PROVE  Letter(c, U) \in Seq(Nat)
<1>1. CASE c \in U
  <2>1. PICK high, low \in 48..57 \cup 65..70 : escaped(c) = <<Percent, high, low>>
    BY <1>1, EscapedOK
  <2> QED
    BY <1>1, <2>1 DEF Letter, Percent
<1>2. CASE c \notin U
  BY <1>2 DEF Letter
<1> QED
  BY <1>1, <1>2

LEMMA LettersType ==
    ASSUME NEW U \in SUBSET (0..255), NEW value \in Seq(Nat)
    PROVE  /\ Letters(value, U) \in Seq(Seq(Nat))
           /\ Len(Letters(value, U)) = Len(value)
           /\ \A i \in 1..Len(value) : Letters(value, U)[i] = Letter(value[i], U)
<1>1. /\ DOMAIN value = 1..Len(value) /\ Len(value) \in Nat
      /\ \A i \in 1..Len(value) : value[i] \in Nat
  OBVIOUS
<1>2. Letters(value, U) \in [1..Len(value) -> Seq(Nat)]
  BY <1>1, LetterType DEF Letters
<1>3. Letters(value, U) \in Seq(Seq(Nat)) /\ Len(Letters(value, U)) = Len(value)
  BY <1>1, <1>2, SeqDef
<1> QED
  BY <1>1, <1>3 DEF Letters

LEMMA SpellingType ==
    ASSUME NEW U \in SUBSET (0..255), NEW value \in Seq(Nat)
    PROVE  Spelling(value, U) \in Seq(Nat)
BY LettersType, EmptySeq, FlattenAppend DEF Spelling

LEMMA SpellingEmpty ==
    ASSUME NEW U \in SUBSET (0..255)
    PROVE  Spelling(<< >>, U) = << >>
<1>1. << >> \in Seq(Nat) /\ Len(<< >>) = 0
  BY EmptySeq
<1>2. Letters(<< >>, U) = << >>
  BY <1>1, LettersType, EmptySeq
<1> QED
  BY <1>2, FlattenEmpty DEF Spelling

LEMMA SpellingPrepend ==
    ASSUME NEW U \in SUBSET (0..255), NEW value \in Seq(Nat), NEW c \in Nat
    PROVE  Spelling(<<c>> \o value, U) = Letter(c, U) \o Spelling(value, U)
<1> DEFINE w == <<c>> \o value
           ls == Letters(value, U)
           ll == <<Letter(c, U)>> \o ls
           n == Len(value)
<1>1. /\ n \in Nat /\ w \in Seq(Nat) /\ Len(w) = n + 1 /\ w[1] = c
      /\ \A i \in 1..n : w[i + 1] = value[i]
  BY Prepended
<1>2. ls \in Seq(Seq(Nat)) /\ Len(ls) = n /\ \A i \in 1..n : ls[i] = Letter(value[i], U)
  BY LettersType
<1>3. Letter(c, U) \in Seq(Nat)
  BY LetterType
<1> HIDE DEF ls, w, n
<1>4. /\ ll \in Seq(Seq(Nat)) /\ Len(ll) = n + 1 /\ ll[1] = Letter(c, U)
      /\ \A i \in 1..n : ll[i + 1] = ls[i]
  BY <1>2, <1>3, Prepended
<1>5. /\ Letters(w, U) \in Seq(Seq(Nat)) /\ Len(Letters(w, U)) = n + 1
      /\ \A i \in 1..n + 1 : Letters(w, U)[i] = Letter(w[i], U)
  <2>1. /\ Letters(w, U) \in Seq(Seq(Nat)) /\ Len(Letters(w, U)) = Len(w)
        /\ \A i \in 1..Len(w) : Letters(w, U)[i] = Letter(w[i], U)
    BY <1>1, LettersType
  <2> QED
    BY <1>1, <2>1
<1> HIDE DEF ll
<1>6. ASSUME NEW i \in 1..n + 1
      PROVE  Letters(w, U)[i] = ll[i]
  <2>1. CASE i = 1
    BY <1>1, <1>4, <1>5, <2>1
  <2>2. CASE i # 1
    <3>1. i - 1 \in 1..n /\ i = (i - 1) + 1
      BY <1>1, <2>2
    <3>2. ll[(i - 1) + 1] = Letter(value[i - 1], U)
      BY <1>2, <1>4, <3>1
    <3>3. w[(i - 1) + 1] = value[i - 1]
      BY <1>1, <3>1
    <3> QED
      BY <1>5, <3>1, <3>2, <3>3
  <2> QED
    BY <2>1, <2>2
<1>7. Letters(w, U) = ll
  BY <1>4, <1>5, <1>6, SeqEqual
<1>8. FlattenSeq(ll) = Letter(c, U) \o FlattenSeq(ls)
  BY <1>2, <1>3, FlattenPrepend DEF ll
<1> QED
  BY <1>7, <1>8 DEF Spelling, w, ls

LEMMA Triple ==
    ASSUME NEW S, NEW a \in S, NEW b \in S, NEW c \in S
    PROVE  <<a, b, c>> = <<a>> \o (<<b>> \o <<c>>)
<1> DEFINE t == <<b>> \o <<c>>
           u == <<a>> \o t
<1>1. <<c>> \in Seq(S) /\ Len(<<c>>) = 1 /\ <<c>>[1] = c
  OBVIOUS
<1>2. t \in Seq(S) /\ Len(t) = 2 /\ t[1] = b /\ t[2] = c
  <2>1. /\ t \in Seq(S) /\ Len(t) = Len(<<c>>) + 1 /\ t[1] = b
        /\ \A i \in 1..Len(<<c>>) : t[i + 1] = <<c>>[i]
    BY <1>1, Prepended
  <2>2. 1 \in 1..Len(<<c>>) /\ 1 + 1 = 2
    BY <1>1
  <2> QED
    BY <1>1, <2>1, <2>2
<1> HIDE DEF t
<1>3. u \in Seq(S) /\ Len(u) = 3 /\ u[1] = a /\ u[2] = b /\ u[3] = c
  <2>1. /\ u \in Seq(S) /\ Len(u) = Len(t) + 1 /\ u[1] = a
        /\ \A i \in 1..Len(t) : u[i + 1] = t[i]
    <3>1. t \in Seq(S)
      BY <1>2
    <3> QED
      BY <3>1, Prepended
  <2>2. 1 \in 1..Len(t) /\ 2 \in 1..Len(t) /\ 1 + 1 = 2 /\ 2 + 1 = 3
    BY <1>2
  <2> QED
    BY <1>2, <2>1, <2>2
<1> HIDE DEF u
<1>4. /\ <<a, b, c>> \in Seq(S) /\ Len(<<a, b, c>>) = 3
      /\ <<a, b, c>>[1] = a /\ <<a, b, c>>[2] = b /\ <<a, b, c>>[3] = c
  OBVIOUS
<1>5. \A i \in 1..3 : <<a, b, c>>[i] = u[i]
  <2>1. \A i \in 1..3 : i = 1 \/ i = 2 \/ i = 3
    OBVIOUS
  <2> QED
    BY <1>3, <1>4, <2>1
<1>6. <<a, b, c>> = u
  BY <1>3, <1>4, <1>5, SeqEqual
<1> QED
  BY <1>6 DEF u, t

\* A letter of U becomes an escape of it, another letter stays.
LEMMA SpellingEscape ==
    ASSUME NEW U \in SUBSET (0..255), NEW value \in Seq(Nat), NEW c \in U
    PROVE  \E high, low \in 48..57 \cup 65..70 :
              /\ Byte(high, low) = c
              /\ Spelling(<<c>> \o value, U)
                    = <<Percent>> \o (<<high>> \o (<<low>> \o Spelling(value, U)))
<1>1. PICK high, low \in 48..57 \cup 65..70 :
         escaped(c) = <<Percent, high, low>> /\ Byte(high, low) = c
  BY EscapedOK
<1>2. Spelling(value, U) \in Seq(Nat)
  BY SpellingType
<1>3. ASSUME NEW s \in Seq(Nat)
      PROVE  <<Percent, high, low>> \o s = <<Percent>> \o (<<high>> \o (<<low>> \o s))
  <2>1. <<Percent>> \in Seq(Nat) /\ <<high>> \in Seq(Nat) /\ <<low>> \in Seq(Nat)
    BY DEF Percent
  <2>2. <<high>> \o <<low>> \in Seq(Nat)
    BY <2>1, ConcatProperties
  <2>3. <<Percent, high, low>> = <<Percent>> \o (<<high>> \o <<low>>)
    <3>1. Percent \in Nat /\ high \in Nat /\ low \in Nat
      BY DEF Percent
    <3> QED
      BY <3>1, Triple, Zenon
  <2>4. (<<Percent>> \o (<<high>> \o <<low>>)) \o s = <<Percent>> \o ((<<high>> \o <<low>>) \o s)
    BY <2>1, <2>2, ConcatAssociative
  <2>5. (<<high>> \o <<low>>) \o s = <<high>> \o (<<low>> \o s)
    BY <2>1, ConcatAssociative
  <2> QED
    BY <2>3, <2>4, <2>5
<1>4. Spelling(<<c>> \o value, U) = escaped(c) \o Spelling(value, U)
  <2>1. Letter(c, U) = escaped(c) /\ c \in Nat
    BY DEF Letter
  <2> QED
    BY <2>1, SpellingPrepend
<1> QED
  BY <1>1, <1>2, <1>3, <1>4

LEMMA SpellingLetter ==
    ASSUME NEW U \in SUBSET (0..255), NEW value \in Seq(Nat), NEW c \in Nat \ U
    PROVE  Spelling(<<c>> \o value, U) = <<c>> \o Spelling(value, U)
<1>1. Letter(c, U) = <<c>>
  BY DEF Letter
<1> QED
  BY <1>1, SpellingPrepend

Reserved == (0..255) \ Unreserved

LEMMA ReservedIs ==
    ASSUME NEW c \in Nat
    PROVE  c \in Reserved <=> ~(c > 255 \/ c \in Unreserved)
<1>1. c \in 0..255 <=> ~(c > 255)
  OBVIOUS
<1> QED
  BY <1>1, Zenon DEF Reserved

LEMMA EncodeIsSpelling ==
    ASSUME NEW value \in Seq(Nat)
    PROVE  urlEncode(value) = Spelling(value, Reserved)
<1>1. ASSUME NEW i \in DOMAIN value
      PROVE  (IF value[i] > 255 \/ value[i] \in Unreserved THEN <<value[i]>> ELSE escaped(value[i]))
                = Letter(value[i], Reserved)
  <2>1. value[i] \in Nat
    OBVIOUS
  <2>2. value[i] \in Reserved <=> ~(value[i] > 255 \/ value[i] \in Unreserved)
    BY <2>1, ReservedIs, Zenon
  <2> QED
    BY <2>2 DEF Letter
<1>2. [i \in DOMAIN value |-> IF value[i] > 255 \/ value[i] \in Unreserved
                              THEN <<value[i]>> ELSE escaped(value[i])]
         = Letters(value, Reserved)
  BY <1>1, Zenon DEF Letters
<1> QED
  BY <1>2, Zenon DEF urlEncode, Spelling

\* urlDecode undoes urlEncode, whatever letters the name has: percent signs and
\* what looks like an escape among them.
THEOREM DecodeEncode ==
    ASSUME NEW value \in Seq(Nat)
    PROVE  urlDecode(urlEncode(value)) = value
<1> DEFINE W == {v \in Seq(Nat) : urlDecode(Spelling(v, Reserved)) = v}
<1>0. Reserved \in SUBSET (0..255) /\ Percent \in Reserved
  BY DEF Reserved, Unreserved, Digit, Upper, Lower, Percent
<1>1. << >> \in W
  BY <1>0, EmptySeq, SpellingEmpty, DecodeEmpty
<1>2. ASSUME NEW v \in Seq(Nat), NEW c \in Nat, v \in W
      PROVE  <<c>> \o v \in W
  <2> DEFINE e == Spelling(v, Reserved)
  <2>1. <<c>> \o v \in Seq(Nat) /\ e \in Seq(Nat) /\ urlDecode(e) = v
    BY <1>0, <1>2, Prepended, SpellingType
  <2>2. CASE c \in Reserved
    <3>1. PICK high, low \in 48..57 \cup 65..70 :
             /\ Byte(high, low) = c
             /\ Spelling(<<c>> \o v, Reserved) = <<Percent>> \o (<<high>> \o (<<low>> \o e))
      BY <1>0, <2>2, SpellingEscape
    <3>2. high \in HexDigit /\ low \in HexDigit
      BY DEF HexDigit, Digit
    <3> HIDE DEF e
    <3>3. urlDecode(<<Percent>> \o (<<high>> \o (<<low>> \o e))) = <<Byte(high, low)>> \o urlDecode(e)
      BY <2>1, <3>2, DecodeEscape
    <3> QED
      BY <2>1, <3>1, <3>3
  <2>3. CASE c \notin Reserved
    <3>1. Spelling(<<c>> \o v, Reserved) = <<c>> \o e
      BY <1>0, <2>3, SpellingLetter
    <3> HIDE DEF e
    <3>2. c # Percent
      BY <1>0, <2>3
    <3>3. urlDecode(<<c>> \o e) = <<c>> \o urlDecode(e)
      BY <2>1, <3>2, DecodeLetter
    <3> QED
      BY <2>1, <3>1, <3>3
  <2> QED
    BY <2>2, <2>3
<1>3. Seq(Nat) \subseteq W
  BY <1>1, <1>2, SeqSet
<1> QED
  BY <1>3, EncodeIsSpelling

HexFirst(value) == 1 <= Len(value) /\ value[1] \in HexDigit

LEMMA HexPrepended ==
    ASSUME NEW value \in Seq(Nat), NEW c \in Nat
    PROVE  /\ HexFirst(<<c>> \o value) <=> c \in HexDigit
           /\ HexPair(<<c>> \o value) <=> c \in HexDigit /\ HexFirst(value)
<1> DEFINE w == <<c>> \o value
<1>1. /\ Len(value) \in Nat /\ Len(w) = Len(value) + 1 /\ w[1] = c
      /\ \A i \in 1..Len(value) : w[i + 1] = value[i]
  BY Prepended
<1> HIDE DEF w
<1>2. 1 <= Len(w) /\ (2 <= Len(w) <=> 1 <= Len(value))
  BY <1>1
<1>3. 1 <= Len(value) => w[2] = value[1]
  <2>1. 1 <= Len(value) => 1 \in 1..Len(value) /\ 1 + 1 = 2
    BY <1>1
  <2> QED
    BY <1>1, <2>1
<1>4. HexFirst(w) <=> c \in HexDigit
  BY <1>1, <1>2 DEF HexFirst
<1>5. HexPair(w) <=> c \in HexDigit /\ HexFirst(value)
  BY <1>1, <1>2, <1>3 DEF HexPair, HexFirst
<1> QED
  BY <1>4, <1>5 DEF w

LEMMA HexEmpty == ~ HexFirst(<< >>) /\ ~ HexPair(<< >>)
BY EmptySeq DEF HexFirst, HexPair

\* A sequence is empty or has a first letter.
LEMMA FirstLetter ==
    ASSUME NEW value \in Seq(Nat), value # << >>
    PROVE  \E c \in Nat, rest \in Seq(Nat) : value = <<c>> \o rest
<1>1. Len(value) # 0
  BY EmptySeq, SeqEqual
<1> QED
  BY <1>1, HeadTail

\* Escapes of other letters neither make nor break an escape.
LEMMA SpellingHexFirst ==
    ASSUME NEW U \in SUBSET (0..255), U \cap (HexDigit \cup {Percent}) = {},
           NEW value \in Seq(Nat)
    PROVE  HexFirst(Spelling(value, U)) <=> HexFirst(value)
<1>1. CASE value = << >>
  BY <1>1, SpellingEmpty, HexEmpty
<1>2. CASE value # << >>
  <2>1. PICK c \in Nat, rest \in Seq(Nat) : value = <<c>> \o rest
    BY <1>2, FirstLetter
  <2> DEFINE e == Spelling(rest, U)
  <2>2. e \in Seq(Nat)
    BY SpellingType
  <2>3. HexFirst(value) <=> c \in HexDigit
    BY <2>1, HexPrepended
  <2>4. CASE c \in U
    <3>0. PICK high, low \in 48..57 \cup 65..70 :
             /\ Byte(high, low) = c
             /\ Spelling(<<c>> \o rest, U) = <<Percent>> \o (<<high>> \o (<<low>> \o e))
      BY <2>4, SpellingEscape
    <3>1. Spelling(value, U) = <<Percent>> \o (<<high>> \o (<<low>> \o e))
      BY <2>1, <3>0
    <3> HIDE DEF e
    <3>2. <<high>> \o (<<low>> \o e) \in Seq(Nat) /\ Percent \in Nat /\ Percent \notin HexDigit
      BY <2>2, Prepended DEF Percent, HexDigit, Digit
    <3>3. ~ HexFirst(<<Percent>> \o (<<high>> \o (<<low>> \o e)))
      BY <3>2, HexPrepended
    <3> QED
      BY <2>3, <2>4, <3>1, <3>3
  <2>5. CASE c \notin U
    <3>1. Spelling(value, U) = <<c>> \o e
      BY <2>1, <2>5, SpellingLetter
    <3> QED
      BY <2>2, <2>3, <3>1, HexPrepended
  <2> QED
    BY <2>4, <2>5
<1> QED
  BY <1>1, <1>2

LEMMA SpellingHexPair ==
    ASSUME NEW U \in SUBSET (0..255), U \cap (HexDigit \cup {Percent}) = {},
           NEW value \in Seq(Nat)
    PROVE  HexPair(Spelling(value, U)) <=> HexPair(value)
<1>1. CASE value = << >>
  BY <1>1, SpellingEmpty, HexEmpty
<1>2. CASE value # << >>
  <2>1. PICK c \in Nat, rest \in Seq(Nat) : value = <<c>> \o rest
    BY <1>2, FirstLetter
  <2> DEFINE e == Spelling(rest, U)
  <2>2. e \in Seq(Nat) /\ (HexFirst(e) <=> HexFirst(rest))
    BY SpellingType, SpellingHexFirst
  <2>3. HexPair(value) <=> c \in HexDigit /\ HexFirst(rest)
    BY <2>1, HexPrepended
  <2>4. CASE c \in U
    <3>0. PICK high, low \in 48..57 \cup 65..70 :
             /\ Byte(high, low) = c
             /\ Spelling(<<c>> \o rest, U) = <<Percent>> \o (<<high>> \o (<<low>> \o e))
      BY <2>4, SpellingEscape
    <3>1. Spelling(value, U) = <<Percent>> \o (<<high>> \o (<<low>> \o e))
      BY <2>1, <3>0
    <3> HIDE DEF e
    <3>2. <<high>> \o (<<low>> \o e) \in Seq(Nat) /\ Percent \in Nat /\ Percent \notin HexDigit
      BY <2>2, Prepended DEF Percent, HexDigit, Digit
    <3>3. ~ HexPair(Spelling(value, U))
      BY <3>1, <3>2, HexPrepended
    <3> QED
      BY <2>3, <2>4, <3>3
  <2>5. CASE c \notin U
    <3>1. Spelling(value, U) = <<c>> \o e
      BY <2>1, <2>5, SpellingLetter
    <3> QED
      BY <2>2, <2>3, <3>1, HexPrepended
  <2> QED
    BY <2>4, <2>5
<1> QED
  BY <1>1, <1>2

LEMMA CancelPrepended ==
    ASSUME NEW c \in Nat, NEW s \in Seq(Nat), NEW t \in Seq(Nat), <<c>> \o s = <<c>> \o t
    PROVE  s = t
<1>1. Len(s) + 1 = Len(t) + 1 /\ Len(s) \in Nat /\ Len(t) \in Nat
  BY Prepended
<1>2. Len(s) = Len(t)
  BY <1>1
<1>3. \A i \in 1..Len(s) : s[i] = t[i]
  <2>1. ASSUME NEW i \in 1..Len(s) PROVE s[i] = t[i]
    <3>1. i \in 1..Len(t)
      BY <1>2
    <3>2. (<<c>> \o s)[i + 1] = s[i] /\ (<<c>> \o t)[i + 1] = t[i]
      BY <3>1, Prepended
    <3> QED
      BY <3>2
  <2> QED
    BY <2>1
<1> QED
  BY <1>2, <1>3, SeqEqual

\* urlDecode does not tell a name from the same name with other letters escaped
\* than the percent sign and the hexadecimal digits.
THEOREM DecodeSpelling ==
    ASSUME NEW U \in SUBSET (0..255), U \cap (HexDigit \cup {Percent}) = {},
           NEW value \in Seq(Nat)
    PROVE  urlDecode(Spelling(value, U)) = urlDecode(value)
<1> DEFINE Same(v) == urlDecode(Spelling(v, U)) = urlDecode(v)
           W == {v \in Seq(Nat) : Same(v)}
<1>0. Percent \notin HexDigit /\ Percent \notin U /\ Percent \in Nat /\ HexDigit \subseteq Nat \ U
  BY DEF Percent, HexDigit, Digit
<1>1. << >> \in W
  BY EmptySeq, SpellingEmpty
<1>2. ASSUME NEW v \in Seq(Nat), NEW c \in Nat, v \in W
      PROVE  <<c>> \o v \in W
  <2> DEFINE e == Spelling(v, U)
  <2>1. <<c>> \o v \in Seq(Nat) /\ e \in Seq(Nat) /\ urlDecode(e) = urlDecode(v)
    BY <1>2, Prepended, SpellingType
  <2>2. CASE c \in U
    <3>1. PICK high, low \in 48..57 \cup 65..70 :
             /\ Byte(high, low) = c
             /\ Spelling(<<c>> \o v, U) = <<Percent>> \o (<<high>> \o (<<low>> \o e))
      BY <2>2, SpellingEscape
    <3>2. high \in HexDigit /\ low \in HexDigit
      BY DEF HexDigit, Digit
    <3> HIDE DEF e
    <3>3. urlDecode(<<Percent>> \o (<<high>> \o (<<low>> \o e))) = <<Byte(high, low)>> \o urlDecode(e)
      BY <2>1, <3>2, DecodeEscape
    <3>4. urlDecode(<<c>> \o v) = <<c>> \o urlDecode(v)
      BY <1>0, <2>2, DecodeLetter
    <3> QED
      BY <2>1, <3>1, <3>3, <3>4
  <2>3. CASE c \notin U /\ ~(c = Percent /\ HexPair(v))
    <3>1. Spelling(<<c>> \o v, U) = <<c>> \o e
      BY <2>3, SpellingLetter
    <3>2. HexPair(e) <=> HexPair(v)
      BY SpellingHexPair
    <3> HIDE DEF e
    <3>3. urlDecode(<<c>> \o e) = <<c>> \o urlDecode(e)
      BY <2>1, <2>3, <3>2, DecodeLetter
    <3>4. urlDecode(<<c>> \o v) = <<c>> \o urlDecode(v)
      BY <2>3, DecodeLetter
    <3> QED
      BY <2>1, <3>1, <3>3, <3>4
  <2>4. CASE c = Percent /\ HexPair(v)
    <3>1. v # << >>
      BY <2>4, HexEmpty
    <3>2. PICK high \in Nat, w \in Seq(Nat) : v = <<high>> \o w
      BY <3>1, FirstLetter
    <3>3. high \in HexDigit /\ HexFirst(w)
      BY <2>4, <3>2, HexPrepended
    <3>4. w # << >>
      BY <3>3, HexEmpty
    <3>5. PICK low \in Nat, rest \in Seq(Nat) : w = <<low>> \o rest
      BY <3>4, FirstLetter
    <3>6. low \in HexDigit
      BY <3>3, <3>5, HexPrepended
    <3> DEFINE r == Spelling(rest, U)
    <3>7. r \in Seq(Nat) /\ urlDecode(r) \in Seq(Nat) /\ urlDecode(rest) \in Seq(Nat)
      BY SpellingType, DecodeType
    <3>8. high \in Nat \ U /\ low \in Nat \ U /\ Percent \in Nat \ U
      BY <1>0, <3>3, <3>6
    <3>9. Spelling(w, U) = <<low>> \o r
      BY <3>5, <3>8, SpellingLetter
    <3>10. e = <<high>> \o (<<low>> \o r)
      <4>1. Spelling(<<high>> \o w, U) = <<high>> \o Spelling(w, U)
        BY <3>8, SpellingLetter
      <4> QED
        BY <3>2, <3>9, <4>1
    <3>11. Spelling(<<Percent>> \o v, U) = <<Percent>> \o e
      BY <3>8, SpellingLetter
    <3> HIDE DEF e, r
    <3>12. /\ <<low>> \o rest \in Seq(Nat) /\ <<low>> \o r \in Seq(Nat)
           /\ <<low>> \o urlDecode(rest) \in Seq(Nat) /\ <<low>> \o urlDecode(r) \in Seq(Nat)
      BY <3>7, Prepended
    <3>13. /\ urlDecode(<<low>> \o rest) = <<low>> \o urlDecode(rest)
           /\ urlDecode(<<low>> \o r) = <<low>> \o urlDecode(r)
      BY <1>0, <3>6, <3>7, DecodeLetter
    <3>14. /\ urlDecode(<<high>> \o (<<low>> \o rest)) = <<high>> \o urlDecode(<<low>> \o rest)
           /\ urlDecode(<<high>> \o (<<low>> \o r)) = <<high>> \o urlDecode(<<low>> \o r)
      BY <1>0, <3>3, <3>12, DecodeLetter
    <3>15. /\ urlDecode(v) = <<high>> \o (<<low>> \o urlDecode(rest))
           /\ urlDecode(e) = <<high>> \o (<<low>> \o urlDecode(r))
      BY <3>2, <3>5, <3>10, <3>13, <3>14
    <3>16. <<low>> \o urlDecode(rest) = <<low>> \o urlDecode(r)
      BY <2>1, <3>12, <3>15, CancelPrepended
    <3>17. urlDecode(rest) = urlDecode(r)
      BY <3>7, <3>16, CancelPrepended
    <3>18. /\ urlDecode(<<Percent>> \o v) = <<Byte(high, low)>> \o urlDecode(rest)
           /\ urlDecode(<<Percent>> \o e) = <<Byte(high, low)>> \o urlDecode(r)
      BY <3>2, <3>3, <3>5, <3>6, <3>7, <3>10, DecodeEscape
    <3> QED
      BY <2>1, <2>4, <3>11, <3>17, <3>18
  <2> QED
    BY <1>0, <2>2, <2>3, <2>4
<1>3. Seq(Nat) \subseteq W
  BY <1>1, <1>2, SeqSet
<1> QED
  BY <1>3

HexUpper == 48..57 \cup 65..70

\* The letters of a spelling.
LEMMA SpellingLetters ==
    ASSUME NEW U \in SUBSET (0..255), NEW A \in SUBSET Nat, NEW value \in Seq(A)
    PROVE  Spelling(value, U) \in Seq((A \ U) \cup {Percent} \cup HexUpper)
<1> DEFINE S == (A \ U) \cup {Percent} \cup HexUpper
           W == {v \in Seq(A) : v \in Seq(Nat) /\ Spelling(v, U) \in Seq(S)}
<1>1. << >> \in W
  BY EmptySeq, SpellingEmpty
<1>2. ASSUME NEW v \in Seq(A), NEW c \in A, v \in W
      PROVE  <<c>> \o v \in W
  <2> DEFINE e == Spelling(v, U)
  <2>1. <<c>> \o v \in Seq(A) /\ v \in Seq(Nat) /\ c \in Nat /\ e \in Seq(S)
    BY <1>2, Prepended
  <2>2. <<c>> \o v \in Seq(Nat)
    BY <2>1, Prepended
  <2>3. CASE c \in U
    <3>1. PICK high, low \in 48..57 \cup 65..70 :
             /\ Byte(high, low) = c
             /\ Spelling(<<c>> \o v, U) = <<Percent>> \o (<<high>> \o (<<low>> \o e))
      BY <2>1, <2>3, SpellingEscape
    <3>2. high \in S /\ low \in S /\ Percent \in S
      BY DEF HexUpper
    <3> HIDE DEF e, S
    <3>3. <<low>> \o e \in Seq(S)
      BY <2>1, <3>2, Prepended
    <3>4. <<high>> \o (<<low>> \o e) \in Seq(S)
      BY <3>2, <3>3, Prepended
    <3>5. <<Percent>> \o (<<high>> \o (<<low>> \o e)) \in Seq(S)
      BY <3>2, <3>4, Prepended
    <3> QED
      BY <2>1, <2>2, <3>1, <3>5
  <2>4. CASE c \notin U
    <3>1. Spelling(<<c>> \o v, U) = <<c>> \o e /\ c \in S
      BY <2>1, <2>4, SpellingLetter
    <3> HIDE DEF e, S
    <3>2. <<c>> \o e \in Seq(S)
      BY <2>1, <3>1, Prepended
    <3> QED
      BY <2>1, <2>2, <3>1, <3>2
  <2> QED
    BY <2>3, <2>4
<1>3. Seq(A) \subseteq W
  <2> HIDE DEF W
  <2> QED
    BY <1>1, <1>2, SeqSet
<1> QED
  BY <1>3

\* What has no letter to be escaped stays.
LEMMA SpellingSame ==
    ASSUME NEW U \in SUBSET (0..255), NEW value \in Seq(Nat \ U)
    PROVE  Spelling(value, U) = value
<1> DEFINE W == {v \in Seq(Nat \ U) : v \in Seq(Nat) /\ Spelling(v, U) = v}
<1>1. << >> \in W
  BY EmptySeq, SpellingEmpty
<1>2. ASSUME NEW v \in Seq(Nat \ U), NEW c \in Nat \ U, v \in W
      PROVE  <<c>> \o v \in W
  BY <1>2, Prepended, SpellingLetter
<1>3. Seq(Nat \ U) \subseteq W
  <2> HIDE DEF W
  <2> QED
    BY <1>1, <1>2, SeqSet
<1> QED
  BY <1>3

LEMMA HasNone ==
    ASSUME NEW value \in Seq(Nat), NEW X
    PROVE  ~ Has(value, X) <=> value \in Seq(Nat \ X)
<1>1. DOMAIN value = 1..Len(value) /\ \A i \in 1..Len(value) : value[i] \in Nat
  OBVIOUS
<1>2. ASSUME ~ Has(value, X) PROVE value \in Seq(Nat \ X)
  <2>1. value \in [1..Len(value) -> Nat \ X]
    BY <1>1, <1>2 DEF Has
  <2> QED
    BY <2>1, SeqDef
<1>3. ASSUME value \in Seq(Nat \ X) PROVE ~ Has(value, X)
  <2>1. \A i \in 1..Len(value) : value[i] \in Nat \ X
    BY <1>3
  <2> QED
    BY <1>1, <2>1 DEF Has
<1> QED
  BY <1>2, <1>3
=============================================================================
