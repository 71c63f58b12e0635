--------------------------- MODULE UrlCodecProofs ---------------------------
(***************************************************************************)
(* Proofs about url::encode and its two decoders, for strings of any       *)
(* length over any bytes.                                                  *)
(***************************************************************************)
EXTENDS UrlCodec, SequenceLemmas

Byte == 0..255

\* What encode() makes of one character, and of each of a string.
Code(c) == IF Plain(c) THEN <<c>> ELSE Escape(c)
Codes(s) == [i \in DOMAIN s |-> Code(s[i])]

LEMMA SourcesAreBytes ==
  ASSUME NEW s \in Sources
  PROVE  s \in Seq(Byte) /\ Len(s) \in Nat /\ DOMAIN s = 1..Len(s)
<1>1. PICK n \in 0..MaxLen : s \in [1..n -> Char]
  BY DEF Sources
<1>2. n \in Nat /\ Char \subseteq Byte
  BY UrlCodecAssumption DEF Byte
<1>3. s \in [1..n -> Byte]
  BY <1>1, <1>2
<1>4. s \in Seq(Byte)
  BY <1>2, <1>3, SeqDef
<1>5. QED
  BY <1>4, LenProperties

LEMMA HexDigits ==
  /\ \A n \in 0..15 : HexDigit(n) \in Byte /\ IsHex(HexDigit(n))
  /\ \A m, n \in 0..15 : HexDigit(m) = HexDigit(n) => m = n
BY DEF HexDigit, IsHex, Byte

LEMMA HexValues == \A lo, hi \in Byte : IsHex(lo) /\ IsHex(hi) => Unescaped(lo, hi) \in Byte
<1>1. \A c \in Byte : IsHex(c) => HexValue(c) \in 0..15
  BY DEF IsHex, HexValue, Byte
<1>2. \A m, n \in 0..15 : m + 16 * n \in Byte
  BY DEF Byte
<1>3. QED
  BY <1>1, <1>2 DEF Unescaped

LEMMA Nibbles ==
  /\ \A c \in Byte : c \div 16 \in 0..15 /\ c % 16 \in 0..15
  /\ \A c, d \in Byte : c \div 16 = d \div 16 /\ c % 16 = d % 16 => c = d
BY DEF Byte

LEMMA PercentIsNotPlain == ~Plain(Percent)
BY DEF Plain, Reserved

LEMMA CodeProperties ==
  ASSUME NEW c \in Byte
  PROVE  /\ Code(c) \in Seq(Byte)
         /\ Plain(c) => Len(Code(c)) = 1 /\ Code(c)[1] = c /\ c # Percent
         /\ ~Plain(c) => /\ Len(Code(c)) = 3 /\ Code(c)[1] = Percent
                         /\ Code(c)[2] = HexDigit(c \div 16)
                         /\ Code(c)[3] = HexDigit(c % 16)
<1>1. CASE Plain(c)
  <2>1. Code(c) = <<c>> /\ c # Percent
    BY <1>1, PercentIsNotPlain DEF Code
  <2>2. QED
    BY <1>1, <2>1
<1>2. CASE ~Plain(c)
  <2>1. Code(c) = <<Percent, HexDigit(c \div 16), HexDigit(c % 16)>>
    BY <1>2 DEF Code, Escape
  <2>2. Percent \in Byte
    BY DEF Percent, Byte
  <2>3. HexDigit(c \div 16) \in Byte /\ HexDigit(c % 16) \in Byte
    BY Nibbles, HexDigits
  <2>4. QED
    BY <1>2, <2>1, <2>2, <2>3
<1>3. QED
  BY <1>1, <1>2

LEMMA CodeIsNotEmpty ==
  ASSUME NEW c \in Byte
  PROVE  Len(Code(c)) \in Nat /\ Len(Code(c)) > 0 /\ 1 \in 1..Len(Code(c))
<1>1. Len(Code(c)) = 1 \/ Len(Code(c)) = 3
  BY CodeProperties
<1>2. \A n : n = 1 \/ n = 3 => n \in Nat /\ n > 0 /\ 1 \in 1..n
  OBVIOUS
<1>3. QED
  BY <1>1, <1>2

(* Codes are told apart by their first character, and by all three.        *)
LEMMA CodeInjective ==
  ASSUME NEW c \in Byte, NEW d \in Byte,
         Len(Code(c)) = Len(Code(d)) => \A j \in 1..Len(Code(c)) : Code(c)[j] = Code(d)[j],
         Code(c)[1] = Code(d)[1]
  PROVE  c = d
<1>1. Plain(c) <=> Plain(d)
  BY CodeProperties
<1>2. CASE Plain(c)
  BY <1>1, <1>2, CodeProperties
<1>3. CASE ~Plain(c)
  <2>1. /\ Len(Code(c)) = 3 /\ Code(c)[2] = HexDigit(c \div 16) /\ Code(c)[3] = HexDigit(c % 16)
        /\ Len(Code(d)) = 3 /\ Code(d)[2] = HexDigit(d \div 16) /\ Code(d)[3] = HexDigit(d % 16)
    BY <1>1, <1>3, CodeProperties
  <2>2. HexDigit(c \div 16) = HexDigit(d \div 16) /\ HexDigit(c % 16) = HexDigit(d % 16)
    BY <2>1
  <2>3. c \div 16 = d \div 16 /\ c % 16 = d % 16
    BY <2>2, HexDigits, Nibbles
  <2>4. QED
    BY <2>3, Nibbles
<1>4. QED
  BY <1>2, <1>3

LEMMA CodesType ==
  ASSUME NEW s \in Seq(Byte)
  PROVE  /\ Codes(s) \in Seq(Seq(Byte))
         /\ Len(Codes(s)) = Len(s)
         /\ \A i \in 1..Len(s) : Codes(s)[i] = Code(s[i])
<1>1. Len(s) \in Nat /\ DOMAIN s = 1..Len(s) /\ \A i \in 1..Len(s) : s[i] \in Byte
  BY LenProperties, ElementOfSeq
<1>2. \A i \in 1..Len(s) : Code(s[i]) \in Seq(Byte)
  BY <1>1, CodeProperties
<1>3. Codes(s) = [i \in 1..Len(s) |-> Code(s[i])]
  BY <1>1 DEF Codes
<1>4. Codes(s) \in [1..Len(s) -> Seq(Byte)]
  BY <1>2, <1>3
<1>5. Codes(s) \in Seq(Seq(Byte))
  BY <1>1, <1>4, SeqDef
<1>6. Len(Codes(s)) = Len(s)
  BY <1>1, <1>4, <1>5, LenProperties
<1>7. QED
  BY <1>3, <1>5, <1>6

LEMMA EncodeIsFlat ==
  ASSUME NEW s \in Seq(Byte)
  PROVE  Encode(s) = FlattenSeq(Codes(s)) /\ Encode(s) \in Seq(Byte)
<1>1. Encode(s) = FlattenSeq(Codes(s))
  BY DEF Encode, Codes, Code
<1>2. QED
  BY <1>1, CodesType, FlattenSeqType

(* The encoding of the first n characters.                                 *)
EncodeFirst(s, n) == Encode(SubSeq(s, 1, n))

LEMMA EncodeFirstIsFlat ==
  ASSUME NEW s \in Seq(Byte), NEW n \in 0..Len(s)
  PROVE  EncodeFirst(s, n) = FlattenFirst(Codes(s), n)
<1> DEFINE p == SubSeq(s, 1, n)
           cs == Codes(s)
<1>1. Len(s) \in Nat /\ 1 \in Int /\ n \in Int /\ \A i \in 1..n : s[i] \in Byte
  BY LenProperties, ElementOfSeq
<1>2. /\ p \in Seq(Byte)
      /\ Len(p) = IF 1 <= n THEN n-1+1 ELSE 0
      /\ \A i \in 1..n-1+1 : p[i] = s[1+i-1]
  BY <1>1, SubSeqProperties
<1>3. Len(p) = n /\ \A i \in 1..n : p[i] = s[i]
  BY <1>2
<1>4. /\ cs \in Seq(Seq(Byte)) /\ Len(cs) = Len(s)
      /\ \A i \in 1..Len(s) : cs[i] = Code(s[i])
  BY CodesType
<1> DEFINE T == Seq(Byte)
<1>5. \A i \in 1..n : cs[i] \in T
  BY <1>1, <1>4, ElementOfSeq
<1> HIDE DEF T, cs, p
<1>6. /\ SubSeq(cs, 1, n) \in Seq(T)
      /\ Len(SubSeq(cs, 1, n)) = IF 1 <= n THEN n-1+1 ELSE 0
      /\ \A i \in 1..n-1+1 : SubSeq(cs, 1, n)[i] = cs[1+i-1]
  BY <1>1, <1>5, SubSeqProperties
<1>7. Len(SubSeq(cs, 1, n)) = n /\ \A i \in 1..n : SubSeq(cs, 1, n)[i] = cs[i]
  BY <1>6
<1>8. /\ Codes(p) \in Seq(T) /\ Len(Codes(p)) = Len(p)
      /\ \A i \in 1..Len(p) : Codes(p)[i] = Code(p[i])
  BY <1>2, CodesType DEF T
<1>9. \A i \in 1..Len(Codes(p)) : Codes(p)[i] = SubSeq(cs, 1, n)[i]
  <2> SUFFICES ASSUME NEW i \in 1..n PROVE Codes(p)[i] = SubSeq(cs, 1, n)[i]
    BY <1>3, <1>8
  <2>1. i \in 1..Len(s)
    BY <1>1
  <2>2. Codes(p)[i] = Code(s[i]) /\ SubSeq(cs, 1, n)[i] = Code(s[i])
    BY <2>1, <1>3, <1>4, <1>7, <1>8
  <2>3. QED
    BY <2>2
<1>10. Codes(p) = SubSeq(cs, 1, n)
  <2>1. Len(Codes(p)) = Len(SubSeq(cs, 1, n))
    BY <1>3, <1>7, <1>8
  <2>2. QED
    BY <2>1, <1>6, <1>8, <1>9, SeqEqual
<1>11. EncodeFirst(s, n) = FlattenSeq(Codes(p))
  BY <1>2, EncodeIsFlat DEF EncodeFirst, p
<1>12. QED
  BY <1>10, <1>11 DEF FlattenFirst, cs

(* In the encoding of s, the code of character n + 1 follows that of the   *)
(* first n.                                                                *)
LEMMA EncodePlace ==
  ASSUME NEW s \in Seq(Byte), NEW n \in 0..Len(s)-1
  PROVE  /\ Len(EncodeFirst(s, n)) \in Nat
         /\ Len(EncodeFirst(s, n + 1)) = Len(EncodeFirst(s, n)) + Len(Code(s[n+1]))
         /\ Len(EncodeFirst(s, n + 1)) <= Len(Encode(s))
         /\ \A j \in 1..Len(Code(s[n+1])) :
               Encode(s)[Len(EncodeFirst(s, n)) + j] = Code(s[n+1])[j]
<1> DEFINE cs == Codes(s)
<1>1. Len(s) \in Nat /\ n \in 0..Len(s) /\ n + 1 \in 0..Len(s) /\ n + 1 \in 1..Len(s)
  BY LenProperties
<1>2. EncodeFirst(s, n) = FlattenFirst(cs, n) /\ EncodeFirst(s, n+1) = FlattenFirst(cs, n+1)
  BY <1>1, EncodeFirstIsFlat
<1>3. cs \in Seq(Seq(Byte)) /\ Len(cs) = Len(s) /\ cs[n+1] = Code(s[n+1])
  BY <1>1, CodesType
<1>4. Encode(s) = FlattenSeq(cs)
  BY EncodeIsFlat
<1> HIDE DEF cs
<1>5. n \in 0..Len(cs)-1
  BY <1>3
<1>6. /\ Len(FlattenFirst(cs, n)) \in Nat
      /\ Len(FlattenFirst(cs, n + 1)) = Len(FlattenFirst(cs, n)) + Len(cs[n+1])
      /\ Len(FlattenFirst(cs, n + 1)) <= Len(FlattenSeq(cs))
      /\ \A j \in 1..Len(cs[n+1]) :
            FlattenSeq(cs)[Len(FlattenFirst(cs, n)) + j] = cs[n+1][j]
  BY <1>3, <1>5, FlattenSeqPlace
<1>7. QED
  BY <1>2, <1>3, <1>4, <1>6

LEMMA EncodeEnds ==
  ASSUME NEW s \in Seq(Byte)
  PROVE  /\ EncodeFirst(s, 0) = <<>>
         /\ EncodeFirst(s, Len(s)) = Encode(s)
<1>1. SubSeq(s, 1, Len(s)) = s
  BY SubSeqFull
<1>2. SubSeq(s, 1, 0) = <<>>
  BY SubSeqEmpty
<1>3. <<>> \in Seq(Byte)
  BY EmptySeq
<1>4. Len(Codes(<<>>)) = 0 /\ Codes(<<>>) \in Seq(Seq(Byte))
  BY <1>3, CodesType, EmptySeq
<1>5. Codes(<<>>) = <<>>
  BY <1>4, EmptySeq
<1>6. Encode(<<>>) = <<>>
  BY <1>3, <1>5, EncodeIsFlat, FlattenSeqEmpty
<1>7. QED
  BY <1>1, <1>2, <1>6 DEF EncodeFirst

-----------------------------------------------------------------------------
(* The encoding determines the string: as far as two strings with the same *)
(* encoding go, they agree, and the codes end at the same places.          *)
AgreeTo(s, t, n) ==
    /\ \A i \in 1..n : s[i] = t[i]
    /\ Len(EncodeFirst(s, n)) = Len(EncodeFirst(t, n))

LEMMA SameEncodingStep ==
  ASSUME NEW s \in Seq(Byte), NEW t \in Seq(Byte), Encode(s) = Encode(t),
         NEW n \in Nat, n < Len(s), n < Len(t), AgreeTo(s, t, n)
  PROVE  AgreeTo(s, t, n + 1)
<1> DEFINE c == s[n+1]
           d == t[n+1]
           a == Len(EncodeFirst(s, n))
<1>1. n \in 0..Len(s)-1 /\ n \in 0..Len(t)-1 /\ n + 1 \in 1..Len(s) /\ n + 1 \in 1..Len(t)
  BY LenProperties
<1>2. c \in Byte /\ d \in Byte
  BY <1>1, ElementOfSeq
<1>3. /\ a \in Nat
      /\ Len(EncodeFirst(s, n + 1)) = a + Len(Code(c))
      /\ \A j \in 1..Len(Code(c)) : Encode(s)[a + j] = Code(c)[j]
  BY <1>1, EncodePlace
<1>4. /\ Len(EncodeFirst(t, n + 1)) = Len(EncodeFirst(t, n)) + Len(Code(d))
      /\ \A j \in 1..Len(Code(d)) : Encode(t)[Len(EncodeFirst(t, n)) + j] = Code(d)[j]
  BY <1>1, EncodePlace
<1>5. a = Len(EncodeFirst(t, n))
  BY DEF AgreeTo
<1>6. 1 \in 1..Len(Code(c)) /\ 1 \in 1..Len(Code(d))
  BY <1>2, CodeIsNotEmpty
<1> HIDE DEF a, c, d
<1>7. Code(c)[1] = Code(d)[1]
  <2>1. Encode(s)[a + 1] = Code(c)[1] /\ Encode(t)[a + 1] = Code(d)[1]
    BY <1>3, <1>4, <1>5, <1>6
  <2>2. QED
    BY <2>1
<1>8. Len(Code(c)) = Len(Code(d)) => \A j \in 1..Len(Code(c)) : Code(c)[j] = Code(d)[j]
  BY <1>3, <1>4, <1>5
<1>9. c = d
  BY <1>2, <1>7, <1>8, CodeInjective
<1>10. \A i \in 1..n+1 : s[i] = t[i]
  <2> SUFFICES ASSUME NEW i \in 1..n+1 PROVE s[i] = t[i]
    OBVIOUS
  <2>1. CASE i = n + 1
    BY <2>1, <1>9 DEF c, d
  <2>2. CASE i # n + 1
    <3>1. i \in 1..n
      BY <2>2
    <3>2. QED
      BY <3>1 DEF AgreeTo
  <2>3. QED
    BY <2>1, <2>2
<1>11. QED
  BY <1>3, <1>4, <1>5, <1>9, <1>10 DEF AgreeTo

LEMMA SameEncodingAgrees ==
  ASSUME NEW s \in Seq(Byte), NEW t \in Seq(Byte), Encode(s) = Encode(t)
  PROVE  \A n \in Nat : n <= Len(s) /\ n <= Len(t) => AgreeTo(s, t, n)
<1> DEFINE T == {n \in Nat : n <= Len(s) /\ n <= Len(t) => AgreeTo(s, t, n)}
<1>1. Len(s) \in Nat /\ Len(t) \in Nat
  BY LenProperties
<1>2. 0 \in T
  BY EncodeEnds DEF AgreeTo
<1>3. ASSUME NEW n \in Nat, n \in T PROVE n + 1 \in T
  <2> SUFFICES ASSUME n + 1 <= Len(s), n + 1 <= Len(t) PROVE AgreeTo(s, t, n + 1)
    OBVIOUS
  <2>1. n < Len(s) /\ n < Len(t) /\ n <= Len(s) /\ n <= Len(t)
    BY <1>1
  <2>2. AgreeTo(s, t, n)
    BY <1>3, <2>1
  <2>3. QED
    BY <2>1, <2>2, SameEncodingStep
<1> HIDE DEF T
<1>4. \A n \in Nat : n \in T
  BY <1>2, <1>3, Induction
<1>5. QED
  BY <1>4 DEF T

LEMMA SameEncodingNoLonger ==
  ASSUME NEW s \in Seq(Byte), NEW t \in Seq(Byte), Encode(s) = Encode(t)
  PROVE  ~(Len(s) < Len(t))
<1> SUFFICES ASSUME Len(s) < Len(t) PROVE FALSE
  OBVIOUS
<1> DEFINE n == Len(s)
<1>1. n \in Nat /\ Len(t) \in Nat /\ n \in 0..Len(t)-1 /\ n + 1 \in 1..Len(t)
  BY LenProperties
<1>2. AgreeTo(s, t, n)
  BY <1>1, SameEncodingAgrees
<1>3. Len(EncodeFirst(t, n)) = Len(Encode(t))
  BY <1>2, EncodeEnds DEF AgreeTo
<1>4. /\ Len(EncodeFirst(t, n)) \in Nat
      /\ Len(EncodeFirst(t, n + 1)) = Len(EncodeFirst(t, n)) + Len(Code(t[n+1]))
      /\ Len(EncodeFirst(t, n + 1)) <= Len(Encode(t))
  BY <1>1, EncodePlace
<1>5. Len(Code(t[n+1])) \in Nat /\ Len(Code(t[n+1])) > 0
  BY <1>1, ElementOfSeq, CodeIsNotEmpty
<1>6. QED
  BY <1>3, <1>4, <1>5

(* encode() is injective on strings of bytes of any length.                *)
THEOREM EncodeInjective ==
  ASSUME NEW s \in Seq(Byte), NEW t \in Seq(Byte), Encode(s) = Encode(t)
  PROVE  s = t
<1>1. Len(s) \in Nat /\ Len(t) \in Nat
  BY LenProperties
<1>2. Len(s) = Len(t)
  BY <1>1, SameEncodingNoLonger
<1>3. AgreeTo(s, t, Len(s))
  BY <1>1, <1>2, SameEncodingAgrees
<1>4. QED
  BY <1>2, <1>3, SeqEqual DEF AgreeTo

-----------------------------------------------------------------------------
(* Types.                                                                  *)

LEMMA TextIsBytes ==
  ASSUME TypeOK
  PROVE  /\ source \in Seq(Byte) /\ text \in Seq(Byte) /\ out \in Seq(Byte)
         /\ Len(text) \in Nat /\ Len(out) \in Nat /\ Len(source) \in Nat
         /\ DOMAIN text = 1..Len(text) /\ pos \in 0..Len(text)
         /\ \A i \in 1..Len(text) : text[i] \in Byte
<1>1. source \in Seq(Byte) /\ text \in Seq(Byte) /\ out \in Seq(Byte)
  BY SourcesAreBytes DEF TypeOK, Byte
<1>2. QED
  BY <1>1, LenProperties, ElementOfSeq DEF TypeOK

LEMMA AdvanceProperties ==
  ASSUME TypeOK, Rest > 0
  PROVE  /\ Advance \in pos+1..Len(text)
         /\ text[pos + 1] # Percent => Advance = pos + 1
         /\ text[pos + 1] = Percent /\ Rest >= 3 => Advance = pos + 3
<1>1. Len(text) \in Nat /\ pos \in 0..Len(text) /\ Rest \in Nat /\ Rest = Len(text) - pos
  BY TextIsBytes DEF Rest
<1>2. Min({3, Rest}) \in {3, Rest} /\ Min({3, Rest}) <= 3 /\ Min({3, Rest}) <= Rest
  <2>1. \E x \in {3, Rest} : \A y \in {3, Rest} : x <= y
    BY <1>1
  <2>2. Min({3, Rest}) \in {3, Rest} /\ \A y \in {3, Rest} : Min({3, Rest}) <= y
    BY <2>1 DEF Min
  <2>3. QED
    BY <2>2
<1>3. Advance = IF text[pos + 1] = Percent THEN pos + Min({3, Rest}) ELSE pos + 1
  BY DEF Advance
<1> DEFINE m == Min({3, Rest})
<1> HIDE DEF m
<1>4. (m = 3 \/ m = Rest) /\ m <= 3 /\ m <= Rest /\ m >= 1
  BY <1>1, <1>2 DEF m
<1>5. Advance = IF text[pos + 1] = Percent THEN pos + m ELSE pos + 1
  BY <1>3 DEF m
<1>6. QED
  BY <1>1, <1>4, <1>5

LEMMA AtIsByte == ASSUME TypeOK, NEW k, NEW c \in At(k) PROVE c \in Byte
<1>1. Char \subseteq Byte
  BY UrlCodecAssumption DEF Byte
<1>2. QED
  BY <1>1, TextIsBytes DEF At

LEMMA InitType == Init => TypeOK
<1> SUFFICES ASSUME Init PROVE TypeOK
  OBVIOUS
<1>1. source \in Seq(Byte)
  BY SourcesAreBytes DEF Init
<1>2. text \in Seq(Byte)
  BY <1>1, EncodeIsFlat DEF Init
<1>3. Len(text) \in Nat /\ <<>> \in Seq(Byte)
  BY <1>2, LenProperties, EmptySeq
<1>4. QED
  BY <1>2, <1>3 DEF Init, TypeOK, Byte

LEMMA AppendIsBytes == ASSUME TypeOK, NEW c \in Byte PROVE Append(out, c) \in Seq(Byte)
BY TextIsBytes, AppendProperties

LEMMA TypeStep == TypeOK /\ [Next]_vars => TypeOK'
<1> SUFFICES ASSUME TypeOK, Next PROVE TypeOK'
  BY DEF TypeOK, vars
<1> DEFINE Position == pos' \in 0..Len(text) /\ base' \in Int
           Result == out' \in Seq(Byte)
           Status == status' \in {"running", "done", "threw"}
<1>1. /\ Len(text) \in Nat /\ pos \in 0..Len(text) /\ base \in Int
      /\ out \in Seq(Byte) /\ status \in {"running", "done", "threw"}
  BY TextIsBytes DEF TypeOK
<1>2. ASSUME NEW s \in {"running", "done", "threw"}, Stop(s) PROVE Position /\ Result /\ Status
  BY <1>1, <1>2 DEF Stop
<1>3. ASSUME Visit PROVE Position /\ Result /\ Status
  <2>1. CASE Stop("threw")
    BY <2>1, <1>2
  <2>2. CASE ~Stop("threw")
    <3>1. /\ ~(text[pos+1] = Percent /\ (Rest < 3 \/ ~IsHex(text[pos+2]) \/ ~IsHex(text[pos+3])))
          /\ out' = Append(out, IF text[pos+1] # Percent THEN text[pos+1]
                                ELSE Unescaped(text[pos+2], text[pos+3]))
          /\ pos' = Advance /\ base' = base /\ status' = status /\ Rest > 0
      BY <1>3, <2>2 DEF Visit
    <3>2. Position /\ Status
      BY <3>1, <1>1, AdvanceProperties
    <3>3. (IF text[pos+1] # Percent THEN text[pos+1]
           ELSE Unescaped(text[pos+2], text[pos+3])) \in Byte
      <4>1. pos + 1 \in 1..Len(text)
        BY <3>1, <1>1 DEF Rest
      <4>2. CASE text[pos+1] # Percent
        BY <4>1, <4>2, TextIsBytes
      <4>3. CASE text[pos+1] = Percent
        <5>1. pos + 2 \in 1..Len(text) /\ pos + 3 \in 1..Len(text)
          BY <3>1, <4>3, <1>1 DEF Rest
        <5>2. text[pos+2] \in Byte /\ text[pos+3] \in Byte
          BY <5>1, TextIsBytes
        <5>3. IsHex(text[pos+2]) /\ IsHex(text[pos+3])
          BY <3>1, <4>3
        <5>4. QED
          BY <4>3, <5>2, <5>3, HexValues
      <4>4. QED
        BY <4>2, <4>3
    <3>4. QED
      BY <3>1, <3>2, <3>3, AppendIsBytes
  <2>3. QED
    BY <2>1, <2>2
<1>4. ASSUME Skip PROVE Position /\ Result /\ Status
  <2>1. Rest > 0 /\ out' = Append(out, text[pos+1]) /\ pos' = Advance
        /\ base' = base /\ status' = status
    BY <1>4 DEF Skip
  <2>2. pos + 1 \in 1..Len(text)
    BY <2>1, <1>1 DEF Rest
  <2>3. text[pos+1] \in Byte
    BY <2>2, TextIsBytes
  <2>4. QED
    BY <2>1, <2>3, <1>1, AdvanceProperties, AppendIsBytes
<1>5. ASSUME DecodeChar PROVE Position /\ Result /\ Status
  <2>1. PICK c \in At(0) : out' = Append(out, c)
    BY <1>5 DEF DecodeChar
  <2>2. c \in Byte
    BY AtIsByte
  <2>3. pos' = pos + 1 /\ base' = base /\ status' = status /\ Rest > 0
    BY <1>5 DEF DecodeChar
  <2>4. QED
    BY <2>1, <2>2, <2>3, <1>1, AppendIsBytes DEF Rest
<1>6. ASSUME DecodeEscape PROVE Position /\ Result /\ Status
  <2>1. CASE Stop("threw")
    BY <2>1, <1>2
  <2>2. CASE ~Stop("threw")
    <3>1. PICK lo \in At(1), hi \in At(2) :
            /\ IsHex(lo) /\ IsHex(hi)
            /\ base' = base + Signed(Unescaped(lo, hi))
            /\ pos' = Resume /\ out' = out /\ status' = status
      BY <1>6, <2>2 DEF DecodeEscape
    <3>2. lo \in Byte /\ hi \in Byte
      BY AtIsByte
    <3>3. Unescaped(lo, hi) \in Byte
      BY <3>1, <3>2, HexValues
    <3>4. Signed(Unescaped(lo, hi)) \in Int
      BY <3>3 DEF Signed, Byte
    <3>5. ~(Rest < 3)
      BY <1>6, <2>2 DEF DecodeEscape, Truncated
    <3>6. QED
      BY <3>1, <3>4, <3>5, <1>1 DEF Rest, Resume
  <2>3. QED
    BY <2>1, <2>2
<1>7. ASSUME AtEnd PROVE Position /\ Result /\ Status
  BY <1>7, <1>2 DEF AtEnd
<1>8. Position /\ Result /\ Status
  BY <1>3, <1>4, <1>5, <1>6, <1>7 DEF Next, Iterate, Decode
<1>9. source' = source /\ text' = text /\ mode' = mode
  BY DEF Next
<1>10. QED
  BY <1>8, <1>9 DEF TypeOK, Byte

(* Positions stay within the string, whatever is decoded, and everything   *)
(* that is obtained is a byte.                                             *)
THEOREM TypeCorrect == Spec => []TypeOK
<1>1. QED
  BY InitType, TypeStep, PTL DEF Spec

(* Two strings never have the same encoding.                               *)
THEOREM Injective == Spec => []EncodeIsInjective
<1>1. TypeOK => EncodeIsInjective
  BY SourcesAreBytes, EncodeInjective DEF TypeOK, EncodeIsInjective
<1>2. QED
  BY <1>1, TypeCorrect, PTL

-----------------------------------------------------------------------------
(* The iterator.                                                           *)

\* IteratorKeepsStep with the bound that makes it inductive.
StepInv ==
    mode = "iterate" /\ Encoded =>
        /\ status # "threw"
        /\ Len(out) <= Len(source)
        /\ pos = Len(EncodeFirst(source, Len(out)))
        /\ \A i \in 1..Len(out) : Plain(source[i]) => out[i] = source[i]

(* Where the iterator stands, and what is there.                           *)
LEMMA StandsOnCode ==
  ASSUME TypeOK, StepInv, mode = "iterate", Encoded, Rest > 0
  PROVE  LET n == Len(out)
             c == source[n+1]
         IN  /\ n \in 0..Len(source)-1 /\ c \in Byte
             /\ Len(EncodeFirst(source, n + 1)) = pos + Len(Code(c))
             /\ pos + Len(Code(c)) <= Len(text)
             /\ \A j \in 1..Len(Code(c)) : text[pos + j] = Code(c)[j]
<1> DEFINE n == Len(out)
           c == source[n+1]
<1>1. /\ n \in Nat /\ Len(source) \in Nat /\ Len(text) \in Nat /\ pos \in 0..Len(text)
      /\ source \in Seq(Byte)
  BY TextIsBytes
<1>2. n <= Len(source) /\ pos = Len(EncodeFirst(source, n)) /\ text = Encode(source)
  BY DEF StepInv, Encoded
<1>3. n # Len(source)
  <2> SUFFICES ASSUME n = Len(source) PROVE FALSE
    OBVIOUS
  <2>1. pos = Len(text)
    BY <1>1, <1>2, EncodeEnds
  <2>2. QED
    BY <2>1, <1>1 DEF Rest
<1>4. n \in 0..Len(source)-1 /\ n + 1 \in 1..Len(source)
  BY <1>1, <1>2, <1>3
<1>5. c \in Byte
  BY <1>1, <1>4, ElementOfSeq
<1>6. /\ Len(EncodeFirst(source, n + 1)) = Len(EncodeFirst(source, n)) + Len(Code(c))
      /\ Len(EncodeFirst(source, n + 1)) <= Len(Encode(source))
      /\ \A j \in 1..Len(Code(c)) :
            Encode(source)[Len(EncodeFirst(source, n)) + j] = Code(c)[j]
  BY <1>1, <1>4, EncodePlace
<1> HIDE DEF c, n
<1>7. QED
  BY <1>2, <1>4, <1>5, <1>6 DEF c, n

LEMMA IteratorStep ==
  ASSUME TypeOK, StepInv, mode = "iterate", Encoded, Rest > 0
  PROVE  /\ Advance = Len(EncodeFirst(source, Len(out) + 1))
         /\ ~(text[pos+1] = Percent /\ (Rest < 3 \/ ~IsHex(text[pos+2]) \/ ~IsHex(text[pos+3])))
         /\ Plain(source[Len(out) + 1]) => text[pos+1] = source[Len(out) + 1] /\ text[pos+1] # Percent
<1> DEFINE n == Len(out)
           c == source[n+1]
<1>1. /\ n \in 0..Len(source)-1 /\ c \in Byte
      /\ Len(EncodeFirst(source, n + 1)) = pos + Len(Code(c))
      /\ pos + Len(Code(c)) <= Len(text)
      /\ \A j \in 1..Len(Code(c)) : text[pos + j] = Code(c)[j]
  BY StandsOnCode
<1>2. pos \in Nat /\ Len(text) \in Nat
  BY TextIsBytes
<1> HIDE DEF c, n
<1>3. CASE Plain(c)
  <2>1. Len(Code(c)) = 1 /\ Code(c)[1] = c /\ c # Percent
    BY <1>1, <1>3, CodeProperties
  <2>2. text[pos + 1] = c
    BY <1>1, <2>1
  <2>3. Advance = pos + 1
    BY <2>1, <2>2, AdvanceProperties
  <2>4. QED
    BY <1>1, <2>1, <2>2, <2>3 DEF c, n
<1>4. CASE ~Plain(c)
  <2>1. /\ Len(Code(c)) = 3 /\ Code(c)[1] = Percent
        /\ Code(c)[2] = HexDigit(c \div 16) /\ Code(c)[3] = HexDigit(c % 16)
    BY <1>1, <1>4, CodeProperties
  <2>2. 1 \in 1..Len(Code(c)) /\ 2 \in 1..Len(Code(c)) /\ 3 \in 1..Len(Code(c))
    BY <2>1
  <2>3. /\ text[pos + 1] = Percent
        /\ text[pos + 2] = HexDigit(c \div 16) /\ text[pos + 3] = HexDigit(c % 16)
    BY <1>1, <2>1, <2>2
  <2>4. IsHex(text[pos + 2]) /\ IsHex(text[pos + 3])
    BY <1>1, <2>3, Nibbles, HexDigits
  <2>5. Rest >= 3 /\ ~(Rest < 3)
    BY <1>1, <1>2, <2>1 DEF Rest
  <2>6. Advance = pos + 3
    BY <2>3, <2>5, AdvanceProperties
  <2>7. QED
    BY <1>1, <1>4, <2>1, <2>4, <2>5, <2>6 DEF c, n
<1>5. QED
  BY <1>3, <1>4

LEMMA StepInvStep == TypeOK /\ StepInv /\ [Next]_vars => StepInv'
<1> SUFFICES ASSUME TypeOK, StepInv, [Next]_vars, mode = "iterate", Encoded
             PROVE  StepInv'
  BY DEF StepInv, Encoded, Next, vars
<1>1. CASE UNCHANGED vars
  BY <1>1 DEF StepInv, Encoded, vars
<1>2. ASSUME Next, out' = out, pos' = pos, status' # "threw" PROVE StepInv'
  BY <1>2 DEF StepInv, Encoded, Next
<1>3. ASSUME Next, Rest > 0, pos' = Advance, status' = status,
             NEW c \in Byte, out' = Append(out, c),
             Plain(source[Len(out) + 1]) => c = source[Len(out) + 1]
      PROVE  StepInv'
  <2>1. source' = source /\ text' = text /\ mode' = mode /\ status # "threw"
    BY <1>3 DEF Next, StepInv
  <2>2. Advance = Len(EncodeFirst(source, Len(out) + 1))
    BY <1>3, IteratorStep
  <2>3. Len(out) \in 0..Len(source)-1 /\ Len(source) \in Nat
    BY <1>3, StandsOnCode, TextIsBytes
  <2>4. /\ Len(out') = Len(out) + 1
        /\ \A i \in 1..Len(out) : out'[i] = out[i]
        /\ out'[Len(out) + 1] = c
    BY <1>3, TextIsBytes, AppendProperties
  <2>5. \A i \in 1..Len(out') : Plain(source'[i]) => out'[i] = source'[i]
    <3> SUFFICES ASSUME NEW i \in 1..Len(out)+1, Plain(source[i]) PROVE out'[i] = source[i]
      BY <2>1, <2>4
    <3>1. CASE i = Len(out) + 1
      BY <3>1, <1>3, <2>4
    <3>2. CASE i # Len(out) + 1
      <4>1. i \in 1..Len(out)
        BY <3>2, <2>3
      <4>2. QED
        BY <4>1, <2>4 DEF StepInv
    <3>3. QED
      BY <3>1, <3>2
  <2>6. Len(out') <= Len(source')
    BY <2>1, <2>3, <2>4
  <2>7. pos' = Len(EncodeFirst(source', Len(out')))
    BY <1>3, <2>1, <2>2, <2>4
  <2>8. QED
    BY <1>3, <2>1, <2>5, <2>6, <2>7 DEF StepInv
<1>4. CASE Next
  <2>1. CASE AtEnd
    BY <1>2, <1>4, <2>1 DEF AtEnd, Stop
  <2>2. CASE Visit
    <3>1. Rest > 0
      BY <2>2 DEF Visit
    <3> DEFINE c == IF text[pos+1] # Percent THEN text[pos+1]
                    ELSE Unescaped(text[pos+2], text[pos+3])
    <3>2. pos' = Advance /\ status' = status /\ out' = Append(out, c)
      BY <2>2, <3>1, IteratorStep DEF Visit
    <3>3. Plain(source[Len(out) + 1]) => c = source[Len(out) + 1]
      BY <3>1, IteratorStep
    <3>4. c \in Byte
      <4>1. pos \in 0..Len(text) /\ Len(text) \in Nat
        BY TextIsBytes
      <4>2. pos + 1 \in 1..Len(text)
        BY <3>1, <4>1 DEF Rest
      <4>3. CASE text[pos+1] # Percent
        BY <4>2, <4>3, TextIsBytes
      <4>4. CASE text[pos+1] = Percent
        <5>1. ~(Rest < 3) /\ IsHex(text[pos+2]) /\ IsHex(text[pos+3])
          BY <3>1, <4>4, IteratorStep
        <5>2. pos + 2 \in 1..Len(text) /\ pos + 3 \in 1..Len(text)
          BY <4>1, <5>1 DEF Rest
        <5>3. text[pos+2] \in Byte /\ text[pos+3] \in Byte
          BY <5>2, TextIsBytes
        <5>4. QED
          BY <4>4, <5>1, <5>3, HexValues
      <4>5. QED
        BY <4>3, <4>4
    <3> HIDE DEF c
    <3>5. QED
      BY <1>3, <1>4, <3>1, <3>2, <3>3, <3>4
  <2>3. CASE Skip
    <3>1. Rest > 0 /\ pos' = Advance /\ status' = status /\ out' = Append(out, text[pos+1])
      BY <2>3 DEF Skip
    <3>2. pos + 1 \in 1..Len(text)
      BY <3>1, TextIsBytes DEF Rest
    <3>3. text[pos+1] \in Byte
      BY <3>2, TextIsBytes
    <3>4. Plain(source[Len(out) + 1]) => text[pos+1] = source[Len(out) + 1]
      BY <3>1, IteratorStep
    <3>5. QED
      BY <1>3, <1>4, <3>1, <3>3, <3>4
  <2>4. QED
    BY <1>4, <2>1, <2>2, <2>3 DEF Next, Iterate, Decode
<1>5. QED
  BY <1>1, <1>4

(* The iterator makes one step for each character that was encoded, lands  *)
(* on the start of the next one's encoding whether or not it is            *)
(* dereferenced, never throws there, and gives back what was left plain.   *)
THEOREM KeepsStep == Spec => []IteratorKeepsStep
<1>1. Init => StepInv
  <2> SUFFICES ASSUME Init PROVE StepInv
    OBVIOUS
  <2>1. Len(out) = 0 /\ pos = 0 /\ status = "running"
    BY EmptySeq DEF Init
  <2>2. source \in Seq(Byte) /\ Len(source) \in Nat
    BY SourcesAreBytes DEF Init
  <2>3. Len(EncodeFirst(source, 0)) = 0
    BY <2>2, EncodeEnds, EmptySeq
  <2>4. QED
    BY <2>1, <2>2, <2>3 DEF StepInv
<1>2. StepInv => IteratorKeepsStep
  BY DEF StepInv, IteratorKeepsStep, EncodeFirst
<1>3. QED
  BY <1>1, <1>2, StepInvStep, TypeCorrect, PTL DEF Spec

-----------------------------------------------------------------------------
(* decode().                                                               *)

Matches(n) == \A i \in 1..n : text[i] # Percent /\ out[i] = text[i]

\* Up to the first escape nothing has moved and the string is copied; after it,
\* that much of what was obtained stays.
BeforeEscape == base = 0 /\ Len(out) = pos /\ Matches(pos)
EscapeAt(f) ==
    /\ text[f] = Percent /\ f + 2 <= Len(text)
    /\ IsHex(text[f+1]) /\ IsHex(text[f+2])
    /\ f - 1 <= Len(out) /\ Matches(f - 1)
AfterEscape == \E f \in 1..Len(text) : EscapeAt(f)

DecodeInv ==
    mode = "decode" =>
        /\ status = "done" => pos = Len(text)
        /\ status # "threw" => BeforeEscape \/ AfterEscape

LEMMA CharBeforeEscape ==
  ASSUME TypeOK, BeforeEscape, DecodeChar, text' = text
  PROVE  BeforeEscape'
<1>1. pos \in 0..Len(text) /\ Len(text) \in Nat /\ DOMAIN text = 1..Len(text) /\ Rest > 0
  BY TextIsBytes DEF DecodeChar
<1>2. pos + 1 \in 1..Len(text) /\ base + pos + 0 + 1 = pos + 1
  BY <1>1 DEF Rest, BeforeEscape
<1>3. At(0) = {text[pos+1]}
  BY <1>1, <1>2 DEF At
<1>4. text[pos+1] # Percent /\ out' = Append(out, text[pos+1]) /\ pos' = pos + 1 /\ base' = base
  BY <1>3 DEF DecodeChar
<1>5. text[pos+1] \in Byte
  BY <1>2, TextIsBytes
<1>6. /\ Len(out') = Len(out) + 1
      /\ \A i \in 1..Len(out) : out'[i] = out[i]
      /\ out'[Len(out) + 1] = text[pos+1]
  BY <1>4, <1>5, TextIsBytes, AppendProperties
<1>7. Len(out) = pos
  BY DEF BeforeEscape
<1>8. ASSUME NEW i \in 1..pos+1 PROVE text[i] # Percent /\ out'[i] = text[i]
  <2>1. CASE i = pos + 1
    BY <2>1, <1>4, <1>6, <1>7
  <2>2. CASE i # pos + 1
    <3>1. i \in 1..pos
      BY <2>2, <1>1
    <3>2. QED
      BY <3>1, <1>6, <1>7 DEF BeforeEscape, Matches
  <2>3. QED
    BY <2>1, <2>2
<1>9. QED
  BY <1>4, <1>6, <1>7, <1>8 DEF BeforeEscape, Matches

LEMMA EscapeBeforeEscape ==
  ASSUME TypeOK, BeforeEscape, DecodeEscape, text' = text, status' # "threw"
  PROVE  AfterEscape'
<1>1. pos \in 0..Len(text) /\ Len(text) \in Nat /\ DOMAIN text = 1..Len(text) /\ Rest > 0
  BY TextIsBytes DEF DecodeEscape
<1>2. ~(Rest < 3)
  BY DEF DecodeEscape, Truncated, Stop
<1>3. /\ pos + 1 \in 1..Len(text) /\ base + pos + 0 + 1 = pos + 1
      /\ pos + 2 \in 1..Len(text) /\ base + pos + 1 + 1 = pos + 2
      /\ pos + 3 \in 1..Len(text) /\ base + pos + 2 + 1 = pos + 3
  BY <1>1, <1>2 DEF Rest, BeforeEscape
<1>4. At(0) = {text[pos+1]} /\ At(1) = {text[pos+2]} /\ At(2) = {text[pos+3]}
  BY <1>1, <1>3 DEF At
<1>5. text[pos+1] = Percent
  BY <1>4 DEF DecodeEscape
<1>6. IsHex(text[pos+2]) /\ IsHex(text[pos+3]) /\ out' = out
  BY <1>2, <1>4 DEF DecodeEscape, Truncated, Stop
<1> DEFINE f == pos + 1
<1>7. f + 1 = pos + 2 /\ f + 2 = pos + 3 /\ f - 1 = pos /\ f \in 1..Len(text) /\ f + 2 <= Len(text)
  BY <1>1, <1>3
<1>8. Len(out) = pos /\ Matches(pos)
  BY DEF BeforeEscape
<1>9. EscapeAt(f)
  <2> HIDE DEF f
  <2>1. text[f] = Percent /\ IsHex(text[f+1]) /\ IsHex(text[f+2])
    BY <1>5, <1>6, <1>7 DEF f
  <2>2. f - 1 <= Len(out) /\ Matches(f - 1)
    BY <1>1, <1>7, <1>8
  <2>3. QED
    BY <1>7, <2>1, <2>2 DEF EscapeAt
<1>10. AfterEscape
  BY <1>7, <1>9 DEF AfterEscape
<1>11. QED
  BY <1>6, <1>10 DEF AfterEscape, EscapeAt, Matches

LEMMA AfterEscapeStays ==
  ASSUME TypeOK, AfterEscape, text' = text,
         out' = out \/ \E c \in Byte : out' = Append(out, c)
  PROVE  AfterEscape'
<1>1. PICK f \in 1..Len(text) : EscapeAt(f)
  BY DEF AfterEscape
<1>2. CASE out' = out
  BY <1>1, <1>2 DEF AfterEscape, EscapeAt, Matches
<1>3. ASSUME NEW c \in Byte, out' = Append(out, c) PROVE AfterEscape'
  <2>1. /\ Len(out') = Len(out) + 1
        /\ \A i \in 1..Len(out) : out'[i] = out[i]
    BY <1>3, TextIsBytes, AppendProperties
  <2>2. Len(out) \in Nat /\ f \in Nat /\ f - 1 <= Len(out)
    BY <1>1, TextIsBytes DEF EscapeAt
  <2>3. \A i \in 1..f-1 : i \in 1..Len(out)
    BY <2>2
  <2>4. \A i \in 1..f-1 : text'[i] # Percent /\ out'[i] = text'[i]
    BY <1>1, <2>1, <2>3 DEF EscapeAt, Matches
  <2>5. f - 1 <= Len(out')
    BY <2>1, <2>2
  <2>6. EscapeAt(f)'
    BY <1>1, <2>4, <2>5 DEF EscapeAt, Matches
  <2>7. QED
    BY <2>6 DEF AfterEscape
<1>4. QED
  BY <1>2, <1>3

LEMMA DecodeInvStep == TypeOK /\ DecodeInv /\ [Next]_vars => DecodeInv'
<1> SUFFICES ASSUME TypeOK, DecodeInv, [Next]_vars, mode = "decode" PROVE DecodeInv'
  BY DEF DecodeInv, Next, vars
<1> USE DEF DecodeInv
<1>1. CASE UNCHANGED vars
  BY <1>1 DEF BeforeEscape, AfterEscape, EscapeAt, Matches, vars
<1>2. CASE Next
  <2>1. text' = text /\ mode' = mode /\ status = "running" /\ (BeforeEscape \/ AfterEscape)
    BY <1>2 DEF Next
  <2>2. CASE AtEnd
    <3>1. Rest = 0 /\ UNCHANGED <<pos, base, out>>
      BY <2>2 DEF AtEnd, Stop
    <3>2. pos' = Len(text')
      BY <2>1, <3>1, TextIsBytes DEF Rest
    <3>3. (BeforeEscape \/ AfterEscape)'
      BY <2>1, <3>1 DEF BeforeEscape, AfterEscape, EscapeAt, Matches
    <3>4. QED
      BY <3>2, <3>3
  <2>3. CASE DecodeChar
    <3>1. status' = "running"
      BY <2>1, <2>3 DEF DecodeChar
    <3>2. PICK c \in At(0) : out' = Append(out, c)
      BY <2>3 DEF DecodeChar
    <3>3. c \in Byte
      BY AtIsByte
    <3>4. CASE BeforeEscape
      BY <2>1, <2>3, <3>1, <3>4, CharBeforeEscape
    <3>5. CASE AfterEscape
      <4>1. \E x \in Byte : out' = Append(out, x)
        BY <3>2, <3>3
      <4>2. AfterEscape'
        BY <2>1, <3>5, <4>1, AfterEscapeStays
      <4>3. QED
        BY <3>1, <4>2
    <3>6. QED
      BY <2>1, <3>4, <3>5
  <2>4. CASE DecodeEscape
    <3>1. out' = out /\ (status' = "threw" \/ status' = "running")
      BY <2>1, <2>4 DEF DecodeEscape, Stop
    <3>2. CASE status' = "threw"
      BY <3>2
    <3>3. CASE status' = "running" /\ BeforeEscape
      BY <2>1, <2>4, <3>3, EscapeBeforeEscape
    <3>4. CASE status' = "running" /\ AfterEscape
      BY <2>1, <3>1, <3>4, AfterEscapeStays
    <3>5. QED
      BY <2>1, <3>1, <3>2, <3>3, <3>4
  <2>5. QED
    BY <1>2, <2>2, <2>3, <2>4 DEF Next, Iterate, Decode
<1>3. QED
  BY <1>1, <1>2

LEMMA DecodeInvChecks == ASSUME TypeOK, DecodeInv PROVE FirstEscapeIsChecked
<1> SUFFICES ASSUME mode = "decode", status = "done" PROVE FirstEscapeIsChecked
  BY DEF FirstEscapeIsChecked
<1> DEFINE escapes == {i \in DOMAIN text : text[i] = Percent}
<1>1. /\ pos = Len(text) /\ Len(text) \in Nat /\ DOMAIN text = 1..Len(text)
      /\ text \in Seq(Byte) /\ out \in Seq(Byte) /\ Len(out) \in Nat
  BY TextIsBytes DEF DecodeInv
<1>2. CASE BeforeEscape
  <2>1. escapes = {}
    BY <1>1, <1>2 DEF BeforeEscape, Matches
  <2>2. out = text
    <3>1. Len(out) = Len(text) /\ \A i \in 1..Len(out) : out[i] = text[i]
      BY <1>1, <1>2 DEF BeforeEscape, Matches
    <3>2. QED
      BY <3>1, <1>1, SeqEqual
  <2>3. QED
    BY <2>1, <2>2 DEF FirstEscapeIsChecked
<1>3. ASSUME NEW f \in 1..Len(text), EscapeAt(f) PROVE FirstEscapeIsChecked
  <2>1. f \in escapes /\ escapes # {}
    BY <1>1, <1>3 DEF EscapeAt
  <2>2. \A i \in escapes : i \in 1..Len(text) /\ f <= i
    BY <1>1, <1>3 DEF EscapeAt, Matches
  <2>3. Min(escapes) = f
    <3> HIDE DEF escapes
    <3>1. \E m \in escapes : \A i \in escapes : m <= i
      BY <2>1, <2>2
    <3>2. Min(escapes) \in escapes /\ \A i \in escapes : Min(escapes) <= i
      BY <3>1 DEF Min
    <3>3. Min(escapes) \in 1..Len(text) /\ f <= Min(escapes) /\ Min(escapes) <= f
      BY <2>1, <2>2, <3>2
    <3>4. QED
      BY <3>3, <1>1
  <2>4. f - 1 <= Len(out) /\ f - 1 <= Len(text) /\ f - 1 \in Nat
    BY <1>1, <1>3 DEF EscapeAt
  <2> DEFINE n == f - 1
  <2>5. 1 \in Int /\ n \in Int /\ (\A i \in 1..n : text[i] \in Byte) /\ (\A i \in 1..n : out[i] \in Byte)
    BY <2>4, <1>1, ElementOfSeq
  <2>6. \A i \in 1..n : out[i] = text[i]
    BY <1>3 DEF EscapeAt, Matches
  <2> HIDE DEF n
  <2>7. /\ SubSeq(text, 1, n) \in Seq(Byte)
        /\ Len(SubSeq(text, 1, n)) = IF 1 <= n THEN n-1+1 ELSE 0
        /\ \A i \in 1..n-1+1 : SubSeq(text, 1, n)[i] = text[1+i-1]
    BY <2>5, SubSeqProperties
  <2>8. /\ SubSeq(out, 1, n) \in Seq(Byte)
        /\ Len(SubSeq(out, 1, n)) = IF 1 <= n THEN n-1+1 ELSE 0
        /\ \A i \in 1..n-1+1 : SubSeq(out, 1, n)[i] = out[1+i-1]
    BY <2>5, SubSeqProperties
  <2>9. n \in Nat /\ n <= Len(out)
    BY <2>4 DEF n
  <2> DEFINE p == SubSeq(text, 1, n)
             q == SubSeq(out, 1, n)
  <2>10. /\ p \in Seq(Byte) /\ q \in Seq(Byte) /\ Len(p) = n /\ Len(q) = n
         /\ \A i \in 1..n : p[i] = text[i] /\ q[i] = out[i]
    BY <2>7, <2>8, <2>9
  <2> HIDE DEF p, q
  <2>11. p = q
    <3>1. \A i \in 1..Len(p) : p[i] = q[i]
      BY <2>6, <2>10
    <3>2. QED
      BY <3>1, <2>10, SeqEqual
  <2>12. SubSeq(p, 1, Len(p)) = p
    BY <2>10, SubSeqFull
  <2>13. IsPrefix(p, out)
    BY <2>9, <2>10, <2>11, <2>12 DEF IsPrefix, q
  <2>14. IsPrefix(SubSeq(text, 1, f - 1), out)
    BY <2>13 DEF p, n
  <2>15. QED
    BY <1>3, <2>1, <2>3, <2>14 DEF FirstEscapeIsChecked, EscapeAt
<1>4. QED
  BY <1>2, <1>3 DEF DecodeInv, AfterEscape

(* Up to the first '%' decode() copies the string, and there it goes on    *)
(* only if two hexadecimal digits follow within the string.                *)
THEOREM EscapesAreChecked == Spec => []FirstEscapeIsChecked
<1>1. Init => DecodeInv
  <2> SUFFICES ASSUME Init PROVE DecodeInv
    OBVIOUS
  <2>1. Len(out) = 0 /\ pos = 0 /\ base = 0 /\ status = "running"
    BY EmptySeq DEF Init
  <2>2. QED
    BY <2>1 DEF DecodeInv, BeforeEscape, Matches
<1>2. TypeOK /\ DecodeInv => FirstEscapeIsChecked
  BY DecodeInvChecks
<1>3. QED
  BY <1>1, <1>2, DecodeInvStep, TypeCorrect, PTL DEF Spec
=============================================================================
