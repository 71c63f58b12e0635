--------------------------- MODULE SequenceLemmas ---------------------------
(***************************************************************************)
(* Induction over the natural numbers, as a lemma about sets of them, what *)
(* it gives for FlattenSeq, and sequences that one element is added to.    *)
(***************************************************************************)
EXTENDS Integers, SequencesExt, SequenceTheorems, WellFoundedInduction, TLAPS

LEMMA LeastNatural ==
  ASSUME NEW S \in SUBSET Nat, S # {}
  PROVE  \E m \in S : \A k \in S : m <= k
<1>1. IsWellFoundedOn(OpToRel(<, Nat), Nat)
  BY NatLessThanWellFounded
<1>2. PICK m \in S : \A k \in S : <<k, m>> \notin OpToRel(<, Nat)
  BY <1>1, WFMin
<1>3. \A k \in S : ~(k < m)
  BY <1>2 DEF OpToRel
<1>4. QED
  BY <1>3

(* Instantiated with S == {n \in Nat : P(n)}, induction for P.             *)
LEMMA Induction ==
  ASSUME NEW S, 0 \in S, \A n \in Nat : n \in S => n + 1 \in S
  PROVE  \A n \in Nat : n \in S
<1> DEFINE T == {n \in Nat : n \notin S}
<1> SUFFICES ASSUME T # {} PROVE FALSE
  OBVIOUS
<1>1. PICK m \in T : \A k \in T : m <= k
  BY LeastNatural
<1>2. m # 0 /\ m - 1 \in Nat
  BY <1>1
<1>3. m - 1 \in S
  BY <1>1, <1>2
<1>4. QED
  BY <1>1, <1>2, <1>3

-----------------------------------------------------------------------------
(* FlattenSeq.                                                             *)

\* f[i] is the concatenation of the first i of n sequences, as FlattenSeq
\* defines it.
Concats(ss, n, f) ==
    f = [i \in 1..n |-> IF i = 1 THEN ss[i] ELSE f[i-1] \o ss[i]]

Concatenated(ss, f) == Concats(ss, Len(ss), f)

LEMMA ConcatsExist ==
  ASSUME NEW ss
  PROVE  \A n \in Nat : \E f : Concats(ss, n, f)
<1> DEFINE S == {n \in Nat : \E f : Concats(ss, n, f)}
<1>1. 0 \in S
  <2>1. Concats(ss, 0, [i \in 1..0 |-> i])
    BY DEF Concats
  <2>2. QED
    BY <2>1
<1>2. ASSUME NEW n \in Nat, n \in S PROVE n + 1 \in S
  <2>1. PICK f : Concats(ss, n, f)
    BY <1>2
  <2> DEFINE g == [i \in 1..n+1 |->
                     IF i = n + 1 THEN IF i = 1 THEN ss[i] ELSE f[i-1] \o ss[i]
                     ELSE f[i]]
  <2>2. \A i \in 1..n : f[i] = IF i = 1 THEN ss[i] ELSE f[i-1] \o ss[i]
    BY <2>1, Zenon DEF Concats
  <2>3. \A i \in 1..n+1 : g[i] = IF i = 1 THEN ss[i] ELSE g[i-1] \o ss[i]
    <3> SUFFICES ASSUME NEW i \in 1..n+1
                 PROVE  g[i] = IF i = 1 THEN ss[i] ELSE g[i-1] \o ss[i]
      OBVIOUS
    <3>1. CASE i = 1
      BY <3>1, <2>2
    <3>2. CASE i # 1
      <4>1. i - 1 \in 1..n /\ i - 1 # n + 1 /\ i - 1 \in 1..n+1
        BY <3>2
      <4>2. g[i-1] = f[i-1]
        BY <4>1
      <4>3. CASE i = n + 1
        BY <3>2, <4>2, <4>3
      <4>4. CASE i # n + 1
        <5>1. i \in 1..n
          BY <4>4
        <5>2. g[i] = f[i] /\ f[i] = f[i-1] \o ss[i]
          BY <3>2, <4>4, <5>1, <2>2
        <5>3. QED
          BY <3>2, <4>2, <5>2
      <4>5. QED
        BY <4>3, <4>4
    <3>3. QED
      BY <3>1, <3>2
  <2>4. g = [i \in 1..n+1 |-> IF i = 1 THEN ss[i] ELSE g[i-1] \o ss[i]]
    BY <2>3
  <2> HIDE DEF g
  <2>5. Concats(ss, n + 1, g)
    BY <2>4 DEF Concats
  <2>6. QED
    BY <2>5
<1> HIDE DEF S
<1>3. \A n \in Nat : n \in S
  BY <1>1, <1>2, Induction
<1>4. QED
  BY <1>3 DEF S

LEMMA FlattenSeqDef ==
  ASSUME NEW S, NEW ss \in Seq(Seq(S)), ss # <<>>
  PROVE  \E f : Concatenated(ss, f) /\ FlattenSeq(ss) = f[Len(ss)]
<1>1. Len(ss) \in Nat /\ Len(ss) # 0
  BY LenProperties, EmptySeq
<1> DEFINE F == CHOOSE f : f = [i \in 1..Len(ss) |-> IF i = 1 THEN ss[i] ELSE f[i-1] \o ss[i]]
<1>2. FlattenSeq(ss) = F[Len(ss)]
  BY <1>1, Zenon DEF FlattenSeq
<1>3. \E f : f = [i \in 1..Len(ss) |-> IF i = 1 THEN ss[i] ELSE f[i-1] \o ss[i]]
  BY <1>1, ConcatsExist, Zenon DEF Concats
<1>4. F = [i \in 1..Len(ss) |-> IF i = 1 THEN ss[i] ELSE F[i-1] \o ss[i]]
  BY <1>3, Zenon
<1>5. QED
  BY <1>2, <1>4, Zenon DEF Concatenated, Concats

\* What the concatenations are, one by one.
Joins(ss, n, f) ==
    /\ n > 0 => f[1] = ss[1]
    /\ \A i \in 1..n-1 : f[i+1] = f[i] \o ss[i+1]

LEMMA ConcatsJoin ==
  ASSUME NEW ss, NEW n \in Nat, NEW f, Concats(ss, n, f)
  PROVE  Joins(ss, n, f)
<1>1. \A i \in 1..n : f[i] = IF i = 1 THEN ss[i] ELSE f[i-1] \o ss[i]
  BY Zenon DEF Concats
<1>2. n > 0 => f[1] = ss[1]
  BY <1>1
<1>3. ASSUME NEW i \in 1..n-1 PROVE f[i+1] = f[i] \o ss[i+1]
  <2>1. i + 1 \in 1..n /\ i + 1 # 1 /\ (i + 1) - 1 = i
    OBVIOUS
  <2>2. f[i+1] = f[(i+1)-1] \o ss[i+1]
    BY <1>1, <2>1
  <2>3. QED
    BY <2>1, <2>2
<1>4. QED
  BY <1>2, <1>3 DEF Joins

(* Two sequences of sequences that agree up to n have the same             *)
(* concatenations up to n, which are sequences.                            *)
LEMMA JoinsAgree ==
  ASSUME NEW S, NEW ss, NEW tt, NEW n \in Nat, NEW f, NEW g,
         Joins(ss, n, f), Joins(tt, n, g),
         \A i \in 1..n : ss[i] = tt[i] /\ ss[i] \in Seq(S)
  PROVE  \A i \in 1..n : f[i] = g[i] /\ f[i] \in Seq(S)
<1> DEFINE T == {i \in Nat : i \in 1..n => f[i] = g[i] /\ f[i] \in Seq(S)}
<1>1. 0 \in T
  OBVIOUS
<1>2. ASSUME NEW i \in Nat, i \in T PROVE i + 1 \in T
  <2> SUFFICES ASSUME i + 1 \in 1..n PROVE f[i+1] = g[i+1] /\ f[i+1] \in Seq(S)
    OBVIOUS
  <2>1. CASE i = 0
    BY <2>1 DEF Joins
  <2>2. CASE i # 0
    <3>1. i \in 1..n-1 /\ i \in 1..n
      BY <2>2
    <3>2. f[i] = g[i] /\ f[i] \in Seq(S)
      BY <1>2, <3>1
    <3>3. f[i+1] = f[i] \o ss[i+1] /\ g[i+1] = g[i] \o tt[i+1]
      BY <3>1, Zenon DEF Joins
    <3>4. ss[i+1] = tt[i+1] /\ ss[i+1] \in Seq(S)
      OBVIOUS
    <3>5. f[i] \o ss[i+1] \in Seq(S)
      BY <3>2, <3>4, ConcatProperties
    <3>6. QED
      BY <3>2, <3>3, <3>4, <3>5
  <2>3. QED
    BY <2>1, <2>2
<1> HIDE DEF T
<1>3. \A i \in Nat : i \in T
  BY <1>1, <1>2, Induction
<1>4. QED
  BY <1>3 DEF T

LEMMA FlattenSeqEmpty == FlattenSeq(<<>>) = <<>>
<1>1. Len(<<>>) = 0
  OBVIOUS
<1>2. QED
  BY <1>1, Zenon DEF FlattenSeq

LEMMA FlattenSeqType ==
  ASSUME NEW S, NEW ss \in Seq(Seq(S))
  PROVE  FlattenSeq(ss) \in Seq(S)
<1>1. CASE ss = <<>>
  BY <1>1, FlattenSeqEmpty, EmptySeq
<1>2. CASE ss # <<>>
  <2>1. PICK f : Concatenated(ss, f) /\ FlattenSeq(ss) = f[Len(ss)]
    BY <1>2, FlattenSeqDef
  <2>2. Len(ss) \in Nat /\ Len(ss) \in 1..Len(ss)
    BY <1>2, EmptySeq
  <2>3. Joins(ss, Len(ss), f)
    BY <2>1, <2>2, ConcatsJoin DEF Concatenated
  <2>4. \A i \in 1..Len(ss) : ss[i] = ss[i] /\ ss[i] \in Seq(S)
    BY ElementOfSeq
  <2>5. f[Len(ss)] \in Seq(S)
    BY <2>2, <2>3, <2>4, JoinsAgree
  <2>6. QED
    BY <2>1, <2>5
<1>3. QED
  BY <1>1, <1>2

LEMMA FlattenSeqAppend ==
  ASSUME NEW S, NEW ss \in Seq(Seq(S)), NEW x \in Seq(S)
  PROVE  FlattenSeq(Append(ss, x)) = FlattenSeq(ss) \o x
<1> DEFINE tt == Append(ss, x)
           n == Len(ss)
<1>1. /\ tt \in Seq(Seq(S)) /\ tt # <<>> /\ Len(tt) = n + 1
      /\ \A i \in 1..n : tt[i] = ss[i]
      /\ tt[n+1] = x
  BY AppendProperties
<1> HIDE DEF tt
<1>2. n \in Nat /\ (ss = <<>> <=> n = 0)
  BY EmptySeq, LenProperties
<1>3. PICK g : Concatenated(tt, g) /\ FlattenSeq(tt) = g[n+1]
  BY <1>1, FlattenSeqDef
<1>4. Joins(tt, n + 1, g)
  BY <1>1, <1>2, <1>3, ConcatsJoin DEF Concatenated
<1>5. CASE ss = <<>>
  <2>1. g[1] = x /\ n + 1 = 1
    BY <1>1, <1>2, <1>4, <1>5 DEF Joins
  <2>2. <<>> \o x = x
    BY ConcatEmptySeq
  <2>3. QED
    BY <1>3, <1>5, <2>1, <2>2, FlattenSeqEmpty DEF tt
<1>6. CASE ss # <<>>
  <2>1. PICK f : Concatenated(ss, f) /\ FlattenSeq(ss) = f[n]
    BY <1>6, FlattenSeqDef
  <2>2. Joins(ss, n, f)
    BY <1>2, <2>1, ConcatsJoin DEF Concatenated
  <2>3. Joins(tt, n, g)
    <3>1. \A i \in 1..n-1 : i \in 1..(n+1)-1
      BY <1>2
    <3>2. \A i \in 1..n-1 : g[i+1] = g[i] \o tt[i+1]
      BY <1>4, <3>1, Zenon DEF Joins
    <3>3. n + 1 > 0
      BY <1>2
    <3>4. QED
      BY <1>4, <3>2, <3>3 DEF Joins
  <2>4. \A i \in 1..n : ss[i] = tt[i] /\ ss[i] \in Seq(S)
    BY <1>1, ElementOfSeq
  <2>5. n \in 1..n /\ n \in 1..(n+1)-1
    BY <1>2, <1>6
  <2>6. \A i \in 1..n : f[i] = g[i] /\ f[i] \in Seq(S)
    <3> HIDE DEF n
    <3>1. QED
      BY <1>2, <2>2, <2>3, <2>4, JoinsAgree
  <2>7. g[n+1] = g[n] \o tt[n+1]
    BY <1>4, <2>5, Zenon DEF Joins
  <2>8. QED
    BY <1>1, <1>3, <2>1, <2>5, <2>6, <2>7 DEF tt
<1>7. QED
  BY <1>5, <1>6

-----------------------------------------------------------------------------
(* The first n of the sequences, and their place in the whole.             *)

FlattenFirst(ss, n) == FlattenSeq(SubSeq(ss, 1, n))

LEMMA FlattenFirstStep ==
  ASSUME NEW S, NEW ss \in Seq(Seq(S)), NEW n \in 0..Len(ss)-1
  PROVE  FlattenFirst(ss, n + 1) = FlattenFirst(ss, n) \o ss[n+1]
<1> DEFINE T == Seq(S)
<1>1. ss \in Seq(T) /\ Len(ss) \in Nat /\ n + 1 \in 1..Len(ss)
  BY LenProperties
<1>2. \A i \in 1..n : ss[i] \in T
  BY <1>1, ElementOfSeq
<1>3. \A i \in 1..n+1 : ss[i] \in T
  BY <1>1, ElementOfSeq
<1> HIDE DEF T
<1>4. 1 \in Int /\ n \in Int /\ n + 1 \in Int
  OBVIOUS
<1>5. /\ SubSeq(ss, 1, n) \in Seq(T)
      /\ Len(SubSeq(ss, 1, n)) = IF 1 <= n THEN n-1+1 ELSE 0
      /\ \A i \in 1..n-1+1 : SubSeq(ss, 1, n)[i] = ss[1+i-1]
  BY <1>2, <1>4, SubSeqProperties
<1>6. /\ SubSeq(ss, 1, n+1) \in Seq(T)
      /\ Len(SubSeq(ss, 1, n+1)) = IF 1 <= n+1 THEN (n+1)-1+1 ELSE 0
      /\ \A i \in 1..(n+1)-1+1 : SubSeq(ss, 1, n+1)[i] = ss[1+i-1]
  BY <1>3, <1>4, SubSeqProperties
<1> DEFINE a == SubSeq(ss, 1, n)
           b == SubSeq(ss, 1, n+1)
<1>7. /\ a \in Seq(T) /\ Len(a) = n /\ \A i \in 1..n : a[i] = ss[i]
      /\ b \in Seq(T) /\ Len(b) = n+1 /\ \A i \in 1..n+1 : b[i] = ss[i]
  BY <1>5, <1>6
<1>8. ss[n+1] \in T
  BY <1>3
<1> HIDE DEF a, b
<1>9. /\ Append(a, ss[n+1]) \in Seq(T)
      /\ Len(Append(a, ss[n+1])) = Len(a)+1
      /\ \A i \in 1..Len(a) : Append(a, ss[n+1])[i] = a[i]
      /\ Append(a, ss[n+1])[Len(a)+1] = ss[n+1]
  BY <1>7, <1>8, AppendProperties
<1>10. \A i \in 1..Len(b) : b[i] = Append(a, ss[n+1])[i]
  <2> SUFFICES ASSUME NEW i \in 1..n+1 PROVE b[i] = Append(a, ss[n+1])[i]
    BY <1>7
  <2>1. CASE i = n + 1
    BY <2>1, <1>7, <1>9
  <2>2. CASE i # n + 1
    <3>1. i \in 1..n
      BY <2>2
    <3>2. QED
      BY <3>1, <1>7, <1>9
  <2>3. QED
    BY <2>1, <2>2
<1>11. Len(b) = Len(Append(a, ss[n+1]))
  BY <1>7, <1>9
<1>12. b = Append(a, ss[n+1])
  BY <1>7, <1>9, <1>10, <1>11, SeqEqual
<1>13. FlattenSeq(b) = FlattenSeq(a) \o ss[n+1]
  BY <1>7, <1>8, <1>12, FlattenSeqAppend DEF T
<1>14. QED
  BY <1>13 DEF FlattenFirst, a, b

LEMMA FlattenFirstType ==
  ASSUME NEW S, NEW ss \in Seq(Seq(S)), NEW n \in 0..Len(ss)
  PROVE  FlattenFirst(ss, n) \in Seq(S)
<1> DEFINE T == Seq(S)
<1>1. ss \in Seq(T) /\ Len(ss) \in Nat /\ 1 \in Int /\ n \in Int
  BY LenProperties
<1>2. \A i \in 1..n : ss[i] \in T
  BY <1>1, ElementOfSeq
<1> HIDE DEF T
<1>3. SubSeq(ss, 1, n) \in Seq(T)
  BY <1>1, <1>2, SubSeqProperties
<1>4. QED
  BY <1>3, FlattenSeqType DEF FlattenFirst, T

LEMMA FlattenFirstWithin ==
  ASSUME NEW S, NEW ss \in Seq(Seq(S)), NEW n \in 0..Len(ss)
  PROVE  \E r \in Seq(S) : FlattenSeq(ss) = FlattenFirst(ss, n) \o r
<1> DEFINE F(i) == FlattenFirst(ss, i)
           Extends(m) == \E r \in Seq(S) : F(n + m) = F(n) \o r
           T == {m \in Nat : n + m <= Len(ss) => Extends(m)}
<1>1. Len(ss) \in Nat /\ \A i \in 0..Len(ss) : F(i) \in Seq(S)
  BY LenProperties, FlattenFirstType
<1> HIDE DEF F
<1>2. 0 \in T
  <2>1. F(n) \o <<>> = F(n) /\ <<>> \in Seq(S) /\ n + 0 = n
    BY <1>1, ConcatEmptySeq, EmptySeq
  <2>2. QED
    BY <2>1
<1>3. ASSUME NEW m \in Nat, m \in T PROVE m + 1 \in T
  <2> SUFFICES ASSUME n + (m + 1) <= Len(ss) PROVE Extends(m + 1)
    <3> HIDE DEF Extends
    <3>1. QED
      OBVIOUS
  <2>1. n + m <= Len(ss) /\ n + m \in 0..Len(ss)-1 /\ n + (m + 1) = (n + m) + 1
        /\ (n + m) + 1 \in 1..Len(ss)
    BY <1>1
  <2>2. PICK r \in Seq(S) : F(n + m) = F(n) \o r
    BY <1>3, <2>1
  <2>3. F((n + m) + 1) = F(n + m) \o ss[(n + m) + 1]
    BY <2>1, FlattenFirstStep DEF F
  <2> DEFINE x == ss[(n + m) + 1]
  <2>4. x \in Seq(S)
    BY <2>1, ElementOfSeq
  <2>5. F(n) \in Seq(S)
    BY <1>1
  <2> HIDE DEF x
  <2>6. (F(n) \o r) \o x = F(n) \o (r \o x)
    BY <2>4, <2>5, ConcatAssociative
  <2>7. r \o x \in Seq(S)
    BY <2>4, ConcatProperties
  <2>8. F(n + (m + 1)) = F(n) \o (r \o x)
    BY <2>1, <2>2, <2>3, <2>6 DEF x
  <2>9. QED
    BY <2>7, <2>8
<1> HIDE DEF T
<1>4. \A m \in Nat : m \in T
  BY <1>2, <1>3, Induction
<1>5. Len(ss) - n \in Nat /\ n + (Len(ss) - n) = Len(ss)
  BY <1>1
<1>6. Extends(Len(ss) - n)
  <2> HIDE DEF Extends
  <2>1. QED
    BY <1>1, <1>4, <1>5 DEF T
<1>7. SubSeq(ss, 1, Len(ss)) = ss
  BY SubSeqFull
<1>8. F(Len(ss)) = FlattenSeq(ss)
  BY <1>7 DEF F, FlattenFirst
<1>9. QED
  BY <1>5, <1>6, <1>8 DEF F

(* Where the sequence that follows the first n stands.                     *)
LEMMA FlattenSeqPlace ==
  ASSUME NEW S, NEW ss \in Seq(Seq(S)), NEW n \in 0..Len(ss)-1
  PROVE  /\ Len(FlattenFirst(ss, n)) \in Nat
         /\ Len(FlattenFirst(ss, n + 1)) = Len(FlattenFirst(ss, n)) + Len(ss[n+1])
         /\ Len(FlattenFirst(ss, n + 1)) <= Len(FlattenSeq(ss))
         /\ \A j \in 1..Len(ss[n+1]) :
               FlattenSeq(ss)[Len(FlattenFirst(ss, n)) + j] = ss[n+1][j]
<1> DEFINE a == FlattenFirst(ss, n)
           b == FlattenFirst(ss, n + 1)
           x == ss[n+1]
<1>1. Len(ss) \in Nat /\ n \in 0..Len(ss) /\ n + 1 \in 0..Len(ss) /\ n + 1 \in 1..Len(ss)
  BY LenProperties
<1>2. a \in Seq(S) /\ b \in Seq(S) /\ x \in Seq(S)
  BY <1>1, FlattenFirstType, ElementOfSeq
<1>3. b = a \o x
  BY FlattenFirstStep
<1>4. PICK r \in Seq(S) : FlattenSeq(ss) = b \o r
  BY <1>1, FlattenFirstWithin
<1> HIDE DEF a, b, x
<1>5. /\ Len(a \o x) = Len(a) + Len(x)
      /\ \A i \in 1..Len(a) + Len(x) : (a \o x)[i] = IF i <= Len(a) THEN a[i] ELSE x[i - Len(a)]
  BY <1>2, ConcatProperties
<1>6. /\ Len(b \o r) = Len(b) + Len(r)
      /\ \A i \in 1..Len(b) + Len(r) : (b \o r)[i] = IF i <= Len(b) THEN b[i] ELSE r[i - Len(b)]
  BY <1>2, <1>4, ConcatProperties
<1>7. Len(a) \in Nat /\ Len(x) \in Nat /\ Len(r) \in Nat /\ Len(b) = Len(a) + Len(x)
  BY <1>2, <1>3, <1>4, <1>5, LenProperties
<1>8. ASSUME NEW j \in 1..Len(x) PROVE FlattenSeq(ss)[Len(a) + j] = x[j]
  <2>1. /\ Len(a) + j \in 1..Len(a) + Len(x) /\ ~(Len(a) + j <= Len(a))
        /\ (Len(a) + j) - Len(a) = j
        /\ Len(a) + j \in 1..Len(b) + Len(r) /\ Len(a) + j <= Len(b)
    BY <1>7
  <2>2. (a \o x)[Len(a) + j] = x[j]
    BY <1>5, <2>1
  <2>3. (b \o r)[Len(a) + j] = b[Len(a) + j]
    BY <1>6, <2>1
  <2>4. QED
    BY <1>3, <1>4, <2>2, <2>3
<1>9. Len(b) <= Len(FlattenSeq(ss))
  BY <1>4, <1>6, <1>7
<1>10. QED
  BY <1>7, <1>8, <1>9 DEF a, b, x

-----------------------------------------------------------------------------
(* The element that Append added, and another in its place.                *)
LEMMA LastReplaced ==
  ASSUME NEW S, NEW ms \in Seq(S), NEW a, NEW b
  PROVE  /\ Append(ms, a)[Len(Append(ms, a))] = a
         /\ [Append(ms, a) EXCEPT ![Len(Append(ms, a))] = b] = Append(ms, b)
<1> DEFINE U == S \cup {a, b}
           x == Append(ms, a)
           y == Append(ms, b)
           n == Len(ms)
           z == [x EXCEPT ![n+1] = b]
<1>1. n \in Nat /\ ms \in Seq(U)
  BY LenProperties, SeqMonotonic
<1>2. a \in U /\ b \in U
  OBVIOUS
<1> HIDE DEF U
<1>3. /\ x \in Seq(U) /\ Len(x) = n + 1
      /\ \A i \in 1..n : x[i] = ms[i]
      /\ x[n+1] = a
  BY <1>1, <1>2, AppendProperties
<1>4. /\ y \in Seq(U) /\ Len(y) = n + 1
      /\ \A i \in 1..n : y[i] = ms[i]
      /\ y[n+1] = b
  BY <1>1, <1>2, AppendProperties
<1> HIDE DEF x, y, n
<1>5. DOMAIN x = 1..n+1 /\ n + 1 \in 1..n+1
  BY <1>1, <1>3, LenProperties
<1>6. n + 1 \in 1..Len(x)
  BY <1>3, <1>5
<1>7. /\ z \in Seq(U) /\ Len(z) = Len(x)
      /\ \A i \in 1..Len(x) : z[i] = IF i = n + 1 THEN b ELSE x[i]
  BY <1>2, <1>3, <1>6, ExceptSeq
<1> HIDE DEF z
<1>8. \A i \in 1..n+1 : i = n + 1 \/ i \in 1..n
  BY <1>1
<1>9. \A i \in 1..Len(z) : z[i] = y[i]
  BY <1>3, <1>4, <1>7, <1>8
<1>10. Len(z) = Len(y)
  BY <1>3, <1>4, <1>7
<1>11. z = y
  BY <1>4, <1>7, <1>9, <1>10, SeqEqual
<1>12. QED
  BY <1>3, <1>11 DEF x, y, z

(* One element more of a sequence that follows another.                    *)
LEMMA OneMore ==
  ASSUME NEW S, NEW b \in Seq(S), NEW s \in Seq(S), NEW k \in Nat, k + 1 <= Len(s)
  PROVE  /\ SubSeq(s, 1, k) \in Seq(S) /\ SubSeq(s, 1, k + 1) \in Seq(S) /\ s[k+1] \in S
         /\ b \o SubSeq(s, 1, k) \in Seq(S)
         /\ SubSeq(s, 1, k + 1) = Append(SubSeq(s, 1, k), s[k+1])
         /\ b \o SubSeq(s, 1, k + 1) = Append(b \o SubSeq(s, 1, k), s[k+1])
<1> DEFINE p == SubSeq(s, 1, k)
           q == SubSeq(s, 1, k + 1)
           x == s[k+1]
<1>1. Len(s) \in Nat /\ 1 \in 1..Len(s) /\ k + 1 \in 1..Len(s) /\ (k + 1) - 1 = k
  BY LenProperties
<1>2. x \in S /\ \A i \in 1..k+1 : s[i] \in S
  BY <1>1, ElementOfSeq
<1>3. \A i \in 1..k : s[i] \in S
  BY <1>2
<1>4. p \in Seq(S) /\ q \in Seq(S)
  BY <1>2, <1>3, SubSeqProperties
<1>5. SubSeq(s, 1, k + 1) = SubSeq(s, 1, (k + 1) - 1) \o <<s[k+1]>>
  BY <1>1, SubSeqRecursiveSecond
<1>6. q = p \o <<x>>
  BY <1>1, <1>5
<1> HIDE DEF p, q, x
<1>7. Append(p, x) = p \o <<x>> /\ <<x>> \in Seq(S)
  BY <1>2, <1>4, AppendIsConcat
<1>8. b \o p \in Seq(S)
  BY <1>4, ConcatProperties
<1>9. Append(b \o p, x) = (b \o p) \o <<x>>
  BY <1>2, <1>8, AppendIsConcat
<1>10. (b \o p) \o <<x>> = b \o (p \o <<x>>)
  <2> DEFINE y == <<x>>
  <2>1. y \in Seq(S) /\ p \in Seq(S)
    BY <1>4, <1>7
  <2> HIDE DEF y
  <2>0. b \in Seq(S)
    OBVIOUS
  <2>2. (b \o p) \o y = b \o (p \o y)
    BY ONLY <2>0, <2>1, ConcatAssociative
  <2>3. QED
    BY <2>2 DEF y
<1>11. QED
  BY <1>2, <1>4, <1>6, <1>7, <1>8, <1>9, <1>10 DEF p, q, x

(* Concatenation, for sequences whose sets are facts and not declarations. *)
LEMMA Associative ==
  ASSUME NEW S, NEW p, NEW q, NEW r, p \in Seq(S), q \in Seq(S), r \in Seq(S)
  PROVE  p \o q \in Seq(S) /\ p \o (q \o r) = (p \o q) \o r
<1>1. p \o q \in Seq(S)
  BY ConcatProperties
<1>2. p \o (q \o r) = (p \o q) \o r
  BY ConcatAssociative
<1>3. QED
  BY <1>1, <1>2

(* Two sequences of one element make one of two.                           *)
LEMMA TwoJoined ==
  ASSUME NEW N, NEW p \in N, NEW q \in N
  PROVE  <<p>> \o <<q>> = <<p, q>>
<1> DEFINE a == <<p>>
           b == <<q>>
           c == <<p, q>>
<1>1. a \in Seq(N) /\ b \in Seq(N) /\ c \in Seq(N) /\ Len(a) = 1 /\ Len(b) = 1 /\ Len(c) = 2
      /\ a[1] = p /\ b[1] = q /\ c[1] = p /\ c[2] = q
  OBVIOUS
<1> HIDE DEF a, b, c
<1>2. /\ a \o b \in Seq(N) /\ Len(a \o b) = 1 + 1
      /\ \A i \in 1..1+1 : (a \o b)[i] = IF i <= 1 THEN a[i] ELSE b[i - 1]
  BY <1>1, ConcatProperties
<1>3. (a \o b)[1] = p /\ (a \o b)[2] = q
  BY <1>1, <1>2
<1>4. \A i \in 1..Len(a \o b) : (a \o b)[i] = c[i]
  BY <1>1, <1>2, <1>3
<1>5. a \o b = c
  BY <1>1, <1>2, <1>4, SeqEqual
<1>6. QED
  BY <1>5 DEF a, b, c

(* Nothing is added to a sequence on its own.                              *)
LEMMA FlattenSeqOne ==
  ASSUME NEW S, NEW x \in Seq(S)
  PROVE  FlattenSeq(<<x>>) = x
<1> DEFINE e == <<>>
<1>1. e \in Seq(Seq(S)) /\ Append(e, x) = <<x>>
  BY EmptySeq
<1> HIDE DEF e
<1>2. FlattenSeq(Append(e, x)) = FlattenSeq(e) \o x
  BY <1>1, FlattenSeqAppend
<1>3. FlattenSeq(e) = <<>>
  BY FlattenSeqEmpty DEF e
<1>4. <<>> \o x = x
  BY ConcatEmptySeq
<1>5. QED
  BY <1>1, <1>2, <1>3, <1>4
=============================================================================
