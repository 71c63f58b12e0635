------------------------------ MODULE UrlProofs ------------------------------
(***************************************************************************)
(* Proofs about the decomposition of a url into views, for strings of any  *)
(* length, and what parent() and operator/ make of them.                   *)
(***************************************************************************)
EXTENDS Url, SequenceLemmas

(* The first token of T in a part of a string.                             *)
IsFound(f, s, from, to, T) ==
    /\ f \in from..to
    /\ \A i \in from..f-1 : s[i+1] \notin T
    /\ f < to => s[f+1] \in T

LEMMA FindProperties ==
  ASSUME NEW s, NEW from \in Nat, NEW to \in Nat, from <= to, NEW T
  PROVE  IsFound(Find(s, from, to, T), s, from, to, T)
<1> DEFINE S == {i \in from..to-1 : s[i+1] \in T} \cup {to}
<1>1. S \in SUBSET Nat /\ S # {} /\ to \in S /\ \A i \in S : i \in from..to
  OBVIOUS
<1>2. \A i \in from..to-1 : s[i+1] \in T => i \in S
  OBVIOUS
<1>3. \A i \in S : i < to => s[i+1] \in T
  OBVIOUS
<1>4. Find(s, from, to, T) = Min(S)
  BY DEF Find
<1> HIDE DEF S
<1>5. \E m \in S : \A k \in S : m <= k
  BY <1>1, LeastNatural
<1>6. Min(S) \in S /\ \A k \in S : Min(S) <= k
  BY <1>5 DEF Min
<1> DEFINE f == Min(S)
<1>7. f \in from..to
  BY <1>1, <1>6
<1>8. \A i \in from..f-1 : s[i+1] \notin T
  <2> SUFFICES ASSUME NEW i \in from..f-1, s[i+1] \in T PROVE FALSE
    OBVIOUS
  <2>1. i \in from..to-1 /\ ~(f <= i)
    BY <1>7
  <2>2. QED
    BY <1>2, <1>6, <2>1
<1>9. f < to => s[f+1] \in T
  BY <1>3, <1>6
<1>10. QED
  BY <1>4, <1>7, <1>8, <1>9 DEF IsFound

LEMMA FindIs ==
  ASSUME NEW s, NEW from \in Nat, NEW to \in Nat, from <= to, NEW T,
         NEW f, IsFound(f, s, from, to, T)
  PROVE  Find(s, from, to, T) = f
<1> DEFINE g == Find(s, from, to, T)
<1>1. IsFound(g, s, from, to, T)
  BY FindProperties
<1> HIDE DEF g
<1>2. f \in from..to /\ g \in from..to
  BY <1>1 DEF IsFound
<1>3. ~(f < g)
  <2> SUFFICES ASSUME f < g PROVE FALSE
    OBVIOUS
  <2>1. f \in from..g-1 /\ f < to
    BY <1>2
  <2>2. QED
    BY <1>1, <2>1 DEF IsFound
<1>4. ~(g < f)
  <2> SUFFICES ASSUME g < f PROVE FALSE
    OBVIOUS
  <2>1. g \in from..f-1 /\ g < to
    BY <1>2
  <2>2. QED
    BY <1>1, <2>1 DEF IsFound
<1>5. f = g
  BY <1>2, <1>3, <1>4
<1>6. QED
  BY <1>5 DEF g

-----------------------------------------------------------------------------
(* The offsets of the tokens of T: all of them, in order.                  *)

IsCuts(c, s, from, to, T) ==
    /\ c \in Seq(Nat)
    /\ \A i \in 1..Len(c) : c[i] \in from..to-1 /\ s[c[i]+1] \in T
    /\ \A i, j \in 1..Len(c) : i < j => c[i] < c[j]
    /\ \A o \in from..to-1 : s[o+1] \in T => \E i \in 1..Len(c) : c[i] = o

LEMMA CutsSkip ==
  ASSUME NEW c, NEW s, NEW from \in Nat, NEW m \in Nat, NEW T,
         IsCuts(c, s, from, m, T), s[m+1] \notin T
  PROVE  IsCuts(c, s, from, m + 1, T)
<1>1. \A i \in from..m-1 : i \in from..(m+1)-1
  OBVIOUS
<1>2. \A i \in from..(m+1)-1 : i \in from..m-1 \/ i = m
  OBVIOUS
<1>3. QED
  BY <1>1, <1>2, Zenon DEF IsCuts

LEMMA CutsTake ==
  ASSUME NEW c, NEW s, NEW from \in Nat, NEW m \in Nat, from <= m, NEW T,
         IsCuts(c, s, from, m, T), s[m+1] \in T
  PROVE  IsCuts(Append(c, m), s, from, m + 1, T)
<1> DEFINE d == Append(c, m)
           n == Len(c)
<1>1. c \in Seq(Nat) /\ n \in Nat
  BY LenProperties DEF IsCuts
<1>2. /\ d \in Seq(Nat) /\ Len(d) = n + 1
      /\ \A i \in 1..n : d[i] = c[i]
      /\ d[n+1] = m
  BY <1>1, AppendProperties
<1> HIDE DEF d
<1>3. \A i \in 1..n : c[i] \in from..m-1 /\ s[c[i]+1] \in T
  BY DEF IsCuts
<1>4. \A i \in 1..n+1 : i \in 1..n \/ i = n + 1
  BY <1>1
<1>5. \A i \in 1..n+1 : d[i] \in from..(m+1)-1 /\ s[d[i]+1] \in T
  <2> SUFFICES ASSUME NEW i \in 1..n+1 PROVE d[i] \in from..(m+1)-1 /\ s[d[i]+1] \in T
    OBVIOUS
  <2>1. CASE i \in 1..n
    <3>1. d[i] = c[i] /\ c[i] \in from..m-1 /\ s[c[i]+1] \in T
      BY <2>1, <1>2, <1>3
    <3>2. d[i] \in from..(m+1)-1
      BY <3>1
    <3>3. QED
      BY <3>1, <3>2
  <2>2. CASE i = n + 1
    BY <2>2, <1>2
  <2>3. QED
    BY <1>4, <2>1, <2>2
<1>6. ASSUME NEW i \in 1..n+1, NEW j \in 1..n+1, i < j PROVE d[i] < d[j]
  <2>1. i \in 1..n
    BY <1>1, <1>6
  <2>2. CASE j \in 1..n
    BY <1>2, <1>6, <2>1, <2>2 DEF IsCuts
  <2>3. CASE j = n + 1
    <3>1. d[i] = c[i] /\ c[i] \in from..m-1
      BY <2>1, <1>2, <1>3
    <3>2. d[j] = m
      BY <2>3, <1>2
    <3>3. QED
      BY <3>1, <3>2
  <2>4. QED
    BY <1>4, <2>2, <2>3
<1>7. ASSUME NEW o \in from..(m+1)-1, s[o+1] \in T PROVE \E i \in 1..n+1 : d[i] = o
  <2>1. CASE o = m
    <3>1. n + 1 \in 1..n+1
      BY <1>1
    <3>2. QED
      BY <1>2, <2>1, <3>1
  <2>2. CASE o # m
    <3>1. o \in from..m-1
      BY <2>2
    <3>2. PICK i \in 1..n : c[i] = o
      BY <1>7, <3>1 DEF IsCuts
    <3>3. i \in 1..n+1 /\ d[i] = o
      BY <1>1, <1>2, <3>2
    <3>4. QED
      BY <3>3
  <2>3. QED
    BY <2>1, <2>2
<1>8. IsCuts(d, s, from, m + 1, T)
  BY <1>2, <1>5, <1>6, <1>7 DEF IsCuts
<1>9. QED
  BY <1>8 DEF d

LEMMA CutsProperties ==
  ASSUME NEW s, NEW from \in Nat, NEW to \in Nat, from <= to, NEW T
  PROVE  IsCuts(Cuts(s, from, to, T), s, from, to, T)
<1> DEFINE len == to - from
           mark(n) == IF s[from+n] \in T THEN <<from+n-1>> ELSE <<>>
           marks == [n \in 1..len |-> mark(n)]
           C(n) == FlattenFirst(marks, n)
           S == {n \in Nat : n <= len => IsCuts(C(n), s, from, from + n, T)}
<1>1. len \in Nat /\ from + len = to
  OBVIOUS
<1>2. \A n \in 1..len : mark(n) \in Seq(Nat)
  <2> SUFFICES ASSUME NEW n \in 1..len PROVE mark(n) \in Seq(Nat)
    OBVIOUS
  <2>1. from + n - 1 \in Nat
    OBVIOUS
  <2>2. <<from+n-1>> \in Seq(Nat) /\ <<>> \in Seq(Nat)
    BY <2>1, EmptySeq
  <2>3. QED
    BY <2>2
<1>3. /\ marks \in Seq(Seq(Nat)) /\ Len(marks) = len
      /\ \A n \in 1..len : marks[n] = mark(n)
  <2> HIDE DEF mark
  <2>1. marks \in [1..len -> Seq(Nat)]
    BY <1>2
  <2>2. marks \in Seq(Seq(Nat))
    <3> DEFINE Q == Seq(Nat)
    <3>1. marks \in [1..len -> Q]
      BY <2>1
    <3> HIDE DEF Q, marks, len
    <3>2. marks \in Seq(Q)
      BY <1>1, <3>1, SeqDef
    <3>3. QED
      BY <3>2 DEF Q
  <2>3. DOMAIN marks = 1..len
    OBVIOUS
  <2>4. Len(marks) = len
    <3> HIDE DEF marks, len
    <3>1. QED
      BY <1>1, <2>2, <2>3, LenProperties
  <2>5. QED
    BY <2>2, <2>4
<1>4. Cuts(s, from, to, T) = FlattenSeq(marks)
  BY DEF Cuts
<1>5. FlattenSeq(marks) = C(len)
  <2> HIDE DEF marks
  <2>1. SubSeq(marks, 1, Len(marks)) = marks
    BY <1>3, SubSeqFull
  <2>2. QED
    BY <1>3, <2>1 DEF FlattenFirst
<1>6. C(0) = <<>>
  <2> HIDE DEF marks
  <2>1. SubSeq(marks, 1, 0) = <<>>
    BY SubSeqEmpty
  <2>2. QED
    BY <2>1, FlattenSeqEmpty DEF FlattenFirst
<1> HIDE DEF marks
<1>7. \A n \in 0..len-1 : C(n + 1) = C(n) \o marks[n+1]
  BY <1>3, FlattenFirstStep
<1> HIDE DEF C, len
<1>8. 0 \in S
  <2>1. <<>> \in Seq(Nat) /\ Len(<<>>) = 0 /\ from + 0 = from
    BY EmptySeq
  <2>2. IsCuts(<<>>, s, from, from + 0, T)
    BY <2>1 DEF IsCuts
  <2>3. QED
    BY <1>6, <2>2
<1>9. ASSUME NEW n \in Nat, n \in S PROVE n + 1 \in S
  <2> SUFFICES ASSUME n + 1 <= len PROVE IsCuts(C(n + 1), s, from, from + (n + 1), T)
    OBVIOUS
  <2>1. n \in 0..len-1 /\ n + 1 \in 1..len /\ n <= len
    BY <1>1
  <2>2. IsCuts(C(n), s, from, from + n, T)
    BY <1>9, <2>1
  <2>3. C(n + 1) = C(n) \o mark(n + 1)
    BY <1>3, <1>7, <2>1
  <2> DEFINE m == from + n
  <2>4. m \in Nat /\ from <= m /\ from + (n + 1) = m + 1 /\ (from + (n + 1)) - 1 = m
    OBVIOUS
  <2>5. C(n) \in Seq(Nat)
    BY <2>2 DEF IsCuts
  <2> HIDE DEF m
  <2>6. CASE s[m+1] \in T
    <3>1. C(n + 1) = C(n) \o <<m>>
      BY <2>3, <2>4, <2>6
    <3>2. C(n + 1) = Append(C(n), m)
      BY <2>4, <2>5, <3>1, AppendIsConcat
    <3>3. IsCuts(Append(C(n), m), s, from, m + 1, T)
      BY <2>2, <2>4, <2>6, CutsTake DEF m
    <3>4. QED
      BY <2>4, <3>2, <3>3
  <2>7. CASE s[m+1] \notin T
    <3>1. C(n + 1) = C(n) \o <<>>
      BY <2>3, <2>4, <2>7
    <3>2. C(n + 1) = C(n)
      BY <2>5, <3>1, ConcatEmptySeq
    <3>3. IsCuts(C(n), s, from, m + 1, T)
      BY <2>2, <2>4, <2>7, CutsSkip DEF m
    <3>4. QED
      BY <2>4, <3>2, <3>3
  <2>8. QED
    BY <2>6, <2>7
<1> HIDE DEF S
<1>10. \A n \in Nat : n \in S
  BY <1>8, <1>9, Induction
<1>11. IsCuts(C(len), s, from, from + len, T)
  BY <1>1, <1>10 DEF S
<1>12. QED
  BY <1>1, <1>4, <1>5, <1>11

(* The pieces in between: they cover the part, in order.                   *)
Span == [from : Nat, to : Nat]

IsPieces(ps, s, from, to, T) ==
    /\ ps \in Seq(Span) /\ Len(ps) >= 1
    /\ ps[1].from = from /\ ps[Len(ps)].to = to
    /\ \A i \in 1..Len(ps) :
          /\ from <= ps[i].from /\ ps[i].from <= ps[i].to /\ ps[i].to <= to
          /\ \A o \in ps[i].from..ps[i].to-1 : s[o+1] \notin T
    /\ \A i \in 1..Len(ps)-1 : ps[i+1].from = ps[i].to + 1 /\ s[ps[i].to+1] \in T
    /\ \A i, j \in 1..Len(ps) : i < j => ps[i].to < ps[j].from

LEMMA PiecesProperties ==
  ASSUME NEW s, NEW from \in Nat, NEW to \in Nat, from <= to, NEW T
  PROVE  IsPieces(Pieces(s, from, to, T), s, from, to, T)
<1> DEFINE c == Cuts(s, from, to, T)
           n == Len(c)
           begin(i) == IF i = 1 THEN from ELSE c[i-1] + 1
           end(i) == IF i > n THEN to ELSE c[i]
           ps == [i \in 1..n+1 |-> View(begin(i), end(i))]
<1>1. Pieces(s, from, to, T) = ps
  BY DEF Pieces
<1>2. IsCuts(c, s, from, to, T)
  BY CutsProperties
<1> HIDE DEF c
<1>3. c \in Seq(Nat) /\ n \in Nat
  BY <1>2, LenProperties DEF IsCuts
<1>4. \A i \in 1..n : c[i] \in Nat /\ from <= c[i] /\ c[i] < to /\ s[c[i]+1] \in T
  <2> SUFFICES ASSUME NEW i \in 1..n PROVE c[i] \in Nat /\ from <= c[i] /\ c[i] < to /\ s[c[i]+1] \in T
    OBVIOUS
  <2>1. c[i] \in from..to-1 /\ s[c[i]+1] \in T
    BY <1>2 DEF IsCuts
  <2>2. QED
    BY <2>1
<1>5. \A i, j \in 1..n : i < j => c[i] < c[j]
  BY <1>2 DEF IsCuts
<1> HIDE DEF n
<1>6. \A i \in 1..n+1 : begin(i) \in Nat /\ end(i) \in Nat
  <2> SUFFICES ASSUME NEW i \in 1..n+1 PROVE begin(i) \in Nat /\ end(i) \in Nat
    OBVIOUS
  <2>1. i # 1 => i - 1 \in 1..n
    BY <1>3
  <2>2. ~(i > n) => i \in 1..n
    BY <1>3
  <2>3. QED
    BY <1>4, <2>1, <2>2
<1>7. ps \in Seq(Span) /\ Len(ps) = n + 1 /\ \A i \in 1..n+1 : ps[i].from = begin(i) /\ ps[i].to = end(i)
  <2> HIDE DEF begin, end
  <2>1. \A i \in 1..n+1 : /\ View(begin(i), end(i)) \in Span
                          /\ View(begin(i), end(i)).from = begin(i)
                          /\ View(begin(i), end(i)).to = end(i)
    BY <1>6 DEF View, Span
  <2>2. ps \in [1..n+1 -> Span] /\ n + 1 \in Nat /\ DOMAIN ps = 1..n+1
    BY <1>3, <2>1
  <2>3. ps \in Seq(Span)
    <3> HIDE DEF ps
    <3>1. QED
      BY <2>2, SeqDef
  <2>4. Len(ps) = n + 1
    <3> HIDE DEF ps
    <3>1. QED
      BY <2>2, <2>3, LenProperties
  <2>5. QED
    BY <2>1, <2>3, <2>4
<1> HIDE DEF ps
<1>8. ps[1].from = from /\ ps[Len(ps)].to = to /\ Len(ps) >= 1
  BY <1>3, <1>7
<1>9. ASSUME NEW i \in 1..n+1
      PROVE  /\ from <= begin(i) /\ begin(i) <= end(i) /\ end(i) <= to
             /\ \A o \in begin(i)..end(i)-1 : s[o+1] \notin T
  <2>1. i # 1 => i - 1 \in 1..n
    BY <1>3
  <2>2. ~(i > n) => i \in 1..n
    BY <1>3
  <2>3. from <= begin(i)
    BY <1>4, <2>1
  <2>4. end(i) <= to
    BY <1>4, <2>2
  <2>5. begin(i) <= end(i)
    <3>1. CASE i = 1
      BY <1>4, <2>2, <3>1
    <3>2. CASE i # 1 /\ i > n
      BY <1>4, <2>1, <3>2
    <3>3. CASE i # 1 /\ ~(i > n)
      <4>1. c[i-1] < c[i]
        BY <1>5, <2>1, <2>2, <3>3
      <4>2. QED
        BY <1>4, <2>1, <2>2, <3>3, <4>1
    <3>4. QED
      BY <3>1, <3>2, <3>3
  <2>6. ASSUME NEW o \in begin(i)..end(i)-1, s[o+1] \in T PROVE FALSE
    <3>1. begin(i) \in Nat /\ end(i) \in Nat
      BY <1>6
    <3>2. o \in from..to-1
      <4> HIDE DEF begin, end
      <4>1. QED
        BY <2>3, <2>4, <3>1
    <3>3. PICK k \in 1..n : c[k] = o
      BY <1>2, <2>6, <3>2 DEF IsCuts, n
    <3>4. ~(k < i)
      <4> SUFFICES ASSUME k < i PROVE FALSE
        OBVIOUS
      <4>1. i # 1 /\ i - 1 \in 1..n /\ (k = i - 1 \/ k < i - 1)
        BY <2>1, <1>3
      <4>2. c[k] <= c[i-1]
        BY <1>4, <1>5, <4>1
      <4>3. begin(i) = c[i-1] + 1
        BY <4>1
      <4>4. QED
        <5> HIDE DEF end
        <5>1. QED
          BY <1>4, <3>1, <3>3, <4>1, <4>2, <4>3
    <3>5. ~(k >= i)
      <4> SUFFICES ASSUME k >= i PROVE FALSE
        OBVIOUS
      <4>1. i \in 1..n /\ (k = i \/ i < k)
        BY <1>3
      <4>2. c[i] <= c[k]
        BY <1>4, <1>5, <4>1
      <4>3. end(i) = c[i]
        BY <1>3, <4>1
      <4>4. QED
        <5> HIDE DEF begin
        <5>1. QED
          BY <1>4, <3>1, <3>3, <4>1, <4>2, <4>3
    <3>6. QED
      BY <3>4, <3>5, <1>3
  <2>7. QED
    BY <2>3, <2>4, <2>5, <2>6
<1>10. ASSUME NEW i \in 1..n PROVE ps[i+1].from = ps[i].to + 1 /\ s[ps[i].to+1] \in T
  <2>1. i \in 1..n+1 /\ i + 1 \in 1..n+1 /\ i + 1 # 1 /\ (i + 1) - 1 = i /\ ~(i > n)
    BY <1>3
  <2>2. begin(i + 1) = c[i] + 1 /\ end(i) = c[i]
    BY <2>1
  <2>3. QED
    BY <1>4, <1>7, <2>1, <2>2
<1>11. ASSUME NEW i \in 1..n+1, NEW j \in 1..n+1, i < j PROVE ps[i].to < ps[j].from
  <2>1. i \in 1..n /\ j # 1 /\ j - 1 \in 1..n /\ (i = j - 1 \/ i < j - 1) /\ ~(i > n)
    BY <1>3, <1>11
  <2>2. c[i] <= c[j-1]
    BY <1>4, <1>5, <2>1
  <2>3. end(i) = c[i] /\ begin(j) = c[j-1] + 1
    BY <2>1
  <2>4. QED
    BY <1>4, <1>7, <2>1, <2>2, <2>3
<1>12. \A i \in 1..n+1 :
          /\ from <= ps[i].from /\ ps[i].from <= ps[i].to /\ ps[i].to <= to
          /\ \A o \in ps[i].from..ps[i].to-1 : s[o+1] \notin T
  <2> HIDE DEF begin, end
  <2>1. QED
    BY <1>7, <1>9
<1>13. 1..Len(ps)-1 = 1..n /\ Len(ps) = n + 1
  BY <1>3, <1>7
<1>14. IsPieces(ps, s, from, to, T)
  BY <1>7, <1>8, <1>10, <1>11, <1>12, <1>13 DEF IsPieces
<1>15. QED
  BY <1>1, <1>14

-----------------------------------------------------------------------------
(* Where the parts of a string that decomposes stand.                      *)

LEMMA SingleSubSeq ==
  ASSUME NEW S, NEW s \in Seq(S), NEW i \in 1..Len(s)
  PROVE  SubSeq(s, i, i) = <<s[i]>>
<1> DEFINE x == SubSeq(s, i, i)
<1>1. i \in Int
  BY LenProperties
<1>2. \A j \in i..i : s[j] \in S
  BY <1>1, ElementOfSeq
<1>3. /\ x \in Seq(S)
      /\ Len(x) = IF i <= i THEN i-i+1 ELSE 0
      /\ \A j \in 1..i-i+1 : x[j] = s[i+j-1]
  BY <1>1, <1>2, SubSeqProperties
<1>4. Len(x) = 1 /\ x[1] = s[i]
  BY <1>1, <1>3
<1> HIDE DEF x
<1>5. x = <<x[1]>>
  BY <1>3, <1>4
<1>6. QED
  BY <1>4, <1>5 DEF x

LEMMA StartsWithOne ==
  ASSUME NEW S, NEW s \in Seq(S), NEW at \in Nat, NEW c
  PROVE  StartsWith(s, at, <<c>>) <=> at < Len(s) /\ s[at+1] = c
<1>1. Len(s) \in Nat /\ at + 1 \in Int /\ Len(<<c>>) = 1
  BY LenProperties
<1>2. CASE ~(at < Len(s))
  BY <1>1, <1>2 DEF StartsWith
<1>3. CASE at < Len(s)
  <2>1. at + 1 \in 1..Len(s)
    BY <1>1, <1>3
  <2>2. SubSeq(s, at+1, at+1) = <<s[at+1]>>
    BY <2>1, SingleSubSeq
  <2>3. <<s[at+1]>> = <<c>> <=> s[at+1] = c
    OBVIOUS
  <2>4. QED
    BY <1>1, <1>3, <2>2, <2>3 DEF StartsWith
<1>4. QED
  BY <1>2, <1>3

LEMMA SchemeEndProperties ==
  ASSUME NEW s \in Seq(Token)
  PROVE  SchemeEnd(s) \in 0..Len(s)
<1>1. Len(s) \in Nat /\ 0 \in Nat /\ 0 <= Len(s)
  BY LenProperties
<1>2. Find(s, 0, Len(s), Delimiters) \in 0..Len(s)
  BY <1>1, FindProperties DEF IsFound
<1>3. QED
  BY <1>1, <1>2 DEF SchemeEnd

LEMMA AuthorityProperties ==
  ASSUME NEW s \in Seq(Token), AuthorityOk(s), HasAuthority(s)
  PROVE  /\ AuthStart(s) = SchemeEnd(s) + 3 /\ PathStart(s) = AuthEnd(s) + 1
         /\ IsFound(AuthEnd(s), s, AuthStart(s), Len(s), {"/"}) /\ AuthEnd(s) < Len(s)
         /\ IsFound(At(s), s, AuthStart(s), AuthEnd(s), {"@"})
         /\ IsFound(UserColon(s), s, AuthStart(s), At(s), {":"})
         /\ HasUser(s) => UserColon(s) < At(s)
         /\ DomainStart(s) \in AuthStart(s)..AuthEnd(s)
         /\ HasUser(s) => DomainStart(s) = At(s) + 1
         /\ IsFound(DomainEnd(s), s, DomainStart(s), AuthEnd(s), {":"})
<1>1. Len(s) \in Nat /\ SchemeEnd(s) \in Nat
  BY SchemeEndProperties, LenProperties
<1>2. AuthStart(s) \in Nat /\ AuthStart(s) <= Len(s) /\ AuthStart(s) = SchemeEnd(s) + 3
  <2>1. Len(<<":", "/", "/">>) = 3
    OBVIOUS
  <2>2. SchemeEnd(s) + 3 <= Len(s)
    BY <2>1 DEF HasAuthority, StartsWith
  <2>3. QED
    BY <1>1, <2>2 DEF AuthStart
<1>3. IsFound(AuthEnd(s), s, AuthStart(s), Len(s), {"/"})
  BY <1>1, <1>2, FindProperties DEF AuthEnd
<1>4. AuthEnd(s) < Len(s) /\ (HasUser(s) => UserColon(s) < At(s))
  BY DEF AuthorityOk
<1>5. AuthEnd(s) \in Nat /\ AuthStart(s) <= AuthEnd(s)
  BY <1>1, <1>2, <1>3 DEF IsFound
<1>6. IsFound(At(s), s, AuthStart(s), AuthEnd(s), {"@"})
  BY <1>2, <1>5, FindProperties DEF At
<1>7. At(s) \in Nat /\ AuthStart(s) <= At(s) /\ At(s) <= AuthEnd(s)
  BY <1>2, <1>5, <1>6 DEF IsFound
<1>8. IsFound(UserColon(s), s, AuthStart(s), At(s), {":"})
  BY <1>2, <1>7, FindProperties DEF UserColon
<1>9. DomainStart(s) \in AuthStart(s)..AuthEnd(s) /\ (HasUser(s) => DomainStart(s) = At(s) + 1)
  BY <1>2, <1>5, <1>7 DEF DomainStart, HasUser
<1>10. IsFound(DomainEnd(s), s, DomainStart(s), AuthEnd(s), {":"})
  BY <1>2, <1>5, <1>9, FindProperties DEF DomainEnd
<1>11. PathStart(s) = AuthEnd(s) + 1
  BY DEF PathStart
<1>12. QED
  BY <1>2, <1>3, <1>4, <1>6, <1>8, <1>9, <1>10, <1>11

LEMMA PathBounds ==
  ASSUME NEW s \in Seq(Token), AuthorityOk(s)
  PROVE  /\ Len(s) \in Nat /\ SchemeEnd(s) \in Nat /\ PathStart(s) \in Nat /\ PathEnd(s) \in Nat
         /\ QueryEnd(s) \in Nat
         /\ SchemeEnd(s) <= PathStart(s) /\ PathStart(s) <= PathEnd(s)
         /\ PathEnd(s) <= QueryEnd(s) /\ QueryEnd(s) <= Len(s)
         /\ IsFound(PathEnd(s), s, PathStart(s), Len(s), {"?", "#"})
         /\ HasQuery(s) => /\ PathEnd(s) + 1 <= QueryEnd(s)
                           /\ IsFound(QueryEnd(s), s, PathEnd(s) + 1, Len(s), {"#"})
         /\ ~HasQuery(s) => QueryEnd(s) = PathEnd(s)
<1>1. Len(s) \in Nat /\ SchemeEnd(s) \in 0..Len(s)
  BY SchemeEndProperties, LenProperties
<1>2. PathStart(s) \in Nat /\ PathStart(s) <= Len(s) /\ SchemeEnd(s) <= PathStart(s)
  <2>1. CASE HasAuthority(s)
    <3>1. AuthEnd(s) \in AuthStart(s)..Len(s) /\ AuthEnd(s) < Len(s)
          /\ PathStart(s) = AuthEnd(s) + 1 /\ AuthStart(s) = SchemeEnd(s) + 3
      BY <2>1, AuthorityProperties DEF IsFound
    <3>2. QED
      BY <1>1, <3>1
  <2>2. CASE ~HasAuthority(s)
    BY <1>1, <2>2 DEF PathStart
  <2>3. QED
    BY <2>1, <2>2
<1>3. IsFound(PathEnd(s), s, PathStart(s), Len(s), {"?", "#"})
  BY <1>1, <1>2, FindProperties DEF PathEnd
<1>4. PathEnd(s) \in Nat /\ PathStart(s) <= PathEnd(s) /\ PathEnd(s) <= Len(s)
  BY <1>1, <1>2, <1>3 DEF IsFound
<1>5. CASE HasQuery(s)
  <2>1. PathEnd(s) < Len(s)
    BY <1>4, <1>5, StartsWithOne DEF HasQuery
  <2>2. PathEnd(s) + 1 \in Nat /\ PathEnd(s) + 1 <= Len(s)
    BY <1>1, <1>4, <2>1
  <2>3. IsFound(QueryEnd(s), s, PathEnd(s) + 1, Len(s), {"#"})
    BY <1>1, <1>5, <2>2, FindProperties DEF QueryEnd
  <2>4. QueryEnd(s) \in PathEnd(s)+1..Len(s)
    BY <2>3 DEF IsFound
  <2>5. QED
    BY <1>1, <1>2, <1>3, <1>4, <1>5, <2>3, <2>4
<1>6. CASE ~HasQuery(s)
  BY <1>1, <1>2, <1>3, <1>4, <1>6 DEF QueryEnd
<1>7. QED
  BY <1>5, <1>6
-----------------------------------------------------------------------------
(* The text of a view, and of a path.                                      *)

(* The tokens of a text are those of the string at the offsets of the view. *)
LEMMA TextProperties ==
  ASSUME NEW s \in Seq(Token), NEW v \in Span, v.to <= Len(s)
  PROVE  /\ \A c \in Range(Text(s, v)) : \E o \in v.from..v.to-1 : c = s[o+1]
         /\ Text(s, v) # <<>> => v.from < v.to
<1>1. Len(s) \in Nat /\ v.from \in Nat /\ v.to \in Nat
  BY LenProperties DEF Span
<1>2. \A i \in v.from+1..v.to : s[i] \in Token
  <2> SUFFICES ASSUME NEW i \in v.from+1..v.to PROVE s[i] \in Token
    OBVIOUS
  <2>1. i \in 1..Len(s)
    BY <1>1
  <2>2. QED
    BY <2>1, ElementOfSeq
<1> DEFINE x == SubSeq(s, v.from+1, v.to)
<1>3. v.from+1 \in Int /\ v.to \in Int
  BY <1>1
<1>4. /\ x \in Seq(Token)
      /\ Len(x) = IF v.from+1 <= v.to THEN v.to-(v.from+1)+1 ELSE 0
      /\ \A i \in 1..v.to-(v.from+1)+1 : x[i] = s[(v.from+1)+i-1]
  BY <1>2, <1>3, SubSeqProperties
<1>5. ~(v.from < v.to) => x = <<>>
  BY <1>1, SubSeqEmpty
<1>6. Text(s, v) = x
  BY DEF Text
<1> HIDE DEF x
<1>7. ASSUME NEW c \in Range(x) PROVE \E o \in v.from..v.to-1 : c = s[o+1]
  <2>1. DOMAIN x = 1..Len(x)
    BY <1>4, LenProperties
  <2>2. PICK i \in 1..Len(x) : c = x[i]
    BY <2>1 DEF Range
  <2>3. v.from < v.to /\ Len(x) = v.to - v.from
    BY <1>1, <1>4, <2>2
  <2>4. i \in 1..v.to-(v.from+1)+1
    BY <1>1, <2>2, <2>3
  <2>5. c = s[(v.from+1)+i-1]
    BY <1>4, <2>2, <2>4
  <2> DEFINE o == v.from + i - 1
  <2>6. o \in v.from..v.to-1 /\ (v.from+1)+i-1 = o + 1
    <3> DEFINE a == v.from
               b == v.to
    <3>1. a \in Nat /\ b \in Nat /\ i \in 1..b-(a+1)+1
      BY <1>1, <2>4
    <3> HIDE DEF a, b
    <3>2. a + i - 1 \in a..b-1 /\ (a+1)+i-1 = (a + i - 1) + 1
      BY <3>1
    <3>3. QED
      BY <3>2 DEF a, b
  <2>7. QED
    BY <2>5, <2>6
<1>8. QED
  BY <1>5, <1>6, <1>7

LEMMA FrontProperties ==
  ASSUME NEW S, NEW x \in Seq(S), x # <<>>
  PROVE  /\ Len(x) \in Nat \ {0}
         /\ Front(x) \in Seq(S) /\ Len(Front(x)) = Len(x) - 1
         /\ \A i \in 1..Len(x)-1 : Front(x)[i] = x[i]
<1>1. Len(x) \in Nat \ {0}
  BY EmptySeq
<1>2. 1 \in Int /\ Len(x) - 1 \in Int
  BY <1>1
<1>3. \A i \in 1..Len(x)-1 : x[i] \in S
  <2> SUFFICES ASSUME NEW i \in 1..Len(x)-1 PROVE x[i] \in S
    OBVIOUS
  <2>1. i \in 1..Len(x)
    BY <1>1
  <2>2. QED
    BY <2>1, ElementOfSeq
<1> DEFINE m == Len(x) - 1
           f == SubSeq(x, 1, m)
<1>4. /\ f \in Seq(S)
      /\ Len(f) = IF 1 <= m THEN m-1+1 ELSE 0
      /\ \A i \in 1..m-1+1 : f[i] = x[1+i-1]
  <2> HIDE DEF m
  <2>1. m \in Int /\ \A i \in 1..m : x[i] \in S
    BY <1>2, <1>3 DEF m
  <2>2. QED
    BY <1>2, <2>1, SubSeqProperties
<1>5. Front(x) = f
  BY DEF Front
<1> HIDE DEF f
<1>6. Len(f) = Len(x) - 1 /\ \A i \in 1..Len(x)-1 : f[i] = x[i]
  <2>1. m \in Nat /\ m = Len(x) - 1
    BY <1>1
  <2> HIDE DEF m
  <2>2. Len(f) = m
    BY <1>4, <2>1
  <2>3. ASSUME NEW i \in 1..m PROVE f[i] = x[i]
    <3>1. i \in 1..m-1+1 /\ 1+i-1 = i
      BY <2>1
    <3>2. QED
      BY <1>4, <3>1
  <2>4. QED
    BY <2>1, <2>2, <2>3
<1>7. QED
  BY <1>1, <1>4, <1>5, <1>6

(* The segments of a path lie in the part of the string for the path, hold *)
(* no delimiter of it, and are one slash apart.                            *)
PathOk(s, path) ==
    /\ path \in Seq(Span)
    /\ \A i \in 1..Len(path) :
          /\ PathStart(s) <= path[i].from /\ path[i].from <= path[i].to /\ path[i].to <= PathEnd(s)
          /\ \A o \in path[i].from..path[i].to-1 : s[o+1] \notin {"/", "?", "#"}
    /\ \A i \in 1..Len(path)-1 : path[i+1].from = path[i].to + 1 /\ s[path[i].to+1] = "/"
    /\ \A i, j \in 1..Len(path) : i < j => path[i].to < path[j].from

LEMMA FrontPathOk ==
  ASSUME NEW s, NEW path, PathOk(s, path), path # <<>>
  PROVE  PathOk(s, Front(path))
<1> DEFINE f == Front(path)
           n == Len(path)
<1>1. n \in Nat \ {0} /\ f \in Seq(Span) /\ Len(f) = n - 1 /\ \A i \in 1..n-1 : f[i] = path[i]
  BY FrontProperties DEF PathOk
<1> HIDE DEF f
<1>2. \A i \in 1..n-1 : i \in 1..n
  BY <1>1
<1>3. \A i \in 1..(n-1)-1 : i \in 1..n-1 /\ i + 1 \in 1..n-1
  BY <1>1
<1> HIDE DEF n
<1>4. \A i \in 1..n-1 :
          /\ PathStart(s) <= f[i].from /\ f[i].from <= f[i].to /\ f[i].to <= PathEnd(s)
          /\ \A o \in f[i].from..f[i].to-1 : s[o+1] \notin {"/", "?", "#"}
  BY <1>1, <1>2 DEF PathOk, n
<1>5. \A i \in 1..(n-1)-1 : f[i+1].from = f[i].to + 1 /\ s[f[i].to+1] = "/"
  BY <1>1, <1>3 DEF PathOk, n
<1>6. \A i, j \in 1..n-1 : i < j => f[i].to < f[j].from
  BY <1>1, <1>2 DEF PathOk, n
<1>7. PathOk(s, f)
  BY <1>1, <1>4, <1>5, <1>6 DEF PathOk
<1>8. QED
  BY <1>7 DEF f

(* The pieces that decompose_path keeps: all of them, or all but an empty  *)
(* last one or one that ends at '?' or '#'.                                *)
LEMMA PathPieces ==
  ASSUME NEW s \in Seq(Token), AuthorityOk(s),
         NEW all, all = Pieces(s, PathStart(s), PathEnd(s), {"/"})
  PROVE  /\ PathOk(s, all) /\ Len(all) >= 1 /\ all # <<>>
         /\ all[1].from = PathStart(s) /\ all[Len(all)].to = PathEnd(s)
<1>1. /\ PathStart(s) \in Nat /\ PathEnd(s) \in Nat /\ PathStart(s) <= PathEnd(s)
      /\ IsFound(PathEnd(s), s, PathStart(s), Len(s), {"?", "#"})
  BY PathBounds
<1>2. IsPieces(all, s, PathStart(s), PathEnd(s), {"/"})
  BY <1>1, PiecesProperties
<1>3. all \in Seq(Span) /\ Len(all) >= 1 /\ Len(all) \in Nat
  BY <1>2, LenProperties DEF IsPieces
<1>4. \A i \in 1..Len(all) :
          /\ PathStart(s) <= all[i].from /\ all[i].from <= all[i].to /\ all[i].to <= PathEnd(s)
          /\ \A o \in all[i].from..all[i].to-1 : s[o+1] # "/"
  BY <1>2 DEF IsPieces
<1>5. \A o \in PathStart(s)..PathEnd(s)-1 : s[o+1] \notin {"?", "#"}
  BY <1>1 DEF IsFound
<1>6. ASSUME NEW i \in 1..Len(all), NEW o \in all[i].from..all[i].to-1
      PROVE  s[o+1] \notin {"/", "?", "#"}
  <2>1. all[i] \in Span
    BY <1>3, ElementOfSeq
  <2>2. all[i].from \in Nat /\ all[i].to \in Nat
    BY <2>1 DEF Span
  <2>3. PathStart(s) <= all[i].from /\ all[i].to <= PathEnd(s)
    BY <1>4
  <2>4. o \in PathStart(s)..PathEnd(s)-1
    BY <1>1, <2>2, <2>3
  <2>5. QED
    BY <1>4, <1>5, <2>4
<1>7. \A i \in 1..Len(all)-1 : all[i+1].from = all[i].to + 1 /\ s[all[i].to+1] = "/"
  BY <1>2 DEF IsPieces
<1>8. \A i, j \in 1..Len(all) : i < j => all[i].to < all[j].from
  BY <1>2 DEF IsPieces
<1>9. PathOk(s, all)
  BY <1>3, <1>4, <1>6, <1>7, <1>8 DEF PathOk
<1>10. all # <<>>
  BY <1>3, EmptySeq
<1>11. QED
  BY <1>2, <1>3, <1>9, <1>10 DEF IsPieces

LEMMA PathIsOk ==
  ASSUME NEW s \in Seq(Token), AuthorityOk(s)
  PROVE  PathOk(s, Path(s))
<1> DEFINE all == Pieces(s, PathStart(s), PathEnd(s), {"/"})
<1>1. PathOk(s, all) /\ all # <<>>
  BY PathPieces
<1>2. PathOk(s, Front(all))
  BY <1>1, FrontPathOk
<1>3. Path(s) \in {all, Front(all)}
  BY DEF Path
<1>4. QED
  BY <1>1, <1>2, <1>3
(* The views of a string without a query and a fragment are all of it but  *)
(* at most one slash.                                                      *)
LEMMA PathOfAll ==
  ASSUME NEW s \in Seq(Token), AuthorityOk(s), Range(s) \cap {"?", "#"} = {}
  PROVE  IF Path(s) = <<>> THEN PathStart(s) = Len(s)
         ELSE /\ Head(Path(s)).from = PathStart(s)
              /\ SubSeq(s, Last(Path(s)).to + 1, Len(s)) \in {<<>>, <<"/">>}
<1> DEFINE all == Pieces(s, PathStart(s), PathEnd(s), {"/"})
           n == Len(all)
           path == Path(s)
<1>1. /\ PathOk(s, all) /\ n >= 1 /\ all # <<>>
      /\ all[1].from = PathStart(s) /\ all[n].to = PathEnd(s)
  BY PathPieces
<1>2. Len(s) \in Nat /\ DOMAIN s = 1..Len(s)
  BY LenProperties
<1>3. PathEnd(s) = Len(s)
  <2>1. IsFound(PathEnd(s), s, PathStart(s), Len(s), {"?", "#"}) /\ PathStart(s) \in Nat
        /\ PathEnd(s) \in Nat
    BY PathBounds
  <2>2. PathEnd(s) <= Len(s) /\ (PathEnd(s) < Len(s) => s[PathEnd(s)+1] \in {"?", "#"})
    BY <1>2, <2>1 DEF IsFound
  <2>3. ASSUME PathEnd(s) < Len(s) PROVE FALSE
    <3>1. PathEnd(s) + 1 \in DOMAIN s
      BY <1>2, <2>1, <2>3
    <3>2. s[PathEnd(s)+1] \in Range(s)
      BY <3>1 DEF Range
    <3>3. QED
      BY <2>2, <2>3, <3>2
  <2>4. QED
    BY <1>2, <2>1, <2>2, <2>3
<1>4. path = IF KeepsLast(s, Last(all)) THEN all ELSE Front(all)
  BY DEF Path
<1> HIDE DEF all, path
<1>5. all \in Seq(Span) /\ n \in Nat
  BY <1>1, LenProperties DEF PathOk
<1>6. \A x \in Seq(Span) : x # <<>> => Len(x) >= 1 /\ Head(x) = x[1] /\ Last(x) = x[Len(x)]
  <2> SUFFICES ASSUME NEW x \in Seq(Span), x # <<>>
               PROVE  Len(x) >= 1 /\ Head(x) = x[1] /\ Last(x) = x[Len(x)]
    OBVIOUS
  <2>1. Len(x) \in Nat \ {0}
    BY EmptySeq
  <2>2. Head(x) = x[1]
    OBVIOUS
  <2>3. QED
    BY <2>1, <2>2 DEF Last
<1>7. CASE KeepsLast(s, Last(all))
  <2>1. path = all /\ path # <<>>
    BY <1>1, <1>4, <1>7
  <2>2. Head(path).from = PathStart(s) /\ Last(path).to = Len(s)
    BY <1>1, <1>3, <1>5, <1>6, <2>1
  <2>3. SubSeq(s, Len(s) + 1, Len(s)) = <<>>
    <3>1. Len(s) + 1 \in Int /\ Len(s) \in Int /\ Len(s) < Len(s) + 1
      BY <1>2
    <3>2. QED
      BY <3>1, SubSeqEmpty
  <2>4. QED
    BY <2>1, <2>2, <2>3 DEF path
<1>8. CASE ~KeepsLast(s, Last(all))
  <2>1. path = Front(all)
    BY <1>4, <1>8
  <2>2. Last(all) = all[n] /\ all[n] \in Span
    BY <1>1, <1>5, <1>6, ElementOfSeq
  <2>3. all[n].from = Len(s)
    <3>1. all[n].from \in Nat /\ all[n].from <= all[n].to /\ all[n].to = Len(s)
      BY <1>1, <1>3, <1>5, <2>2 DEF PathOk, Span
    <3>2. ~(all[n].from < all[n].to)
      BY <1>8, <2>2, <3>1 DEF KeepsLast
    <3>3. QED
      BY <1>2, <3>1, <3>2
  <2>4. path \in Seq(Span) /\ Len(path) = n - 1 /\ \A i \in 1..n-1 : path[i] = all[i]
    BY <1>1, <1>5, <2>1, FrontProperties
  <2>5. CASE path = <<>>
    <3>1. n - 1 = 0
      BY <2>4, <2>5
    <3>2. n = 1
      BY <1>5, <3>1
    <3>3. PathStart(s) = Len(s)
      BY <1>1, <2>3, <3>2
    <3>4. QED
      BY <2>5, <3>3 DEF path
  <2>6. CASE path # <<>>
    <3>1. n - 1 >= 1
      BY <1>6, <2>4, <2>6
    <3>2. 1 \in 1..n-1 /\ n - 1 \in 1..n-1 /\ (n - 1) + 1 = n
      BY <1>5, <3>1
    <3>3. Head(path).from = PathStart(s) /\ Last(path) = all[n-1]
      BY <1>1, <1>6, <2>4, <2>6, <3>2
    <3>4. all[n].from = all[n-1].to + 1 /\ s[all[n-1].to+1] = "/"
      BY <1>1, <3>2 DEF PathOk
    <3>5. Last(path).to + 1 = Len(s) /\ s[Len(s)] = "/"
      BY <2>3, <3>3, <3>4
    <3>6. all[n-1] \in Span
      <4>1. n - 1 \in 1..n
        BY <3>2, <1>5
      <4>2. QED
        BY <1>5, <4>1, ElementOfSeq
    <3>7. Len(s) >= 1
      <4>1. all[n-1].to \in Nat
        BY <3>6 DEF Span
      <4>2. QED
        BY <2>3, <3>4, <4>1
    <3>8. SubSeq(s, Len(s), Len(s)) = <<"/">>
      BY <1>2, <3>5, <3>7, SingleSubSeq
    <3>9. QED
      BY <2>6, <3>3, <3>5, <3>8 DEF path
  <2>7. QED
    BY <2>5, <2>6
<1>9. QED
  BY <1>7, <1>8
-----------------------------------------------------------------------------
(* Parameters: a piece of the query that has a key.                        *)
Pair == [key : Span, value : Span]

ParamOk(p, s, piece) ==
    /\ p \in Pair
    /\ piece.from <= p.key.from /\ p.key.from < p.key.to /\ p.value.from = p.key.to + 1
    /\ p.value.from <= p.value.to /\ p.value.to = piece.to
    /\ s[p.key.to+1] = "="
    /\ \A o \in p.key.from..p.key.to-1 : s[o+1] # "="
    /\ \A o \in p.value.from..p.value.to-1 : s[o+1] # "="

LEMMA ParamProperties ==
  ASSUME NEW s \in Seq(Token), NEW piece \in Span, piece.from <= piece.to, piece.to <= Len(s),
         Text(s, Param(s, piece).key) # <<>>
  PROVE  ParamOk(Param(s, piece), s, piece)
<1> DEFINE from == piece.from
           to == piece.to
           eqs == Cuts(s, from, to, {"="})
           n == Len(eqs)
           ps == Pieces(s, from, to, {"="})
<1>1. from \in Nat /\ to \in Nat /\ from <= to /\ Len(s) \in Nat /\ to <= Len(s)
  BY LenProperties DEF Span
<1>2. IsCuts(eqs, s, from, to, {"="}) /\ IsPieces(ps, s, from, to, {"="})
  BY <1>1, CutsProperties, PiecesProperties
<1>3. n \in Nat
  BY <1>2, LenProperties DEF IsCuts
<1>4. Param(s, piece) = IF n = 0 THEN [key |-> Null, value |-> piece]
        ELSE [key |-> View(IF n = 1 THEN from ELSE eqs[n-1] + 1, eqs[n]),
              value |-> View(eqs[n] + 1, to)]
  BY DEF Param
<1>5. ps = [i \in 1..n+1 |-> View(IF i = 1 THEN from ELSE eqs[i-1] + 1,
                                  IF i > n THEN to ELSE eqs[i])]
  BY DEF Pieces
<1>6. ps \in Seq(Span) /\ Len(ps) = n + 1
  <2>1. ps \in Seq(Span)
    BY <1>2 DEF IsPieces
  <2>2. DOMAIN ps = 1..n+1
    BY <1>5
  <2>3. DOMAIN ps = 1..Len(ps) /\ Len(ps) \in Nat
    BY <2>1, LenProperties
  <2> HIDE DEF ps, n
  <2>4. Len(ps) = n + 1
    BY <1>3, <2>2, <2>3
  <2>5. QED
    BY <2>1, <2>4
<1> HIDE DEF n, ps, eqs
<1>7. n # 0
  <2> SUFFICES ASSUME n = 0 PROVE FALSE
    OBVIOUS
  <2>1. Param(s, piece).key = Null
    BY <1>4
  <2>2. Text(s, Null) = SubSeq(s, 0 + 1, 0)
    BY DEF Text, Null, View
  <2>3. SubSeq(s, 0 + 1, 0) = <<>>
    BY SubSeqEmpty
  <2>4. QED
    BY <2>1, <2>2, <2>3
<1>8. n \in 1..n+1 /\ n + 1 \in 1..n+1 /\ n + 1 # 1 /\ n + 1 > n /\ ~(n > n) /\ n \in 1..(n+1)-1
      /\ (n + 1) - 1 = n
  BY <1>3, <1>7
<1>9. Param(s, piece) = [key |-> ps[n], value |-> ps[n+1]]
  <2>1. ps[n] = View(IF n = 1 THEN from ELSE eqs[n-1] + 1, eqs[n])
    BY <1>5, <1>8
  <2>2. ps[n+1] = View(eqs[n] + 1, to)
    BY <1>5, <1>8
  <2>3. QED
    BY <1>4, <1>7, <2>1, <2>2
<1> DEFINE p == [key |-> ps[n], value |-> ps[n+1]]
<1>10. p.key = ps[n] /\ p.value = ps[n+1]
  OBVIOUS
<1>11. ps[n] \in Span /\ ps[n+1] \in Span
  BY <1>6, <1>8, ElementOfSeq
<1>12. p \in Pair
  BY <1>11 DEF Pair
<1>13. p.key.from < p.key.to
  <2>1. Text(s, p.key) # <<>>
    BY <1>9
  <2>2. p.key.to <= Len(s)
    <3>1. ps[n].to <= to /\ ps[n].to \in Nat
      BY <1>2, <1>6, <1>8, <1>11 DEF IsPieces, Span
    <3>2. QED
      BY <1>1, <1>10, <3>1
  <2> HIDE DEF p
  <2>3. QED
    BY <1>10, <1>11, <2>1, <2>2, TextProperties
<1> HIDE DEF p
<1>14. /\ from <= ps[n].from
       /\ \A o \in ps[n].from..ps[n].to-1 : s[o+1] # "="
       /\ ps[n+1].from <= ps[n+1].to
       /\ \A o \in ps[n+1].from..ps[n+1].to-1 : s[o+1] # "="
       /\ ps[n+1].from = ps[n].to + 1 /\ s[ps[n].to+1] = "="
       /\ ps[n+1].to = to
  BY <1>2, <1>6, <1>8 DEF IsPieces
<1>15. ParamOk(p, s, piece)
  BY <1>10, <1>12, <1>13, <1>14 DEF ParamOk
<1>16. QED
  BY <1>9, <1>15 DEF p

(* The parameters lie in the part of the string for the query, in order,   *)
(* each up to a separator, the fragment or the end.                        *)
ParamsOk(s, params) ==
    /\ params \in Seq(Pair)
    /\ params # <<>> => HasQuery(s)
    /\ \A i \in 1..Len(params) :
          LET p == params[i]
          IN /\ PathEnd(s) + 1 <= p.key.from /\ p.key.from < p.key.to
             /\ p.value.from = p.key.to + 1
             /\ p.value.from <= p.value.to /\ p.value.to <= QueryEnd(s)
             /\ s[p.key.to+1] = "="
             /\ \A o \in p.key.from..p.key.to-1 : s[o+1] \notin {"=", "&", ";", "#"}
             /\ \A o \in p.value.from..p.value.to-1 : s[o+1] \notin {"=", "&", ";", "#"}
             /\ p.value.to < Len(s) => s[p.value.to+1] \in {"&", ";", "#"}
    /\ \A i, j \in 1..Len(params) : i < j => params[i].value.to < params[j].key.from

LEMMA ParamsAreOk ==
  ASSUME NEW s \in Seq(Token), AuthorityOk(s), QueryOk(s)
  PROVE  ParamsOk(s, Params(s))
<1>1. CASE ~HasQuery(s)
  <2>1. Params(s) = <<>>
    BY <1>1 DEF Params
  <2>2. <<>> \in Seq(Pair) /\ Len(<<>>) = 0
    BY EmptySeq
  <2>3. QED
    BY <2>1, <2>2 DEF ParamsOk
<1>2. CASE HasQuery(s)
  <2> DEFINE from == PathEnd(s) + 1
             to == QueryEnd(s)
             ps == Pieces(s, from, to, {"&", ";"})
             n == Len(ps)
             params == [i \in DOMAIN ps |-> Param(s, ps[i])]
  <2>1. from \in Nat /\ to \in Nat /\ from <= to /\ to <= Len(s) /\ Len(s) \in Nat
    BY <1>2, PathBounds
  <2>found. IsFound(to, s, from, Len(s), {"#"})
    BY <1>2, PathBounds
  <2>2. IsPieces(ps, s, from, to, {"&", ";"})
    BY <2>1, PiecesProperties
  <2>3. Params(s) = params
    BY <1>2 DEF Params
  <2> HIDE DEF ps, from, to
  <2>4. ps \in Seq(Span) /\ n \in Nat /\ DOMAIN ps = 1..n
    BY <2>2, LenProperties DEF IsPieces
  <2>5. \A i \in 1..n : ps[i] \in Span
    BY <2>4, ElementOfSeq
  <2>6. \A i \in 1..n : /\ from <= ps[i].from /\ ps[i].from <= ps[i].to /\ ps[i].to <= to
                        /\ ps[i].from \in Nat /\ ps[i].to \in Nat
    BY <2>2, <2>5 DEF IsPieces, Span
  <2>clean. \A i \in 1..n : \A o \in ps[i].from..ps[i].to-1 : s[o+1] \notin {"&", ";"}
    BY <2>2 DEF IsPieces
  <2>7. DOMAIN params = 1..n /\ \A i \in 1..n : params[i] = Param(s, ps[i])
    BY <2>4
  <2> HIDE DEF params
  <2>8. ASSUME NEW i \in 1..n PROVE ParamOk(params[i], s, ps[i])
    <3>1. Text(s, params[i].key) # <<>>
      BY <2>3, <2>7 DEF QueryOk
    <3>2. ps[i] \in Span /\ ps[i].from <= ps[i].to /\ ps[i].to <= Len(s)
      <4>1. ps[i].to <= to /\ ps[i].to \in Nat /\ ps[i].from <= ps[i].to
        BY <2>6
      <4>2. ps[i].to <= Len(s)
        BY <2>1, <4>1
      <4>3. QED
        BY <2>5, <4>1, <4>2
    <3>3. params[i] = Param(s, ps[i])
      BY <2>7
    <3>4. QED
      BY <3>1, <3>2, <3>3, ParamProperties
  <2>9. params \in Seq(Pair) /\ Len(params) = n
    <3>1. \A i \in 1..n : params[i] \in Pair
      BY <2>8 DEF ParamOk
    <3>2. params \in [1..n -> Pair]
      <4>1. params = [i \in 1..n |-> Param(s, ps[i])]
        BY <2>4 DEF params
      <4>2. QED
        BY <3>1, <4>1
    <3> HIDE DEF n
    <3>3. params \in Seq(Pair)
      BY <2>4, <3>2, SeqDef
    <3>4. Len(params) = n
      BY <2>4, <2>7, <3>3, LenProperties
    <3>5. QED
      BY <3>3, <3>4
  <2>10. \A o \in from..to-1 : s[o+1] # "#"
    BY <2>found DEF IsFound
  <2>11. to < Len(s) => s[to+1] = "#"
    BY <2>found DEF IsFound
  <2>12. ASSUME NEW i \in 1..n
         PROVE  LET p == params[i]
                IN /\ from <= p.key.from /\ p.key.from < p.key.to
                   /\ p.value.from = p.key.to + 1
                   /\ p.value.from <= p.value.to /\ p.value.to <= to
                   /\ s[p.key.to+1] = "="
                   /\ \A o \in p.key.from..p.key.to-1 : s[o+1] \notin {"=", "&", ";", "#"}
                   /\ \A o \in p.value.from..p.value.to-1 : s[o+1] \notin {"=", "&", ";", "#"}
                   /\ p.value.to < Len(s) => s[p.value.to+1] \in {"&", ";", "#"}
    <3> DEFINE k == params[i].key
               v == params[i].value
               a == ps[i]
    <3>1. /\ k \in Span /\ v \in Span
          /\ a.from <= k.from /\ k.from < k.to /\ v.from = k.to + 1
          /\ v.from <= v.to /\ v.to = a.to
      BY <2>8 DEF ParamOk, Pair
    <3>equals. s[k.to+1] = "="
      BY <2>8 DEF ParamOk
    <3>key. \A o \in k.from..k.to-1 : s[o+1] # "="
      BY <2>8 DEF ParamOk
    <3>value. \A o \in v.from..v.to-1 : s[o+1] # "="
      BY <2>8 DEF ParamOk
    <3>2. /\ from <= a.from /\ a.from <= a.to /\ a.to <= to
          /\ a.from \in Nat /\ a.to \in Nat
      BY <2>6
    <3>3. a.to < Len(s) => s[a.to+1] \in {"&", ";", "#"}
      <4>1. CASE i = n
        <5>1. a.to = to
          BY <2>2, <4>1 DEF IsPieces
        <5>2. QED
          BY <2>11, <5>1
      <4>2. CASE i # n
        <5>1. i \in 1..n-1
          <6>1. n \in Nat
            BY <2>4
          <6> HIDE DEF n
          <6>2. QED
            BY <4>2, <6>1
        <5>2. s[ps[i].to+1] \in {"&", ";"}
          BY <2>2, <5>1 DEF IsPieces
        <5>3. QED
          BY <5>2
      <4>3. QED
        BY <4>1, <4>2
    <3> HIDE DEF k, v, a
    <3>4. k.from \in Nat /\ k.to \in Nat /\ v.from \in Nat /\ v.to \in Nat
      BY <3>1 DEF Span
    <3>5. ASSUME NEW o \in a.from..a.to-1 PROVE s[o+1] \notin {"&", ";", "#"}
      <4>1. o \in from..to-1
        BY <2>1, <3>2
      <4>2. QED
        BY <2>10, <2>clean, <4>1 DEF a
    <3>6. \A o \in k.from..k.to-1 : o \in a.from..a.to-1
      BY <3>1, <3>2, <3>4
    <3>7. \A o \in v.from..v.to-1 : o \in a.from..a.to-1
      BY <3>1, <3>2, <3>4
    <3>8. ASSUME NEW o \in k.from..k.to-1 PROVE s[o+1] \notin {"=", "&", ";", "#"}
      <4>1. s[o+1] # "="
        BY <3>key
      <4>2. o \in a.from..a.to-1
        BY <3>6
      <4>3. s[o+1] \notin {"&", ";", "#"}
        BY <3>5, <4>2
      <4>4. QED
        BY <4>1, <4>3
    <3>9. ASSUME NEW o \in v.from..v.to-1 PROVE s[o+1] \notin {"=", "&", ";", "#"}
      <4>1. s[o+1] # "="
        BY <3>value
      <4>2. o \in a.from..a.to-1
        BY <3>7
      <4>3. s[o+1] \notin {"&", ";", "#"}
        BY <3>5, <4>2
      <4>4. QED
        BY <4>1, <4>3
    <3>10. from <= k.from /\ v.to <= to
      BY <2>1, <3>1, <3>2, <3>4
    <3>11. v.to < Len(s) => s[v.to+1] \in {"&", ";", "#"}
      BY <3>1, <3>3
    <3>12. QED
      BY <3>1, <3>equals, <3>8, <3>9, <3>10, <3>11 DEF k, v
  <2>13. ASSUME NEW i \in 1..n, NEW j \in 1..n, i < j
         PROVE  params[i].value.to < params[j].key.from
    <3>1. ps[i].to < ps[j].from
      BY <2>2, <2>13 DEF IsPieces
    <3>2. params[i].value.to = ps[i].to
      BY <2>8 DEF ParamOk
    <3>3. ps[j].from <= params[j].key.from /\ params[j].key.from \in Nat
      BY <2>8 DEF ParamOk, Pair, Span
    <3>4. ps[i].to \in Nat /\ ps[j].from \in Nat
      BY <2>6
    <3>5. QED
      BY <3>1, <3>2, <3>3, <3>4
  <2>14. ParamsOk(s, params)
    BY <1>2, <2>9, <2>12, <2>13 DEF ParamsOk, from, to
  <2>15. QED
    BY <2>3, <2>14
<1>3. QED
  BY <1>1, <1>2
-----------------------------------------------------------------------------
(* The views of a url: of a string that decomposes, all as decompose() made *)
(* them, but for the path, of which parent() may have taken the end.       *)
UrlRecord == [full : Seq(Token), null : BOOLEAN,
              scheme : Span, user : Span, password : Span, domain : Span,
              path : Seq(Span), pathStr : Span \cup {Garbage},
              params : Seq(Pair), fragment : Span]

Shape(u) ==
    /\ u \in UrlRecord
    /\ WellFormed(u.full)
    /\ PathOk(u.full, u.path)
    /\ u.path # <<>> => u.pathStr = PathStr(u.path)
    /\ u.path = <<>> => u.pathStr \in {Null, Garbage}
    /\ LET d == Decomposed(u.full)
       IN /\ u.scheme = d.scheme /\ u.user = d.user /\ u.password = d.password
          /\ u.domain = d.domain /\ u.params = d.params /\ u.fragment = d.fragment

(* The path string reaches from the first segment to the last.             *)
LEMMA PathStrProperties ==
  ASSUME NEW s \in Seq(Token), AuthorityOk(s), NEW path, PathOk(s, path), path # <<>>
  PROVE  /\ PathStr(path) = View(path[1].from, path[Len(path)].to)
         /\ PathStr(path) \in Span
         /\ PathStr(path).from = path[1].from /\ PathStr(path).to = path[Len(path)].to
         /\ PathStart(s) <= PathStr(path).from /\ PathStr(path).from <= PathStr(path).to
         /\ PathStr(path).to <= PathEnd(s)
<1> DEFINE n == Len(path)
<1>1. path \in Seq(Span) /\ n \in Nat \ {0}
  BY EmptySeq DEF PathOk
<1> HIDE DEF n
<1>2. 1 \in 1..n /\ n \in 1..n
  BY <1>1
<1>3. path[1] \in Span /\ path[n] \in Span
  BY <1>1, <1>2, ElementOfSeq DEF n
<1>4. path[1].from \in Nat /\ path[1].to \in Nat /\ path[n].from \in Nat /\ path[n].to \in Nat
  BY <1>3 DEF Span
<1>5. /\ PathStart(s) <= path[1].from /\ path[1].from <= path[1].to
      /\ path[n].from <= path[n].to /\ path[n].to <= PathEnd(s)
  BY <1>2 DEF PathOk, n
<1>6. n = 1 \/ path[1].to < path[n].from
  <2>1. n # 1 => 1 < n
    BY <1>1
  <2>2. QED
    BY <1>2, <2>1 DEF PathOk, n
<1>7. path[1].from <= path[n].to
  <2>1. CASE n = 1
    BY <1>5, <2>1
  <2>2. CASE path[1].to < path[n].from
    BY <1>4, <1>5, <2>2
  <2>3. QED
    BY <1>6, <2>1, <2>2
<1>8. Head(path) = path[1]
  BY <1>1
<1>9. PathStr(path) = View(path[1].from, path[n].to)
  BY <1>8 DEF PathStr, Last, n
<1>10. /\ View(path[1].from, path[n].to) \in Span
       /\ View(path[1].from, path[n].to).from = path[1].from
       /\ View(path[1].from, path[n].to).to = path[n].to
  BY <1>4 DEF View, Span
<1>11. QED
  BY <1>5, <1>7, <1>9, <1>10 DEF n

LEMMA NullIsSpan == Null \in Span /\ Null.from = 0 /\ Null.to = 0
  BY DEF Null, View, Span

LEMMA FragmentProperties ==
  ASSUME NEW s \in Seq(Token), AuthorityOk(s)
  PROVE  /\ Fragment(s) \in Span
         /\ Fragment(s) # Null => /\ QueryEnd(s) + 1 <= Fragment(s).from
                                  /\ Fragment(s).from <= Fragment(s).to
                                  /\ Fragment(s).to = Len(s)
<1>1. QueryEnd(s) \in Nat /\ Len(s) \in Nat
  BY PathBounds
<1>2. CASE ~StartsWith(s, QueryEnd(s), <<"#">>)
  BY <1>2, NullIsSpan DEF Fragment
<1>3. CASE StartsWith(s, QueryEnd(s), <<"#">>)
  <2>1. QueryEnd(s) < Len(s)
    BY <1>1, <1>3, StartsWithOne
  <2>2. Fragment(s) = View(QueryEnd(s) + 1, Len(s))
    BY <1>3 DEF Fragment
  <2>3. /\ View(QueryEnd(s) + 1, Len(s)) \in Span
        /\ View(QueryEnd(s) + 1, Len(s)).from = QueryEnd(s) + 1
        /\ View(QueryEnd(s) + 1, Len(s)).to = Len(s)
    BY <1>1 DEF View, Span
  <2>4. QueryEnd(s) + 1 <= Len(s)
    BY <1>1, <2>1
  <2>5. QED
    BY <1>1, <2>2, <2>3, <2>4
<1>4. QED
  BY <1>2, <1>3

(* A view is empty at the start of the string, or lies between two offsets. *)
Within(lo, v, hi) == v \in Span /\ (v # Null => lo <= v.from /\ v.from <= v.to /\ v.to <= hi)

(* The parts of the authority, one after the other.                        *)
LEMMA AuthorityViews ==
  ASSUME NEW s \in Seq(Token), AuthorityOk(s)
  PROVE  \E b, c \in Nat :
            LET d == Decomposed(s)
            IN /\ SchemeEnd(s) <= b /\ b <= c /\ c <= PathStart(s)
               /\ Within(0, d.scheme, SchemeEnd(s))
               /\ Within(SchemeEnd(s), d.user, b)
               /\ Within(b, d.password, c)
               /\ Within(c, d.domain, PathStart(s))
<1> DEFINE d == Decomposed(s)
           e == SchemeEnd(s)
<1>1. e \in Nat /\ PathStart(s) \in Nat /\ e <= PathStart(s)
  BY PathBounds
<1>2. \A i, j \in Nat : View(i, j) \in Span /\ View(i, j).from = i /\ View(i, j).to = j
  BY DEF View, Span
<1>3. d.scheme = View(0, e)
  BY DEF Decomposed
<1>4. Within(0, d.scheme, e)
  BY <1>1, <1>2, <1>3 DEF Within
<1>5. CASE ~HasAuthority(s)
  <2>1. d.user = Null /\ d.password = Null /\ d.domain = Null
    BY <1>5 DEF Decomposed
  <2>2. Within(e, d.user, e) /\ Within(e, d.password, e) /\ Within(e, d.domain, PathStart(s))
    BY <2>1, NullIsSpan DEF Within
  <2> HIDE DEF d, e
  <2>3. e <= e
    BY <1>1
  <2>4. QED
    BY <1>1, <1>4, <2>2, <2>3 DEF d, e
<1>6. CASE HasAuthority(s)
  <2> DEFINE a == AuthStart(s)
             z == AuthEnd(s)
             at == At(s)
             u == UserColon(s)
             ds == DomainStart(s)
             de == DomainEnd(s)
  <2>1. /\ a = e + 3 /\ PathStart(s) = z + 1
        /\ z \in a..Len(s) /\ at \in a..z /\ u \in a..at
        /\ HasUser(s) => u < at
        /\ ds \in a..z
        /\ HasUser(s) => ds = at + 1
        /\ de \in ds..z
    BY <1>6, AuthorityProperties DEF IsFound
  <2>2. d.domain = View(ds, de)
    BY <1>6 DEF Decomposed
  <2>3. HasUser(s) => d.user = View(a, u) /\ d.password = View(u + 1, at)
    BY <1>6 DEF Decomposed
  <2>4. ~HasUser(s) => d.user = Null /\ d.password = Null
    BY DEF Decomposed
  <2> HIDE DEF d, e, a, z, at, u, ds, de
  <2>5. CASE HasUser(s)
    <3>1. /\ a \in Nat /\ u \in Nat /\ u + 1 \in Nat /\ at \in Nat /\ ds \in Nat /\ de \in Nat
          /\ e <= a /\ a <= u /\ u <= u + 1 /\ u + 1 <= at /\ at <= ds /\ ds <= de
          /\ de <= PathStart(s) /\ e <= u /\ u <= at /\ at <= PathStart(s)
      BY <1>1, <2>1, <2>5
    <3>2. d.user = View(a, u) /\ d.password = View(u + 1, at)
      BY <2>3, <2>5
    <3>3. Within(e, d.user, u) /\ Within(u, d.password, at) /\ Within(at, d.domain, PathStart(s))
      BY <1>2, <2>2, <3>1, <3>2 DEF Within
    <3>4. QED
      BY <1>4, <3>1, <3>3 DEF d, e
  <2>6. CASE ~HasUser(s)
    <3>1. ds \in Nat /\ de \in Nat /\ e <= ds /\ ds <= de /\ de <= PathStart(s) /\ e <= e
      BY <1>1, <2>1
    <3>2. Within(e, d.user, e) /\ Within(e, d.password, e)
      BY <2>4, <2>6, NullIsSpan DEF Within
    <3>3. Within(e, d.domain, PathStart(s))
      BY <1>2, <2>2, <3>1 DEF Within
    <3>4. QED
      BY <1>1, <1>4, <3>1, <3>2, <3>3 DEF d, e
  <2>7. QED
    BY <2>5, <2>6
<1>7. QED
  BY <1>5, <1>6

(* All parts, those of the path and the query as sets.                     *)
PathViews(u) == Range(u.path)
ParamViews(u) == UNION {{p.key, p.value} : p \in Range(u.params)}

Layout(u, b, c) ==
    /\ b \in Nat /\ c \in Nat
    /\ SchemeEnd(u.full) <= b /\ b <= c /\ c <= PathStart(u.full)
    /\ Within(0, u.scheme, SchemeEnd(u.full))
    /\ Within(SchemeEnd(u.full), u.user, b)
    /\ Within(b, u.password, c)
    /\ Within(c, u.domain, PathStart(u.full))
    /\ \A v \in PathViews(u) : Within(PathStart(u.full), v, PathEnd(u.full))
    /\ \A v \in ParamViews(u) : Within(PathEnd(u.full), v, QueryEnd(u.full))
    /\ Within(QueryEnd(u.full), u.fragment, Len(u.full))

LEMMA ShapeLayout ==
  ASSUME NEW u, Shape(u)
  PROVE  \E b, c \in Nat : Layout(u, b, c)
<1> DEFINE s == u.full
<1>1. s \in Seq(Token) /\ AuthorityOk(s) /\ QueryOk(s)
  BY DEF Shape, UrlRecord, WellFormed
<1>2. /\ u.scheme = Decomposed(s).scheme /\ u.user = Decomposed(s).user
      /\ u.password = Decomposed(s).password /\ u.domain = Decomposed(s).domain
      /\ u.params = Decomposed(s).params /\ u.fragment = Decomposed(s).fragment
  BY DEF Shape
<1>3. Decomposed(s).params = Params(s) /\ Decomposed(s).fragment = Fragment(s)
  BY DEF Decomposed
<1>4. PathOk(s, u.path)
  BY DEF Shape
<1> HIDE DEF s
<1>5. PICK b \in Nat, c \in Nat :
            /\ SchemeEnd(s) <= b /\ b <= c /\ c <= PathStart(s)
            /\ Within(0, u.scheme, SchemeEnd(s))
            /\ Within(SchemeEnd(s), u.user, b)
            /\ Within(b, u.password, c)
            /\ Within(c, u.domain, PathStart(s))
  BY <1>1, <1>2, AuthorityViews
<1>6. ASSUME NEW v \in PathViews(u) PROVE Within(PathStart(s), v, PathEnd(s))
  <2>1. DOMAIN u.path = 1..Len(u.path)
    BY <1>4, LenProperties DEF PathOk
  <2>2. PICK i \in 1..Len(u.path) : v = u.path[i]
    BY <2>1 DEF PathViews, Range
  <2>3. u.path[i] \in Span
    BY <1>4, ElementOfSeq DEF PathOk
  <2>4. QED
    BY <1>4, <2>2, <2>3 DEF PathOk, Within
<1>7. ASSUME NEW v \in ParamViews(u) PROVE Within(PathEnd(s), v, QueryEnd(s))
  <2> DEFINE params == u.params
  <2>1. ParamsOk(s, params)
    BY <1>1, <1>2, <1>3, ParamsAreOk
  <2>2. DOMAIN params = 1..Len(params)
    BY <2>1, LenProperties DEF ParamsOk
  <2>3. PICK i \in 1..Len(params) : v \in {params[i].key, params[i].value}
    BY <2>2 DEF ParamViews, Range
  <2> DEFINE p == params[i]
  <2>4. p \in Pair
    BY <2>1, ElementOfSeq DEF ParamsOk
  <2>5. /\ PathEnd(s) + 1 <= p.key.from /\ p.key.from < p.key.to /\ p.value.from = p.key.to + 1
        /\ p.value.from <= p.value.to /\ p.value.to <= QueryEnd(s)
    BY <2>1 DEF ParamsOk
  <2> HIDE DEF p, params
  <2>6. /\ p.key \in Span /\ p.value \in Span
        /\ p.key.from \in Nat /\ p.key.to \in Nat /\ p.value.from \in Nat /\ p.value.to \in Nat
    BY <2>4 DEF Pair, Span
  <2>7. PathEnd(s) \in Nat /\ QueryEnd(s) \in Nat
    BY <1>1, PathBounds
  <2>8. /\ PathEnd(s) <= p.key.from /\ p.key.from <= p.key.to /\ p.key.to <= QueryEnd(s)
        /\ PathEnd(s) <= p.value.from
    <3> DEFINE i1 == p.key.from
               i2 == p.key.to
               i3 == p.value.from
               i4 == p.value.to
               lo == PathEnd(s)
               hi == QueryEnd(s)
    <3>1. /\ lo + 1 <= i1 /\ i1 < i2 /\ i3 = i2 + 1 /\ i3 <= i4 /\ i4 <= hi
          /\ i1 \in Nat /\ i2 \in Nat /\ i3 \in Nat /\ i4 \in Nat /\ lo \in Nat /\ hi \in Nat
      BY <2>5, <2>6, <2>7
    <3> HIDE DEF i1, i2, i3, i4, lo, hi
    <3>2. lo <= i1 /\ i1 <= i2 /\ i2 <= hi /\ lo <= i3
      BY <3>1
    <3>3. QED
      BY <3>2 DEF i1, i2, i3, i4, lo, hi
  <2>9. Within(PathEnd(s), p.key, QueryEnd(s)) /\ Within(PathEnd(s), p.value, QueryEnd(s))
    BY <2>5, <2>6, <2>8 DEF Within
  <2>10. v = p.key \/ v = p.value
    BY <2>3 DEF p
  <2>11. QED
    BY <2>9, <2>10
<1>8. Within(QueryEnd(s), u.fragment, Len(s))
  <2>1. QueryEnd(s) \in Nat /\ Len(s) \in Nat
    BY <1>1, PathBounds
  <2> DEFINE f == Fragment(s)
  <2>2. f \in Span /\ (f # Null => QueryEnd(s) + 1 <= f.from /\ f.from <= f.to /\ f.to = Len(s))
    BY <1>1, FragmentProperties
  <2> HIDE DEF f
  <2>3. f.from \in Nat /\ f.to \in Nat
    BY <2>2 DEF Span
  <2>4. Within(QueryEnd(s), f, Len(s))
    BY <2>1, <2>2, <2>3 DEF Within
  <2>5. QED
    BY <1>2, <1>3, <2>4 DEF f
<1>9. Layout(u, b, c)
  BY <1>5, <1>6, <1>7, <1>8 DEF Layout, s
<1>10. QED
  BY <1>9
-----------------------------------------------------------------------------
(* What holds of a url because of its shape.                               *)

(* Views between offsets that ascend do not overlap.                       *)
LEMMA WithinPrecedes ==
  ASSUME NEW v, NEW w, NEW l1 \in Nat, NEW h1 \in Nat, NEW l2 \in Nat, NEW h2 \in Nat,
         Within(l1, v, h1), Within(l2, w, h2), h1 <= l2
  PROVE  Precedes(v, w)
<1> SUFFICES ASSUME v # Null, w # Null PROVE v.to <= w.from
  BY DEF Precedes
<1>1. v.to <= h1 /\ l2 <= w.from /\ v \in Span /\ w \in Span
  BY DEF Within
<1>2. v.to \in Nat /\ w.from \in Nat
  BY <1>1 DEF Span
<1> DEFINE a == v.to
           b == w.from
<1> HIDE DEF a, b
<1>3. a <= b
  BY <1>1, <1>2 DEF a, b
<1>4. QED
  BY <1>3 DEF a, b

LEMMA LayoutNumbers ==
  ASSUME NEW u, Shape(u), NEW b, NEW c, Layout(u, b, c)
  PROVE  LET s == u.full
         IN /\ SchemeEnd(s) \in Nat /\ b \in Nat /\ c \in Nat /\ PathStart(s) \in Nat
            /\ PathEnd(s) \in Nat /\ QueryEnd(s) \in Nat /\ Len(s) \in Nat
            /\ SchemeEnd(s) <= b /\ b <= c /\ c <= PathStart(s)
            /\ PathStart(s) <= PathEnd(s) /\ PathEnd(s) <= QueryEnd(s) /\ QueryEnd(s) <= Len(s)
<1>1. u.full \in Seq(Token) /\ AuthorityOk(u.full)
  BY DEF Shape, UrlRecord, WellFormed
<1>2. QED
  BY <1>1, PathBounds DEF Layout

LEMMA ShapeInBounds ==
  ASSUME NEW u, Shape(u), NEW v \in Views(u)
  PROVE  v.from \in 0..v.to /\ v.to <= Len(u.full)
<1>1. PICK b \in Nat, c \in Nat : Layout(u, b, c)
  BY ShapeLayout
<1> DEFINE e == SchemeEnd(u.full)
           ps == PathStart(u.full)
           pe == PathEnd(u.full)
           qe == QueryEnd(u.full)
           len == Len(u.full)
<1>2. /\ e \in Nat /\ b \in Nat /\ c \in Nat /\ ps \in Nat /\ pe \in Nat /\ qe \in Nat /\ len \in Nat
      /\ e <= b /\ b <= c /\ c <= ps /\ ps <= pe /\ pe <= qe /\ qe <= len
  BY <1>1, LayoutNumbers
<1>3. \/ v = u.scheme \/ v = u.user \/ v = u.password \/ v = u.domain \/ v = u.fragment
      \/ v \in PathViews(u) \/ v \in ParamViews(u)
  BY DEF Views, PathViews, ParamViews
<1>4. /\ Within(0, u.scheme, e) /\ Within(e, u.user, b) /\ Within(b, u.password, c)
      /\ Within(c, u.domain, ps) /\ Within(qe, u.fragment, len)
      /\ \A x \in PathViews(u) : Within(ps, x, pe)
      /\ \A x \in ParamViews(u) : Within(pe, x, qe)
  BY <1>1 DEF Layout
<1> HIDE DEF e, ps, pe, qe, len
<1>5. e <= len /\ b <= len /\ c <= len /\ ps <= len /\ pe <= len
  BY <1>2
<1>6. \E lo, hi \in Nat : Within(lo, v, hi) /\ hi <= len
  <2>1. CASE v = u.scheme
    BY <1>2, <1>4, <1>5, <2>1
  <2>2. CASE v = u.user
    BY <1>2, <1>4, <1>5, <2>2
  <2>3. CASE v = u.password
    BY <1>2, <1>4, <1>5, <2>3
  <2>4. CASE v = u.domain
    BY <1>2, <1>4, <1>5, <2>4
  <2>5. CASE v = u.fragment
    <3>1. len <= len
      BY <1>2
    <3>2. QED
      BY <1>2, <1>4, <2>5, <3>1
  <2>6. CASE v \in PathViews(u)
    BY <1>2, <1>4, <1>5, <2>6
  <2>7. CASE v \in ParamViews(u)
    BY <1>2, <1>4, <1>5, <2>7
  <2>8. QED
    BY <1>3, <2>1, <2>2, <2>3, <2>4, <2>5, <2>6, <2>7
<1>7. PICK lo \in Nat, hi \in Nat : Within(lo, v, hi) /\ hi <= len
  BY <1>6
<1>8. v \in Span
  BY <1>7 DEF Within
<1>9. v.from \in Nat /\ v.to \in Nat
  BY <1>8 DEF Span
<1>10. CASE v = Null
  BY <1>2, <1>10, NullIsSpan DEF len
<1>11. CASE v # Null
  <2>1. v.from <= v.to /\ v.to <= hi
    BY <1>7, <1>11 DEF Within
  <2> DEFINE f == v.from
             t == v.to
  <2>2. f \in Nat /\ t \in Nat /\ f <= t /\ t <= hi
    BY <1>9, <2>1
  <2> HIDE DEF f, t
  <2>3. f \in 0..t /\ t <= len
    BY <1>2, <1>7, <2>2
  <2>4. QED
    BY <2>3 DEF f, t, len
<1>12. QED
  BY <1>10, <1>11

LEMMA ShapeInOrder == ASSUME Shape(url) PROVE PartsInOrder
<1>1. PICK b \in Nat, c \in Nat : Layout(url, b, c)
  BY ShapeLayout
<1> DEFINE s == url.full
           e == SchemeEnd(s)
           ps == PathStart(s)
           pe == PathEnd(s)
           qe == QueryEnd(s)
           len == Len(s)
           parts == << {url.scheme}, {url.user}, {url.password}, {url.domain}, Range(url.path),
                       UNION {{p.key, p.value} : p \in Range(url.params)}, {url.fragment} >>
           lo == <<0, e, b, c, ps, pe, qe>>
           hi == <<e, b, c, ps, pe, qe, len>>
<1>2. /\ e \in Nat /\ b \in Nat /\ c \in Nat /\ ps \in Nat /\ pe \in Nat /\ qe \in Nat /\ len \in Nat
      /\ e <= b /\ b <= c /\ c <= ps /\ ps <= pe /\ pe <= qe /\ qe <= len
  BY <1>1, LayoutNumbers
<1>3. /\ Within(0, url.scheme, e) /\ Within(e, url.user, b) /\ Within(b, url.password, c)
      /\ Within(c, url.domain, ps) /\ Within(qe, url.fragment, len)
      /\ \A x \in PathViews(url) : Within(ps, x, pe)
      /\ \A x \in ParamViews(url) : Within(pe, x, qe)
  BY <1>1 DEF Layout
<1>4. /\ parts[1] = {url.scheme} /\ parts[2] = {url.user} /\ parts[3] = {url.password}
      /\ parts[4] = {url.domain} /\ parts[5] = PathViews(url) /\ parts[6] = ParamViews(url)
      /\ parts[7] = {url.fragment}
  BY DEF PathViews, ParamViews
<1>5. /\ lo[1] = 0 /\ lo[2] = e /\ lo[3] = b /\ lo[4] = c /\ lo[5] = ps /\ lo[6] = pe /\ lo[7] = qe
      /\ hi[1] = e /\ hi[2] = b /\ hi[3] = c /\ hi[4] = ps /\ hi[5] = pe /\ hi[6] = qe /\ hi[7] = len
  OBVIOUS
<1> HIDE DEF parts, lo, hi, e, ps, pe, qe, len
<1>6. \A i \in 1..7 : i = 1 \/ i = 2 \/ i = 3 \/ i = 4 \/ i = 5 \/ i = 6 \/ i = 7
  OBVIOUS
<1>7. ASSUME NEW i \in 1..7, NEW v \in parts[i] PROVE Within(lo[i], v, hi[i])
  <2>1. CASE i = 1
    BY <1>3, <1>4, <1>5, <1>7, <2>1
  <2>2. CASE i = 2
    BY <1>3, <1>4, <1>5, <1>7, <2>2
  <2>3. CASE i = 3
    BY <1>3, <1>4, <1>5, <1>7, <2>3
  <2>4. CASE i = 4
    BY <1>3, <1>4, <1>5, <1>7, <2>4
  <2>5. CASE i = 5
    BY <1>3, <1>4, <1>5, <1>7, <2>5
  <2>6. CASE i = 6
    BY <1>3, <1>4, <1>5, <1>7, <2>6
  <2>7. CASE i = 7
    BY <1>3, <1>4, <1>5, <1>7, <2>7
  <2>8. QED
    BY <1>6, <2>1, <2>2, <2>3, <2>4, <2>5, <2>6, <2>7
<1>8. \A i \in 1..7 : lo[i] \in Nat /\ hi[i] \in Nat
  BY <1>2, <1>5, <1>6
<1>9. ASSUME NEW i \in 1..7, NEW j \in 1..7, i < j PROVE hi[i] <= lo[j]
  <2>1. CASE i = 1
    BY <1>2, <1>5, <1>6, <1>9, <2>1
  <2>2. CASE i = 2
    BY <1>2, <1>5, <1>6, <1>9, <2>2
  <2>3. CASE i = 3
    BY <1>2, <1>5, <1>6, <1>9, <2>3
  <2>4. CASE i = 4
    BY <1>2, <1>5, <1>6, <1>9, <2>4
  <2>5. CASE i = 5
    BY <1>2, <1>5, <1>6, <1>9, <2>5
  <2>6. CASE i = 6
    BY <1>2, <1>5, <1>6, <1>9, <2>6
  <2>7. CASE i = 7
    BY <1>9, <2>7
  <2>8. QED
    BY <1>6, <2>1, <2>2, <2>3, <2>4, <2>5, <2>6, <2>7
<1>10. \A i, j \in 1..7 : i < j => \A v \in parts[i], w \in parts[j] : Precedes(v, w)
  <2> SUFFICES ASSUME NEW i \in 1..7, NEW j \in 1..7, i < j, NEW v \in parts[i], NEW w \in parts[j]
               PROVE  Precedes(v, w)
    OBVIOUS
  <2>1. Within(lo[i], v, hi[i]) /\ Within(lo[j], w, hi[j]) /\ hi[i] <= lo[j]
    BY <1>7, <1>9
  <2>2. QED
    BY <1>8, <2>1, WithinPrecedes
<1>11. PathOk(s, url.path) /\ s \in Seq(Token) /\ AuthorityOk(s) /\ QueryOk(s)
       /\ url.params = Params(s)
  BY DEF Shape, UrlRecord, WellFormed, Decomposed
<1>12. ParamsOk(s, url.params)
  BY <1>11, ParamsAreOk
<1> HIDE DEF s
<1>13. DOMAIN url.path = 1..Len(url.path) /\ DOMAIN url.params = 1..Len(url.params)
  BY <1>11, <1>12, LenProperties DEF PathOk, ParamsOk
<1>14. ASSUME NEW i \in DOMAIN url.path, NEW j \in DOMAIN url.path, i < j
       PROVE  Precedes(url.path[i], url.path[j])
  <2> DEFINE v == url.path[i].to
             w == url.path[j].from
  <2>1. v < w
    BY <1>11, <1>13, <1>14 DEF PathOk
  <2>2. url.path[i] \in Span /\ url.path[j] \in Span
    BY <1>11, <1>13, ElementOfSeq DEF PathOk
  <2>3. v \in Nat /\ w \in Nat
    BY <2>2 DEF Span
  <2> HIDE DEF v, w
  <2>4. v <= w
    BY <2>1, <2>3
  <2>5. QED
    BY <2>4 DEF v, w, Precedes
<1>15. ASSUME NEW i \in DOMAIN url.params, NEW j \in DOMAIN url.params
       PROVE  LET p == url.params[i]
                  q == url.params[j]
              IN Precedes(p.key, p.value) /\ (i < j => Precedes(p.value, q.key))
  <2> DEFINE p == url.params[i]
             q == url.params[j]
  <2>1. p \in Pair /\ q \in Pair
    BY <1>12, <1>13, ElementOfSeq DEF ParamsOk
  <2>2. p.value.from = p.key.to + 1 /\ (i < j => p.value.to < q.key.from)
    BY <1>12, <1>13 DEF ParamsOk
  <2> HIDE DEF p, q
  <2> DEFINE k == p.key.to
             v == p.value.from
             vt == p.value.to
             qk == q.key.from
  <2>3. k \in Nat /\ v \in Nat /\ vt \in Nat /\ qk \in Nat /\ v = k + 1 /\ (i < j => vt < qk)
    BY <2>1, <2>2 DEF Pair, Span
  <2> HIDE DEF k, v, vt, qk
  <2>4. k <= v /\ (i < j => vt <= qk)
    BY <2>3
  <2>5. Precedes(p.key, p.value) /\ (i < j => Precedes(p.value, q.key))
    BY <2>4 DEF k, v, vt, qk, Precedes
  <2>6. QED
    BY <2>5 DEF p, q
<1>16. QED
  BY <1>10, <1>14, <1>15 DEF PartsInOrder, parts
LEMMA ShapeIsClean == ASSUME Shape(url) PROVE PartsAreClean
<1> DEFINE s == url.full
           path == url.path
           params == url.params
<1>1. PathOk(s, path) /\ s \in Seq(Token) /\ AuthorityOk(s) /\ QueryOk(s) /\ params = Params(s)
  BY DEF Shape, UrlRecord, WellFormed, Decomposed
<1>2. ParamsOk(s, params)
  BY <1>1, ParamsAreOk
<1>3. /\ PathStart(s) \in Nat /\ PathEnd(s) \in Nat /\ QueryEnd(s) \in Nat /\ Len(s) \in Nat
      /\ PathEnd(s) <= QueryEnd(s) /\ QueryEnd(s) <= Len(s)
  BY <1>1, PathBounds
<1> HIDE DEF s, path, params
<1>4. /\ path \in Seq(Span) /\ DOMAIN path = 1..Len(path) /\ Len(path) \in Nat
      /\ params \in Seq(Pair) /\ DOMAIN params = 1..Len(params)
  BY <1>1, <1>2, LenProperties DEF PathOk, ParamsOk
<1>5. ASSUME NEW i \in DOMAIN path
      PROVE  \A c \in Range(Text(s, path[i])) : c \notin {"/", "?", "#"}
  <2>1. path[i] \in Span /\ path[i].to <= PathEnd(s)
    BY <1>1, <1>4, ElementOfSeq DEF PathOk
  <2>2. path[i].to \in Nat
    BY <2>1 DEF Span
  <2>3. path[i].to <= Len(s)
    BY <1>3, <2>1, <2>2
  <2>4. \A c \in Range(Text(s, path[i])) : \E o \in path[i].from..path[i].to-1 : c = s[o+1]
    BY <1>1, <2>1, <2>3, TextProperties
  <2>5. \A o \in path[i].from..path[i].to-1 : s[o+1] \notin {"/", "?", "#"}
    BY <1>1, <1>4 DEF PathOk
  <2>6. QED
    BY <2>4, <2>5
<1>6. ASSUME NEW i \in DOMAIN path, i > 1
      PROVE  path[i].from = path[i-1].to + 1 /\ s[path[i].from] = "/"
  <2>1. i - 1 \in 1..Len(path)-1 /\ (i - 1) + 1 = i
    BY <1>4, <1>6
  <2>2. path[(i-1)+1].from = path[i-1].to + 1 /\ s[path[i-1].to+1] = "/"
    BY <1>1, <2>1 DEF PathOk
  <2>3. QED
    BY <2>1, <2>2
<1>7. ASSUME NEW p \in Range(params)
      PROVE  /\ p.key.from < p.key.to /\ s[p.key.to + 1] = "="
             /\ p.value.from = p.key.to + 1
             /\ (Range(Text(s, p.key)) \cup Range(Text(s, p.value))) \cap {"=", "&", ";", "#"} = {}
             /\ p.value.to < Len(s) => s[p.value.to + 1] \in {"&", ";", "#"}
  <2>1. PICK i \in 1..Len(params) : p = params[i]
    BY <1>4 DEF Range
  <2>2. p \in Pair
    BY <1>4, <2>1, ElementOfSeq
  <2>3. /\ p.key.from < p.key.to /\ p.value.from = p.key.to + 1
        /\ p.value.from <= p.value.to /\ p.value.to <= QueryEnd(s)
    BY <1>2, <2>1 DEF ParamsOk
  <2>4. s[p.key.to+1] = "=" /\ (p.value.to < Len(s) => s[p.value.to+1] \in {"&", ";", "#"})
    BY <1>2, <2>1 DEF ParamsOk
  <2>5. \A o \in p.key.from..p.key.to-1 : s[o+1] \notin {"=", "&", ";", "#"}
    BY <1>2, <2>1 DEF ParamsOk
  <2>6. \A o \in p.value.from..p.value.to-1 : s[o+1] \notin {"=", "&", ";", "#"}
    BY <1>2, <2>1 DEF ParamsOk
  <2>7. p.key \in Span /\ p.value \in Span
    BY <2>2 DEF Pair
  <2>8. p.key.to <= Len(s) /\ p.value.to <= Len(s)
    <3> DEFINE k == p.key.to
               v == p.value.from
               vt == p.value.to
    <3>1. k \in Nat /\ v \in Nat /\ vt \in Nat /\ v = k + 1 /\ v <= vt /\ vt <= QueryEnd(s)
      BY <2>3, <2>7 DEF Span
    <3> HIDE DEF k, v, vt
    <3>2. k <= Len(s) /\ vt <= Len(s)
      BY <1>3, <3>1
    <3>3. QED
      BY <3>2 DEF k, vt
  <2>9. \A c \in Range(Text(s, p.key)) : \E o \in p.key.from..p.key.to-1 : c = s[o+1]
    BY <1>1, <2>7, <2>8, TextProperties
  <2>10. \A c \in Range(Text(s, p.value)) : \E o \in p.value.from..p.value.to-1 : c = s[o+1]
    BY <1>1, <2>7, <2>8, TextProperties
  <2>11. \A c \in Range(Text(s, p.key)) : c \notin {"=", "&", ";", "#"}
    BY <2>5, <2>9
  <2>12. \A c \in Range(Text(s, p.value)) : c \notin {"=", "&", ";", "#"}
    BY <2>6, <2>10
  <2>13. QED
    BY <2>3, <2>4, <2>11, <2>12
<1>8. QED
  BY <1>5, <1>6, <1>7 DEF PartsAreClean, s, path, params

(* What decompose() makes of a string it accepts has the shape.            *)
LEMMA DecomposedShape ==
  ASSUME NEW s \in Seq(Token), WellFormed(s)
  PROVE  Shape(Decomposed(s)) /\ Decomposed(s).full = s
<1> DEFINE d == Decomposed(s)
<1>1. AuthorityOk(s) /\ QueryOk(s)
  BY DEF WellFormed
<1>2. PathOk(s, Path(s)) /\ ParamsOk(s, Params(s)) /\ Fragment(s) \in Span
  BY <1>1, PathIsOk, ParamsAreOk, FragmentProperties
<1>3. d.scheme \in Span /\ d.user \in Span /\ d.password \in Span /\ d.domain \in Span
  BY <1>1, AuthorityViews DEF Within
<1>4. PathStr(Path(s)) \in Span
  BY <1>1, <1>2, PathStrProperties, NullIsSpan DEF PathStr
<1>5. /\ d.full = s /\ d.null = FALSE /\ d.path = Path(s) /\ d.pathStr = PathStr(Path(s))
      /\ d.params = Params(s) /\ d.fragment = Fragment(s)
  BY DEF Decomposed
<1>6. d = [full |-> d.full, null |-> d.null, scheme |-> d.scheme, user |-> d.user,
           password |-> d.password, domain |-> d.domain, path |-> d.path, pathStr |-> d.pathStr,
           params |-> d.params, fragment |-> d.fragment]
  BY DEF Decomposed
<1>7. Path(s) \in Seq(Span) /\ Params(s) \in Seq(Pair)
  BY <1>2 DEF PathOk, ParamsOk
<1> HIDE DEF d
<1>8. d \in UrlRecord
  BY <1>2, <1>3, <1>4, <1>5, <1>6, <1>7 DEF UrlRecord
<1>9. Path(s) = <<>> => PathStr(Path(s)) = Null
  BY DEF PathStr
<1>10. Shape(d)
  BY <1>2, <1>5, <1>8, <1>9 DEF Shape, d
<1>11. QED
  BY <1>5, <1>10 DEF d

LEMMA EmptyIsWellFormed == ASSUME NEW s \in Seq(Token), ~(0 < Len(s)) PROVE WellFormed(s)
<1>1. SchemeEnd(s) = 0
  <2>1. SchemeEnd(s) \in 0..Len(s) /\ Len(s) \in Nat
    BY SchemeEndProperties, LenProperties
  <2>2. QED
    BY <2>1
<1>2. ~HasAuthority(s)
  <2>1. Len(<<":", "/", "/">>) = 3
    OBVIOUS
  <2>2. QED
    BY <1>1, <2>1 DEF HasAuthority, StartsWith
<1>3. AuthorityOk(s)
  BY <1>2 DEF AuthorityOk
<1>4. PathEnd(s) \in Nat
  BY <1>3, PathBounds
<1>5. ~HasQuery(s)
  <2>1. HasQuery(s) <=> PathEnd(s) < Len(s) /\ s[PathEnd(s)+1] = "?"
    BY <1>4, StartsWithOne DEF HasQuery
  <2>2. ~(PathEnd(s) < Len(s))
    <3>1. Len(s) \in Nat
      BY LenProperties
    <3>2. QED
      BY <1>4, <3>1
  <2>3. QED
    BY <2>1, <2>2
<1>6. Params(s) = <<>>
  BY <1>5 DEF Params
<1>7. DOMAIN <<>> = {}
  OBVIOUS
<1>8. QueryOk(s)
  BY <1>6, <1>7 DEF QueryOk
<1>9. QED
  BY <1>3, <1>8 DEF WellFormed

LEMMA ShapeOfDefault == Shape(Default)
<1>1. <<>> \in Seq(Token) /\ Len(<<>>) = 0
  BY EmptySeq
<1>2. WellFormed(<<>>)
  <2> DEFINE s == <<>>
  <2>1. s \in Seq(Token) /\ ~(0 < Len(s))
    BY <1>1
  <2> HIDE DEF s
  <2>2. WellFormed(s)
    BY <2>1, EmptyIsWellFormed
  <2>3. QED
    BY <2>2 DEF s
<1> DEFINE d == Decomposed(<<>>)
<1>3. Shape(d) /\ d.full = <<>>
  BY <1>1, <1>2, DecomposedShape
<1> HIDE DEF d
<1> DEFINE u == [d EXCEPT !.null = TRUE]
<1>4. d \in UrlRecord
  BY <1>3 DEF Shape
<1>5. /\ u \in UrlRecord
       /\ u.full = d.full /\ u.scheme = d.scheme /\ u.user = d.user /\ u.password = d.password
       /\ u.domain = d.domain /\ u.path = d.path /\ u.pathStr = d.pathStr
       /\ u.params = d.params /\ u.fragment = d.fragment
  BY <1>4 DEF UrlRecord
<1> HIDE DEF u
<1>6. Shape(u)
  BY <1>3, <1>5 DEF Shape
<1>7. QED
  BY <1>6 DEF Default, u, d

(* parent() keeps the shape.                                               *)
LEMMA ParentShape ==
  ASSUME NEW u, Shape(u), u.path # <<>>
  PROVE  Shape([u EXCEPT !.path = Front(@), !.pathStr = ParentStr(Front(u.path))])
<1> DEFINE w == [u EXCEPT !.path = Front(@), !.pathStr = ParentStr(Front(u.path))]
           f == Front(u.path)
<1>1. u \in UrlRecord /\ PathOk(u.full, u.path) /\ u.full \in Seq(Token) /\ AuthorityOk(u.full)
  BY DEF Shape, UrlRecord, WellFormed
<1>2. PathOk(u.full, f)
  BY <1>1, FrontPathOk
<1> HIDE DEF f
<1>3. f \in Seq(Span)
  BY <1>2 DEF PathOk
<1>4. /\ ParentStr(f) \in Span \cup {Garbage}
      /\ f # <<>> => ParentStr(f) = PathStr(f)
      /\ f = <<>> => ParentStr(f) = Garbage
  BY <1>1, <1>2, PathStrProperties DEF ParentStr
<1>5. w = [u EXCEPT !.path = f, !.pathStr = ParentStr(f)]
  BY DEF f
<1>6. /\ w \in UrlRecord
      /\ w.full = u.full /\ w.scheme = u.scheme /\ w.user = u.user /\ w.password = u.password
      /\ w.domain = u.domain /\ w.path = f /\ w.pathStr = ParentStr(f)
      /\ w.params = u.params /\ w.fragment = u.fragment
  <2> HIDE DEF w
  <2>1. QED
    BY <1>1, <1>3, <1>4, <1>5 DEF UrlRecord
<1> HIDE DEF w
<1>7. Shape(w)
  BY <1>2, <1>4, <1>6 DEF Shape
<1>8. QED
  BY <1>7 DEF w

(* operator/ hands a string of tokens to the constructor.                  *)
LEMMA InsertedType ==
  ASSUME Shape(url), NEW x \in Seq(Token), NEW place \in Places, place >= 0
  PROVE  Inserted(place, x) \in Seq(Token)
<1> DEFINE s == url.full
<1>1. s \in Seq(Token) /\ Len(s) \in Nat /\ AuthorityOk(s) /\ url.pathStr \in Span \cup {Garbage}
      /\ PathOk(s, url.path)
  BY LenProperties DEF Shape, UrlRecord, WellFormed
<1>2. place \in 0..Len(s)
  <2>1. CASE url.pathStr = Garbage
    <3>1. place \in {-1} \cup 0..Len(s)
      BY <2>1 DEF Places
    <3>2. QED
      BY <1>1, <3>1
  <2>2. CASE url.pathStr # Garbage /\ url.path = <<>>
    <3>1. place \in {0, -1}
      BY <2>2 DEF Places
    <3>2. QED
      BY <1>1, <3>1
  <2>3. CASE url.pathStr # Garbage /\ url.path # <<>>
    <3>1. place = url.pathStr.to
      BY <2>3 DEF Places
    <3>2. url.pathStr = PathStr(url.path)
      BY <2>3 DEF Shape
    <3>3. PathStr(url.path) \in Span /\ PathStr(url.path).to <= PathEnd(s)
      BY <1>1, <2>3, PathStrProperties
    <3>4. PathEnd(s) \in Nat /\ PathEnd(s) <= QueryEnd(s) /\ QueryEnd(s) <= Len(s)
          /\ QueryEnd(s) \in Nat
      BY <1>1, PathBounds
    <3>5. place \in Nat /\ place <= PathEnd(s)
      BY <3>1, <3>2, <3>3 DEF Span
    <3>6. QED
      BY <1>1, <3>4, <3>5
  <2>4. QED
    BY <2>1, <2>2, <2>3
<1>3. Stripped(x) \in Seq(Token)
  <2>1. CASE ~StartsWith(x, 0, <<"/">>)
    BY <2>1 DEF Stripped
  <2>2. CASE StartsWith(x, 0, <<"/">>)
    <3>1. 0 < Len(x)
      BY <2>2, StartsWithOne
    <3>2. x # <<>>
      BY <3>1, EmptySeq
    <3>3. QED
      BY <2>2, <3>2, HeadTailProperties DEF Stripped
  <2>3. QED
    BY <2>1, <2>2
<1>4. SubSeq(s, 1, place) \in Seq(Token)
  <2>1. \A i \in 1..place : s[i] \in Token
    <3> SUFFICES ASSUME NEW i \in 1..place PROVE s[i] \in Token
      OBVIOUS
    <3>1. i \in 1..Len(s)
      BY <1>1, <1>2
    <3>2. QED
      BY <1>1, <3>1, ElementOfSeq
  <2>2. QED
    BY <1>2, <2>1, SubSeqProperties
<1>5. SubSeq(s, place + 1, Len(s)) \in Seq(Token)
  <2>1. \A i \in place+1..Len(s) : s[i] \in Token
    <3> SUFFICES ASSUME NEW i \in place+1..Len(s) PROVE s[i] \in Token
      OBVIOUS
    <3>1. i \in 1..Len(s)
      BY <1>1, <1>2
    <3>2. QED
      BY <1>1, <3>1, ElementOfSeq
  <2>2. place + 1 \in Int /\ Len(s) \in Int
    BY <1>1, <1>2
  <2>3. QED
    BY <2>1, <2>2, SubSeqProperties
<1>6. <<"/">> \in Seq(Token)
  <2>1. "/" \in Token
    BY DEF Token, Delimiters
  <2>2. QED
    BY <2>1
<1> DEFINE a == SubSeq(s, 1, place)
           b == <<"/">>
           c == Stripped(x)
           z == SubSeq(s, place + 1, Len(s))
<1>7. Inserted(place, x) = a \o b \o c \o z
  BY DEF Inserted
<1>8. a \in Seq(Token) /\ b \in Seq(Token) /\ c \in Seq(Token) /\ z \in Seq(Token)
  BY <1>3, <1>4, <1>5, <1>6
<1> HIDE DEF a, b, c, z
<1>9. a \o b \in Seq(Token)
  BY <1>8, ConcatProperties
<1>10. a \o b \o c \in Seq(Token)
  BY <1>8, <1>9, ConcatProperties
<1>11. a \o b \o c \o z \in Seq(Token)
  BY <1>8, <1>10, ConcatProperties
<1>12. QED
  BY <1>7, <1>11
-----------------------------------------------------------------------------
(* The invariant: every url at hand has the shape, and what was just made   *)
(* of a string is its decomposition.                                        *)
Ops == {"none", "construct", "parent", "append", "throws"}

IInv ==
    /\ Shape(url) /\ Shape(before)
    /\ op \in Ops /\ fresh \in BOOLEAN /\ ops \in 0..MaxOps
    /\ op \in {"construct", "append"} => url = Decomposed(url.full)

LEMMA InitInv == Init => IInv
<1> SUFFICES ASSUME Init PROVE IInv
  OBVIOUS
<1>1. Shape(url) /\ Shape(before)
  BY ShapeOfDefault DEF Init
<1>2. op = "none" /\ fresh = TRUE /\ ops = 0
  BY DEF Init
<1>3. QED
  BY <1>1, <1>2, UrlAssumption DEF IInv, Ops

LEMMA NextInv == IInv /\ [Next]_vars => IInv'
<1> SUFFICES ASSUME IInv, [Next]_vars PROVE IInv'
  OBVIOUS
<1>1. Shape(url) /\ Shape(before)
  BY DEF IInv
<1>2. op \in Ops /\ fresh \in BOOLEAN /\ ops \in 0..MaxOps
  BY DEF IInv
<1>3. op \in {"construct", "append"} => url = Decomposed(url.full)
  BY DEF IInv
<1>4. ASSUME NEW s \in Inputs, Construct(s) PROVE IInv'
  <2>1. s \in Seq(Token)
    BY UrlAssumption
  <2>2. fresh' = fresh /\ ops' = ops /\ before' = url
    BY <1>4 DEF Construct, Becomes
  <2>3. CASE WellFormed(s)
    <3>1. url' = Decomposed(s) /\ op' = "construct"
      BY <1>4, <2>3 DEF Construct, Becomes
    <3>2. Shape(Decomposed(s)) /\ Decomposed(s).full = s
      BY <2>1, <2>3, DecomposedShape
    <3>3. Shape(url)' /\ Shape(before)'
      BY <1>1, <2>2, <3>1, <3>2
    <3>4. url' = Decomposed(url.full)'
      BY <3>1, <3>2
    <3>5. QED
      BY <1>2, <2>2, <3>1, <3>3, <3>4 DEF IInv, Ops
  <2>4. CASE ~WellFormed(s)
    <3>1. url' = url /\ op' = "throws"
      BY <1>4, <2>4 DEF Construct, Becomes
    <3>2. Shape(url)' /\ Shape(before)'
      BY <1>1, <2>2, <3>1
    <3>3. QED
      BY <1>2, <2>2, <3>1, <3>2 DEF IInv, Ops
  <2>5. QED
    BY <2>3, <2>4
<1>5. ASSUME Parent PROVE IInv'
  <2> DEFINE w == [url EXCEPT !.path = Front(@), !.pathStr = ParentStr(Front(url.path))]
  <2>1. fresh' = FALSE /\ ops' = ops + 1 /\ ops < MaxOps /\ before' = url /\ op' = "parent"
    BY <1>5 DEF Parent, Becomes
  <2>2. url' = IF url.path = <<>> THEN url ELSE w
    BY <1>5 DEF Parent, Becomes
  <2>3. url.path # <<>> => Shape(w)
    BY <1>1, ParentShape
  <2> HIDE DEF w
  <2>4. Shape(url)' /\ Shape(before)'
    BY <1>1, <2>1, <2>2, <2>3
  <2>5. ops' \in 0..MaxOps
    BY <1>2, <2>1, UrlAssumption
  <2>6. QED
    BY <2>1, <2>4, <2>5 DEF IInv, Ops
<1>6. ASSUME NEW x \in Segments, Slash(x) PROVE IInv'
  <2>1. fresh' = fresh /\ ops' = ops + 1 /\ ops < MaxOps
    BY <1>6 DEF Slash
  <2>2. x \in Seq(Token)
    BY UrlAssumption
  <2>3. ops' \in 0..MaxOps
    BY <1>2, <2>1, UrlAssumption
  <2>4. PICK place \in Places :
          IF place >= 0 /\ WellFormed(Inserted(place, x))
          THEN Becomes("append", x, Decomposed(Inserted(place, x)))
          ELSE Becomes("throws", x, url)
    BY <1>6 DEF Slash
  <2> DEFINE s == Inserted(place, x)
  <2>5. before' = url
    BY <2>4 DEF Becomes
  <2>6. CASE place >= 0 /\ WellFormed(s)
    <3>1. s \in Seq(Token)
      BY <1>1, <2>2, <2>6, InsertedType
    <3>2. url' = Decomposed(s) /\ op' = "append"
      BY <2>4, <2>6 DEF Becomes
    <3> HIDE DEF s
    <3>3. Shape(Decomposed(s)) /\ Decomposed(s).full = s
      BY <2>6, <3>1, DecomposedShape
    <3>4. Shape(url)' /\ Shape(before)'
      BY <1>1, <2>5, <3>2, <3>3
    <3>5. url' = Decomposed(url.full)'
      BY <3>2, <3>3
    <3>6. QED
      BY <1>2, <2>1, <2>3, <3>2, <3>4, <3>5 DEF IInv, Ops
  <2>7. CASE ~(place >= 0 /\ WellFormed(s))
    <3>1. url' = url /\ op' = "throws"
      BY <2>4, <2>7 DEF Becomes
    <3>2. Shape(url)' /\ Shape(before)'
      BY <1>1, <2>5, <3>1
    <3>3. QED
      BY <1>2, <2>1, <2>3, <3>1, <3>2 DEF IInv, Ops
  <2>8. QED
    BY <2>6, <2>7
<1>7. CASE UNCHANGED vars
  <2>1. /\ url' = url /\ before' = before /\ op' = op /\ fresh' = fresh /\ ops' = ops
    BY <1>7 DEF vars
  <2>2. Shape(url)' /\ Shape(before)' /\ (op' \in {"construct", "append"} => url' = Decomposed(url.full)')
    BY <1>1, <1>3, <2>1
  <2>3. QED
    BY <1>2, <2>1, <2>2 DEF IInv
<1>8. QED
  BY <1>4, <1>5, <1>6, <1>7 DEF Next

(* The invariant holds of every url that the operations make.              *)
THEOREM Invariant == Spec => []IInv
BY InitInv, NextInv, PTL DEF Spec

(* Every view lies within the string, whatever the operations and their     *)
(* arguments, but for the path string of the parent of a path of one segment. *)
THEOREM TypeCorrect == Spec => []TypeOK
<1>1. IInv => TypeOK
  <2> SUFFICES ASSUME IInv PROVE TypeOK
    OBVIOUS
  <2>1. Shape(url) /\ Shape(before) /\ op \in Ops /\ fresh \in BOOLEAN /\ ops \in 0..MaxOps
    BY DEF IInv
  <2>2. url.full \in Seq(Token) /\ before.full \in Seq(Token) /\ AuthorityOk(url.full)
    BY <2>1 DEF Shape, UrlRecord, WellFormed
  <2>3. \A v \in Views(url) : v.from \in 0..v.to /\ v.to <= Len(url.full)
    BY <2>1, ShapeInBounds
  <2>4. ASSUME url.pathStr # Garbage
        PROVE  url.pathStr.from \in 0..url.pathStr.to /\ url.pathStr.to <= Len(url.full)
    <3> DEFINE len == Len(url.full)
    <3>1. /\ PathStart(url.full) \in Nat /\ PathEnd(url.full) \in Nat /\ QueryEnd(url.full) \in Nat
          /\ PathEnd(url.full) <= QueryEnd(url.full) /\ QueryEnd(url.full) <= len /\ len \in Nat
      BY <2>2, PathBounds
    <3>2. CASE url.path = <<>>
      <4>1. url.pathStr = Null
        BY <2>1, <2>4, <3>2 DEF Shape
      <4>2. QED
        BY <3>1, <4>1, NullIsSpan
    <3>3. CASE url.path # <<>>
      <4> DEFINE v == PathStr(url.path)
      <4>1. url.pathStr = v
        BY <2>1, <3>3 DEF Shape
      <4>2. v \in Span /\ v.from <= v.to /\ v.to <= PathEnd(url.full)
        BY <2>1, <2>2, <3>3, PathStrProperties DEF Shape
      <4> HIDE DEF v, len
      <4> DEFINE f == v.from
                 t == v.to
      <4>3. f \in Nat /\ t \in Nat /\ f <= t /\ t <= PathEnd(url.full)
        BY <4>2 DEF Span
      <4> HIDE DEF f, t
      <4>4. f \in 0..t /\ t <= len
        BY <3>1, <4>3
      <4>5. QED
        BY <4>1, <4>4 DEF f, t, len
    <3>4. QED
      BY <3>2, <3>3
  <2>5. QED
    BY <2>1, <2>2, <2>3, <2>4 DEF TypeOK, Ops
<1>2. QED
  BY <1>1, Invariant, PTL

(* The parts follow each other in the order of RFC 3986 and do not overlap, *)
(* for urls of any length.                                                  *)
THEOREM InOrder == Spec => []PartsInOrder
<1>1. IInv => PartsInOrder
  BY ShapeInOrder DEF IInv
<1>2. QED
  BY <1>1, Invariant, PTL

(* Segments and parameters hold no delimiter, and are separated by one.     *)
THEOREM Clean == Spec => []PartsAreClean
<1>1. IInv => PartsAreClean
  BY ShapeIsClean DEF IInv
<1>2. QED
  BY <1>1, Invariant, PTL

(* Nothing of a string without a query and a fragment is dropped.           *)
THEOREM Whole == Spec => []PathIsWhole
<1>1. IInv => PathIsWhole
  <2> SUFFICES ASSUME IInv, op \in {"construct", "append"}, Range(url.full) \cap {"?", "#"} = {}
               PROVE  IF url.path = <<>> THEN PathStart(url.full) = Len(url.full)
                      ELSE /\ Head(url.path).from = PathStart(url.full)
                           /\ SubSeq(url.full, Last(url.path).to + 1, Len(url.full))
                                \in {<<>>, <<"/">>}
    BY DEF PathIsWhole
  <2>1. url = Decomposed(url.full) /\ Shape(url)
    BY DEF IInv
  <2>2. url.full \in Seq(Token) /\ AuthorityOk(url.full)
    BY <2>1 DEF Shape, UrlRecord, WellFormed
  <2>3. url.path = Path(url.full)
    <3> DEFINE s == url.full
    <3>1. url = Decomposed(s)
      BY <2>1
    <3> HIDE DEF s
    <3>2. Decomposed(s).path = Path(s)
      BY DEF Decomposed
    <3>3. QED
      BY <3>1, <3>2 DEF s
  <2>4. QED
    BY <2>2, <2>3, PathOfAll
<1>2. QED
  BY <1>1, Invariant, PTL

-----------------------------------------------------------------------------
(* A part of a string is cut into pieces in one way only.                  *)

LEMMA PieceReaches ==
  ASSUME NEW s, NEW from \in Nat, NEW to \in Nat, NEW T, NEW ps, NEW qs,
         IsPieces(ps, s, from, to, T), IsPieces(qs, s, from, to, T),
         NEW i \in 1..Len(ps), i \in 1..Len(qs), ps[i].from = qs[i].from
  PROVE  ~(ps[i].to < qs[i].to)
<1> SUFFICES ASSUME ps[i].to < qs[i].to PROVE FALSE
  OBVIOUS
<1> DEFINE m == Len(ps)
           a == ps[i].from
           b == ps[i].to
           c == qs[i].to
<1>1. ps \in Seq(Span) /\ qs \in Seq(Span) /\ m \in Nat
  BY LenProperties DEF IsPieces
<1>2. ps[i] \in Span /\ qs[i] \in Span
  BY <1>1, ElementOfSeq
<1>3. a \in Nat /\ b \in Nat /\ c \in Nat /\ b < c /\ qs[i].from = a
  BY <1>2 DEF Span
<1>4. a <= b /\ c <= to /\ \A o \in a..c-1 : s[o+1] \notin T
  <2>1. a <= b
    BY DEF IsPieces
  <2>2. c <= to /\ \A o \in qs[i].from..c-1 : s[o+1] \notin T
    BY DEF IsPieces
  <2>3. QED
    BY <1>3, <2>1, <2>2
<1>5. i = m => b = to
  BY DEF IsPieces
<1>6. i \in 1..m-1 => s[b+1] \in T
  BY DEF IsPieces
<1>7. i \in 1..m
  OBVIOUS
<1> HIDE DEF a, b, c, m
<1>8. b \in a..c-1
  BY <1>3, <1>4
<1>9. i # m
  BY <1>3, <1>4, <1>5
<1>10. i \in 1..m-1
  BY <1>1, <1>7, <1>9
<1>11. QED
  BY <1>4, <1>6, <1>8, <1>10

LEMMA PiecesGoOn ==
  ASSUME NEW s, NEW from \in Nat, NEW to \in Nat, NEW T, NEW ps, NEW qs,
         IsPieces(ps, s, from, to, T), IsPieces(qs, s, from, to, T),
         NEW i \in 1..Len(ps), i \in 1..Len(qs), ps[i].to = qs[i].to
  PROVE  i + 1 <= Len(ps) => i + 1 <= Len(qs)
<1> DEFINE m == Len(ps)
           n == Len(qs)
<1>1. ps \in Seq(Span) /\ qs \in Seq(Span) /\ m \in Nat /\ n \in Nat
  BY LenProperties DEF IsPieces
<1> SUFFICES ASSUME i + 1 <= m, i = n PROVE FALSE
  <2>1. i \in 1..n
    OBVIOUS
  <2> HIDE DEF m, n
  <2>2. i = n \/ i + 1 <= n
    BY <1>1, <2>1
  <2>3. QED
    BY <2>2 DEF m, n
<1>2. qs[i].to = to
  BY DEF IsPieces
<1>3. i \in 1..m-1 /\ i + 1 \in 1..m
  BY <1>1
<1>4. ps[i+1].from = ps[i].to + 1
  BY <1>3 DEF IsPieces
<1>5. ps[i+1].from <= ps[i+1].to /\ ps[i+1].to <= to
  BY <1>3 DEF IsPieces
<1>6. ps[i+1] \in Span
  BY <1>1, <1>3, ElementOfSeq
<1> DEFINE a == ps[i+1].from
           b == ps[i+1].to
<1>7. a \in Nat /\ b \in Nat /\ a <= b /\ b <= to
  BY <1>5, <1>6 DEF Span
<1>8. a = to + 1
  BY <1>2, <1>4
<1> HIDE DEF a, b
<1>9. QED
  BY <1>7, <1>8

LEMMA PiecesUnique ==
  ASSUME NEW s, NEW from \in Nat, NEW to \in Nat, NEW T, NEW ps, NEW qs,
         IsPieces(ps, s, from, to, T), IsPieces(qs, s, from, to, T)
  PROVE  ps = qs
<1> DEFINE m == Len(ps)
           n == Len(qs)
           Same(i) == i <= n /\ ps[i] = qs[i]
           S == {i \in Nat : i + 1 \in 1..m => Same(i + 1)}
<1>1. ps \in Seq(Span) /\ qs \in Seq(Span) /\ m \in Nat /\ n \in Nat /\ m >= 1 /\ n >= 1
  BY LenProperties DEF IsPieces
<1>2. ASSUME NEW i \in 1..m, i \in 1..n, ps[i].from = qs[i].from PROVE ps[i] = qs[i]
  <2>1. ~(ps[i].to < qs[i].to)
    BY <1>2, PieceReaches
  <2>2. ~(qs[i].to < ps[i].to)
    BY <1>2, PieceReaches
  <2>3. ps[i] \in Span /\ qs[i] \in Span
    BY <1>1, <1>2, ElementOfSeq
  <2>4. ps[i].to = qs[i].to
    <3>1. ps[i].to \in Nat /\ qs[i].to \in Nat
      BY <2>3 DEF Span
    <3>2. QED
      BY <2>1, <2>2, <3>1
  <2>5. QED
    BY <1>2, <2>3, <2>4 DEF Span
<1>3. 0 \in S
  <2>1. 1 \in 1..m /\ 1 \in 1..n
    BY <1>1
  <2>2. ps[1].from = from /\ qs[1].from = from
    BY DEF IsPieces
  <2>3. ps[1] = qs[1]
    BY <1>2, <2>1, <2>2
  <2>4. Same(1)
    BY <1>1, <2>3
  <2> HIDE DEF Same
  <2>5. QED
    BY <2>4
<1>4. ASSUME NEW j \in Nat, j \in S PROVE j + 1 \in S
  <2> DEFINE i == j + 1
  <2> SUFFICES ASSUME i + 1 \in 1..m PROVE Same(i + 1)
    OBVIOUS
  <2>1. i \in 1..m /\ i + 1 <= m /\ i \in 1..m-1 /\ i \in Nat
    BY <1>1
  <2>2. Same(i)
    BY <1>4, <2>1
  <2> HIDE DEF i, S
  <2>3. i \in 1..n /\ ps[i] = qs[i]
    BY <1>1, <2>1, <2>2
  <2>4. i + 1 <= n
    BY <2>1, <2>3, PiecesGoOn
  <2>5. i + 1 \in 1..n /\ i \in 1..n-1
    BY <1>1, <2>1, <2>4
  <2>6. ps[i+1].from = ps[i].to + 1 /\ qs[i+1].from = qs[i].to + 1
    BY <2>1, <2>5 DEF IsPieces
  <2>7. ps[i+1] = qs[i+1]
    BY <1>2, <2>1, <2>3, <2>5, <2>6
  <2>8. QED
    BY <2>4, <2>7
<1> HIDE DEF S
<1>5. \A i \in Nat : i \in S
  BY <1>3, <1>4, Induction
<1>6. ASSUME NEW i \in 1..m PROVE i <= n /\ ps[i] = qs[i]
  <2>1. i - 1 \in Nat /\ (i - 1) + 1 = i
    BY <1>1
  <2>2. i - 1 \in S
    BY <1>5, <2>1
  <2>3. QED
    BY <2>1, <2>2 DEF S
<1>7. m <= n
  <2>1. m \in 1..m
    BY <1>1
  <2>2. QED
    BY <1>6, <2>1
<1>8. ~(m < n)
  <2> SUFFICES ASSUME m < n PROVE FALSE
    OBVIOUS
  <2>1. m \in 1..m /\ m \in 1..n /\ m + 1 <= n
    BY <1>1
  <2>2. ps[m] = qs[m]
    BY <1>6, <2>1
  <2>3. m + 1 <= Len(ps)
    BY <2>1, <2>2, PiecesGoOn
  <2>4. QED
    BY <1>1, <2>3
<1>9. m = n
  BY <1>1, <1>7, <1>8
<1>10. QED
  <2>1. \A i \in 1..m : ps[i] = qs[i]
    BY <1>6
  <2> HIDE DEF Same
  <2>2. QED
    BY <1>1, <1>9, <2>1, SeqEqual

-----------------------------------------------------------------------------
(* The texts of two views are equal where the strings agree.               *)

LEMMA SpanIsView ==
  ASSUME NEW v \in Span
  PROVE  v.from \in Nat /\ v.to \in Nat /\ v = View(v.from, v.to)
BY DEF Span, View

LEMMA TextTokens ==
  ASSUME NEW s \in Seq(Token), NEW a \in Nat, NEW b \in Nat, a <= b, b <= Len(s)
  PROVE  /\ Text(s, View(a, b)) \in Seq(Token) /\ Len(Text(s, View(a, b))) = b - a
         /\ \A i \in 1..b-a : Text(s, View(a, b))[i] = s[a+i]
<1>1. Len(s) \in Nat
  BY LenProperties
<1>2. \A i \in a+1..b : s[i] \in Token
  <2> SUFFICES ASSUME NEW i \in a+1..b PROVE s[i] \in Token
    OBVIOUS
  <2>1. i \in 1..Len(s)
    BY <1>1
  <2>2. QED
    BY <2>1, ElementOfSeq
<1> DEFINE x == SubSeq(s, a + 1, b)
<1>3. a + 1 \in Int /\ b \in Int
  OBVIOUS
<1>4. /\ x \in Seq(Token)
      /\ Len(x) = IF a + 1 <= b THEN b-(a+1)+1 ELSE 0
      /\ \A i \in 1..b-(a+1)+1 : x[i] = s[(a+1)+i-1]
  BY <1>2, <1>3, SubSeqProperties
<1>5. Text(s, View(a, b)) = x
  BY DEF Text, View
<1> HIDE DEF x
<1>6. Len(x) = b - a
  BY <1>4
<1>7. ASSUME NEW i \in 1..b-a PROVE x[i] = s[a+i]
  <2>1. i \in 1..b-(a+1)+1 /\ (a+1)+i-1 = a+i
    OBVIOUS
  <2>2. QED
    BY <1>4, <2>1
<1>8. QED
  BY <1>4, <1>5, <1>6, <1>7

Shift(v, k) == View(v.from + k, v.to + k)

LEMMA ShiftIsSpan ==
  ASSUME NEW v \in Span, NEW k \in Nat
  PROVE  Shift(v, k) \in Span /\ Shift(v, k).from = v.from + k /\ Shift(v, k).to = v.to + k
BY DEF Span, Shift, View

LEMMA TextShifted ==
  ASSUME NEW s \in Seq(Token), NEW t \in Seq(Token), NEW k \in Nat, NEW v \in Span,
         v.from <= v.to, v.to <= Len(s), v.to + k <= Len(t),
         \A o \in v.from..v.to-1 : t[(o+k)+1] = s[o+1]
  PROVE  Text(t, Shift(v, k)) = Text(s, v)
<1> DEFINE a == v.from
           b == v.to
           x == Text(s, View(a, b))
           y == Text(t, View(a + k, b + k))
<1>1. a \in Nat /\ b \in Nat /\ a <= b /\ b <= Len(s) /\ b + k <= Len(t) /\ v = View(a, b)
  BY SpanIsView
<1>2. \A o \in a..b-1 : t[(o+k)+1] = s[o+1]
  OBVIOUS
<1> HIDE DEF a, b
<1>3. a + k \in Nat /\ b + k \in Nat /\ a + k <= b + k /\ (b + k) - (a + k) = b - a
  BY <1>1
<1>4. x \in Seq(Token) /\ Len(x) = b - a /\ \A i \in 1..b-a : x[i] = s[a+i]
  BY <1>1, TextTokens
<1>5. /\ y \in Seq(Token) /\ Len(y) = (b + k) - (a + k)
      /\ \A i \in 1..(b + k)-(a + k) : y[i] = t[(a+k)+i]
  BY <1>1, <1>3, TextTokens
<1> HIDE DEF x, y
<1>6. Len(y) = Len(x)
  BY <1>3, <1>4, <1>5
<1>7. ASSUME NEW i \in 1..Len(y) PROVE y[i] = x[i]
  <2>1. i \in 1..b-a /\ i \in 1..(b + k)-(a + k)
    BY <1>1, <1>3, <1>5, <1>7
  <2> DEFINE o == a + i - 1
  <2>2. o \in a..b-1 /\ o + 1 = a + i /\ (o + k) + 1 = (a + k) + i
    BY <1>1, <2>1
  <2> HIDE DEF o
  <2>3. y[i] = t[(a+k)+i] /\ x[i] = s[a+i]
    BY <1>4, <1>5, <2>1
  <2>4. t[(o+k)+1] = s[o+1]
    BY <1>2, <2>2
  <2>5. QED
    BY <2>2, <2>3, <2>4
<1>8. y = x
  BY <1>4, <1>5, <1>6, <1>7, SeqEqual
<1>9. Shift(v, k) = View(a + k, b + k)
  BY DEF Shift, a, b
<1>10. QED
  BY <1>1, <1>8, <1>9 DEF x, y

LEMMA TextUnmoved ==
  ASSUME NEW s \in Seq(Token), NEW t \in Seq(Token), NEW v \in Span,
         v.from <= v.to, v.to <= Len(s), v.to <= Len(t),
         \A o \in v.from..v.to-1 : t[o+1] = s[o+1]
  PROVE  Text(t, v) = Text(s, v)
<1>1. v.from \in Nat /\ v.to \in Nat /\ v = View(v.from, v.to)
  BY SpanIsView
<1>2. Shift(v, 0) = v /\ v.to + 0 = v.to
  <2>1. v.from + 0 = v.from /\ v.to + 0 = v.to
    BY <1>1
  <2>2. QED
    BY <1>1, <2>1 DEF Shift
<1>3. \A o \in v.from..v.to-1 : t[(o+0)+1] = s[o+1]
  BY <1>1
<1>4. Text(t, Shift(v, 0)) = Text(s, v)
  <2> DEFINE k == 0
  <2>1. k \in Nat /\ v.to + k <= Len(t) /\ \A o \in v.from..v.to-1 : t[(o+k)+1] = s[o+1]
    BY <1>2, <1>3
  <2> HIDE DEF k
  <2>2. Text(t, Shift(v, k)) = Text(s, v)
    BY <2>1, TextShifted
  <2>3. QED
    BY <2>2 DEF k
<1>5. QED
  BY <1>2, <1>4

-----------------------------------------------------------------------------
(* A string that another one becomes when a slash and a name are inserted   *)
(* at offset e: k tokens, of which only the slash is a delimiter.           *)

With(s, e, x) == SubSeq(s, 1, e) \o <<"/">> \o x \o SubSeq(s, e + 1, Len(s))

Extends(t, s, e, k) ==
    /\ s \in Seq(Token) /\ t \in Seq(Token) /\ Len(s) \in Nat /\ Len(t) \in Nat
    /\ e \in Nat /\ e <= Len(s) /\ k \in Nat /\ k >= 2 /\ Len(t) = Len(s) + k
    /\ \A o \in 0..e-1 : t[o+1] = s[o+1]
    /\ t[e+1] = "/"
    /\ \A o \in e+1..e+k-1 : t[o+1] \notin Delimiters
    /\ \A o \in e..Len(s)-1 : t[(o+k)+1] = s[o+1]

LEMMA WithProperties ==
  ASSUME NEW s \in Seq(Token), NEW x \in Seq(Token), IsName(x), NEW e \in Nat, e <= Len(s)
  PROVE  /\ Extends(With(s, e, x), s, e, Len(x) + 1)
         /\ Text(With(s, e, x), View(e + 1, e + (Len(x) + 1))) = x
<1> DEFINE len == Len(s)
           n == Len(x)
           a == SubSeq(s, 1, e)
           b == <<"/">>
           z == SubSeq(s, e + 1, len)
           ab == a \o b
           abx == ab \o x
           t == abx \o z
<1>1. len \in Nat /\ n \in Nat /\ n # 0
  BY LenProperties, EmptySeq DEF IsName
<1>2. \A i \in 1..len : s[i] \in Token
  BY ElementOfSeq
<1> HIDE DEF len
<1>3. a \in Seq(Token) /\ Len(a) = e /\ \A i \in 1..e : a[i] = s[i]
  <2>1. 1 \in Int /\ e \in Int /\ \A i \in 1..e : s[i] \in Token
    <3>1. \A i \in 1..e : i \in 1..len
      BY <1>1 DEF len
    <3>2. QED
      BY <1>2, <3>1
  <2>2. /\ a \in Seq(Token) /\ Len(a) = IF 1 <= e THEN e-1+1 ELSE 0
        /\ \A i \in 1..e-1+1 : a[i] = s[1+i-1]
    BY <2>1, SubSeqProperties
  <2> HIDE DEF a
  <2>3. Len(a) = e
    BY <2>2
  <2>4. ASSUME NEW i \in 1..e PROVE a[i] = s[i]
    <3>1. i \in 1..e-1+1 /\ 1+i-1 = i
      OBVIOUS
    <3>2. QED
      BY <2>2, <3>1
  <2>5. QED
    BY <2>2, <2>3, <2>4
<1>4. z \in Seq(Token) /\ Len(z) = len - e /\ \A i \in 1..len-e : z[i] = s[e+i]
  <2>1. e + 1 \in Int /\ len \in Int /\ \A i \in e+1..len : s[i] \in Token
    <3>1. \A i \in e+1..len : i \in 1..len
      BY <1>1
    <3>2. QED
      BY <1>1, <1>2, <3>1
  <2>2. /\ z \in Seq(Token) /\ Len(z) = IF e + 1 <= len THEN len-(e+1)+1 ELSE 0
        /\ \A i \in 1..len-(e+1)+1 : z[i] = s[(e+1)+i-1]
    BY <2>1, SubSeqProperties
  <2> HIDE DEF z
  <2>3. Len(z) = len - e
    <3>1. e <= len
      BY DEF len
    <3>2. QED
      BY <1>1, <2>2, <3>1
  <2>4. ASSUME NEW i \in 1..len-e PROVE z[i] = s[e+i]
    <3>1. i \in 1..len-(e+1)+1 /\ (e+1)+i-1 = e+i
      BY <1>1
    <3>2. QED
      BY <2>2, <3>1
  <2>5. QED
    BY <2>2, <2>3, <2>4
<1>5. b \in Seq(Token) /\ Len(b) = 1 /\ b[1] = "/"
  <2>1. "/" \in Token
    BY DEF Token, Delimiters
  <2>2. QED
    BY <2>1
<1> HIDE DEF a, b, z, n
<1>6. /\ ab \in Seq(Token) /\ Len(ab) = Len(a) + Len(b)
      /\ \A i \in 1..Len(a)+Len(b) : ab[i] = IF i <= Len(a) THEN a[i] ELSE b[i - Len(a)]
  BY <1>3, <1>5, ConcatProperties
<1> HIDE DEF ab
<1>7. /\ abx \in Seq(Token) /\ Len(abx) = Len(ab) + Len(x)
      /\ \A i \in 1..Len(ab)+Len(x) : abx[i] = IF i <= Len(ab) THEN ab[i] ELSE x[i - Len(ab)]
  BY <1>6, ConcatProperties
<1> HIDE DEF abx
<1>8. /\ t \in Seq(Token) /\ Len(t) = Len(abx) + Len(z)
      /\ \A i \in 1..Len(abx)+Len(z) : t[i] = IF i <= Len(abx) THEN abx[i] ELSE z[i - Len(abx)]
  <2>1. z \in Seq(Token) /\ abx \in Seq(Token)
    BY <1>4, <1>7
  <2>2. QED
    BY <2>1, ConcatProperties
<1>9. With(s, e, x) = t
  BY DEF With, t, abx, ab, a, b, z, len
<1> HIDE DEF t
<1>10. Len(ab) = e + 1 /\ Len(abx) = e + 1 + n /\ Len(t) = len + n + 1
  <2>1. Len(x) = n
    BY DEF n
  <2>2. QED
    BY <1>1, <1>3, <1>4, <1>5, <1>6, <1>7, <1>8, <2>1
<1>len. e <= len
  BY DEF len
<1>11. ASSUME NEW i \in 1..e+1+n PROVE t[i] = IF i <= e + 1 THEN ab[i] ELSE x[i - (e+1)]
  <2>1. i \in 1..Len(abx)+Len(z) /\ i <= Len(abx) /\ i \in 1..Len(ab)+Len(x)
    BY <1>1, <1>4, <1>7, <1>10, <1>len, <1>11
  <2>2. t[i] = abx[i]
    BY <1>8, <2>1
  <2>3. abx[i] = IF i <= Len(ab) THEN ab[i] ELSE x[i - Len(ab)]
    BY <1>7, <2>1
  <2>4. QED
    BY <1>10, <2>2, <2>3
<1>12. ASSUME NEW o \in 0..e-1 PROVE t[o+1] = s[o+1]
  <2> DEFINE i == o + 1
  <2>1. i \in 1..e /\ i \in 1..e+1+n /\ i <= e + 1 /\ i \in 1..Len(a)+Len(b) /\ i <= Len(a)
    BY <1>1, <1>3, <1>5
  <2> HIDE DEF i
  <2>2. t[i] = ab[i]
    BY <1>11, <2>1
  <2>3. ab[i] = a[i] /\ a[i] = s[i]
    BY <1>3, <1>6, <2>1
  <2>4. QED
    BY <2>2, <2>3 DEF i
<1>13. t[e+1] = "/"
  <2> DEFINE i == e + 1
  <2>1. i \in 1..e+1+n /\ i <= e + 1 /\ i \in 1..Len(a)+Len(b) /\ ~(i <= Len(a)) /\ i - Len(a) = 1
    BY <1>1, <1>3, <1>5
  <2> HIDE DEF i
  <2>2. t[i] = ab[i]
    BY <1>11, <2>1
  <2>3. ab[i] = b[i - Len(a)]
    BY <1>6, <2>1
  <2>4. QED
    BY <1>5, <2>1, <2>2, <2>3 DEF i
<1>14. \A j \in 1..n : t[e+1+j] = x[j]
  <2> SUFFICES ASSUME NEW j \in 1..n PROVE t[e+1+j] = x[j]
    OBVIOUS
  <2>1. e+1+j \in 1..e+1+n /\ ~(e+1+j <= e + 1) /\ (e+1+j) - (e+1) = j
    BY <1>1
  <2>2. t[e+1+j] = x[(e+1+j) - (e+1)]
    BY <1>11, <2>1
  <2>3. QED
    BY <2>1, <2>2
<1>15. ASSUME NEW o \in e+1..e+(n+1)-1 PROVE t[o+1] \notin Delimiters
  <2> DEFINE j == o - e
  <2>1. j \in 1..n /\ o + 1 = e+1+j
    BY <1>1
  <2> HIDE DEF j
  <2>2. t[o+1] = x[j]
    BY <1>14, <2>1
  <2>3. DOMAIN x = 1..n
    BY LenProperties DEF n
  <2>4. x[j] \in Range(x)
    BY <2>1, <2>3 DEF Range
  <2>5. QED
    BY <2>2, <2>4 DEF IsName
<1>16. ASSUME NEW o \in e..len-1 PROVE t[(o+(n+1))+1] = s[o+1]
  <2> DEFINE i == (o+(n+1))+1
             j == o + 1 - e
  <2>1. /\ i \in 1..Len(abx)+Len(z) /\ ~(i <= Len(abx)) /\ i - Len(abx) = j
        /\ j \in 1..len-e /\ e + j = o + 1
    BY <1>1, <1>4, <1>10, <1>len, <1>16
  <2> HIDE DEF i, j
  <2>2. t[i] = z[i - Len(abx)]
    BY <1>8, <2>1
  <2>3. z[j] = s[e+j]
    BY <1>4, <2>1
  <2>4. t[i] = s[o+1]
    BY <2>1, <2>2, <2>3
  <2>5. QED
    BY <2>4 DEF i
<1>17. /\ n + 1 \in Nat /\ n + 1 >= 2 /\ Len(t) = len + (n + 1) /\ Len(t) \in Nat
  BY <1>1, <1>10
<1>18. Extends(t, s, e, n + 1)
  BY <1>1, <1>8, <1>len, <1>12, <1>13, <1>15, <1>16, <1>17 DEF Extends, len
<1>19. Text(t, View(e + 1, e + (n + 1))) = x
  <2> DEFINE y == Text(t, View(e + 1, e + (n + 1)))
             f == e + 1
             g == e + (n + 1)
  <2>1. f \in Nat /\ g \in Nat /\ f <= g /\ g <= Len(t) /\ g - f = n
    BY <1>1, <1>len, <1>17
  <2>2. y = Text(t, View(f, g))
    OBVIOUS
  <2>def. \A i \in 1..n : f+i = e+1+i
    OBVIOUS
  <2> HIDE DEF f, g, y
  <2>3. /\ Text(t, View(f, g)) \in Seq(Token) /\ Len(Text(t, View(f, g))) = g - f
        /\ \A i \in 1..g-f : Text(t, View(f, g))[i] = t[f+i]
    BY <1>8, <2>1, TextTokens
  <2>4. y \in Seq(Token) /\ Len(y) = n /\ \A i \in 1..n : y[i] = t[f+i]
    BY <2>1, <2>2, <2>3
  <2>5. \A i \in 1..Len(y) : y[i] = x[i]
    BY <1>14, <2>4, <2>def
  <2>6. Len(y) = Len(x)
    BY <2>4 DEF n
  <2>7. y = x
    BY <2>4, <2>5, <2>6, SeqEqual
  <2>8. QED
    BY <2>7 DEF y
<1>20. QED
  BY <1>9, <1>18, <1>19 DEF n

-----------------------------------------------------------------------------
(* Where a segment is added: at the end of the last one, at a slash or at   *)
(* the end of the string.  What stands in front of it stays where it is.    *)

Grows(t, s, e, k) ==
    /\ Extends(t, s, e, k)
    /\ AuthorityOk(s) /\ PathStart(s) <= e /\ e <= PathEnd(s)
    /\ e < Len(s) => s[e+1] = "/"
    /\ e = Len(s) => e > 0 /\ s[(e-1)+1] # "/"

LEMMA FindUnmoved ==
  ASSUME NEW s, NEW t, NEW e, NEW k, Extends(t, s, e, k),
         NEW from \in Nat, NEW to \in Nat, from <= to, to <= e, NEW T
  PROVE  Find(t, from, to, T) = Find(s, from, to, T)
<1> DEFINE f == Find(s, from, to, T)
<1>1. IsFound(f, s, from, to, T)
  BY FindProperties
<1> HIDE DEF f
<1>2. \A o \in from..to-1 : t[o+1] = s[o+1]
  <2> SUFFICES ASSUME NEW o \in from..to-1 PROVE t[o+1] = s[o+1]
    OBVIOUS
  <2>1. e \in Nat /\ \A p \in 0..e-1 : t[p+1] = s[p+1]
    BY DEF Extends
  <2>2. o \in 0..e-1
    BY <2>1
  <2>3. QED
    BY <2>1, <2>2
<1>3. f \in from..to /\ \A o \in from..f-1 : s[o+1] \notin T
  BY <1>1 DEF IsFound
<1>4. \A o \in from..f-1 : o \in from..to-1
  BY <1>3
<1>5. f < to => f \in from..to-1
  BY <1>3
<1>6. f < to => s[f+1] \in T
  BY <1>1 DEF IsFound
<1>7. IsFound(f, t, from, to, T)
  BY <1>2, <1>3, <1>4, <1>5, <1>6 DEF IsFound
<1>8. Find(t, from, to, T) = f
  BY <1>7, FindIs
<1>9. QED
  BY <1>8 DEF f

\* What is found in front of the place is found there again.
LEMMA FoundInFront ==
  ASSUME NEW s, NEW t, NEW e, NEW k, Extends(t, s, e, k),
         NEW f \in Nat, NEW from \in Nat, NEW T, IsFound(f, s, from, Len(s), T), f < e
  PROVE  Find(t, from, Len(t), T) = f
<1>1. /\ e \in Nat /\ Len(s) \in Nat /\ Len(t) \in Nat /\ k \in Nat /\ e <= Len(s)
      /\ Len(t) = Len(s) + k
  BY DEF Extends
<1>2. f \in from..Len(s) /\ \A o \in from..f-1 : s[o+1] \notin T
  BY DEF IsFound
<1>3. s[f+1] \in T
  <2>1. f < Len(s)
    BY <1>1
  <2>2. QED
    BY <2>1 DEF IsFound
<1>4. \A o \in 0..e-1 : t[o+1] = s[o+1]
  BY DEF Extends
<1>5. f \in 0..e-1 /\ \A o \in from..f-1 : o \in 0..e-1
  BY <1>1
<1>6. f \in from..Len(t) /\ from <= Len(t)
  BY <1>1, <1>2
<1>7. t[f+1] \in T /\ \A o \in from..f-1 : t[o+1] \notin T
  BY <1>2, <1>3, <1>4, <1>5
<1>8. IsFound(f, t, from, Len(t), T)
  BY <1>6, <1>7 DEF IsFound
<1>9. QED
  BY <1>1, <1>6, <1>8, FindIs

LEMMA StartsWithThree ==
  ASSUME NEW S, NEW s \in Seq(S), NEW at \in Nat, NEW a, NEW b, NEW c
  PROVE  StartsWith(s, at, <<a, b, c>>) <=>
           at + 3 <= Len(s) /\ s[at+1] = a /\ s[(at+1)+1] = b /\ s[(at+2)+1] = c
<1> DEFINE x == SubSeq(s, at + 1, at + 3)
           y == <<a, b, c>>
<1>1. Len(s) \in Nat /\ Len(y) = 3
  BY LenProperties
<1>2. StartsWith(s, at, y) <=> at + 3 <= Len(s) /\ x = y
  BY <1>1 DEF StartsWith
<1>3. CASE ~(at + 3 <= Len(s))
  BY <1>2, <1>3
<1>4. CASE at + 3 <= Len(s)
  <2>1. \A i \in at+1..at+3 : s[i] \in S
    <3>1. \A i \in at+1..at+3 : i \in 1..Len(s)
      BY <1>1, <1>4
    <3>2. QED
      BY <3>1, ElementOfSeq
  <2>2. at + 1 \in Int /\ at + 3 \in Int
    OBVIOUS
  <2>3. /\ x \in Seq(S) /\ Len(x) = IF at + 1 <= at + 3 THEN (at+3)-(at+1)+1 ELSE 0
        /\ \A i \in 1..(at+3)-(at+1)+1 : x[i] = s[(at+1)+i-1]
    BY <2>1, <2>2, SubSeqProperties
  <2> HIDE DEF x
  <2>4. Len(x) = 3
    BY <2>3
  <2>5. /\ 1 \in 1..(at+3)-(at+1)+1 /\ 2 \in 1..(at+3)-(at+1)+1 /\ 3 \in 1..(at+3)-(at+1)+1
        /\ (at+1)+1-1 = at+1 /\ (at+1)+2-1 = (at+1)+1 /\ (at+1)+3-1 = (at+2)+1
    OBVIOUS
  <2>6. x[1] = s[at+1] /\ x[2] = s[(at+1)+1] /\ x[3] = s[(at+2)+1]
    BY <2>3, <2>5
  <2>7. x = <<x[1], x[2], x[3]>>
    BY <2>3, <2>4
  <2>8. x = y <=> x[1] = a /\ x[2] = b /\ x[3] = c
    BY <2>7
  <2>9. QED
    BY <1>2, <1>4, <2>6, <2>8
<1>5. QED
  BY <1>3, <1>4

LEMMA SchemeStays ==
  ASSUME NEW s, NEW t, NEW e, NEW k, Grows(t, s, e, k)
  PROVE  SchemeEnd(t) = SchemeEnd(s)
<1> DEFINE f == Find(s, 0, Len(s), Delimiters)
           len == Len(s)
<1>1. /\ s \in Seq(Token) /\ t \in Seq(Token) /\ len \in Nat /\ Len(t) \in Nat
      /\ e \in Nat /\ k \in Nat /\ k >= 2 /\ e <= len /\ Len(t) = len + k
      /\ Extends(t, s, e, k)
  BY DEF Grows, Extends
<1>2. IsFound(f, s, 0, len, Delimiters)
  BY <1>1, FindProperties
<1>3. SchemeEnd(s) = IF StartsWith(s, f, <<":">>) THEN f ELSE 0
  BY DEF SchemeEnd
<1> HIDE DEF f
<1>4. f \in Nat /\ f <= len
  BY <1>1, <1>2 DEF IsFound
<1>5. StartsWith(s, f, <<":">>) <=> f < len /\ s[f+1] = ":"
  BY <1>1, <1>4, StartsWithOne
<1>6. CASE f < e
  <2>1. Find(t, 0, Len(t), Delimiters) = f
    BY <1>1, <1>2, <1>4, <1>6, FoundInFront
  <2>2. SchemeEnd(t) = IF StartsWith(t, f, <<":">>) THEN f ELSE 0
    BY <2>1 DEF SchemeEnd
  <2>3. StartsWith(t, f, <<":">>) <=> f < Len(t) /\ t[f+1] = ":"
    BY <1>1, <1>4, StartsWithOne
  <2>4. f < len /\ f < Len(t) /\ f \in 0..e-1
    BY <1>1, <1>4, <1>6
  <2>5. t[f+1] = s[f+1]
    BY <1>1, <2>4 DEF Extends
  <2>6. QED
    BY <1>3, <1>5, <2>2, <2>3, <2>4, <2>5
<1>7. CASE e <= f
  <2>1. IsFound(e, t, 0, Len(t), Delimiters)
    <3>1. e \in 0..Len(t)
      BY <1>1
    <3>2. \A o \in 0..e-1 : s[o+1] \notin Delimiters
      <4>1. \A o \in 0..e-1 : o \in 0..f-1
        BY <1>1, <1>4, <1>7
      <4>2. QED
        BY <1>2, <4>1 DEF IsFound
    <3>3. \A o \in 0..e-1 : t[o+1] \notin Delimiters
      BY <1>1, <3>2 DEF Extends
    <3>4. t[e+1] \in Delimiters
      <4>1. t[e+1] = "/"
        BY <1>1 DEF Extends
      <4>2. QED
        BY <4>1 DEF Delimiters
    <3>5. QED
      BY <3>1, <3>3, <3>4 DEF IsFound
  <2>2. Find(t, 0, Len(t), Delimiters) = e
    <3>1. 0 \in Nat /\ 0 <= Len(t)
      BY <1>1
    <3>2. QED
      BY <1>1, <2>1, <3>1, FindIs
  <2>3. ~StartsWith(t, e, <<":">>)
    <3>1. StartsWith(t, e, <<":">>) <=> e < Len(t) /\ t[e+1] = ":"
      BY <1>1, StartsWithOne
    <3>2. t[e+1] = "/"
      BY <1>1 DEF Extends
    <3>3. QED
      BY <3>1, <3>2
  <2>4. SchemeEnd(t) = 0
    BY <2>2, <2>3 DEF SchemeEnd
  <2>5. ~StartsWith(s, f, <<":">>)
    <3> SUFFICES ASSUME f < len, s[f+1] = ":" PROVE FALSE
      BY <1>5
    <3>1. SchemeEnd(s) = f
      BY <1>3, <1>5
    <3>2. SchemeEnd(s) <= PathStart(s) /\ PathStart(s) <= e /\ PathStart(s) \in Nat
      BY <1>1, PathBounds DEF Grows
    <3>3. f = e
      BY <1>1, <1>4, <1>7, <3>1, <3>2
    <3>4. s[e+1] = "/"
      BY <3>3 DEF Grows
    <3>5. QED
      BY <3>3, <3>4
  <2>6. QED
    BY <1>3, <2>4, <2>5
<1>8. QED
  BY <1>1, <1>4, <1>6, <1>7

LEMMA AuthorityStays ==
  ASSUME NEW s, NEW t, NEW e, NEW k, Grows(t, s, e, k)
  PROVE  HasAuthority(t) <=> HasAuthority(s)
<1> DEFINE a == SchemeEnd(s)
           len == Len(s)
<1>1. /\ s \in Seq(Token) /\ t \in Seq(Token) /\ len \in Nat /\ Len(t) \in Nat
      /\ e \in Nat /\ k \in Nat /\ k >= 2 /\ e <= len /\ Len(t) = len + k
      /\ Extends(t, s, e, k) /\ AuthorityOk(s)
  BY DEF Grows, Extends
<1>2. a \in Nat /\ a <= e
  <2>1. a \in Nat /\ a <= PathStart(s) /\ PathStart(s) <= e /\ PathStart(s) \in Nat
    BY <1>1, PathBounds DEF Grows
  <2>2. QED
    BY <1>1, <2>1
<1>3. HasAuthority(s) <=> a + 3 <= len /\ s[a+1] = ":" /\ s[(a+1)+1] = "/" /\ s[(a+2)+1] = "/"
  BY <1>1, <1>2, StartsWithThree DEF HasAuthority
<1>4. HasAuthority(t) <=> a + 3 <= Len(t) /\ t[a+1] = ":" /\ t[(a+1)+1] = "/" /\ t[(a+2)+1] = "/"
  <2>1. SchemeEnd(t) = a
    BY SchemeStays
  <2> HIDE DEF a
  <2>2. StartsWith(t, a, <<":", "/", "/">>) <=>
           a + 3 <= Len(t) /\ t[a+1] = ":" /\ t[(a+1)+1] = "/" /\ t[(a+2)+1] = "/"
    BY <1>1, <1>2, StartsWithThree
  <2>3. QED
    BY <2>1, <2>2 DEF HasAuthority
<1>same. \A o \in 0..e-1 : t[o+1] = s[o+1]
  BY <1>1 DEF Extends
<1>5. ASSUME HasAuthority(s) PROVE HasAuthority(t)
  <2>1. AuthStart(s) = a + 3 /\ PathStart(s) = AuthEnd(s) + 1 /\ AuthEnd(s) \in AuthStart(s)..len
    BY <1>1, <1>5, AuthorityProperties DEF IsFound
  <2>2. PathStart(s) <= e
    BY DEF Grows
  <2> HIDE DEF a
  <2>3. a \in 0..e-1 /\ a + 1 \in 0..e-1 /\ a + 2 \in 0..e-1 /\ a + 3 <= Len(t)
    BY <1>1, <1>2, <2>1, <2>2
  <2>4. t[a+1] = s[a+1] /\ t[(a+1)+1] = s[(a+1)+1] /\ t[(a+2)+1] = s[(a+2)+1]
    BY <1>same, <2>3
  <2>5. QED
    BY <1>3, <1>4, <1>5, <2>3, <2>4
<1>6. ASSUME HasAuthority(t) PROVE HasAuthority(s)
  <2>1. t[a+1] = ":" /\ t[(a+1)+1] = "/" /\ t[(a+2)+1] = "/"
    BY <1>4, <1>6
  <2> HIDE DEF a
  <2>2. a < e
    <3>1. t[e+1] = "/"
      BY <1>1 DEF Extends
    <3>2. a # e
      BY <2>1, <3>1
    <3>3. QED
      BY <1>1, <1>2, <3>2
  <2>3. a + 2 <= e
    <3> SUFFICES ASSUME ~(a + 2 <= e) PROVE FALSE
      OBVIOUS
    <3>1. a + 2 \in e+1..e+k-1
      BY <1>1, <1>2, <2>2
    <3>2. t[(a+2)+1] \notin Delimiters
      BY <1>1, <3>1 DEF Extends
    <3>3. QED
      BY <2>1, <3>2 DEF Delimiters
  <2>4. a \in 0..e-1 /\ a + 1 \in 0..e-1
    BY <1>1, <1>2, <2>3
  <2>5. s[a+1] = ":" /\ s[(a+1)+1] = "/"
    BY <1>same, <2>1, <2>4
  <2>6. CASE a + 2 < e
    <3>1. a + 2 \in 0..e-1 /\ a + 3 <= len
      BY <1>1, <1>2, <2>6
    <3>2. s[(a+2)+1] = "/"
      BY <1>same, <2>1, <3>1
    <3>3. QED
      BY <1>3, <2>5, <3>1, <3>2
  <2>7. CASE a + 2 = e
    <3>1. e - 1 = a + 1
      BY <1>2, <2>7
    <3>2. s[(e-1)+1] = "/"
      BY <2>5, <3>1
    <3>3. e # len
      BY <3>2 DEF Grows
    <3>4. e < len
      BY <1>1, <3>3
    <3>5. s[e+1] = "/"
      BY <3>4 DEF Grows
    <3>6. s[(a+2)+1] = "/" /\ a + 3 <= len
      <4>1. a + 3 <= len
        BY <1>1, <1>2, <2>7, <3>4
      <4>2. QED
        BY <2>7, <3>5, <4>1
    <3>7. QED
      BY <1>3, <2>5, <3>6
  <2>8. QED
    BY <1>1, <1>2, <2>3, <2>6, <2>7
<1>7. QED
  BY <1>5, <1>6

LEMMA DomainStays ==
  ASSUME NEW s, NEW t, NEW e, NEW k, Grows(t, s, e, k), HasAuthority(s)
  PROVE  /\ AuthStart(t) = AuthStart(s) /\ AuthEnd(t) = AuthEnd(s) /\ At(t) = At(s)
         /\ HasUser(t) <=> HasUser(s)
         /\ UserColon(t) = UserColon(s) /\ DomainStart(t) = DomainStart(s)
         /\ DomainEnd(t) = DomainEnd(s) /\ PathStart(t) = PathStart(s)
<1> DEFINE a == AuthStart(s)
           z == AuthEnd(s)
           at == At(s)
           ds == DomainStart(s)
           len == Len(s)
<1>1. /\ s \in Seq(Token) /\ t \in Seq(Token) /\ len \in Nat /\ Len(t) \in Nat
      /\ e \in Nat /\ k \in Nat /\ e <= len /\ Extends(t, s, e, k) /\ AuthorityOk(s)
      /\ PathStart(s) <= e
  BY DEF Grows, Extends
<1>2. /\ a = SchemeEnd(s) + 3 /\ PathStart(s) = z + 1 /\ IsFound(z, s, a, len, {"/"})
      /\ z \in a..len /\ at \in a..z /\ ds \in a..z
  BY <1>1, AuthorityProperties DEF IsFound
<1>3. SchemeEnd(s) \in Nat
  BY <1>1, SchemeEndProperties
<1> HIDE DEF a, z, at, ds
<1>4. /\ a \in Nat /\ z \in Nat /\ at \in Nat /\ ds \in Nat
      /\ a <= z /\ a <= at /\ at <= z /\ ds <= z /\ z < e /\ z <= e /\ at <= e
  BY <1>1, <1>2, <1>3
<1>5. AuthStart(t) = a
  BY SchemeStays DEF AuthStart, a
<1>6. AuthEnd(t) = z
  <2>1. Find(t, a, Len(t), {"/"}) = z
    BY <1>1, <1>2, <1>4, FoundInFront
  <2>2. QED
    BY <1>5, <2>1 DEF AuthEnd
<1>7. At(t) = at
  <2>1. Find(t, a, z, {"@"}) = Find(s, a, z, {"@"})
    BY <1>1, <1>4, FindUnmoved
  <2>2. at = Find(s, a, z, {"@"})
    BY DEF At, at, a, z
  <2>3. QED
    BY <1>5, <1>6, <2>1, <2>2 DEF At
<1>8. HasUser(t) <=> HasUser(s)
  BY <1>6, <1>7 DEF HasUser, at, z
<1>9. UserColon(t) = UserColon(s)
  <2>1. Find(t, a, at, {":"}) = Find(s, a, at, {":"})
    BY <1>1, <1>4, FindUnmoved
  <2>2. UserColon(s) = Find(s, a, at, {":"})
    BY DEF UserColon, at, a
  <2>3. UserColon(t) = Find(t, a, at, {":"})
    BY <1>5, <1>7 DEF UserColon
  <2>4. QED
    BY <2>1, <2>2, <2>3
<1>10. DomainStart(t) = ds
  BY <1>5, <1>7, <1>8 DEF DomainStart, ds, at, a
<1>11. DomainEnd(t) = DomainEnd(s)
  <2>1. Find(t, ds, z, {":"}) = Find(s, ds, z, {":"})
    BY <1>1, <1>4, FindUnmoved
  <2>2. DomainEnd(s) = Find(s, ds, z, {":"})
    BY DEF DomainEnd, ds, z
  <2>3. DomainEnd(t) = Find(t, ds, z, {":"})
    BY <1>6, <1>10 DEF DomainEnd
  <2>4. QED
    BY <2>1, <2>2, <2>3
<1>12. PathStart(t) = PathStart(s)
  <2>1. HasAuthority(t)
    BY AuthorityStays
  <2>2. QED
    BY <1>6, <2>1 DEF PathStart, z
<1>13. QED
  BY <1>5, <1>6, <1>7, <1>8, <1>9, <1>10, <1>11, <1>12 DEF a, z, at, ds

LEMMA PortStays ==
  ASSUME NEW s, NEW t, NEW e, NEW k, Extends(t, s, e, k),
         NEW v \in Span, v.from <= v.to, v.to <= e, IsShort(s, v)
  PROVE  IsShort(t, v)
<1> DEFINE a == v.from
           b == v.to
           T == Token \ (Digits \cup BigNumbers)
           n == Find(s, a, b, T)
<1>1. a \in Nat /\ b \in Nat /\ a <= b /\ b <= e /\ e \in Nat
  BY SpanIsView DEF Extends
<1>2. a < b /\ s[a+1] \in Digits /\ \A i \in a..n-1 : s[i+1] \notin BigNumbers
  BY DEF IsShort
<1> HIDE DEF a, b, T, n
<1>3. Find(t, a, b, T) = n
  BY <1>1, FindUnmoved DEF n
<1>4. n \in a..b
  BY <1>1, FindProperties DEF IsFound, n
<1>same. \A o \in 0..e-1 : t[o+1] = s[o+1]
  BY DEF Extends
<1>5. a \in 0..e-1 /\ \A i \in a..n-1 : i \in 0..e-1
  BY <1>1, <1>2, <1>4
<1>6. t[a+1] \in Digits /\ \A i \in a..n-1 : t[i+1] \notin BigNumbers
  BY <1>2, <1>same, <1>5
<1>7. QED
  BY <1>2, <1>3, <1>6 DEF IsShort, a, b, T

LEMMA AuthorityStaysOk ==
  ASSUME NEW s, NEW t, NEW e, NEW k, Grows(t, s, e, k)
  PROVE  AuthorityOk(t) /\ PathStart(t) = PathStart(s)
<1>1. /\ s \in Seq(Token) /\ t \in Seq(Token) /\ Len(s) \in Nat /\ Len(t) \in Nat
      /\ e \in Nat /\ k \in Nat /\ e <= Len(s) /\ Extends(t, s, e, k) /\ AuthorityOk(s)
      /\ PathStart(s) <= e /\ Len(t) = Len(s) + k
  BY DEF Grows, Extends
<1>2. HasAuthority(t) <=> HasAuthority(s)
  BY AuthorityStays
<1>3. CASE ~HasAuthority(s)
  <2>1. AuthorityOk(t)
    BY <1>2, <1>3 DEF AuthorityOk
  <2>2. PathStart(t) = PathStart(s)
    BY <1>2, <1>3, SchemeStays DEF PathStart
  <2>3. QED
    BY <2>1, <2>2
<1>4. CASE HasAuthority(s)
  <2>1. /\ AuthStart(t) = AuthStart(s) /\ AuthEnd(t) = AuthEnd(s) /\ At(t) = At(s)
        /\ HasUser(t) <=> HasUser(s)
        /\ UserColon(t) = UserColon(s) /\ DomainStart(t) = DomainStart(s)
        /\ DomainEnd(t) = DomainEnd(s) /\ PathStart(t) = PathStart(s)
    BY <1>4, DomainStays
  <2>2. AuthEnd(s) < Len(s) /\ (HasUser(s) => UserColon(s) < At(s))
        /\ (DomainEnd(s) < AuthEnd(s) => IsShort(s, Port(s)))
    BY <1>1, <1>4 DEF AuthorityOk
  <2> DEFINE z == AuthEnd(s)
             de == DomainEnd(s)
  <2>3. /\ PathStart(s) = z + 1 /\ z \in AuthStart(s)..Len(s) /\ de \in DomainStart(s)..z
        /\ DomainStart(s) \in AuthStart(s)..z /\ AuthStart(s) = SchemeEnd(s) + 3
    BY <1>1, <1>4, AuthorityProperties DEF IsFound
  <2>4. SchemeEnd(s) \in Nat
    BY <1>1, SchemeEndProperties
  <2>5. Port(t) = Port(s)
    BY <2>1 DEF Port
  <2>6. Port(s) = View(de + 1, z)
    BY DEF Port
  <2>7. z < Len(s)
    BY <2>2
  <2> HIDE DEF z, de
  <2>8. z \in Nat /\ de \in Nat /\ de <= z /\ z <= e /\ z < Len(t)
    BY <1>1, <2>3, <2>4, <2>7
  <2>9. ASSUME de < z PROVE IsShort(t, Port(t))
    <3> DEFINE v == View(de + 1, z)
    <3>1. v \in Span /\ v.from = de + 1 /\ v.to = z
      BY <2>8 DEF View, Span
    <3>2. de + 1 <= z
      BY <2>8, <2>9
    <3>3. IsShort(s, v)
      BY <2>2, <2>6, <2>9 DEF z, de
    <3> HIDE DEF v
    <3>4. v.from <= v.to /\ v.to <= e
      BY <2>8, <3>1, <3>2
    <3>5. IsShort(t, v)
      BY <1>1, <3>1, <3>3, <3>4, PortStays
    <3>6. QED
      BY <2>5, <2>6, <3>5 DEF v
  <2>10. AuthEnd(t) < Len(t)
    BY <2>1, <2>8 DEF z
  <2>11. HasUser(t) => UserColon(t) < At(t)
    BY <2>1, <2>2
  <2>12. DomainEnd(t) < AuthEnd(t) => IsShort(t, Port(t))
    BY <2>1, <2>9 DEF z, de
  <2>13. AuthorityOk(t)
    BY <2>10, <2>11, <2>12 DEF AuthorityOk
  <2>14. QED
    BY <2>1, <2>13
<1>5. QED
  BY <1>3, <1>4

-----------------------------------------------------------------------------
(* What stands behind the place is moved by the tokens inserted.            *)

LEMMA FindShifted ==
  ASSUME NEW s, NEW t, NEW e, NEW k, Extends(t, s, e, k),
         NEW from \in Nat, NEW to \in Nat, from <= to, e <= from, to <= Len(s), NEW T
  PROVE  Find(t, from + k, to + k, T) = Find(s, from, to, T) + k
<1> DEFINE f == Find(s, from, to, T)
           len == Len(s)
<1>1. IsFound(f, s, from, to, T)
  BY FindProperties
<1>2. e \in Nat /\ k \in Nat /\ len \in Nat /\ \A o \in e..len-1 : t[(o+k)+1] = s[o+1]
  BY DEF Extends
<1>3. to <= len
  OBVIOUS
<1> HIDE DEF f, len
<1>4. f \in from..to /\ \A o \in from..f-1 : s[o+1] \notin T
  BY <1>1 DEF IsFound
<1>5. f < to => s[f+1] \in T
  BY <1>1 DEF IsFound
<1>6. ASSUME NEW i \in from+k..(f+k)-1 PROVE t[i+1] \notin T
  <2> DEFINE o == i - k
  <2>1. o \in from..f-1 /\ o \in e..len-1 /\ o + k = i
    BY <1>2, <1>3, <1>4
  <2> HIDE DEF o
  <2>2. t[(o+k)+1] = s[o+1] /\ s[o+1] \notin T
    BY <1>2, <1>4, <2>1
  <2>3. QED
    BY <2>1, <2>2
<1>7. f + k < to + k => t[(f+k)+1] \in T
  <2> SUFFICES ASSUME f + k < to + k PROVE t[(f+k)+1] \in T
    OBVIOUS
  <2>1. f < to /\ f \in e..len-1
    BY <1>2, <1>3, <1>4
  <2>2. QED
    BY <1>2, <1>5, <2>1
<1>8. f + k \in from+k..to+k /\ from + k \in Nat /\ to + k \in Nat /\ from + k <= to + k
      /\ f + k \in Nat
  BY <1>2, <1>4
<1>9. IsFound(f + k, t, from + k, to + k, T)
  BY <1>6, <1>7, <1>8 DEF IsFound
<1>10. Find(t, from + k, to + k, T) = f + k
  BY <1>8, <1>9, FindIs
<1>11. QED
  BY <1>10 DEF f

LEMMA StartShifted ==
  ASSUME NEW s, NEW t, NEW e, NEW k, Extends(t, s, e, k), NEW at \in Nat, e <= at, NEW c
  PROVE  StartsWith(t, at + k, <<c>>) <=> StartsWith(s, at, <<c>>)
<1>1. /\ s \in Seq(Token) /\ t \in Seq(Token) /\ Len(s) \in Nat /\ Len(t) = Len(s) + k
      /\ k \in Nat /\ e \in Nat /\ \A o \in e..Len(s)-1 : t[(o+k)+1] = s[o+1]
  BY DEF Extends
<1>2. StartsWith(s, at, <<c>>) <=> at < Len(s) /\ s[at+1] = c
  BY <1>1, StartsWithOne
<1>3. at + k \in Nat
  BY <1>1
<1>4. StartsWith(t, at + k, <<c>>) <=> at + k < Len(t) /\ t[(at+k)+1] = c
  BY <1>1, <1>3, StartsWithOne
<1>5. at + k < Len(t) <=> at < Len(s)
  BY <1>1
<1>6. at < Len(s) => at \in e..Len(s)-1
  BY <1>1
<1>7. QED
  BY <1>1, <1>2, <1>4, <1>5, <1>6

LEMMA BackMoves ==
  ASSUME NEW s, NEW t, NEW e, NEW k, Grows(t, s, e, k)
  PROVE  /\ PathEnd(t) = PathEnd(s) + k /\ (HasQuery(t) <=> HasQuery(s))
         /\ QueryEnd(t) = QueryEnd(s) + k
         /\ StartsWith(t, QueryEnd(t), <<"#">>) <=> StartsWith(s, QueryEnd(s), <<"#">>)
<1> DEFINE len == Len(s)
           p == PathStart(s)
           q == PathEnd(s)
           T == {"?", "#"}
<1>1. /\ s \in Seq(Token) /\ t \in Seq(Token) /\ len \in Nat /\ Len(t) \in Nat
      /\ e \in Nat /\ k \in Nat /\ k >= 2 /\ e <= len /\ Extends(t, s, e, k) /\ AuthorityOk(s)
      /\ p <= e /\ e <= q /\ Len(t) = len + k
  BY DEF Grows, Extends
<1>2. /\ p \in Nat /\ q \in Nat /\ q <= len /\ IsFound(q, s, p, len, T)
      /\ QueryEnd(s) \in Nat /\ q <= QueryEnd(s) /\ QueryEnd(s) <= len
      /\ HasQuery(s) => q + 1 <= QueryEnd(s)
  <2>1. /\ PathStart(s) \in Nat /\ PathEnd(s) \in Nat /\ PathEnd(s) <= QueryEnd(s)
        /\ QueryEnd(s) <= Len(s) /\ QueryEnd(s) \in Nat
        /\ IsFound(PathEnd(s), s, PathStart(s), Len(s), {"?", "#"})
        /\ HasQuery(s) => PathEnd(s) + 1 <= QueryEnd(s)
    BY <1>1, PathBounds
  <2>2. QED
    BY <1>1, <2>1
<1>3. PathStart(t) = p
  BY AuthorityStaysOk
<1>found. PathEnd(s) = Find(s, p, len, T) /\ PathEnd(t) = Find(t, p, Len(t), T)
  BY <1>3 DEF PathEnd
<1>4. PathEnd(t) = q + k
  <2> HIDE DEF q, p, len
  <2>1. q \in p..len /\ \A o \in p..q-1 : s[o+1] \notin T
    BY <1>2 DEF IsFound
  <2>2. q < len => s[q+1] \in T
    BY <1>2 DEF IsFound
  <2>3. ASSUME NEW o \in p..(q+k)-1 PROVE t[o+1] \notin T
    <3>1. CASE o < e
      <4>1. o \in 0..e-1 /\ o \in p..q-1
        BY <1>1, <1>2, <3>1
      <4>2. t[o+1] = s[o+1]
        BY <1>1, <4>1 DEF Extends
      <4>3. QED
        BY <2>1, <4>1, <4>2
    <3>2. CASE o = e
      <4>1. t[e+1] = "/"
        BY <1>1 DEF Extends
      <4>2. QED
        BY <3>2, <4>1
    <3>3. CASE o \in e+1..e+k-1
      <4>1. t[o+1] \notin Delimiters
        BY <1>1, <3>3 DEF Extends
      <4>2. QED
        BY <4>1 DEF Delimiters
    <3>4. CASE e + k <= o
      <4> DEFINE i == o - k
      <4>1. i \in e..len-1 /\ i \in p..q-1 /\ i + k = o
        BY <1>1, <1>2, <3>4
      <4> HIDE DEF i
      <4>2. t[(i+k)+1] = s[i+1]
        BY <1>1, <4>1 DEF Extends, len
      <4>3. QED
        BY <2>1, <4>1, <4>2
    <3>5. QED
      BY <1>1, <1>2, <3>1, <3>2, <3>3, <3>4
  <2>4. q + k < Len(t) => t[(q+k)+1] \in T
    <3> SUFFICES ASSUME q + k < Len(t) PROVE t[(q+k)+1] \in T
      OBVIOUS
    <3>1. q < len /\ q \in e..len-1
      BY <1>1, <1>2
    <3>2. t[(q+k)+1] = s[q+1]
      BY <1>1, <3>1 DEF Extends, len
    <3>3. QED
      BY <2>2, <3>1, <3>2
  <2>5. q + k \in p..Len(t) /\ p <= Len(t)
    BY <1>1, <1>2
  <2> HIDE DEF T
  <2>6. IsFound(q + k, t, p, Len(t), T)
    BY <2>3, <2>4, <2>5 DEF IsFound
  <2>7. Find(t, p, Len(t), T) = q + k
    BY <1>1, <1>2, <2>5, <2>6, FindIs
  <2>8. QED
    BY <1>found, <2>7
<1> HIDE DEF p, T
<1>5. HasQuery(t) <=> HasQuery(s)
  <2>1. StartsWith(t, q + k, <<"?">>) <=> StartsWith(s, q, <<"?">>)
    BY <1>1, <1>2, StartShifted
  <2>2. QED
    BY <1>4, <2>1 DEF HasQuery
<1>6. QueryEnd(t) = QueryEnd(s) + k
  <2>1. CASE ~HasQuery(s)
    BY <1>4, <1>5, <2>1 DEF QueryEnd
  <2>2. CASE HasQuery(s)
    <3>1. QueryEnd(s) = Find(s, q + 1, len, {"#"})
      BY <2>2 DEF QueryEnd
    <3>2. QueryEnd(t) = Find(t, PathEnd(t) + 1, Len(t), {"#"})
      BY <1>5, <2>2 DEF QueryEnd
    <3>3. q + 1 \in Nat /\ q + 1 <= len /\ e <= q + 1 /\ PathEnd(t) + 1 = (q + 1) + k
      <4>1. q + 1 <= QueryEnd(s)
        BY <1>2, <2>2
      <4> HIDE DEF q, len
      <4>2. QED
        BY <1>1, <1>2, <1>4, <4>1
    <3> HIDE DEF q
    <3>4. len <= Len(s)
      BY <1>1
    <3> HIDE DEF len
    <3>5. Find(t, (q + 1) + k, len + k, {"#"}) = Find(s, q + 1, len, {"#"}) + k
      BY <1>1, <3>3, <3>4, FindShifted
    <3>6. QED
      BY <1>1, <3>1, <3>2, <3>3, <3>5
  <2>3. QED
    BY <2>1, <2>2
<1>7. StartsWith(t, QueryEnd(t), <<"#">>) <=> StartsWith(s, QueryEnd(s), <<"#">>)
  <2> DEFINE r == QueryEnd(s)
  <2>1. r \in Nat /\ e <= r
    <3>1. r \in Nat /\ q <= r
      BY <1>2
    <3> HIDE DEF r, q
    <3>2. QED
      BY <1>1, <1>2, <3>1
  <2> HIDE DEF r
  <2>2. StartsWith(t, r + k, <<"#">>) <=> StartsWith(s, r, <<"#">>)
    BY <1>1, <2>1, StartShifted
  <2>3. QED
    BY <1>6, <2>2 DEF r
<1>8. QED
  BY <1>4, <1>5, <1>6, <1>7

-----------------------------------------------------------------------------
(* The pieces of the path, one more than before.                           *)

LEMMA FrontOfAppend ==
  ASSUME NEW S, NEW x \in Seq(S), NEW a \in S
  PROVE  Front(Append(x, a)) = x /\ Last(Append(x, a)) = a
<1> DEFINE y == Append(x, a)
           f == Front(y)
           n == Len(x)
<1>1. n \in Nat
  BY LenProperties
<1>2. y \in Seq(S) /\ y # <<>> /\ Len(y) = n + 1 /\ (\A i \in 1..n : y[i] = x[i]) /\ y[n+1] = a
  BY AppendProperties
<1> HIDE DEF y
<1>3. f \in Seq(S) /\ Len(f) = Len(y) - 1 /\ \A i \in 1..Len(y)-1 : f[i] = y[i]
  BY <1>2, FrontProperties
<1> HIDE DEF f
<1>4. Len(f) = Len(x)
  BY <1>1, <1>2, <1>3
<1>5. Len(y) - 1 = n
  BY <1>1, <1>2
<1>6. \A i \in 1..Len(f) : f[i] = x[i]
  BY <1>2, <1>3, <1>4, <1>5
<1>7. f = x
  BY <1>3, <1>4, <1>6, SeqEqual
<1>8. Last(y) = a
  BY <1>2 DEF Last
<1>9. QED
  BY <1>7, <1>8 DEF f, y

LEMMA PiecesAppend ==
  ASSUME NEW s, NEW from \in Nat, NEW m \in Nat, NEW to \in Nat, m + 1 <= to, NEW T,
         NEW ps, IsPieces(ps, s, from, m, T), s[m+1] \in T,
         \A o \in m+1..to-1 : s[o+1] \notin T
  PROVE  IsPieces(Append(ps, View(m + 1, to)), s, from, to, T)
<1> DEFINE v == View(m + 1, to)
           qs == Append(ps, v)
           n == Len(ps)
<1>1. ps \in Seq(Span) /\ n \in Nat /\ n >= 1
  BY LenProperties DEF IsPieces
<1>2. v \in Span /\ v.from = m + 1 /\ v.to = to
  BY DEF View, Span
<1> HIDE DEF v
<1>3. qs \in Seq(Span) /\ Len(qs) = n + 1 /\ (\A i \in 1..n : qs[i] = ps[i]) /\ qs[n+1] = v
  BY <1>1, <1>2, AppendProperties
<1> HIDE DEF qs
<1>4. \A i \in 1..n :
          /\ from <= ps[i].from /\ ps[i].from <= ps[i].to /\ ps[i].to <= m
          /\ \A o \in ps[i].from..ps[i].to-1 : s[o+1] \notin T
  BY DEF IsPieces
<1>5. \A i \in 1..n-1 : ps[i+1].from = ps[i].to + 1 /\ s[ps[i].to+1] \in T
  BY DEF IsPieces
<1>6. \A i, j \in 1..n : i < j => ps[i].to < ps[j].from
  BY DEF IsPieces
<1>7. ps[1].from = from /\ ps[n].to = m
  BY DEF IsPieces
<1>8. \A i \in 1..n : ps[i].from \in Nat /\ ps[i].to \in Nat
  <2> SUFFICES ASSUME NEW i \in 1..n PROVE ps[i].from \in Nat /\ ps[i].to \in Nat
    OBVIOUS
  <2>1. ps[i] \in Span
    BY <1>1, ElementOfSeq
  <2>2. QED
    BY <2>1 DEF Span
<1> HIDE DEF n
<1>9. 1 \in 1..n /\ n \in 1..n /\ \A i \in 1..n+1 : i \in 1..n \/ i = n + 1
  BY <1>1
<1>10. from <= m
  <2>1. from <= ps[n].from /\ ps[n].from <= ps[n].to /\ ps[n].from \in Nat
    BY <1>4, <1>8, <1>9
  <2>2. QED
    BY <1>7, <2>1
<1>11. ASSUME NEW i \in 1..n+1
       PROVE  /\ from <= qs[i].from /\ qs[i].from <= qs[i].to /\ qs[i].to <= to
              /\ \A o \in qs[i].from..qs[i].to-1 : s[o+1] \notin T
  <2>1. CASE i \in 1..n
    <3>1. qs[i] = ps[i]
      BY <1>3, <2>1
    <3>2. ps[i].to <= to
      <4>1. ps[i].to <= m /\ ps[i].to \in Nat
        BY <1>4, <1>8, <2>1
      <4>2. QED
        BY <4>1
    <3>3. QED
      BY <1>4, <2>1, <3>1, <3>2
  <2>2. CASE i = n + 1
    <3>1. qs[i] = v
      BY <1>3, <2>2
    <3>2. from <= m + 1 /\ m + 1 <= to /\ to <= to
      BY <1>10
    <3>3. QED
      BY <1>2, <3>1, <3>2
  <2>3. QED
    BY <1>9, <2>1, <2>2
<1>12. ASSUME NEW i \in 1..(n+1)-1 PROVE qs[i+1].from = qs[i].to + 1 /\ s[qs[i].to+1] \in T
  <2>1. i \in 1..n /\ (i = n \/ (i \in 1..n-1 /\ i + 1 \in 1..n))
    BY <1>1
  <2>2. qs[i] = ps[i]
    BY <1>3, <2>1
  <2>3. CASE i = n
    <3>1. qs[i+1] = v
      BY <1>3, <2>3
    <3>2. qs[i].to = m
      BY <1>7, <2>2, <2>3
    <3>3. QED
      BY <1>2, <3>1, <3>2
  <2>4. CASE i \in 1..n-1 /\ i + 1 \in 1..n
    <3>1. qs[i+1] = ps[i+1]
      BY <1>3, <2>4
    <3>2. QED
      BY <1>5, <2>2, <2>4, <3>1
  <2>5. QED
    BY <2>1, <2>3, <2>4
<1>13. ASSUME NEW i \in 1..n+1, NEW j \in 1..n+1, i < j PROVE qs[i].to < qs[j].from
  <2>1. i \in 1..n
    BY <1>1, <1>13
  <2>2. qs[i] = ps[i]
    BY <1>3, <2>1
  <2>3. CASE j \in 1..n
    BY <1>3, <1>6, <1>13, <2>1, <2>2, <2>3
  <2>4. CASE j = n + 1
    <3>1. qs[j] = v
      BY <1>3, <2>4
    <3>2. ps[i].to <= m /\ ps[i].to \in Nat
      BY <1>4, <1>8, <2>1
    <3>3. ps[i].to < m + 1
      BY <3>2
    <3>4. QED
      BY <1>2, <2>2, <3>1, <3>3
  <2>5. QED
    BY <1>9, <2>3, <2>4
<1>14. n + 1 >= 1 /\ qs[1].from = from /\ qs[n+1].to = to
  BY <1>1, <1>2, <1>3, <1>7, <1>9
<1>15. IsPieces(qs, s, from, to, T)
  BY <1>3, <1>11, <1>12, <1>13, <1>14 DEF IsPieces
<1>16. QED
  BY <1>15 DEF qs, v

LEMMA PiecesFront ==
  ASSUME NEW s, NEW from \in Nat, NEW to \in Nat, NEW T,
         NEW ps, IsPieces(ps, s, from, to, T), Len(ps) >= 2
  PROVE  IsPieces(Front(ps), s, from, ps[Len(ps)-1].to, T)
<1> DEFINE f == Front(ps)
           n == Len(ps)
           m == n - 1
           b == ps[n-1].to
<1>1. ps \in Seq(Span) /\ n \in Nat /\ n >= 2 /\ m \in Nat /\ m >= 1 /\ n = m + 1
  BY LenProperties DEF IsPieces
<1>2. ps # <<>>
  BY <1>1, EmptySeq
<1>3. f \in Seq(Span) /\ Len(f) = m /\ \A i \in 1..m : f[i] = ps[i]
  BY <1>1, <1>2, FrontProperties
<1> HIDE DEF f
<1>4. \A i \in 1..n :
          /\ from <= ps[i].from /\ ps[i].from <= ps[i].to
          /\ \A o \in ps[i].from..ps[i].to-1 : s[o+1] \notin T
  BY DEF IsPieces
<1>5. \A i \in 1..n-1 : ps[i+1].from = ps[i].to + 1 /\ s[ps[i].to+1] \in T
  BY DEF IsPieces
<1>6. \A i, j \in 1..n : i < j => ps[i].to < ps[j].from
  BY DEF IsPieces
<1>7. ps[1].from = from
  BY DEF IsPieces
<1>8. \A i \in 1..n : ps[i].from \in Nat /\ ps[i].to \in Nat
  <2> SUFFICES ASSUME NEW i \in 1..n PROVE ps[i].from \in Nat /\ ps[i].to \in Nat
    OBVIOUS
  <2>1. ps[i] \in Span
    BY <1>1, ElementOfSeq
  <2>2. QED
    BY <2>1 DEF Span
<1>9. b = ps[m].to
  OBVIOUS
<1> HIDE DEF n, m, b
<1>10. \A i \in 1..m : i \in 1..n
  BY <1>1
<1>11. ASSUME NEW i \in 1..m PROVE ps[i].to <= b
  <2>1. m \in 1..m
    BY <1>1
  <2>2. CASE i = m
    <3>1. b \in Nat
      BY <1>8, <1>9, <1>10, <2>1
    <3>2. QED
      BY <1>9, <2>2, <3>1
  <2>3. CASE i < m
    <3>1. ps[i].to < ps[m].from /\ ps[m].from <= ps[m].to
      BY <1>4, <1>6, <1>10, <2>1, <2>3
    <3>2. ps[i].to \in Nat /\ ps[m].from \in Nat /\ ps[m].to \in Nat
      BY <1>8, <1>10, <2>1
    <3>3. QED
      BY <1>9, <3>1, <3>2
  <2>4. QED
    BY <1>1, <2>2, <2>3
<1>12. \A i \in 1..m :
          /\ from <= f[i].from /\ f[i].from <= f[i].to /\ f[i].to <= b
          /\ \A o \in f[i].from..f[i].to-1 : s[o+1] \notin T
  BY <1>3, <1>4, <1>10, <1>11
<1>13. \A i \in 1..m-1 : f[i+1].from = f[i].to + 1 /\ s[f[i].to+1] \in T
  <2> SUFFICES ASSUME NEW i \in 1..m-1 PROVE f[i+1].from = f[i].to + 1 /\ s[f[i].to+1] \in T
    OBVIOUS
  <2>1. i \in 1..m /\ i + 1 \in 1..m /\ i \in 1..n-1
    BY <1>1
  <2>2. QED
    BY <1>3, <1>5, <2>1
<1>14. \A i, j \in 1..m : i < j => f[i].to < f[j].from
  BY <1>3, <1>6, <1>10
<1>15. f[1].from = from /\ f[m].to = b
  <2>1. 1 \in 1..m /\ m \in 1..m
    BY <1>1
  <2>2. QED
    BY <1>3, <1>7, <1>9, <2>1
<1>16. IsPieces(f, s, from, b, T)
  BY <1>1, <1>3, <1>12, <1>13, <1>14, <1>15 DEF IsPieces
<1>17. QED
  BY <1>16 DEF f, b, n

LEMMA PiecesUnmoved ==
  ASSUME NEW s, NEW t, NEW e \in Nat, \A o \in 0..e-1 : t[o+1] = s[o+1],
         NEW from \in Nat, NEW T, NEW ps, IsPieces(ps, s, from, e, T)
  PROVE  IsPieces(ps, t, from, e, T)
<1> DEFINE n == Len(ps)
<1>1. ps \in Seq(Span) /\ n \in Nat /\ n >= 1
  BY LenProperties DEF IsPieces
<1>2. \A i \in 1..n :
          /\ from <= ps[i].from /\ ps[i].from <= ps[i].to /\ ps[i].to <= e
          /\ \A o \in ps[i].from..ps[i].to-1 : s[o+1] \notin T
  BY DEF IsPieces
<1>3. \A i \in 1..n-1 : ps[i+1].from = ps[i].to + 1 /\ s[ps[i].to+1] \in T
  BY DEF IsPieces
<1>4. \A i \in 1..n : ps[i].from \in Nat /\ ps[i].to \in Nat
  <2> SUFFICES ASSUME NEW i \in 1..n PROVE ps[i].from \in Nat /\ ps[i].to \in Nat
    OBVIOUS
  <2>1. ps[i] \in Span
    BY <1>1, ElementOfSeq
  <2>2. QED
    BY <2>1 DEF Span
<1>5. ASSUME NEW i \in 1..n, NEW o \in ps[i].from..ps[i].to-1 PROVE t[o+1] \notin T
  <2>1. ps[i].to <= e /\ ps[i].from \in Nat /\ ps[i].to \in Nat
    BY <1>2, <1>4
  <2>2. o \in 0..e-1
    BY <2>1
  <2>3. QED
    BY <1>2, <2>2
<1>6. ASSUME NEW i \in 1..n-1 PROVE t[ps[i].to+1] \in T
  <2>1. i \in 1..n /\ i + 1 \in 1..n
    BY <1>1
  <2> DEFINE a == ps[i].to
  <2>2. ps[i+1].from = a + 1 /\ ps[i+1].from <= ps[i+1].to /\ ps[i+1].to <= e
    BY <1>2, <1>3, <2>1
  <2>3. a \in Nat /\ ps[i+1].to \in Nat
    BY <1>4, <2>1
  <2>4. s[a+1] \in T
    BY <1>3
  <2> HIDE DEF a
  <2>5. a \in 0..e-1
    BY <2>2, <2>3
  <2>6. t[a+1] \in T
    BY <2>4, <2>5
  <2>7. QED
    BY <2>6 DEF a
<1>7. \A i, j \in 1..n : i < j => ps[i].to < ps[j].from
  BY DEF IsPieces
<1>8. ps[1].from = from /\ ps[n].to = e
  BY DEF IsPieces
<1>9. QED
  BY <1>1, <1>2, <1>3, <1>5, <1>6, <1>7, <1>8 DEF IsPieces

(* A path with segments is all pieces, up to the end of the string, or all  *)
(* but the last one, up to a slash.                                        *)
LEMMA PathPlace ==
  ASSUME NEW s \in Seq(Token), AuthorityOk(s), Path(s) # <<>>, NEW e, e = Last(Path(s)).to,
         NEW all, all = Pieces(s, PathStart(s), PathEnd(s), {"/"})
  PROVE  /\ e \in Nat /\ PathStart(s) <= e /\ e <= PathEnd(s)
         /\ IsPieces(Path(s), s, PathStart(s), e, {"/"})
         /\ \/ /\ KeepsLast(s, Last(all)) /\ Path(s) = all
               /\ e = PathEnd(s) /\ e = Len(s) /\ e > 0 /\ s[(e-1)+1] # "/"
            \/ /\ ~KeepsLast(s, Last(all)) /\ Path(s) = Front(all)
               /\ Last(all) = View(e + 1, PathEnd(s)) /\ e + 1 <= PathEnd(s) /\ s[e+1] = "/"
               /\ \A o \in e+1..PathEnd(s)-1 : s[o+1] # "/"
<1> DEFINE n == Len(all)
           p == PathStart(s)
           q == PathEnd(s)
           path == Path(s)
<1>1. p \in Nat /\ q \in Nat /\ p <= q /\ Len(s) \in Nat
  BY PathBounds
<1>2. IsPieces(all, s, p, q, {"/"})
  BY <1>1, PiecesProperties
<1>3. path = IF KeepsLast(s, Last(all)) THEN all ELSE Front(all)
  BY DEF Path
<1>last. path # <<>> /\ e = Last(path).to
  OBVIOUS
<1> HIDE DEF path, p, q
<1>4. all \in Seq(Span) /\ n \in Nat /\ n >= 1 /\ all[1].from = p /\ all[n].to = q
  BY <1>2, LenProperties DEF IsPieces
<1>5. Last(all) = all[n]
  BY DEF Last
<1> HIDE DEF n
<1>6. n \in 1..n
  BY <1>4
<1>7. all[n] \in Span
  BY <1>4, <1>6, ElementOfSeq DEF n
<1> DEFINE a == all[n].from
<1>8. /\ p <= a /\ a <= q /\ a \in Nat /\ all[n] = View(a, q)
      /\ \A o \in a..q-1 : s[o+1] # "/"
  <2>1. /\ p <= all[n].from /\ all[n].from <= all[n].to
        /\ \A o \in all[n].from..all[n].to-1 : s[o+1] \notin {"/"}
    BY <1>2, <1>6 DEF IsPieces, n
  <2>2. a \in Nat /\ all[n] = View(a, all[n].to)
    BY <1>7, SpanIsView
  <2>3. all[n].to = q
    BY <1>4
  <2> HIDE DEF a
  <2>4. QED
    BY <2>1, <2>2, <2>3 DEF a
<1>9. KeepsLast(s, Last(all)) <=> q = Len(s) /\ a < q
  BY <1>4, <1>5 DEF KeepsLast
<1> HIDE DEF a
<1>10. CASE KeepsLast(s, Last(all))
  <2>1. path = all
    BY <1>3, <1>10
  <2>2. e = q
    BY <1>4, <1>5, <1>last, <2>1
  <2>3. q - 1 \in a..q-1 /\ q > 0 /\ q \in Nat /\ p <= q /\ q <= q
    BY <1>1, <1>8, <1>9, <1>10
  <2>4. s[(q-1)+1] # "/"
    BY <1>8, <2>3
  <2>5. IsPieces(path, s, p, e, {"/"})
    BY <1>2, <2>1, <2>2
  <2>6. QED
    BY <1>9, <1>10, <2>1, <2>2, <2>3, <2>4, <2>5 DEF path, p, q
<1>11. CASE ~KeepsLast(s, Last(all))
  <2>1. path = Front(all)
    BY <1>3, <1>11
  <2>2. all # <<>>
    BY <1>4, EmptySeq DEF n
  <2>3. path \in Seq(Span) /\ Len(path) = n - 1 /\ \A i \in 1..n-1 : path[i] = all[i]
    BY <1>4, <2>1, <2>2, FrontProperties DEF n
  <2>4. n >= 2
    <3>1. Len(path) \in Nat \ {0}
      BY <1>last, <2>3, EmptySeq
    <3>2. QED
      BY <1>4, <2>3, <3>1
  <2>5. n - 1 \in 1..n-1 /\ n - 1 \in 1..n /\ (n - 1) + 1 = n
    BY <1>4, <2>4
  <2>6. e = all[n-1].to
    <3>1. Last(path) = path[n-1]
      BY <2>3 DEF Last
    <3>2. path[n-1] = all[n-1]
      BY <2>3, <2>5
    <3>3. QED
      BY <1>last, <3>1, <3>2
  <2>7. a = e + 1 /\ s[e+1] = "/"
    <3>1. all[(n-1)+1].from = all[n-1].to + 1 /\ s[all[n-1].to+1] \in {"/"}
      BY <1>2, <2>5 DEF IsPieces, n
    <3>2. QED
      BY <2>5, <2>6, <3>1 DEF a
  <2>8. IsPieces(path, s, p, e, {"/"})
    <3>1. Len(all) >= 2
      BY <2>4 DEF n
    <3>2. IsPieces(Front(all), s, p, all[Len(all)-1].to, {"/"})
      BY <1>1, <1>2, <3>1, PiecesFront
    <3>3. QED
      BY <2>1, <2>6, <3>2 DEF n
  <2>9. all[n-1] \in Span /\ p <= all[n-1].from /\ all[n-1].from <= all[n-1].to
    BY <1>2, <1>4, <2>5, ElementOfSeq DEF IsPieces, n
  <2>10. e \in Nat /\ p <= e
    <3>1. all[n-1].from \in Nat /\ all[n-1].to \in Nat
      BY <2>9 DEF Span
    <3>2. QED
      BY <1>1, <2>6, <2>9, <3>1
  <2>11. e + 1 <= q /\ e <= q
    BY <1>1, <1>8, <2>7, <2>10
  <2>12. Last(all) = View(e + 1, q) /\ \A o \in e+1..q-1 : s[o+1] # "/"
    BY <1>5, <1>8, <2>7
  <2>13. QED
    BY <1>11, <2>1, <2>7, <2>8, <2>10, <2>11, <2>12 DEF path, p, q
<1>12. QED
  BY <1>10, <1>11

LEMMA PathGrows ==
  ASSUME NEW s \in Seq(Token), AuthorityOk(s), Path(s) # <<>>, NEW e, e = Last(Path(s)).to,
         NEW t, NEW k, Extends(t, s, e, k)
  PROVE  Grows(t, s, e, k) /\ Path(t) = Append(Path(s), View(e + 1, e + k))
<1> DEFINE all == Pieces(s, PathStart(s), PathEnd(s), {"/"})
           most == Pieces(t, PathStart(t), PathEnd(t), {"/"})
           p == PathStart(s)
           q == PathEnd(s)
           path == Path(s)
           T == {"/"}
           v == View(e + 1, e + k)
           w == View((e + k) + 1, q + k)
           Kept == /\ KeepsLast(s, Last(all)) /\ path = all
                   /\ e = q /\ e = Len(s) /\ e > 0 /\ s[(e-1)+1] # "/"
           Dropped == /\ ~KeepsLast(s, Last(all)) /\ path = Front(all)
                      /\ Last(all) = View(e + 1, q) /\ e + 1 <= q /\ s[e+1] = "/"
                      /\ \A o \in e+1..q-1 : s[o+1] # "/"
<1>1. /\ s \in Seq(Token) /\ t \in Seq(Token) /\ Len(s) \in Nat /\ Len(t) = Len(s) + k
      /\ e \in Nat /\ k \in Nat /\ k >= 2 /\ e <= Len(s)
  BY DEF Extends
<1>2. p <= e /\ e <= q /\ IsPieces(path, s, p, e, T) /\ (Kept \/ Dropped)
  BY PathPlace
<1>3. p \in Nat /\ q \in Nat /\ q <= Len(s)
  <2>1. p \in Nat /\ q \in Nat /\ q <= QueryEnd(s) /\ QueryEnd(s) <= Len(s) /\ QueryEnd(s) \in Nat
    BY PathBounds
  <2> HIDE DEF p, q
  <2>2. QED
    BY <1>1, <2>1
<1>4. Grows(t, s, e, k)
  <2>1. e < Len(s) => s[e+1] = "/"
    BY <1>1, <1>2
  <2>2. e = Len(s) => Kept
    <3> SUFFICES ASSUME e = Len(s), Dropped PROVE FALSE
      BY <1>2
    <3>1. e + 1 <= q
      OBVIOUS
    <3> HIDE DEF q, p, path, Dropped, Kept
    <3>2. QED
      BY <1>1, <1>3, <3>1
  <2>3. e = Len(s) => e > 0 /\ s[(e-1)+1] # "/"
    BY <2>2
  <2>4. QED
    BY <1>2, <2>1, <2>3 DEF Grows
<1>5. PathStart(t) = p /\ PathEnd(t) = q + k
  BY <1>4, AuthorityStaysOk, BackMoves
<1>6. most = Pieces(t, p, q + k, T)
  BY <1>5
<1>7. IsPieces(most, t, p, q + k, T)
  <2>1. q + k \in Nat /\ p <= q + k
    BY <1>1, <1>2, <1>3
  <2> HIDE DEF q, p, T, most
  <2>2. QED
    BY <1>3, <1>6, <2>1, PiecesProperties
<1>8. IsPieces(path, t, p, e, T)
  <2>1. \A o \in 0..e-1 : t[o+1] = s[o+1]
    BY DEF Extends
  <2> HIDE DEF q, p, path, T, Kept, Dropped
  <2>2. QED
    BY <1>1, <1>2, <1>3, <2>1, PiecesUnmoved
<1>9. IsPieces(Append(path, v), t, p, e + k, T)
  <2>1. t[e+1] \in T
    BY DEF Extends
  <2>2. \A o \in e+1..e+k-1 : t[o+1] \notin T
    <3>1. \A o \in e+1..e+k-1 : t[o+1] \notin Delimiters
      BY DEF Extends
    <3>2. "/" \in Delimiters
      BY DEF Delimiters
    <3>3. QED
      BY <3>1, <3>2
  <2>3. e + 1 <= e + k /\ e + k \in Nat
    BY <1>1
  <2> DEFINE b == e + k
  <2>4. \A o \in e+1..b-1 : t[o+1] \notin T
    <3>1. e+1..b-1 = e+1..e+k-1
      BY <1>1
    <3> HIDE DEF b, T
    <3>2. QED
      BY <2>2, <3>1
  <2>b. b \in Nat /\ e + 1 <= b
    BY <2>3
  <2> HIDE DEF p, q, path, T, Kept, Dropped, b
  <2>5. IsPieces(Append(path, View(e + 1, b)), t, p, b, T)
    BY <1>1, <1>3, <1>8, <2>1, <2>b, <2>4, PiecesAppend
  <2>6. QED
    BY <2>5 DEF b
<1>10. Path(t) = IF KeepsLast(t, Last(most)) THEN most ELSE Front(most)
  BY DEF Path
<1>11. path \in Seq(Span)
  BY <1>2 DEF IsPieces
<1>12. v \in Span /\ v.from = e + 1 /\ v.to = e + k
  BY <1>1 DEF View, Span
<1>13. CASE Kept
  <2>1. e = q /\ e = Len(s)
    BY <1>13
  <2> HIDE DEF p, q, path, T, v, Kept, Dropped, most
  <2>2. most = Append(path, v)
    <3>1. p \in Nat /\ q + k \in Nat /\ IsPieces(Append(path, v), t, p, q + k, T)
      BY <1>1, <1>3, <1>9, <2>1
    <3>2. QED
      BY <1>7, <3>1, PiecesUnique
  <2>3. Last(most) = v
    BY <1>11, <1>12, <2>2, FrontOfAppend
  <2>4. KeepsLast(t, Last(most))
    <3>1. v.to = Len(t) /\ v.from < v.to
      BY <1>1, <1>12, <2>1
    <3>2. QED
      BY <2>3, <3>1 DEF KeepsLast
  <2>5. Path(t) = Append(path, v)
    BY <1>10, <2>2, <2>4
  <2>6. QED
    BY <1>4, <2>5 DEF path, v
<1>14. CASE Dropped
  <2>1. e + 1 <= q /\ s[e+1] = "/" /\ \A o \in e+1..q-1 : s[o+1] # "/"
    BY <1>14
  <2>2. ~KeepsLast(s, View(e + 1, q))
    BY <1>14
  <2> HIDE DEF p, q, path, T, v, Kept, Dropped, most, w
  <2>behind. \A o \in e..Len(s)-1 : t[(o+k)+1] = s[o+1]
    BY DEF Extends
  <2>3. t[(e+k)+1] = "/"
    <3>1. e \in e..Len(s)-1
      BY <1>1, <1>3, <2>1
    <3>2. QED
      BY <2>1, <2>behind, <3>1
  <2>4. ASSUME NEW o \in (e+k)+1..(q+k)-1 PROVE t[o+1] # "/"
    <3> DEFINE i == o - k
    <3>1. i \in e+1..q-1 /\ i \in e..Len(s)-1 /\ i + k = o
      BY <1>1, <1>3
    <3> HIDE DEF i
    <3>2. t[(i+k)+1] = s[i+1]
      BY <2>behind, <3>1
    <3>3. QED
      BY <2>1, <3>1, <3>2
  <2>5. w \in Span /\ w.from = (e + k) + 1 /\ w.to = q + k
    BY <1>1, <1>3 DEF w, View, Span
  <2> DEFINE more == Append(path, v)
  <2>6. IsPieces(Append(more, w), t, p, q + k, T)
    <3>1. e + k \in Nat /\ q + k \in Nat /\ (e + k) + 1 <= q + k
      BY <1>1, <1>3, <2>1
    <3>2. t[(e+k)+1] \in T /\ \A o \in (e+k)+1..(q+k)-1 : t[o+1] \notin T
      BY <2>3, <2>4 DEF T
    <3>3. IsPieces(more, t, p, e + k, T)
      BY <1>9
    <3> HIDE DEF more
    <3>4. QED
      BY <1>3, <3>1, <3>2, <3>3, PiecesAppend DEF w
  <2>7. more \in Seq(Span)
    BY <1>11, <1>12, AppendProperties
  <2> HIDE DEF more
  <2>8. most = Append(more, w)
    <3>1. p \in Nat /\ q + k \in Nat
      BY <1>1, <1>3
    <3>2. QED
      BY <1>7, <2>6, <3>1, PiecesUnique
  <2>9. Last(most) = w /\ Front(most) = more
    BY <2>5, <2>7, <2>8, FrontOfAppend
  <2>10. ~KeepsLast(t, w)
    <3>1. View(e + 1, q).from = e + 1 /\ View(e + 1, q).to = q
      BY DEF View
    <3>2. ~(q = Len(s) /\ e + 1 < q)
      BY <2>2, <3>1 DEF KeepsLast
    <3>3. ~(q + k = Len(t) /\ (e + k) + 1 < q + k)
      BY <1>1, <1>3, <3>2
    <3>4. QED
      BY <2>5, <3>3 DEF KeepsLast
  <2>11. Path(t) = more
    BY <1>10, <2>9, <2>10
  <2>12. QED
    BY <1>4, <2>11 DEF more, path, v
<1>15. QED
  BY <1>2, <1>13, <1>14

-----------------------------------------------------------------------------
(* The parameters, in the same order further on.                           *)

LEMMA PiecesShifted ==
  ASSUME NEW s, NEW t, NEW e, NEW k, Extends(t, s, e, k),
         NEW from \in Nat, NEW to \in Nat, from <= to, e <= from, to <= Len(s), NEW T,
         NEW ps, ps = Pieces(s, from, to, T), NEW qs, qs = Pieces(t, from + k, to + k, T)
  PROVE  /\ IsPieces(ps, s, from, to, T) /\ Len(qs) = Len(ps)
         /\ \A i \in 1..Len(ps) : qs[i] = Shift(ps[i], k)
<1> DEFINE n == Len(ps)
           rs == [i \in 1..n |-> Shift(ps[i], k)]
           len == Len(s)
<1>1. IsPieces(ps, s, from, to, T)
  BY PiecesProperties
<1>2. /\ e \in Nat /\ k \in Nat /\ len \in Nat /\ e <= from /\ to <= len
      /\ \A o \in e..len-1 : t[(o+k)+1] = s[o+1]
  BY DEF Extends
<1>3. ps \in Seq(Span) /\ n \in Nat /\ n >= 1
  BY <1>1, LenProperties DEF IsPieces
<1> HIDE DEF len
<1>4. \A i \in 1..n : ps[i] \in Span
  BY <1>3, ElementOfSeq
<1>5. \A i \in 1..n : ps[i].from \in Nat /\ ps[i].to \in Nat
  BY <1>4 DEF Span
<1>6. \A i \in 1..n :
          /\ from <= ps[i].from /\ ps[i].from <= ps[i].to /\ ps[i].to <= to
          /\ \A o \in ps[i].from..ps[i].to-1 : s[o+1] \notin T
  BY <1>1 DEF IsPieces
<1>7. \A i \in 1..n-1 : ps[i+1].from = ps[i].to + 1 /\ s[ps[i].to+1] \in T
  BY <1>1 DEF IsPieces
<1>8. \A i, j \in 1..n : i < j => ps[i].to < ps[j].from
  BY <1>1 DEF IsPieces
<1>9. ps[1].from = from /\ ps[n].to = to
  BY <1>1 DEF IsPieces
<1> HIDE DEF n
<1>10. \A i \in 1..n : /\ Shift(ps[i], k) \in Span /\ Shift(ps[i], k).from = ps[i].from + k
                       /\ Shift(ps[i], k).to = ps[i].to + k
  BY <1>2, <1>4, ShiftIsSpan
<1>11. rs \in [1..n -> Span] /\ DOMAIN rs = 1..n /\ \A i \in 1..n : rs[i] = Shift(ps[i], k)
  BY <1>10
<1> HIDE DEF rs
<1>12. rs \in Seq(Span)
  BY <1>3, <1>11, SeqDef
<1>13. Len(rs) = n
  BY <1>3, <1>11, <1>12, LenProperties
<1>14. \A i \in 1..n : rs[i].from = ps[i].from + k /\ rs[i].to = ps[i].to + k
  BY <1>10, <1>11
<1>15. ASSUME NEW i \in 1..n
       PROVE  /\ from + k <= rs[i].from /\ rs[i].from <= rs[i].to /\ rs[i].to <= to + k
              /\ \A o \in rs[i].from..rs[i].to-1 : t[o+1] \notin T
  <2> DEFINE a == ps[i].from
             b == ps[i].to
  <2>1. /\ a \in Nat /\ b \in Nat /\ from <= a /\ a <= b /\ b <= to
        /\ rs[i].from = a + k /\ rs[i].to = b + k
    BY <1>5, <1>6, <1>14
  <2>2. \A o \in a..b-1 : s[o+1] \notin T
    BY <1>6
  <2> HIDE DEF a, b
  <2>3. from + k <= a + k /\ a + k <= b + k /\ b + k <= to + k
    BY <1>2, <2>1
  <2>4. ASSUME NEW o \in a+k..(b+k)-1 PROVE t[o+1] \notin T
    <3> DEFINE j == o - k
    <3>1. j \in a..b-1 /\ j \in e..len-1 /\ j + k = o
      BY <1>2, <2>1
    <3> HIDE DEF j
    <3>2. t[(j+k)+1] = s[j+1]
      BY <1>2, <3>1
    <3>3. QED
      BY <2>2, <3>1, <3>2
  <2>5. QED
    BY <2>1, <2>3, <2>4
<1>16. ASSUME NEW i \in 1..n-1 PROVE rs[i+1].from = rs[i].to + 1 /\ t[rs[i].to+1] \in T
  <2>1. i \in 1..n /\ i + 1 \in 1..n
    BY <1>3
  <2> DEFINE a == ps[i+1].from
             b == ps[i].to
             c == ps[i+1].to
  <2>2. a = b + 1 /\ s[b+1] \in T /\ a <= c /\ c <= to /\ from <= b
    <3>1. from <= ps[i].from /\ ps[i].from <= b /\ ps[i].from \in Nat /\ b \in Nat
      BY <1>5, <1>6, <2>1
    <3>2. from <= b
      BY <3>1
    <3>3. QED
      BY <1>6, <1>7, <2>1, <3>2
  <2>3. a \in Nat /\ b \in Nat /\ c \in Nat /\ rs[i+1].from = a + k /\ rs[i].to = b + k
    BY <1>5, <1>14, <2>1
  <2> HIDE DEF a, b, c
  <2>4. b \in e..len-1 /\ a + k = (b + k) + 1
    BY <1>2, <2>2, <2>3
  <2>5. t[(b+k)+1] = s[b+1]
    BY <1>2, <2>4
  <2>6. QED
    BY <2>2, <2>3, <2>4, <2>5
<1>17. ASSUME NEW i \in 1..n, NEW j \in 1..n, i < j PROVE rs[i].to < rs[j].from
  <2> DEFINE a == ps[i].to
             b == ps[j].from
  <2>1. a < b /\ a \in Nat /\ b \in Nat /\ rs[i].to = a + k /\ rs[j].from = b + k
    BY <1>5, <1>8, <1>14, <1>17
  <2> HIDE DEF a, b
  <2>2. a + k < b + k
    BY <1>2, <2>1
  <2>3. QED
    BY <2>1, <2>2
<1>18. rs[1].from = from + k /\ rs[n].to = to + k
  <2>1. 1 \in 1..n /\ n \in 1..n
    BY <1>3
  <2>2. QED
    BY <1>9, <1>14, <2>1
<1>19. IsPieces(rs, t, from + k, to + k, T)
  BY <1>3, <1>12, <1>13, <1>15, <1>16, <1>17, <1>18 DEF IsPieces
<1> DEFINE x == from + k
           y == to + k
<1>20. x \in Nat /\ y \in Nat /\ x <= y
  BY <1>2
<1>21. qs = Pieces(t, x, y, T) /\ IsPieces(rs, t, x, y, T)
  BY <1>19
<1> HIDE DEF x, y
<1>22. IsPieces(qs, t, x, y, T)
  BY <1>20, <1>21, PiecesProperties
<1>23. qs = rs
  BY <1>20, <1>21, <1>22, PiecesUnique
<1>24. QED
  BY <1>1, <1>11, <1>13, <1>23 DEF n

\* A parameter is the last two pieces that '=' separates.
LEMMA ParamOfPieces ==
  ASSUME NEW s, NEW piece \in Span, piece.from <= piece.to,
         NEW ps, ps = Pieces(s, piece.from, piece.to, {"="})
  PROVE  Param(s, piece) = IF Len(ps) = 1 THEN [key |-> Null, value |-> piece]
                           ELSE [key |-> ps[Len(ps)-1], value |-> ps[Len(ps)]]
<1> DEFINE from == piece.from
           to == piece.to
           eqs == Cuts(s, from, to, {"="})
           n == Len(eqs)
<1>1. from \in Nat /\ to \in Nat /\ from <= to
  BY DEF Span
<1>2. IsCuts(eqs, s, from, to, {"="}) /\ IsPieces(ps, s, from, to, {"="})
  BY <1>1, CutsProperties, PiecesProperties
<1>3. n \in Nat
  BY <1>2, LenProperties DEF IsCuts
<1>4. Param(s, piece) = IF n = 0 THEN [key |-> Null, value |-> piece]
        ELSE [key |-> View(IF n = 1 THEN from ELSE eqs[n-1] + 1, eqs[n]),
              value |-> View(eqs[n] + 1, to)]
  BY DEF Param
<1>5. ps = [i \in 1..n+1 |-> View(IF i = 1 THEN from ELSE eqs[i-1] + 1,
                                  IF i > n THEN to ELSE eqs[i])]
  BY DEF Pieces
<1>6. Len(ps) = n + 1
  <2>1. ps \in Seq(Span)
    BY <1>2 DEF IsPieces
  <2>2. DOMAIN ps = 1..n+1
    BY <1>5
  <2>3. DOMAIN ps = 1..Len(ps) /\ Len(ps) \in Nat
    BY <2>1, LenProperties
  <2> HIDE DEF n
  <2>4. QED
    BY <1>3, <2>2, <2>3
<1> HIDE DEF n, eqs
<1>7. CASE n = 0
  BY <1>4, <1>6, <1>7
<1>8. CASE n # 0
  <2>1. n \in 1..n+1 /\ n + 1 \in 1..n+1 /\ n + 1 # 1 /\ n + 1 > n /\ ~(n > n)
        /\ (n + 1) - 1 = n
    BY <1>3, <1>8
  <2>2. ps[n] = View(IF n = 1 THEN from ELSE eqs[n-1] + 1, eqs[n])
    BY <1>5, <2>1
  <2>3. ps[n+1] = View(eqs[n] + 1, to)
    BY <1>5, <2>1
  <2>4. Param(s, piece) = [key |-> ps[n], value |-> ps[n+1]]
    BY <1>4, <1>8, <2>2, <2>3
  <2>5. QED
    BY <1>6, <2>1, <2>4
<1>9. QED
  BY <1>7, <1>8

Moved(p, k) == [key |-> Shift(p.key, k), value |-> Shift(p.value, k)]

LEMMA ParamShifted ==
  ASSUME NEW s, NEW t, NEW e, NEW k, Extends(t, s, e, k),
         NEW piece \in Span, piece.from <= piece.to, e <= piece.from, piece.to <= Len(s),
         Text(s, Param(s, piece).key) # <<>>
  PROVE  /\ Param(t, Shift(piece, k)) = Moved(Param(s, piece), k)
         /\ ParamOk(Param(s, piece), s, piece)
<1> DEFINE from == piece.from
           to == piece.to
           ps == Pieces(s, from, to, {"="})
           qs == Pieces(t, from + k, to + k, {"="})
           moved == Shift(piece, k)
           n == Len(ps)
<1>1. from \in Nat /\ to \in Nat /\ from <= to /\ k \in Nat /\ s \in Seq(Token)
  BY DEF Span, Extends
<1>2. moved \in Span /\ moved.from = from + k /\ moved.to = to + k
  BY <1>1, ShiftIsSpan
<1>3. Param(s, piece) = IF n = 1 THEN [key |-> Null, value |-> piece]
                        ELSE [key |-> ps[n-1], value |-> ps[n]]
  BY ParamOfPieces
<1>4. Param(t, moved) = IF Len(qs) = 1 THEN [key |-> Null, value |-> moved]
                        ELSE [key |-> qs[Len(qs)-1], value |-> qs[Len(qs)]]
  <2>1. moved.from <= moved.to
    <3> HIDE DEF moved, from, to
    <3>1. QED
      BY <1>1, <1>2
  <2>2. qs = Pieces(t, moved.from, moved.to, {"="})
    BY <1>2
  <2> HIDE DEF qs, moved
  <2>3. QED
    BY <1>2, <2>1, <2>2, ParamOfPieces
<1>5. /\ IsPieces(ps, s, from, to, {"="}) /\ Len(qs) = n
      /\ \A i \in 1..n : qs[i] = Shift(ps[i], k)
  <2>1. e <= from /\ to <= Len(s)
    OBVIOUS
  <2> DEFINE T == {"="}
  <2>2. ps = Pieces(s, from, to, T) /\ qs = Pieces(t, from + k, to + k, T)
    OBVIOUS
  <2> HIDE DEF from, to, ps, qs, T
  <2>3. /\ IsPieces(ps, s, from, to, T) /\ Len(qs) = Len(ps)
        /\ \A i \in 1..Len(ps) : qs[i] = Shift(ps[i], k)
    BY <1>1, <2>1, <2>2, PiecesShifted
  <2>4. QED
    BY <2>3 DEF T
<1>6. n \in Nat /\ n >= 1
  BY <1>5, LenProperties DEF IsPieces
<1>7. n # 1
  <2> SUFFICES ASSUME n = 1 PROVE FALSE
    OBVIOUS
  <2>1. Param(s, piece).key = Null
    BY <1>3
  <2>2. Text(s, Null) = SubSeq(s, 0 + 1, 0)
    BY DEF Text, Null, View
  <2>3. SubSeq(s, 0 + 1, 0) = <<>>
    BY SubSeqEmpty
  <2>4. QED
    BY <2>1, <2>2, <2>3
<1> HIDE DEF ps, qs, n, moved
<1>8. n - 1 \in 1..n /\ n \in 1..n
  BY <1>6, <1>7
<1>9. Param(s, piece) = [key |-> ps[n-1], value |-> ps[n]]
  BY <1>3, <1>7
<1>10. Param(t, moved) = [key |-> Shift(ps[n-1], k), value |-> Shift(ps[n], k)]
  BY <1>4, <1>5, <1>7, <1>8
<1>11. Param(t, moved) = Moved(Param(s, piece), k)
  BY <1>9, <1>10 DEF Moved
<1>12. ParamOk(Param(s, piece), s, piece)
  BY <1>1, ParamProperties
<1>13. QED
  BY <1>11, <1>12 DEF moved

LEMMA ParamsMove ==
  ASSUME NEW s, NEW t, NEW e, NEW k, Grows(t, s, e, k), QueryOk(s)
  PROVE  /\ QueryOk(t) /\ DOMAIN Params(t) = DOMAIN Params(s)
         /\ \A i \in DOMAIN Params(s) :
               /\ Text(t, Params(t)[i].key) = Text(s, Params(s)[i].key)
               /\ Text(t, Params(t)[i].value) = Text(s, Params(s)[i].value)
<1>1. /\ s \in Seq(Token) /\ t \in Seq(Token) /\ Len(s) \in Nat /\ Len(t) = Len(s) + k
      /\ e \in Nat /\ k \in Nat /\ Extends(t, s, e, k) /\ AuthorityOk(s) /\ e <= PathEnd(s)
  BY DEF Grows, Extends
<1>2. /\ PathEnd(t) = PathEnd(s) + k /\ (HasQuery(t) <=> HasQuery(s))
      /\ QueryEnd(t) = QueryEnd(s) + k
  BY BackMoves
<1>3. CASE ~HasQuery(s)
  <2>1. Params(s) = <<>> /\ Params(t) = <<>>
    BY <1>2, <1>3 DEF Params
  <2>2. DOMAIN <<>> = {}
    OBVIOUS
  <2>3. QED
    BY <2>1, <2>2 DEF QueryOk
<1>4. CASE HasQuery(s)
  <2> DEFINE from == PathEnd(s) + 1
             to == QueryEnd(s)
             T == {"&", ";"}
             ps == Pieces(s, from, to, T)
             qs == Pieces(t, from + k, to + k, T)
             n == Len(ps)
  <2>1. /\ from \in Nat /\ to \in Nat /\ from <= to /\ to <= Len(s) /\ PathEnd(s) \in Nat
    BY <1>1, <1>4, PathBounds
  <2>2. e <= from /\ PathEnd(t) + 1 = from + k /\ QueryEnd(t) = to + k
    BY <1>1, <1>2, <2>1
  <2>3. Params(s) = [i \in DOMAIN ps |-> Param(s, ps[i])]
    BY <1>4 DEF Params
  <2>4. Params(t) = [i \in DOMAIN qs |-> Param(t, qs[i])]
    BY <1>2, <1>4, <2>2 DEF Params
  <2>5. /\ IsPieces(ps, s, from, to, T) /\ Len(qs) = n
        /\ \A i \in 1..n : qs[i] = Shift(ps[i], k)
    <3>1. ps = Pieces(s, from, to, T) /\ qs = Pieces(t, from + k, to + k, T)
      OBVIOUS
    <3>2. e <= from /\ to <= Len(s) /\ from <= to /\ from \in Nat /\ to \in Nat
      BY <2>1, <2>2
    <3> HIDE DEF from, to, ps, qs, T
    <3>3. /\ IsPieces(ps, s, from, to, T) /\ Len(qs) = Len(ps)
          /\ \A i \in 1..Len(ps) : qs[i] = Shift(ps[i], k)
      <4>1. Extends(t, s, e, k)
        BY <1>1
      <4>2. QED
        BY <4>1, <3>1, <3>2, PiecesShifted
    <3>4. QED
      BY <3>3 DEF n
  <2>6. ps \in Seq(Span) /\ DOMAIN ps = 1..n /\ n \in Nat
    BY <2>5, LenProperties DEF IsPieces
  <2>7. DOMAIN qs = 1..n
    <3>1. IsPieces(qs, t, from + k, to + k, T)
      <4>1. from + k \in Nat /\ to + k \in Nat /\ from + k <= to + k
        <5> HIDE DEF from, to
        <5>1. QED
          BY <1>1, <2>1
      <4>2. QED
        BY <4>1, PiecesProperties
    <3>2. qs \in Seq(Span)
      BY <3>1 DEF IsPieces
    <3> HIDE DEF qs, ps, n
    <3>3. QED
      BY <2>5, <3>2, LenProperties
  <2> HIDE DEF from, to, ps, qs, T, n
  <2>8. DOMAIN Params(s) = 1..n /\ \A i \in 1..n : Params(s)[i] = Param(s, ps[i])
    BY <2>3, <2>6
  <2>9. DOMAIN Params(t) = 1..n /\ \A i \in 1..n : Params(t)[i] = Param(t, Shift(ps[i], k))
    BY <2>4, <2>5, <2>7
  <2>10. ASSUME NEW i \in 1..n
         PROVE  /\ Text(t, Params(t)[i].key) = Text(s, Params(s)[i].key)
                /\ Text(t, Params(t)[i].value) = Text(s, Params(s)[i].value)
    <3> DEFINE piece == ps[i]
               p == Param(s, piece)
    <3>1. piece \in Span
      BY <2>6, ElementOfSeq DEF n
    <3>2. from <= piece.from /\ piece.from <= piece.to /\ piece.to <= to
      BY <2>5 DEF IsPieces, n
    <3>3. Text(s, p.key) # <<>>
      BY <2>8 DEF QueryOk
    <3>4. Params(s)[i] = p /\ Params(t)[i] = Param(t, Shift(piece, k))
      BY <2>8, <2>9
    <3>5. piece.from \in Nat /\ piece.to \in Nat
      BY <3>1 DEF Span
    <3> HIDE DEF piece
    <3>6. piece.from <= piece.to /\ e <= piece.from /\ piece.to <= Len(s)
      <4> DEFINE a == piece.from
                 b == piece.to
      <4>1. a \in Nat /\ b \in Nat /\ from <= a /\ a <= b /\ b <= to
        BY <3>2, <3>5
      <4> HIDE DEF a, b
      <4>2. a <= b /\ e <= a /\ b <= Len(s)
        BY <1>1, <2>1, <2>2, <4>1
      <4>3. QED
        BY <4>2 DEF a, b
    <3>7. Param(t, Shift(piece, k)) = Moved(p, k) /\ ParamOk(p, s, piece)
      BY <1>1, <3>1, <3>3, <3>6, ParamShifted
    <3> HIDE DEF p
    <3>8. /\ p.key \in Span /\ p.value \in Span
          /\ piece.from <= p.key.from /\ p.key.from < p.key.to /\ p.value.from = p.key.to + 1
          /\ p.value.from <= p.value.to /\ p.value.to = piece.to
      BY <3>7 DEF ParamOk, Pair
    <3>9. ASSUME NEW v \in Span, piece.from <= v.from, v.from <= v.to, v.to <= piece.to
          PROVE  Text(t, Shift(v, k)) = Text(s, v)
      <4> DEFINE a == v.from
                 b == v.to
                 len == Len(s)
      <4>1. a \in Nat /\ b \in Nat /\ a <= b /\ e <= a /\ b <= len
        <5> DEFINE c == piece.from
                   d == piece.to
        <5>1. c \in Nat /\ d \in Nat /\ e <= c /\ d <= Len(s) /\ c <= a /\ b <= d
          BY <3>5, <3>6, <3>9
        <5>2. a \in Nat /\ b \in Nat /\ a <= b
          BY <3>9 DEF Span
        <5> HIDE DEF a, b, c, d
        <5>3. QED
          BY <1>1, <5>1, <5>2
      <4>2. b + k <= Len(t)
        <5> HIDE DEF a, b
        <5>1. QED
          BY <1>1, <4>1
      <4>3. \A o \in e..len-1 : t[(o+k)+1] = s[o+1]
        BY <1>1 DEF Extends
      <4>4. \A o \in a..b-1 : o \in e..len-1
        <5>1. len \in Nat
          BY <1>1
        <5> HIDE DEF a, b, len
        <5>2. QED
          BY <1>1, <4>1, <5>1
      <4>5. \A o \in v.from..v.to-1 : t[(o+k)+1] = s[o+1]
        BY <4>3, <4>4
      <4>6. v.to <= Len(s) /\ v.to + k <= Len(t)
        BY <4>1, <4>2
      <4> HIDE DEF a, b, len
      <4>7. QED
        BY <1>1, <3>9, <4>5, <4>6, TextShifted
    <3>10. Text(t, Shift(p.key, k)) = Text(s, p.key)
      <4> DEFINE a == piece.from
                 b == p.key.from
                 c == p.key.to
                 d == p.value.from
                 f == p.value.to
      <4>1. b \in Nat /\ c \in Nat /\ d \in Nat /\ f \in Nat /\ a \in Nat
        BY <3>5, <3>8 DEF Span
      <4>2. a <= b /\ b < c /\ d = c + 1 /\ d <= f /\ f = piece.to
        BY <3>8
      <4> HIDE DEF a, b, c, d, f
      <4>3. b <= c /\ c <= f
        BY <4>1, <4>2
      <4>4. piece.from <= p.key.from /\ p.key.from <= p.key.to /\ p.key.to <= piece.to
        BY <4>2, <4>3 DEF a, b, c
      <4>5. QED
        BY <3>8, <3>9, <4>4
    <3>11. Text(t, Shift(p.value, k)) = Text(s, p.value)
      <4> DEFINE a == piece.from
                 b == p.key.from
                 c == p.key.to
                 d == p.value.from
                 f == p.value.to
      <4>1. b \in Nat /\ c \in Nat /\ d \in Nat /\ f \in Nat /\ a \in Nat
        BY <3>5, <3>8 DEF Span
      <4>2. a <= b /\ b < c /\ d = c + 1 /\ d <= f /\ f = piece.to
        BY <3>8
      <4> HIDE DEF a, b, c, d, f
      <4>3. a <= d /\ f <= f
        BY <4>1, <4>2
      <4>4. piece.from <= p.value.from /\ p.value.from <= p.value.to /\ p.value.to <= piece.to
        BY <4>2, <4>3 DEF a, d, f
      <4>5. QED
        BY <3>8, <3>9, <4>4
    <3>12. Moved(p, k).key = Shift(p.key, k) /\ Moved(p, k).value = Shift(p.value, k)
      BY DEF Moved
    <3>13. QED
      BY <3>4, <3>7, <3>10, <3>11, <3>12
  <2>11. QueryOk(t)
    <3>1. \A i \in 1..n : Text(s, Params(s)[i].key) # <<>>
      BY <2>8 DEF QueryOk
    <3>2. QED
      BY <2>9, <2>10, <3>1 DEF QueryOk
  <2>12. QED
    BY <2>8, <2>9, <2>10, <2>11
<1>5. QED
  BY <1>3, <1>4

-----------------------------------------------------------------------------
(* The url of the longer string has the segment and the same parts else.    *)

LEMMA TextInFront ==
  ASSUME NEW s, NEW t, NEW e, NEW k, Extends(t, s, e, k),
         NEW v \in Span, v.from <= v.to, v.to <= e
  PROVE  Text(t, v) = Text(s, v)
<1> DEFINE a == v.from
           b == v.to
<1>1. a \in Nat /\ b \in Nat /\ a <= b /\ b <= e
  BY SpanIsView
<1>2. /\ s \in Seq(Token) /\ t \in Seq(Token) /\ Len(s) \in Nat /\ e \in Nat /\ k \in Nat
      /\ e <= Len(s) /\ Len(t) = Len(s) + k /\ \A o \in 0..e-1 : t[o+1] = s[o+1]
  BY DEF Extends
<1> HIDE DEF a, b
<1>3. b <= Len(s) /\ b <= Len(t)
  BY <1>1, <1>2
<1>4. \A o \in a..b-1 : o \in 0..e-1
  BY <1>1, <1>2
<1>5. \A o \in a..b-1 : t[o+1] = s[o+1]
  BY <1>2, <1>4
<1>6. v.from <= v.to /\ v.to <= Len(s) /\ v.to <= Len(t)
      /\ \A o \in v.from..v.to-1 : t[o+1] = s[o+1]
  BY <1>1, <1>3, <1>5 DEF a, b
<1>7. QED
  BY <1>2, <1>6, TextUnmoved

LEMMA FrontPartsStay ==
  ASSUME NEW s, NEW t, NEW e, NEW k, Grows(t, s, e, k),
         NEW part \in {"scheme", "user", "password", "domain"}
  PROVE  Decomposed(t)[part] = Decomposed(s)[part]
         /\ Text(t, Decomposed(t)[part]) = Text(s, Decomposed(s)[part])
<1> DEFINE c == Decomposed(s)
           d == Decomposed(t)
<1>1. s \in Seq(Token) /\ AuthorityOk(s) /\ Extends(t, s, e, k) /\ PathStart(s) <= e /\ e \in Nat
  BY DEF Grows, Extends
<1>2. SchemeEnd(t) = SchemeEnd(s) /\ (HasAuthority(t) <=> HasAuthority(s))
  BY SchemeStays, AuthorityStays
<1>3. /\ c.scheme = View(0, SchemeEnd(s))
      /\ c.user = IF HasAuthority(s) /\ HasUser(s) THEN View(AuthStart(s), UserColon(s)) ELSE Null
      /\ c.password = IF HasAuthority(s) /\ HasUser(s) THEN View(UserColon(s) + 1, At(s)) ELSE Null
      /\ c.domain = IF HasAuthority(s) THEN View(DomainStart(s), DomainEnd(s)) ELSE Null
  BY DEF Decomposed
<1>4. /\ d.scheme = View(0, SchemeEnd(t))
      /\ d.user = IF HasAuthority(t) /\ HasUser(t) THEN View(AuthStart(t), UserColon(t)) ELSE Null
      /\ d.password = IF HasAuthority(t) /\ HasUser(t) THEN View(UserColon(t) + 1, At(t)) ELSE Null
      /\ d.domain = IF HasAuthority(t) THEN View(DomainStart(t), DomainEnd(t)) ELSE Null
  BY DEF Decomposed
<1>5. HasAuthority(s) =>
         /\ AuthStart(t) = AuthStart(s) /\ AuthEnd(t) = AuthEnd(s) /\ At(t) = At(s)
         /\ HasUser(t) <=> HasUser(s)
         /\ UserColon(t) = UserColon(s) /\ DomainStart(t) = DomainStart(s)
         /\ DomainEnd(t) = DomainEnd(s)
  BY DomainStays
<1>6. PICK x \in Nat, y \in Nat :
         /\ SchemeEnd(s) <= x /\ x <= y /\ y <= PathStart(s)
         /\ Within(0, c.scheme, SchemeEnd(s)) /\ Within(SchemeEnd(s), c.user, x)
         /\ Within(x, c.password, y) /\ Within(y, c.domain, PathStart(s))
  BY <1>1, AuthorityViews
<1>7. SchemeEnd(s) \in Nat /\ PathStart(s) \in Nat
  BY <1>1, PathBounds
<1> HIDE DEF c, d
<1>8. d.scheme = c.scheme /\ d.user = c.user /\ d.password = c.password /\ d.domain = c.domain
  <2>1. CASE HasAuthority(s)
    BY <1>2, <1>3, <1>4, <1>5, <2>1
  <2>2. CASE ~HasAuthority(s)
    BY <1>2, <1>3, <1>4, <2>2
  <2>3. QED
    BY <2>1, <2>2
<1>9. d[part] = c[part]
  BY <1>8
<1>10. ASSUME NEW v, NEW lo, NEW hi \in Nat, Within(lo, v, hi), hi <= e
       PROVE  Text(t, v) = Text(s, v)
  <2>1. v \in Span
    BY <1>10 DEF Within
  <2>2. v.from <= v.to /\ v.to <= e
    <3>1. CASE v = Null
      BY <1>1, <3>1, NullIsSpan
    <3>2. CASE v # Null
      <4>1. v.from <= v.to /\ v.to <= hi
        BY <1>10, <3>2 DEF Within
      <4> DEFINE b == v.to
      <4>2. b \in Nat /\ b <= hi
        BY <2>1, <4>1 DEF Span
      <4> HIDE DEF b
      <4>3. b <= e
        BY <1>1, <1>10, <4>2
      <4>4. QED
        BY <4>1, <4>3 DEF b
    <3>3. QED
      BY <3>1, <3>2
  <2>3. QED
    BY <1>1, <2>1, <2>2, TextInFront
<1>11. SchemeEnd(s) <= e /\ x <= e /\ y <= e /\ PathStart(s) <= e
  BY <1>1, <1>6, <1>7
<1>12. Text(t, c.scheme) = Text(s, c.scheme)
  BY <1>6, <1>7, <1>10, <1>11
<1>13. Text(t, c.user) = Text(s, c.user)
  BY <1>6, <1>10, <1>11
<1>14. Text(t, c.password) = Text(s, c.password)
  BY <1>6, <1>10, <1>11
<1>15. Text(t, c.domain) = Text(s, c.domain)
  BY <1>6, <1>7, <1>10, <1>11
<1>16. Text(t, c[part]) = Text(s, c[part])
  BY <1>12, <1>13, <1>14, <1>15
<1>17. QED
  BY <1>9, <1>16 DEF c, d

LEMMA FragmentMoves ==
  ASSUME NEW s, NEW t, NEW e, NEW k, Grows(t, s, e, k)
  PROVE  Text(t, Fragment(t)) = Text(s, Fragment(s))
<1> DEFINE r == QueryEnd(s)
           len == Len(s)
<1>1. /\ s \in Seq(Token) /\ t \in Seq(Token) /\ Len(s) \in Nat /\ e \in Nat /\ k \in Nat
      /\ e <= Len(s) /\ Len(t) = Len(s) + k /\ (\A o \in e..Len(s)-1 : t[(o+k)+1] = s[o+1])
      /\ Extends(t, s, e, k) /\ AuthorityOk(s) /\ e <= PathEnd(s)
  BY DEF Grows, Extends
<1>2. QueryEnd(t) = r + k /\ (StartsWith(t, QueryEnd(t), <<"#">>) <=> StartsWith(s, r, <<"#">>))
  BY BackMoves
<1>3. r \in Nat /\ PathEnd(s) \in Nat /\ PathEnd(s) <= r
  BY <1>1, PathBounds
<1>4. CASE ~StartsWith(s, r, <<"#">>)
  <2>1. Fragment(s) = Null /\ Fragment(t) = Null
    BY <1>2, <1>4 DEF Fragment
  <2>2. Text(t, Null) = Text(s, Null)
    <3>1. Null \in Span /\ Null.from <= Null.to /\ Null.to <= e
      BY <1>1, NullIsSpan
    <3>2. QED
      BY <1>1, <3>1, TextInFront
  <2>3. QED
    BY <2>1, <2>2
<1>5. CASE StartsWith(s, r, <<"#">>)
  <2>1. Fragment(s) = View(r + 1, len)
    BY <1>5 DEF Fragment
  <2>2. Fragment(t) = View((r + k) + 1, len + k)
    BY <1>1, <1>2, <1>5 DEF Fragment
  <2>3. r < len
    BY <1>1, <1>3, <1>5, StartsWithOne
  <2>4. len \in Nat /\ (\A o \in e..len-1 : t[(o+k)+1] = s[o+1])
    BY <1>1
  <2>5. len <= Len(s) /\ len + k <= Len(t)
    BY <1>1
  <2> HIDE DEF r, len
  <2> DEFINE v == View(r + 1, len)
  <2>6. v \in Span /\ v.from = r + 1 /\ v.to = len
    BY <1>3, <2>4 DEF View, Span
  <2>7. Shift(v, k) = View((r + 1) + k, len + k)
    BY <2>6 DEF Shift
  <2> HIDE DEF v
  <2>8. (r + 1) + k = (r + k) + 1 /\ r + 1 <= len
    BY <1>1, <1>3, <2>3, <2>4
  <2>9. \A o \in r+1..len-1 : o \in e..len-1
    BY <1>1, <1>3
  <2>10. v.from <= v.to /\ v.to <= Len(s) /\ v.to + k <= Len(t)
         /\ \A o \in v.from..v.to-1 : t[(o+k)+1] = s[o+1]
    BY <2>4, <2>5, <2>6, <2>8, <2>9
  <2>11. Text(t, Shift(v, k)) = Text(s, v)
    BY <1>1, <2>6, <2>10, TextShifted
  <2>12. QED
    BY <2>1, <2>2, <2>7, <2>8, <2>11 DEF v
<1>6. QED
  BY <1>4, <1>5

\* The texts of the views of a path.
PathTexts(s, path) == [i \in DOMAIN path |-> Text(s, path[i])]

LEMMA PathTextsGrow ==
  ASSUME NEW s, NEW t, NEW e, NEW k, Extends(t, s, e, k),
         NEW from \in Nat, NEW T, NEW path, IsPieces(path, s, from, e, T)
  PROVE  LET v == View(e + 1, e + k)
         IN /\ PathTexts(t, path) = PathTexts(s, path)
            /\ PathTexts(t, Append(path, v)) = Append(PathTexts(s, path), Text(t, v))
<1> DEFINE n == Len(path)
           v == View(e + 1, e + k)
           more == Append(path, v)
           old == PathTexts(s, path)
           new == PathTexts(t, more)
           N == Seq(Token)
<1>1. /\ s \in Seq(Token) /\ t \in Seq(Token) /\ Len(s) \in Nat /\ e \in Nat /\ k \in Nat
      /\ e <= Len(s) /\ Len(t) = Len(s) + k /\ k >= 2
  BY DEF Extends
<1>2. path \in Seq(Span) /\ n \in Nat /\ DOMAIN path = 1..n
  BY LenProperties DEF IsPieces
<1>3. v \in Span
  BY <1>1 DEF View, Span
<1>4. more \in Seq(Span) /\ Len(more) = n + 1 /\ (\A i \in 1..n : more[i] = path[i])
      /\ more[n+1] = v
  BY <1>2, <1>3, AppendProperties
<1>5. DOMAIN more = 1..n+1
  <2> HIDE DEF more
  <2>1. QED
    BY <1>4, LenProperties
<1>6. ASSUME NEW i \in 1..n
      PROVE  Text(t, path[i]) = Text(s, path[i]) /\ Text(s, path[i]) \in N
  <2> DEFINE p == path[i]
  <2>1. p \in Span
    BY <1>2, ElementOfSeq
  <2>2. p.from <= p.to /\ p.to <= e
    BY DEF IsPieces
  <2> HIDE DEF p
  <2>3. Text(t, p) = Text(s, p)
    BY <2>1, <2>2, TextInFront
  <2>4. Text(s, p) \in N
    <3> DEFINE a == p.from
               b == p.to
    <3>1. a \in Nat /\ b \in Nat /\ a <= b /\ b <= e /\ p = View(a, b)
      BY <2>1, <2>2, SpanIsView
    <3> HIDE DEF a, b
    <3>2. b <= Len(s)
      BY <1>1, <3>1
    <3>3. QED
      BY <1>1, <3>1, <3>2, TextTokens
  <2>5. QED
    BY <2>3, <2>4 DEF p
<1>7. PathTexts(t, path) = PathTexts(s, path)
  BY <1>2, <1>6 DEF PathTexts
<1>8. Text(t, v) \in N
  <2> DEFINE a == e + 1
             b == e + k
  <2>1. a \in Nat /\ b \in Nat /\ a <= b /\ b <= Len(t) /\ v = View(a, b)
    BY <1>1
  <2> HIDE DEF a, b, v
  <2>2. QED
    BY <1>1, <2>1, TextTokens
<1> HIDE DEF n, v, more, N
<1>9. old = [i \in 1..n |-> Text(s, path[i])]
  BY <1>2 DEF PathTexts
<1>10. new = [i \in 1..n+1 |-> Text(t, more[i])]
  BY <1>5 DEF PathTexts
<1>11. old \in [1..n -> N] /\ DOMAIN old = 1..n /\ \A i \in 1..n : old[i] = Text(s, path[i])
  BY <1>6, <1>9
<1>split. \A i \in 1..n+1 : i \in 1..n \/ i = n + 1
  BY <1>2
<1>12. ASSUME NEW i \in 1..n+1 PROVE Text(t, more[i]) \in N
  <2>1. CASE i \in 1..n
    BY <1>4, <1>6, <2>1
  <2>2. CASE i = n + 1
    BY <1>4, <1>8, <2>2
  <2>3. QED
    BY <1>split, <2>1, <2>2
<1>13. new \in [1..n+1 -> N] /\ DOMAIN new = 1..n+1 /\ \A i \in 1..n+1 : new[i] = Text(t, more[i])
  BY <1>10, <1>12
<1> HIDE DEF old, new
<1>14. old \in Seq(N) /\ new \in Seq(N)
  <2>1. n + 1 \in Nat
    BY <1>2
  <2>2. QED
    BY <1>2, <1>11, <1>13, <2>1, SeqDef
<1>15. Len(old) = n /\ Len(new) = n + 1
  <2>1. n + 1 \in Nat
    BY <1>2
  <2>2. DOMAIN old = 1..Len(old) /\ Len(old) \in Nat
    BY <1>14, LenProperties
  <2>3. DOMAIN new = 1..Len(new) /\ Len(new) \in Nat
    BY <1>14, LenProperties
  <2>4. QED
    BY <1>2, <1>11, <1>13, <2>1, <2>2, <2>3
<1> DEFINE x == Text(t, v)
           all == Append(old, x)
<1>16. x \in N
  BY <1>8
<1> HIDE DEF x
<1>17. /\ all \in Seq(N) /\ Len(all) = n + 1 /\ (\A i \in 1..n : all[i] = old[i])
       /\ all[n+1] = x
  <2>1. /\ all \in Seq(N) /\ Len(all) = Len(old) + 1 /\ (\A i \in 1..Len(old) : all[i] = old[i])
        /\ all[Len(old)+1] = x
    BY <1>14, <1>16, AppendProperties
  <2> HIDE DEF all
  <2>2. QED
    BY <1>15, <2>1
<1> HIDE DEF all
<1>18. ASSUME NEW i \in 1..n+1 PROVE new[i] = all[i]
  <2>1. CASE i \in 1..n
    BY <1>4, <1>6, <1>11, <1>13, <1>17, <2>1
  <2>2. CASE i = n + 1
    BY <1>4, <1>13, <1>17, <2>2 DEF x
  <2>3. QED
    BY <1>split, <2>1, <2>2
<1>19. new = all
  BY <1>14, <1>15, <1>17, <1>18, SeqEqual
<1>20. QED
  BY <1>7, <1>19 DEF new, all, x, old, more, v

\* The same for a segment v that is given a name.
LEMMA PathGrowsBy ==
  ASSUME NEW s, NEW t, NEW e, NEW k, NEW v,
         s \in Seq(Token) /\ AuthorityOk(s) /\ Path(s) # <<>> /\ e = Last(Path(s)).to
           /\ Extends(t, s, e, k),
         v = View(e + 1, e + k)
  PROVE  Grows(t, s, e, k) /\ Path(t) = Append(Path(s), v)
<1>1. Grows(t, s, e, k) /\ Path(t) = Append(Path(s), View(e + 1, e + k))
  BY PathGrows
<1>2. QED
  BY <1>1

LEMMA SegmentAdded ==
  ASSUME NEW s \in Seq(Token), WellFormed(s), Path(s) # <<>>,
         NEW x \in Seq(Token), IsName(x),
         NEW e, e = PathStr(Path(s)).to, NEW t, t = With(s, e, x)
  PROVE  /\ e \in Nat /\ e <= Len(s) /\ t \in Seq(Token) /\ WellFormed(t)
         /\ Path(t) = Append(Path(s), View(e + 1, e + (Len(x) + 1)))
         /\ Texts(Decomposed(t), Path(t)) = Append(Texts(Decomposed(s), Path(s)), x)
         /\ SameButPath(Decomposed(t), Decomposed(s))
         /\ PathTexts(t, Path(s)) = PathTexts(s, Path(s))
         /\ Text(t, PathStr(Path(s))) = Text(s, PathStr(Path(s)))
<1> DEFINE k == Len(x) + 1
           path == Path(s)
           v == View(e + 1, e + k)
           c == Decomposed(s)
           d == Decomposed(t)
<1>1. AuthorityOk(s) /\ QueryOk(s)
  BY DEF WellFormed
<1>2. PathOk(s, path)
  BY <1>1, PathIsOk
<1>3. /\ PathStr(path) \in Span /\ PathStr(path).from <= PathStr(path).to
      /\ PathStr(path).to = path[Len(path)].to
  BY <1>1, <1>2, PathStrProperties
<1>4. e = Last(path).to
  BY <1>3 DEF Last
<1>5. /\ e \in Nat /\ PathStart(s) <= e /\ e <= PathEnd(s)
      /\ IsPieces(path, s, PathStart(s), e, {"/"})
  BY <1>1, <1>4, PathPlace
<1>6. PathStart(s) \in Nat /\ e <= Len(s)
  <2>1. /\ PathStart(s) \in Nat /\ PathEnd(s) \in Nat /\ QueryEnd(s) \in Nat /\ Len(s) \in Nat
        /\ PathEnd(s) <= QueryEnd(s) /\ QueryEnd(s) <= Len(s)
    BY <1>1, PathBounds
  <2>2. QED
    BY <1>5, <2>1
<1>7. Extends(t, s, e, k) /\ Text(t, v) = x
  BY <1>5, <1>6, WithProperties
<1> HIDE DEF k
<1>8. Grows(t, s, e, k) /\ Path(t) = Append(path, v)
  <2>1. s \in Seq(Token) /\ AuthorityOk(s) /\ Path(s) # <<>> /\ e = Last(Path(s)).to
          /\ Extends(t, s, e, k)
    BY <1>1, <1>4, <1>7
  <2>2. v = View(e + 1, e + k)
    OBVIOUS
  <2> HIDE DEF v, c, d, path
  <2>3. Grows(t, s, e, k) /\ Path(t) = Append(Path(s), v)
    BY ONLY <2>1, <2>2, PathGrowsBy
  <2>4. QED
    BY <2>3 DEF path
<1>9. t \in Seq(Token)
  BY <1>7 DEF Extends
<1>10. AuthorityOk(t)
  BY <1>8, AuthorityStaysOk
<1>11. /\ QueryOk(t) /\ DOMAIN Params(t) = DOMAIN Params(s)
       /\ \A i \in DOMAIN Params(s) :
             /\ Text(t, Params(t)[i].key) = Text(s, Params(s)[i].key)
             /\ Text(t, Params(t)[i].value) = Text(s, Params(s)[i].value)
  BY <1>1, <1>8, ParamsMove
<1>12. WellFormed(t)
  BY <1>10, <1>11 DEF WellFormed
<1>13. /\ PathTexts(t, path) = PathTexts(s, path)
       /\ PathTexts(t, Append(path, v)) = Append(PathTexts(s, path), Text(t, v))
  BY <1>5, <1>6, <1>7, PathTextsGrow
<1>14. Text(t, PathStr(path)) = Text(s, PathStr(path))
  <2> DEFINE w == PathStr(path)
  <2>1. w \in Span /\ w.from <= w.to /\ w.to = e
    BY <1>3
  <2> HIDE DEF w
  <2>2. w.to <= e
    BY <1>5, <2>1
  <2>3. Text(t, w) = Text(s, w)
    BY <1>7, <2>1, <2>2, TextInFront
  <2>4. QED
    BY <2>3 DEF w
<1>15. /\ c.full = s /\ c.params = Params(s) /\ c.fragment = Fragment(s)
       /\ d.full = t /\ d.params = Params(t) /\ d.fragment = Fragment(t)
  BY DEF Decomposed
<1>16. \A part \in {"scheme", "user", "password", "domain"} : Text(t, d[part]) = Text(s, c[part])
  BY <1>8, FrontPartsStay
<1> HIDE DEF c, d
<1>17. Texts(d, Path(t)) = Append(Texts(c, path), x)
  <2>1. Texts(d, Path(t)) = PathTexts(t, Path(t)) /\ Texts(c, path) = PathTexts(s, path)
    BY <1>15 DEF Texts, PathTexts
  <2>2. PathTexts(t, Path(t)) = Append(PathTexts(s, path), x)
    BY <1>7, <1>8, <1>13
  <2>3. QED
    BY <2>1, <2>2
<1>18. Text(t, d.fragment) = Text(s, c.fragment)
  BY <1>8, <1>15, FragmentMoves
<1>19. \A part \in {"scheme", "user", "password", "domain", "fragment"} :
          Text(d.full, d[part]) = Text(c.full, c[part])
  BY <1>15, <1>16, <1>18
<1>20. ParamTexts(d) = ParamTexts(c)
  <2>1. ParamTexts(d) = [i \in DOMAIN Params(s) |-> <<Text(t, Params(t)[i].key),
                                                      Text(t, Params(t)[i].value)>>]
    BY <1>11, <1>15 DEF ParamTexts
  <2>2. ParamTexts(c) = [i \in DOMAIN Params(s) |-> <<Text(s, Params(s)[i].key),
                                                      Text(s, Params(s)[i].value)>>]
    BY <1>15 DEF ParamTexts
  <2>3. QED
    BY <1>11, <2>1, <2>2
<1>21. SameButPath(d, c)
  BY <1>19, <1>20 DEF SameButPath
<1>22. QED
  BY <1>5, <1>6, <1>8, <1>9, <1>12, <1>13, <1>14, <1>17, <1>21 DEF c, d, v, k

-----------------------------------------------------------------------------
(* The invariant with the last operation: a url at hand is the decomposition *)
(* of its string until parent() is called, and operator/ has made the one at *)
(* hand of the one before by inserting a slash and its argument.            *)

Built ==
    /\ op \in {"none", "construct"} => ops = 0
    /\ op = "append" => ops > 0
    /\ fresh => url = Decomposed(url.full) \/ url = Default

Appended ==
    fresh /\ ops > 0 /\ before.path # <<>> /\ IsName(Stripped(arg)) =>
        /\ op = "append" /\ before = Decomposed(before.full)
        /\ url = Decomposed(With(before.full, before.pathStr.to, Stripped(arg)))

AInv == IInv /\ Built /\ Appended /\ arg \in Seq(Token)

LEMMA DefaultHasNoPath == Default.path = <<>>
<1>1. <<>> \in Seq(Token) /\ Len(<<>>) = 0
  BY EmptySeq
<1> DEFINE s == <<>>
<1>2. s \in Seq(Token) /\ ~(0 < Len(s)) /\ Len(s) \in Nat
  BY <1>1
<1> HIDE DEF s
<1>3. AuthorityOk(s)
  BY <1>2, EmptyIsWellFormed DEF WellFormed
<1>4. Path(s) = <<>>
  <2> SUFFICES ASSUME Path(s) # <<>> PROVE FALSE
    OBVIOUS
  <2> DEFINE e == Last(Path(s)).to
  <2>1. /\ e \in Nat /\ e <= PathEnd(s)
        /\ e = Len(s) => e > 0
    <3> DEFINE all == Pieces(s, PathStart(s), PathEnd(s), {"/"})
    <3> HIDE DEF all, e
    <3>1. /\ e \in Nat /\ e <= PathEnd(s)
          /\ (e = Len(s) /\ e > 0) \/ e + 1 <= PathEnd(s)
      BY <1>2, <1>3, PathPlace DEF e, all
    <3>2. PathEnd(s) \in Nat /\ PathEnd(s) <= QueryEnd(s) /\ QueryEnd(s) <= Len(s)
          /\ QueryEnd(s) \in Nat
      BY <1>2, <1>3, PathBounds
    <3>3. QED
      BY <1>2, <3>1, <3>2
  <2>2. PathEnd(s) \in Nat /\ PathEnd(s) <= QueryEnd(s) /\ QueryEnd(s) <= Len(s)
        /\ QueryEnd(s) \in Nat
    BY <1>2, <1>3, PathBounds
  <2> HIDE DEF e
  <2>3. e <= Len(s)
    BY <1>2, <2>1, <2>2
  <2>4. QED
    BY <1>2, <2>1, <2>3
<1>5. Decomposed(s).path = <<>>
  BY <1>4 DEF Decomposed
<1> DEFINE d == Decomposed(s)
<1>6. [d EXCEPT !.null = TRUE].path = d.path
  <2>1. DOMAIN d = {"full", "null", "scheme", "user", "password", "domain", "path", "pathStr",
                    "params", "fragment"}
    BY DEF Decomposed
  <2> HIDE DEF d
  <2>2. QED
    BY <2>1
<1>7. QED
  BY <1>5, <1>6 DEF Default, s, d

LEMMA AInitInv == Init => AInv
<1> SUFFICES ASSUME Init PROVE AInv
  OBVIOUS
<1>1. url = Default /\ op = "none" /\ arg = <<>> /\ ops = 0
  BY DEF Init
<1>2. Built
  BY <1>1 DEF Built
<1>3. Appended
  BY <1>1 DEF Appended
<1>4. arg \in Seq(Token)
  BY <1>1, EmptySeq
<1>5. QED
  BY <1>2, <1>3, <1>4, InitInv DEF AInv

\* An argument without its leading slash is a string too.
LEMMA StrippedType == ASSUME NEW x \in Seq(Token) PROVE Stripped(x) \in Seq(Token)
<1>1. CASE ~StartsWith(x, 0, <<"/">>)
  BY <1>1 DEF Stripped
<1>2. CASE StartsWith(x, 0, <<"/">>)
  <2>1. 0 < Len(x)
    BY <1>2, StartsWithOne
  <2>2. x # <<>>
    BY <2>1, EmptySeq
  <2>3. QED
    BY <1>2, <2>2, HeadTailProperties DEF Stripped
<1>3. QED
  BY <1>1, <1>2

\* An operator/ with a name never throws for a url with a path that is not a
\* parent's, and inserts where the path ends.
LEMMA SlashAppends ==
  ASSUME AInv, NEW x \in Segments, Slash(x), fresh, url.path # <<>>, IsName(Stripped(x))
  PROVE  /\ op' = "append" /\ url = Decomposed(url.full)
         /\ url' = Decomposed(With(url.full, url.pathStr.to, Stripped(x)))
<1> DEFINE s == url.full
           e == url.pathStr.to
           name == Stripped(x)
           t == With(s, e, name)
<1>1. Shape(url) /\ (url = Decomposed(s) \/ url = Default)
  BY DEF AInv, IInv, Built
<1>2. url = Decomposed(s)
  BY <1>1, DefaultHasNoPath
<1>3. s \in Seq(Token) /\ WellFormed(s) /\ url.pathStr = PathStr(url.path)
  BY <1>1 DEF Shape, UrlRecord
<1>4. url.path = Path(s)
  <2> DEFINE u == url
             r == s
  <2>1. u = Decomposed(r)
    BY <1>2
  <2> HIDE DEF u, r
  <2>2. u.path = Path(r)
    BY <2>1 DEF Decomposed
  <2>3. QED
    BY <2>2 DEF u, r
<1>5. name \in Seq(Token) /\ IsName(name)
  <2>1. x \in Seq(Token)
    BY UrlAssumption
  <2>2. QED
    BY <2>1, StrippedType
<1>6. /\ e \in Nat /\ e <= Len(s) /\ WellFormed(t)
  <2>1. e = PathStr(Path(s)).to /\ Path(s) # <<>>
    BY <1>3, <1>4
  <2> HIDE DEF s, e, name, t
  <2>2. t = With(s, e, name)
    BY DEF t
  <2>3. QED
    BY <1>3, <1>5, <2>1, <2>2, SegmentAdded
<1>7. Places = {e}
  <2>1. PathOk(s, url.path) /\ AuthorityOk(s)
    BY <1>1, <1>3 DEF Shape, WellFormed
  <2>2. url.pathStr \in Span
    BY <1>3, <2>1, PathStrProperties
  <2>3. url.pathStr # Garbage
    <3>1. Garbage.to = -1
      BY DEF Garbage, View
    <3>2. url.pathStr.to \in Nat
      BY <2>2 DEF Span
    <3>3. QED
      BY <3>1, <3>2
  <2>4. QED
    BY <2>3 DEF Places
<1>8. PICK place \in Places :
        IF place >= 0 /\ WellFormed(Inserted(place, x))
        THEN Becomes("append", x, Decomposed(Inserted(place, x)))
        ELSE Becomes("throws", x, url)
  BY DEF Slash
<1>9. Inserted(e, x) = t
  BY DEF Inserted, With
<1>10. place = e
  BY <1>7
<1> HIDE DEF e, t
<1>11. place >= 0 /\ WellFormed(Inserted(place, x))
  BY <1>6, <1>9, <1>10
<1>12. Becomes("append", x, Decomposed(t))
  BY <1>8, <1>9, <1>10, <1>11
<1>13. op' = "append" /\ url' = Decomposed(t)
  BY <1>12 DEF Becomes
<1>14. QED
  BY <1>2, <1>13 DEF t, e

LEMMA ANextInv == AInv /\ [Next]_vars => AInv'
<1> SUFFICES ASSUME AInv, [Next]_vars PROVE AInv'
  OBVIOUS
<1>1. IInv'
  BY NextInv DEF AInv
<1>2. Built /\ Appended /\ arg \in Seq(Token) /\ IInv /\ ops \in Nat
  BY UrlAssumption DEF AInv, IInv
<1>3. ASSUME NEW s \in Inputs, Construct(s) PROVE AInv'
  <2>1. ops' = 0
    BY <1>2, <1>3 DEF Construct, Built
  <2>2. arg' \in Seq(Token) /\ op' \in {"construct", "throws"}
    BY <1>3, UrlAssumption DEF Construct, Becomes
  <2>3. fresh' => url' = Decomposed(url.full)' \/ url' = Default
    <3>1. CASE WellFormed(s)
      <4>1. url' = Decomposed(s)
        BY <1>3, <3>1 DEF Construct, Becomes
      <4>2. s \in Seq(Token)
        BY UrlAssumption
      <4>3. Decomposed(s).full = s
        BY DEF Decomposed
      <4>4. QED
        BY <4>1, <4>3
    <3>2. CASE ~WellFormed(s)
      <4>1. url' = url /\ fresh' = fresh
        BY <1>3, <3>2 DEF Construct, Becomes
      <4>2. QED
        BY <1>2, <4>1 DEF Built
    <3>3. QED
      BY <3>1, <3>2
  <2>4. Built'
    BY <2>1, <2>2, <2>3 DEF Built
  <2>5. Appended'
    BY <2>1 DEF Appended
  <2>6. QED
    BY <1>1, <2>2, <2>4, <2>5 DEF AInv
<1>4. ASSUME Parent PROVE AInv'
  <2>1. fresh' = FALSE /\ op' = "parent" /\ arg' = <<>>
    BY <1>4 DEF Parent, Becomes
  <2>2. Built' /\ Appended'
    BY <2>1 DEF Built, Appended
  <2>3. arg' \in Seq(Token)
    BY <2>1, EmptySeq
  <2>4. QED
    BY <1>1, <2>2, <2>3 DEF AInv
<1>5. ASSUME NEW x \in Segments, Slash(x) PROVE AInv'
  <2>1. fresh' = fresh /\ ops' = ops + 1
    BY <1>5 DEF Slash
  <2>2. PICK place \in Places :
          IF place >= 0 /\ WellFormed(Inserted(place, x))
          THEN Becomes("append", x, Decomposed(Inserted(place, x)))
          ELSE Becomes("throws", x, url)
    BY <1>5 DEF Slash
  <2>3. before' = url /\ arg' = x /\ op' \in {"append", "throws"} /\ ops' > 0
    BY <1>2, <2>1, <2>2 DEF Becomes
  <2>4. fresh' => url' = Decomposed(url.full)' \/ url' = Default
    <3> DEFINE s == Inserted(place, x)
    <3>1. CASE place >= 0 /\ WellFormed(s)
      <4>1. url' = Decomposed(s)
        BY <2>2, <3>1 DEF Becomes
      <4> HIDE DEF s
      <4>2. Decomposed(s).full = s
        BY DEF Decomposed
      <4>3. QED
        BY <4>1, <4>2
    <3>2. CASE ~(place >= 0 /\ WellFormed(s))
      <4>1. url' = url
        BY <2>2, <3>2 DEF Becomes
      <4>2. QED
        BY <1>2, <2>1, <4>1 DEF Built
    <3>3. QED
      BY <3>1, <3>2
  <2>5. Built'
    BY <2>3, <2>4 DEF Built
  <2>6. Appended'
    <3> SUFFICES ASSUME fresh, url.path # <<>>, IsName(Stripped(x))
                 PROVE  /\ op' = "append" /\ url = Decomposed(url.full)
                        /\ url' = Decomposed(With(url.full, url.pathStr.to, Stripped(x)))
      BY <2>1, <2>3 DEF Appended
    <3>1. QED
      BY <1>5, SlashAppends
  <2>7. arg' \in Seq(Token)
    BY <2>3, UrlAssumption
  <2>8. QED
    BY <1>1, <2>5, <2>6, <2>7 DEF AInv
<1>6. CASE UNCHANGED vars
  <2>1. /\ url' = url /\ before' = before /\ op' = op /\ arg' = arg /\ fresh' = fresh /\ ops' = ops
    BY <1>6 DEF vars
  <2>2. Built' /\ Appended'
    BY <1>2, <2>1 DEF Built, Appended
  <2>3. QED
    BY <1>1, <1>2, <2>1, <2>2 DEF AInv
<1>7. QED
  BY <1>3, <1>4, <1>5, <1>6 DEF Next

\* What operator/ has made of a url with a path, in the terms of the two
\* strings.
LEMMA WhatSlashMade ==
  ASSUME AInv, fresh, ops > 0, before.path # <<>>, IsName(Stripped(arg)),
         NEW s, s = before.full, NEW x, x = Stripped(arg),
         NEW t, t = With(s, PathStr(Path(s)).to, x)
  PROVE  /\ op = "append" /\ before = Decomposed(s) /\ url = Decomposed(t)
         /\ s \in Seq(Token) /\ WellFormed(s) /\ Path(s) # <<>>
         /\ x \in Seq(Token) /\ IsName(x)
         /\ before.path = Path(s) /\ before.pathStr = PathStr(Path(s))
<1>1. /\ op = "append" /\ before = Decomposed(before.full)
      /\ url = Decomposed(With(before.full, before.pathStr.to, Stripped(arg)))
  BY DEF AInv, Appended
<1>2. before = Decomposed(s)
  BY <1>1
<1>3. before.path = Path(s) /\ before.pathStr = PathStr(Path(s))
  BY <1>2 DEF Decomposed
<1>4. Shape(before)
  BY DEF AInv, IInv
<1>5. s \in Seq(Token) /\ WellFormed(s)
  BY <1>4 DEF Shape, UrlRecord
<1>6. x \in Seq(Token)
  BY StrippedType DEF AInv
<1>7. url = Decomposed(t)
  BY <1>1, <1>3
<1>8. QED
  BY <1>1, <1>2, <1>3, <1>5, <1>6, <1>7

LEMMA AInvAddsSegment == AInv => SlashAddsSegment
<1> SUFFICES ASSUME AInv, fresh, before.path # <<>>, IsName(Stripped(arg)), ops > 0
             PROVE  /\ op = "append"
                    /\ Texts(url, url.path) = Append(Texts(before, before.path), Stripped(arg))
                    /\ SameButPath(url, before)
  BY DEF SlashAddsSegment, Stripped
<1> DEFINE s == before.full
           x == Stripped(arg)
           e == PathStr(Path(s)).to
           t == With(s, e, x)
<1>1. /\ op = "append" /\ before = Decomposed(s) /\ url = Decomposed(t)
      /\ s \in Seq(Token) /\ WellFormed(s) /\ Path(s) # <<>>
      /\ x \in Seq(Token) /\ IsName(x)
      /\ before.path = Path(s)
  BY WhatSlashMade
<1>2. e = PathStr(Path(s)).to /\ t = With(s, e, x)
  OBVIOUS
<1> HIDE DEF s, x, e, t
<1>3. url.path = Path(t)
  BY <1>1 DEF Decomposed
<1>4. /\ Texts(Decomposed(t), Path(t)) = Append(Texts(Decomposed(s), Path(s)), x)
      /\ SameButPath(Decomposed(t), Decomposed(s))
  BY ONLY <1>1, <1>2, SegmentAdded
<1>5. QED
  BY <1>1, <1>3, <1>4 DEF x

LEMMA ParentUndoesIt ==
  ASSUME AInv, Parent, op = "append", fresh, before.path # <<>>, IsName(Stripped(arg))
  PROVE  /\ Texts(url', url'.path) = Texts(before, before.path)
         /\ Text(url'.full, url'.pathStr) = Text(before.full, before.pathStr)
<1> DEFINE s == before.full
           x == Stripped(arg)
           path == Path(s)
           e == PathStr(path).to
           t == With(s, e, x)
           v == View(e + 1, e + (Len(x) + 1))
<1>1. ops > 0
  BY DEF AInv, Built
<1>2. /\ before = Decomposed(s) /\ url = Decomposed(t)
      /\ s \in Seq(Token) /\ WellFormed(s) /\ Path(s) # <<>>
      /\ x \in Seq(Token) /\ IsName(x)
      /\ before.path = Path(s) /\ before.pathStr = PathStr(Path(s))
  BY <1>1, WhatSlashMade
<1>3. e = PathStr(Path(s)).to /\ t = With(s, e, x)
  OBVIOUS
<1>4. v = View(e + 1, e + (Len(x) + 1)) /\ path = Path(s)
  OBVIOUS
<1> HIDE DEF s, x, path, e, t, v
<1>5. /\ Path(t) = Append(Path(s), View(e + 1, e + (Len(x) + 1)))
      /\ e \in Nat /\ e <= Len(s)
      /\ PathTexts(t, Path(s)) = PathTexts(s, Path(s))
      /\ Text(t, PathStr(Path(s))) = Text(s, PathStr(Path(s)))
  BY ONLY <1>2, <1>3, SegmentAdded
<1>6. Shape(url) /\ url \in UrlRecord
  BY DEF AInv, IInv, Shape
<1>7. url.full = t /\ url.path = Append(path, v)
  <2>1. url.full = t /\ url.path = Path(t)
    BY <1>2 DEF Decomposed
  <2>2. QED
    BY <1>4, <1>5, <2>1
<1>8. path \in Seq(Span) /\ v \in Span
  <2>1. PathOk(s, path)
    BY <1>2, <1>4, PathIsOk DEF WellFormed
  <2>2. Len(x) \in Nat
    BY <1>2, LenProperties
  <2>3. v \in Span
    <3> DEFINE k == Len(x)
    <3> HIDE DEF k
    <3>1. v = View(e + 1, e + (k + 1)) /\ k \in Nat /\ e \in Nat
      BY <1>4, <1>5, <2>2 DEF k
    <3>2. e + 1 \in Nat /\ e + (k + 1) \in Nat
      BY <3>1
    <3>3. QED
      BY <3>1, <3>2 DEF View, Span
  <2>4. QED
    BY <2>1, <2>3 DEF PathOk
<1>9. Front(url.path) = path /\ url.path # <<>>
  <2>1. Front(Append(path, v)) = path /\ Append(path, v) # <<>>
    BY <1>8, FrontOfAppend, AppendProperties
  <2>2. QED
    BY <1>7, <2>1
<1>10. url' = [url EXCEPT !.path = Front(@), !.pathStr = ParentStr(Front(url.path))]
  BY <1>9 DEF Parent, Becomes
<1>11. url'.full = url.full /\ url'.path = Front(url.path)
       /\ url'.pathStr = ParentStr(Front(url.path))
  BY <1>6, <1>10 DEF UrlRecord
<1>12. url'.full = t /\ url'.path = path /\ url'.pathStr = PathStr(path)
  <2>1. path # <<>>
    BY <1>2, <1>4
  <2>2. QED
    BY <1>7, <1>9, <1>11, <2>1 DEF ParentStr
<1>13. before.full = s
  BY DEF s
<1>14. Texts(url', url'.path) = PathTexts(t, path)
  BY <1>12 DEF Texts, PathTexts
<1>15. Texts(before, before.path) = PathTexts(s, path)
  BY <1>2, <1>4, <1>13 DEF Texts, PathTexts
<1>16. QED
  BY <1>2, <1>4, <1>5, <1>12, <1>13, <1>14, <1>15

-----------------------------------------------------------------------------
THEOREM SegmentInvariant == Spec => []AInv
<1>1. QED
  BY AInitInv, ANextInv, PTL DEF Spec

(* operator/ (url.cpp) with a name adds exactly one segment, with the text  *)
(* of the name, to a url that has a path, all of its segments, and does not *)
(* come from parent(): it does not throw, and every other part of the url   *)
(* reads as before, for urls and names of any length.                       *)
THEOREM SegmentIsAdded == Spec => []SlashAddsSegment
<1>1. QED
  BY AInvAddsSegment, SegmentInvariant, PTL

(* parent() (url.cpp) takes back in path() and path_str() what operator/    *)
(* with a name has just added, though the string stays the longer one.      *)
THEOREM ParentUndoes == Spec => ParentUndoesSlash
<1> DEFINE Undone ==
      op = "append" /\ op' = "parent" /\ fresh /\ before.path # <<>> /\ IsName(Stripped(arg)) =>
          /\ Texts(url', url'.path) = Texts(before, before.path)
          /\ Text(url'.full, url'.pathStr) = Text(before.full, before.pathStr)
<1>1. AInv /\ [Next]_vars => [Undone]_vars
  <2> SUFFICES ASSUME AInv, [Next]_vars, op = "append", op' = "parent", fresh,
                      before.path # <<>>, IsName(Stripped(arg))
               PROVE  /\ Texts(url', url'.path) = Texts(before, before.path)
                      /\ Text(url'.full, url'.pathStr) = Text(before.full, before.pathStr)
    OBVIOUS
  <2>1. Parent
    <3>1. ASSUME NEW s \in Inputs, Construct(s) PROVE FALSE
      BY <3>1 DEF Construct, Becomes
    <3>2. ASSUME NEW x \in Segments, Slash(x) PROVE FALSE
      BY <3>2 DEF Slash, Becomes
    <3>3. ASSUME UNCHANGED vars PROVE FALSE
      BY <3>3 DEF vars
    <3>4. QED
      BY <3>1, <3>2, <3>3 DEF Next
  <2>2. QED
    BY <2>1, ParentUndoesIt
<1>2. QED
  BY <1>1, SegmentInvariant, PTL DEF Spec, ParentUndoesSlash
=============================================================================
