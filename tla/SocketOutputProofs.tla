------------------------- MODULE SocketOutputProofs -------------------------
(***************************************************************************)
(* Proofs about the put area, for any characters and any buffer size, and  *)
(* of what a program that writes responses through it inherits, up to what *)
(* a client makes of them.                                                 *)
(***************************************************************************)
EXTENDS Reply, SequenceLemmas

Content == Byte \cup {Zero}

\* AreaHoldsLatest, character by character.
AreaMatches == \A i \in 1..ppos : obuf[i] = put[Len(put) - ppos + i]

IInv == TypeOK /\ ppos <= Len(put) /\ AreaMatches

(* The two ways of saying what the area holds are one.                     *)
LEMMA AreaElementwise == IInv => AreaHoldsLatest
<1> SUFFICES ASSUME IInv PROVE AreaHoldsLatest
  OBVIOUS
<1>1. /\ BufSize \in Nat /\ ppos \in Nat /\ ppos <= BufSize /\ Len(put) \in Nat
      /\ ppos <= Len(put) /\ put \in Seq(Byte) /\ obuf \in [1..BufSize -> Content]
  BY SocketOutputAssumption, LenProperties DEF IInv, TypeOK, Content
<1>2. \A i \in 1..ppos : obuf[i] \in Content
  BY <1>1
<1>3. /\ SubSeq(obuf, 1, ppos) \in Seq(Content)
      /\ Len(SubSeq(obuf, 1, ppos)) = ppos
      /\ \A i \in 1..ppos : SubSeq(obuf, 1, ppos)[i] = obuf[i]
  BY <1>1, <1>2, SubSeqProperties
<1> DEFINE n == Len(put) - ppos + 1
<1>4. n \in Int /\ Len(put) \in Int /\ \A i \in n..Len(put) : put[i] \in Content
  BY <1>1, ElementOfSeq DEF Content
<1>5. /\ SubSeq(put, n, Len(put)) \in Seq(Content)
      /\ Len(SubSeq(put, n, Len(put))) = IF n <= Len(put) THEN Len(put) - n + 1 ELSE 0
      /\ \A i \in 1..Len(put)-n+1 : SubSeq(put, n, Len(put))[i] = put[n + i - 1]
  BY <1>4, SubSeqProperties
<1>6. /\ Len(SubSeq(put, n, Len(put))) = ppos
      /\ \A i \in 1..ppos : SubSeq(put, n, Len(put))[i] = put[Len(put) - ppos + i]
  BY <1>1, <1>5
<1>7. \A i \in 1..ppos : SubSeq(obuf, 1, ppos)[i] = SubSeq(put, n, Len(put))[i]
  BY <1>3, <1>6 DEF IInv, AreaMatches
<1>8. SubSeq(obuf, 1, ppos) = SubSeq(put, n, Len(put))
  BY <1>3, <1>5, <1>6, <1>7, SeqEqual
<1>9. QED
  BY <1>1, <1>8 DEF AreaHoldsLatest, Latest

(* What sync() does to the types, whatever the kernel takes.               *)
LEMMA SyncTypes ==
  ASSUME TypeOK, NEW n \in 1..BufSize, Sync(n)
  PROVE  /\ delivered' \in Seq(Content) /\ syncs' \in 0..MaxSyncs
         /\ epos' = n /\ ppos' = 0
         /\ delivered' = delivered \o SubSeq(obuf, 1, n)
         /\ SubSeq(obuf, 1, n) \in Seq(Content) /\ Len(SubSeq(obuf, 1, n)) = n
         /\ \A i \in 1..n : SubSeq(obuf, 1, n)[i] = obuf[i]
<1>1. n \in Int /\ 1 \in Int /\ \A i \in 1..n : obuf[i] \in Content
  BY SocketOutputAssumption DEF TypeOK, Content
<1>2. /\ SubSeq(obuf, 1, n) \in Seq(Content) /\ Len(SubSeq(obuf, 1, n)) = n
      /\ \A i \in 1..n : SubSeq(obuf, 1, n)[i] = obuf[i]
  BY <1>1, SubSeqProperties
<1>3. delivered' = delivered \o SubSeq(obuf, 1, n) /\ epos' = n /\ ppos' = 0
  BY DEF Sync, Sent, Ppos, Epos
<1>4. delivered' \in Seq(Content)
  BY <1>2, <1>3, ConcatProperties DEF TypeOK, Content
<1>5. syncs' \in 0..MaxSyncs
  BY SocketOutputAssumption DEF Sync, TypeOK
<1>6. QED
  BY <1>2, <1>3, <1>4, <1>5

LEMMA OutputInit == Init => IInv
<1> SUFFICES ASSUME Init PROVE IInv
  OBVIOUS
<1>1. TypeOK
  BY SocketOutputAssumption, EmptySeq DEF Init, TypeOK
<1>2. QED
  BY <1>1, EmptySeq DEF Init, IInv, AreaMatches

LEMMA OutputNext == IInv /\ [Next]_vars => IInv'
<1> SUFFICES ASSUME IInv, [Next]_vars PROVE IInv'
  OBVIOUS
<1>0. /\ BufSize \in Nat \ {0} /\ epos \in 0..BufSize /\ ppos \in 0..epos
      /\ put \in Seq(Byte) /\ Len(put) \in Nat /\ ppos <= Len(put)
      /\ obuf \in [1..BufSize -> Content]
  BY SocketOutputAssumption, LenProperties DEF IInv, TypeOK, Content
<1>1. ASSUME NEW c \in Byte, Store(c) PROVE IInv'
  <2>1. /\ put' \in Seq(Byte) /\ Len(put') = Len(put) + 1
        /\ \A i \in 1..Len(put) : put'[i] = put[i]
        /\ put'[Len(put) + 1] = c
    BY <1>0, <1>1, AppendProperties DEF Store
  <2>2. ppos' = ppos + 1 /\ ppos' <= BufSize /\ ppos' \in 0..epos'
        /\ epos' = epos
    BY <1>0, <1>1 DEF Store
  <2>3. obuf' \in [1..BufSize -> Content]
    BY <1>0, <1>1 DEF Store, Content
  <2>4. TypeOK'
    BY <1>0, <1>1, <2>1, <2>2, <2>3 DEF Store, IInv, TypeOK, Content
  <2>5. ASSUME NEW i \in 1..ppos' PROVE obuf'[i] = put'[Len(put') - ppos' + i]
    <3>1. CASE i = ppos + 1
      BY <1>0, <1>1, <2>1, <2>2, <3>1 DEF Store
    <3>2. CASE i # ppos + 1
      <4>1. i \in 1..ppos /\ Len(put) - ppos + i \in 1..Len(put)
            /\ Len(put') - ppos' + i = Len(put) - ppos + i
        BY <1>0, <2>1, <2>2, <3>2
      <4>2. obuf'[i] = obuf[i]
        BY <1>0, <1>1, <2>2, <3>2 DEF Store
      <4>3. QED
        BY <2>1, <4>1, <4>2 DEF IInv, AreaMatches
    <3>3. QED
      BY <3>1, <3>2
  <2>6. QED
    BY <1>0, <2>1, <2>2, <2>4, <2>5 DEF IInv, AreaMatches
<1>2. ASSUME NEW c \in Byte, Overflow(c) PROVE IInv'
  <2>1. PICK n \in 1..BufSize : Sync(n)
    BY <1>2 DEF Overflow
  <2>2. delivered' \in Seq(Content) /\ syncs' \in 0..MaxSyncs /\ epos' = n /\ ppos' = 0
    BY <2>1, SyncTypes DEF IInv
  <2>3. put' \in Seq(Byte) /\ Len(put') \in Nat
    <3>1. Append(put, c) \in Seq(Byte)
      BY <1>0, AppendProperties
    <3>2. put' \in Seq(Byte)
      BY <1>0, <1>2, <3>1 DEF Overflow
    <3>3. QED
      BY <3>2, LenProperties
  <2>4. obuf' \in [1..BufSize -> Content]
    BY <1>0, <1>2 DEF Overflow, Content
  <2>5. QED
    BY <1>0, <2>2, <2>3, <2>4 DEF IInv, TypeOK, AreaMatches, Content
<1>3. CASE Flush
  <2>1. PICK n \in 1..BufSize : Sync(n)
    BY <1>3 DEF Flush
  <2>2. delivered' \in Seq(Content) /\ syncs' \in 0..MaxSyncs /\ epos' = n /\ ppos' = 0
    BY <2>1, SyncTypes DEF IInv
  <2>3. QED
    BY <1>0, <1>3, <2>2 DEF Flush, IInv, TypeOK, AreaMatches, Content
<1>4. CASE UNCHANGED vars
  BY <1>4 DEF vars, IInv, TypeOK, AreaMatches
<1>5. QED
  BY <1>1, <1>2, <1>3, <1>4 DEF Next

LEMMA OutputInvariant == Spec => []IInv
<1>1. QED
  BY OutputInit, OutputNext, PTL DEF Spec

(* The put area holds the characters that were put last, in order, for any *)
(* size of the buffer and any writes (overflow(), sync()).                 *)
THEOREM AreaIsLatest == Spec => []AreaHoldsLatest
  BY OutputInvariant, AreaElementwise, PTL

(* A write that is not cut short within the area sends it first.           *)
THEOREM SyncSends == Spec => SyncSendsArea
<1> DEFINE A == Len(delivered') >= Len(delivered) + ppos /\ syncs' # syncs =>
                  SubSeq(delivered', Len(delivered) + 1, Len(delivered) + ppos) = Latest(ppos)
<1>1. ASSUME IInv, [Next]_vars PROVE [A]_vars
  <2> SUFFICES ASSUME Len(delivered') >= Len(delivered) + ppos, syncs' # syncs
               PROVE  SubSeq(delivered', Len(delivered) + 1, Len(delivered) + ppos) = Latest(ppos)
    OBVIOUS
  <2>1. PICK n \in 1..BufSize : Sync(n)
    BY <1>1 DEF Next, Store, Overflow, Flush, vars
  <2>2. /\ delivered' = delivered \o SubSeq(obuf, 1, n)
        /\ SubSeq(obuf, 1, n) \in Seq(Content) /\ Len(SubSeq(obuf, 1, n)) = n
        /\ \A i \in 1..n : SubSeq(obuf, 1, n)[i] = obuf[i]
    BY <1>1, <2>1, SyncTypes DEF IInv
  <2>3. /\ delivered \in Seq(Content) /\ Len(delivered) \in Nat /\ ppos \in Nat
        /\ obuf \in [1..BufSize -> Content] /\ ppos <= BufSize /\ BufSize \in Nat /\ n \in Nat
    BY <1>1, SocketOutputAssumption, LenProperties DEF IInv, TypeOK, Content
  <2> DEFINE d == Len(delivered)
  <2>4. /\ delivered' \in Seq(Content) /\ Len(delivered') = d + n
        /\ \A i \in 1..d+n : delivered'[i] = IF i <= d THEN delivered[i]
                                             ELSE SubSeq(obuf, 1, n)[i - d]
    BY <2>2, <2>3, ConcatProperties
  <2>5. ppos <= n
    BY <2>3, <2>4
  <2>6. \A i \in 1..ppos : delivered'[d + i] = obuf[i]
    BY <2>2, <2>3, <2>4, <2>5
  <2>7. /\ SubSeq(delivered', d + 1, d + ppos) \in Seq(Content)
        /\ Len(SubSeq(delivered', d + 1, d + ppos)) = ppos
        /\ \A i \in 1..ppos : SubSeq(delivered', d + 1, d + ppos)[i] = delivered'[d + i]
    <3>1. d + 1 \in Int /\ d + ppos \in Int /\ \A i \in d+1..d+ppos : delivered'[i] \in Content
      BY <2>3, <2>4, <2>5, ElementOfSeq
    <3>2. /\ SubSeq(delivered', d + 1, d + ppos) \in Seq(Content)
          /\ Len(SubSeq(delivered', d + 1, d + ppos)) =
               IF d + 1 <= d + ppos THEN (d + ppos) - (d + 1) + 1 ELSE 0
          /\ \A i \in 1..(d + ppos)-(d + 1)+1 :
               SubSeq(delivered', d + 1, d + ppos)[i] = delivered'[(d + 1) + i - 1]
      BY <3>1, SubSeqProperties
    <3>3. QED
      BY <2>3, <3>2
  <2>8. /\ SubSeq(obuf, 1, ppos) \in Seq(Content) /\ Len(SubSeq(obuf, 1, ppos)) = ppos
        /\ \A i \in 1..ppos : SubSeq(obuf, 1, ppos)[i] = obuf[i]
    <3>1. \A i \in 1..ppos : obuf[i] \in Content
      BY <2>3
    <3>2. QED
      BY <2>3, <3>1, SubSeqProperties
  <2>9. SubSeq(delivered', d + 1, d + ppos) = SubSeq(obuf, 1, ppos)
    BY <2>6, <2>7, <2>8, SeqEqual
  <2>10. QED
    BY <1>1, <2>9, AreaElementwise DEF AreaHoldsLatest
<1>2. QED
  BY <1>1, OutputInvariant, PTL DEF Spec, SyncSendsArea

-----------------------------------------------------------------------------
(* A program that writes responses uses the put area by its operations.    *)

QueueTyped == queue \in Seq(Byte)

(* Each step of a reply is one of the put area, or leaves it alone.        *)
LEMMA ReplyStep == QueueTyped /\ [ReplyNext]_replyVars => [Next]_vars /\ QueueTyped'
<1> SUFFICES ASSUME queue \in Seq(Byte), [ReplyNext]_replyVars
             PROVE  [Next]_vars /\ queue' \in Seq(Byte)
  BY DEF QueueTyped
<1>1. <<>> \in Seq(Byte)
  BY EmptySeq
<1>2. ASSUME queue # <<>> PROVE Head(queue) \in Byte /\ Tail(queue) \in Seq(Byte)
  BY <1>2, HeadTailProperties
<1>3. ASSUME NEW r \in Responses, Insert(r) PROVE [Next]_vars /\ queue' \in Seq(Byte)
  BY <1>3, ReplyAssumption DEF Insert
<1>4. CASE PutOne
  BY <1>2, <1>4 DEF PutOne, Next
<1>5. CASE PutFails
  BY <1>1, <1>2, <1>5 DEF PutFails, LeftToPut, Next
<1>6. CASE FlushStream
  BY <1>6 DEF FlushStream, Next
<1>7. CASE Drop
  BY <1>7 DEF Drop
<1>8. CASE UNCHANGED replyVars
  BY <1>8 DEF replyVars
<1>9. QED
  BY <1>3, <1>4, <1>5, <1>6, <1>7, <1>8 DEF ReplyNext

(* Whatever is inserted, fails, is flushed or goes away, a reply is put    *)
(* and sent by sputc(), overflow() and sync() only.                        *)
THEOREM RepliesUsePutArea == ReplySpec => Spec
<1>1. ReplyInit => Init /\ QueueTyped
  BY EmptySeq DEF ReplyInit, QueueTyped
<1>2. QED
  BY <1>1, ReplyStep, PTL DEF ReplySpec, Spec

(* The put area of a stream that replies holds the latest characters.      *)
THEOREM RepliesAreLatest == ReplySpec => []AreaHoldsLatest
  BY RepliesUsePutArea, AreaIsLatest, PTL

(* What a reply has in the put area is sent first, and whole unless the    *)
(* kernel cuts the write short.                                            *)
THEOREM RepliesAreSent == ReplySpec => SyncSendsArea
  BY RepliesUsePutArea, SyncSends, PTL

-----------------------------------------------------------------------------
(* What is put of the responses.                                           *)

TextsOf(rs) == [i \in DOMAIN rs |-> Text(rs[i])]

LEMMA TextsProperties ==
  ASSUME NEW rs \in Seq(Responses)
  PROVE  /\ TextsOf(rs) \in Seq(Seq(Byte)) /\ Len(TextsOf(rs)) = Len(rs)
         /\ \A i \in 1..Len(rs) : TextsOf(rs)[i] = Text(rs[i])
<1>1. Len(rs) \in Nat /\ DOMAIN rs = 1..Len(rs) /\ \A i \in 1..Len(rs) : rs[i] \in Responses
  BY LenProperties, ElementOfSeq
<1>2. \A i \in 1..Len(rs) : Text(rs[i]) \in Seq(Byte)
  BY <1>1, ReplyAssumption
<1>3. TextsOf(rs) = [i \in 1..Len(rs) |-> Text(rs[i])]
  BY <1>1 DEF TextsOf
<1>4. TextsOf(rs) \in [1..Len(rs) -> Seq(Byte)]
  BY <1>2, <1>3
<1>5. TextsOf(rs) \in Seq(Seq(Byte))
  BY <1>1, <1>4, SeqDef
<1>6. Len(TextsOf(rs)) = Len(rs)
  BY <1>1, <1>4, <1>5, LenProperties
<1>7. QED
  BY <1>3, <1>5, <1>6

LEMMA TextsAppend ==
  ASSUME NEW rs \in Seq(Responses), NEW r \in Responses
  PROVE  TextsOf(Append(rs, r)) = Append(TextsOf(rs), Text(r))
<1> DEFINE a == TextsOf(Append(rs, r))
           b == Append(TextsOf(rs), Text(r))
           n == Len(rs)
           T == Seq(Byte)
<1>1. /\ Append(rs, r) \in Seq(Responses) /\ Len(Append(rs, r)) = n + 1 /\ n \in Nat
      /\ \A i \in 1..n : Append(rs, r)[i] = rs[i]
      /\ Append(rs, r)[n+1] = r
  BY AppendProperties, LenProperties
<1>2. /\ a \in Seq(T) /\ Len(a) = n + 1
      /\ \A i \in 1..n+1 : a[i] = Text(Append(rs, r)[i])
  BY <1>1, TextsProperties
<1>3. /\ TextsOf(rs) \in Seq(T) /\ Len(TextsOf(rs)) = n
      /\ \A i \in 1..n : TextsOf(rs)[i] = Text(rs[i])
  BY TextsProperties
<1>4. Text(r) \in T
  BY ReplyAssumption
<1> HIDE DEF T, a
<1>5. /\ b \in Seq(T) /\ Len(b) = n + 1
      /\ \A i \in 1..n : b[i] = TextsOf(rs)[i]
      /\ b[n+1] = Text(r)
  BY <1>3, <1>4, AppendProperties
<1> HIDE DEF b, n
<1>6. \A i \in 1..Len(a) : a[i] = b[i]
  <2> SUFFICES ASSUME NEW i \in 1..n+1 PROVE a[i] = b[i]
    BY <1>2
  <2>1. CASE i = n + 1
    BY <2>1, <1>1, <1>2, <1>5
  <2>2. CASE i # n + 1
    <3>1. i \in 1..n
      BY <2>2, <1>1
    <3>2. QED
      BY <3>1, <1>1, <1>2, <1>3, <1>5
  <2>3. QED
    BY <2>1, <2>2
<1>7. Len(a) = Len(b)
  BY <1>2, <1>5
<1>8. a = b
  BY <1>2, <1>5, <1>6, <1>7, SeqEqual
<1>9. QED
  BY <1>8 DEF a, b

ReplyTyped ==
    /\ responses \in Seq(Responses) /\ Len(responses) <= MaxResponses
    /\ QueueTyped
    /\ good \in BOOLEAN /\ open \in BOOLEAN
    /\ queue # <<>> => good /\ open

\* What is missing of the responses; it is the queue of a stream that is good.
Missing(rest) == put \o rest = AllText /\ (good => rest = queue)

ReplyInv == IInv /\ ReplyTyped /\ \E rest \in Seq(Byte) : Missing(rest)

LEMMA ReplyInitInv == ReplyInit => ReplyInv
<1> SUFFICES ASSUME ReplyInit PROVE ReplyInv
  OBVIOUS
<1>1. IInv
  BY OutputInit DEF ReplyInit
<1>2. ReplyTyped
  BY ReplyAssumption, EmptySeq DEF ReplyInit, ReplyTyped, QueueTyped
<1>3. TextsOf(<<>>) \in Seq(Seq(Byte)) /\ Len(TextsOf(<<>>)) = 0
  BY EmptySeq, TextsProperties
<1>4. AllText = <<>>
  BY <1>3, EmptySeq, FlattenSeqEmpty DEF ReplyInit, AllText, TextsOf
<1>5. put = <<>> /\ queue = <<>> /\ <<>> \in Seq(Byte) /\ <<>> \o <<>> = <<>>
  BY EmptySeq DEF ReplyInit, Init
<1>6. Missing(<<>>)
  BY <1>4, <1>5 DEF Missing
<1>7. QED
  BY <1>1, <1>2, <1>5, <1>6 DEF ReplyInv

(* One character that goes from the queue to what is put.                  *)
LEMMA MoveOne ==
  ASSUME NEW p \in Seq(Byte), NEW q \in Seq(Byte), q # <<>>
  PROVE  Append(p, Head(q)) \o Tail(q) = p \o q
<1> DEFINE c == Head(q)
           t == Tail(q)
<1>1. /\ c \in Byte /\ t \in Seq(Byte) /\ Len(t) = Len(q) - 1
      /\ \A i \in 1..Len(t) : t[i] = q[i+1]
  BY HeadTailProperties
<1>2. c = q[1]
  OBVIOUS
<1> HIDE DEF c, t
<1>3. <<c>> \in Seq(Byte) /\ Append(p, c) = p \o <<c>>
  BY <1>1, AppendIsConcat
<1>4. (p \o <<c>>) \o t = p \o (<<c>> \o t)
  BY <1>1, <1>3, ConcatAssociative
<1>5. /\ <<c>> \o t \in Seq(Byte)
      /\ Len(<<c>> \o t) = Len(<<c>>) + Len(t)
      /\ \A i \in 1..Len(<<c>>) + Len(t) : (<<c>> \o t)[i] =
             IF i <= Len(<<c>>) THEN <<c>>[i] ELSE t[i - Len(<<c>>)]
  BY <1>1, <1>3, ConcatProperties
<1>6. Len(<<c>>) = 1 /\ <<c>>[1] = c /\ Len(q) \in Nat /\ Len(t) \in Nat
  BY <1>1, LenProperties
<1>7. Len(<<c>> \o t) = Len(q)
  BY <1>1, <1>5, <1>6
<1>8. ASSUME NEW i \in 1..Len(q) PROVE (<<c>> \o t)[i] = q[i]
  <2>1. CASE i = 1
    BY <2>1, <1>1, <1>2, <1>5, <1>6
  <2>2. CASE i # 1
    <3>1. i - 1 \in 1..Len(t) /\ ~(i <= 1) /\ i \in 1..1+Len(t) /\ (i - 1) + 1 = i
      BY <2>2, <1>1, <1>6
    <3>2. (<<c>> \o t)[i] = t[i - 1]
      BY <3>1, <1>5, <1>6
    <3>3. t[i - 1] = q[(i - 1) + 1]
      BY <3>1, <1>1
    <3>4. QED
      BY <3>1, <3>2, <3>3
  <2>3. QED
    BY <2>1, <2>2
<1>9. <<c>> \o t = q
  BY <1>5, <1>7, <1>8, SeqEqual
<1>10. QED
  BY <1>3, <1>4, <1>9 DEF c, t

LEMMA ReplyNextInv == ReplyInv /\ [ReplyNext]_replyVars => ReplyInv'
<1> SUFFICES ASSUME ReplyInv, [ReplyNext]_replyVars PROVE ReplyInv'
  OBVIOUS
<1>1. IInv' /\ QueueTyped'
  BY OutputNext, ReplyStep DEF ReplyInv, ReplyTyped
<1>2. PICK rest \in Seq(Byte) : Missing(rest)
  BY DEF ReplyInv
<1>3. /\ responses \in Seq(Responses) /\ queue \in Seq(Byte) /\ put \in Seq(Byte)
      /\ good \in BOOLEAN /\ open \in BOOLEAN /\ Len(responses) <= MaxResponses
      /\ queue # <<>> => good /\ open
      /\ Len(responses) \in Nat /\ MaxResponses \in Nat
  BY LenProperties, ReplyAssumption DEF ReplyInv, ReplyTyped, QueueTyped, IInv, TypeOK
<1>4. ASSUME NEW r \in Responses, Insert(r) PROVE ReplyTyped' /\ \E x \in Seq(Byte) : Missing(x)'
  <2>1. /\ responses' = Append(responses, r) /\ queue' = Text(r) /\ put' = put
        /\ good' = good /\ open' = open /\ good /\ open /\ queue = <<>>
        /\ Len(responses) < MaxResponses
    BY <1>4 DEF Insert, Idle, vars
  <2>2. responses' \in Seq(Responses) /\ Len(responses') = Len(responses) + 1
    BY <1>3, <2>1, AppendProperties
  <2>3. ReplyTyped'
    BY <1>1, <1>3, <2>1, <2>2 DEF ReplyTyped
  <2>4. TextsOf(responses') = Append(TextsOf(responses), Text(r))
    BY <1>3, <2>1, TextsAppend
  <2>5. FlattenSeq(Append(TextsOf(responses), Text(r))) = FlattenSeq(TextsOf(responses)) \o Text(r)
    BY <1>3, TextsProperties, ReplyAssumption, FlattenSeqAppend
  <2>6. AllText = FlattenSeq(TextsOf(responses)) /\ AllText' = FlattenSeq(TextsOf(responses'))
    BY DEF AllText, TextsOf
  <2>7. put \o <<>> = AllText /\ put \o <<>> = put
    BY <1>2, <1>3, <2>1, ConcatEmptySeq DEF Missing
  <2>8. put' \o queue' = AllText'
    BY <2>1, <2>4, <2>5, <2>6, <2>7
  <2>9. QED
    BY <1>1, <2>3, <2>8 DEF Missing, QueueTyped
<1>5. ASSUME PutOne PROVE ReplyTyped' /\ \E x \in Seq(Byte) : Missing(x)'
  <2>1. /\ queue # <<>> /\ good /\ open /\ put' = Append(put, Head(queue))
        /\ queue' = Tail(queue) /\ responses' = responses /\ good' = good /\ open' = open
    BY <1>3, <1>5 DEF PutOne, Store, Overflow
  <2>2. ReplyTyped'
    BY <1>1, <1>3, <2>1 DEF ReplyTyped
  <2>3. put \o queue = AllText
    BY <1>2, <2>1 DEF Missing
  <2>4. put' \o queue' = AllText
    BY <1>3, <2>1, <2>3, MoveOne
  <2>5. AllText' = AllText
    BY <2>1 DEF AllText
  <2>6. QED
    BY <1>1, <2>2, <2>4, <2>5 DEF Missing, QueueTyped
<1>6. ASSUME PutFails PROVE ReplyTyped' /\ \E x \in Seq(Byte) : Missing(x)'
  <2>1. /\ queue' = <<>> /\ good' = FALSE /\ put' = put
        /\ responses' = responses /\ open' = open
    BY <1>6 DEF PutFails, LeftToPut, Failed, Overflow, vars
  <2>2. ReplyTyped'
    BY <1>1, <1>3, <2>1 DEF ReplyTyped
  <2>3. AllText' = AllText
    BY <2>1 DEF AllText
  <2>4. Missing(rest)'
    BY <1>2, <2>1, <2>3 DEF Missing
  <2>5. QED
    BY <2>2, <2>4
<1>7. ASSUME FlushStream \/ Drop \/ UNCHANGED replyVars
      PROVE  ReplyTyped' /\ \E x \in Seq(Byte) : Missing(x)'
  <2>1. /\ queue' = queue /\ put' = put /\ responses' = responses
        /\ good' \in BOOLEAN /\ open' \in BOOLEAN /\ (good' => good)
        /\ queue # <<>> => good' /\ open'
    <3>1. CASE FlushStream
      BY <1>3, <3>1 DEF FlushStream, Flush, Failed, Idle, vars
    <3>2. CASE Drop
      BY <1>3, <3>2 DEF Drop, Idle, vars
    <3>3. CASE UNCHANGED replyVars
      BY <1>3, <3>3 DEF replyVars, vars
    <3>4. QED
      BY <1>7, <3>1, <3>2, <3>3
  <2>2. ReplyTyped'
    BY <1>1, <1>3, <2>1 DEF ReplyTyped
  <2>3. AllText' = AllText
    BY <2>1 DEF AllText
  <2>4. Missing(rest)'
    BY <1>2, <2>1, <2>3 DEF Missing
  <2>5. QED
    BY <2>2, <2>4
<1>8. ReplyTyped' /\ \E x \in Seq(Byte) : Missing(x)'
  BY <1>4, <1>5, <1>6, <1>7 DEF ReplyNext
<1>9. QED
  BY <1>1, <1>8 DEF ReplyInv

LEMMA ReplyInvariant == ReplySpec => []ReplyInv
<1>1. QED
  BY ReplyInitInv, ReplyNextInv, PTL DEF ReplySpec

(* Characters left to put belong to a stream that is good and still there. *)
THEOREM ReplyTypeCorrect == ReplySpec => []ReplyTypeOK
<1>1. ReplyInv => ReplyTypeOK
  BY DEF ReplyInv, IInv, ReplyTyped, QueueTyped, ReplyTypeOK
<1>2. QED
  BY <1>1, ReplyInvariant, PTL

(* A beginning of a concatenation.                                         *)
LEMMA PrefixOfConcat ==
  ASSUME NEW S, NEW s \in Seq(S), NEW t \in Seq(S)
  PROVE  IsPrefix(s, s \o t)
<1>1. Len(s) \in Nat /\ Len(t) \in Nat /\ Len(s \o t) = Len(s) + Len(t)
  BY LenProperties, ConcatProperties
<1>2. CASE Len(s) = 0
  <2>1. SubSeq(s, 1, Len(s)) = <<>> /\ SubSeq(s \o t, 1, Len(s)) = <<>>
    BY <1>2, SubSeqEmpty
  <2>2. QED
    BY <1>1, <2>1 DEF IsPrefix
<1>3. CASE Len(s) # 0
  <2>1. 1 \in 1..Len(s) /\ Len(s) \in 1..Len(s)
    BY <1>1, <1>3
  <2>2. SubSeq(s \o t, 1, Len(s)) = SubSeq(s, 1, Len(s))
    BY <2>1, SubSeqOfConcat1
  <2>3. QED
    BY <1>1, <2>2 DEF IsPrefix
<1>4. QED
  BY <1>2, <1>3

(* A stream that is good has put every response in full, whatever the      *)
(* kernel took of each write; one that is not has put no more than a       *)
(* beginning.                                                              *)
THEOREM GoodRepliesArePut == ReplySpec => []GoodMeansPut
<1>1. ReplyInv => GoodMeansPut
  <2> SUFFICES ASSUME ReplyInv PROVE GoodMeansPut
    OBVIOUS
  <2>1. PICK rest \in Seq(Byte) : Missing(rest)
    BY DEF ReplyInv
  <2>2. put \in Seq(Byte)
    BY DEF ReplyInv, IInv, TypeOK
  <2>3. IsPrefix(put, put \o rest)
    BY <2>2, PrefixOfConcat
  <2>4. QED
    BY <2>1, <2>3 DEF Missing, GoodMeansPut
<1>2. QED
  BY <1>1, ReplyInvariant, PTL

-----------------------------------------------------------------------------
(* What a client has read after one token more.  FoldLeft takes the tokens *)
(* by a recursive function on sets of positions, from the greatest down.   *)
ClientFolds(tokens, S, f) ==
    f = [s \in SUBSET S |-> IF s = {} THEN Start
                            ELSE Take(f[s \ {Max(s)}], tokens[Max(s)])]

(* The greatest of some positions up to n + 1.                             *)
LEMMA MaxOfPositions ==
  ASSUME NEW n \in Nat, NEW s \in SUBSET (1..n+1), n + 1 \in s
  PROVE  Max(s) = n + 1
<1>1. \A y \in s : n + 1 >= y
  OBVIOUS
<1>2. \E m \in s : \A y \in s : m >= y
  BY <1>1
<1>3. Max(s) \in s /\ \A y \in s : Max(s) >= y
  BY <1>2 DEF Max
<1>4. Max(s) \in 1..n+1 /\ Max(s) >= n + 1
  BY <1>3
<1>5. QED
  BY <1>4

(* The recursive function exists for every number of tokens.               *)
LEMMA ClientFoldsExist ==
  ASSUME NEW tokens
  PROVE  \A n \in Nat : \E f : ClientFolds(tokens, 1..n, f)
<1> DEFINE T == {n \in Nat : \E f : ClientFolds(tokens, 1..n, f)}
<1>1. 0 \in T
  <2> DEFINE f == [s \in SUBSET (1..0) |-> Start]
  <2>1. \A s \in SUBSET (1..0) : s = {}
    OBVIOUS
  <2>2. f = [s \in SUBSET (1..0) |-> IF s = {} THEN Start
                                      ELSE Take(f[s \ {Max(s)}], tokens[Max(s)])]
    BY <2>1
  <2> HIDE DEF f
  <2>3. ClientFolds(tokens, 1..0, f)
    BY <2>2, Zenon DEF ClientFolds
  <2>4. QED
    BY <2>3
<1>2. ASSUME NEW n \in Nat, n \in T PROVE n + 1 \in T
  <2>1. PICK f : ClientFolds(tokens, 1..n, f)
    BY <1>2
  <2>2. \A s \in SUBSET (1..n) : f[s] = IF s = {} THEN Start
                                         ELSE Take(f[s \ {Max(s)}], tokens[Max(s)])
    BY <2>1, Zenon DEF ClientFolds
  <2> DEFINE m == n + 1
             g == [s \in SUBSET (1..m) |-> IF m \in s THEN Take(f[s \ {m}], tokens[m]) ELSE f[s]]
  <2>3. \A s \in SUBSET (1..m) : s \ {m} \in SUBSET (1..n) /\ (m \notin s => s \in SUBSET (1..n))
    OBVIOUS
  <2>4. \A s \in SUBSET (1..m) : m \in s => Max(s) = m /\ s # {}
    BY MaxOfPositions
  <2> HIDE DEF m
  <2>5. \A s \in SUBSET (1..n) : s \in SUBSET (1..m) /\ m \notin s
    BY DEF m
  <2>6. \A s \in SUBSET (1..n) : g[s] = f[s]
    BY <2>5
  <2>7. ASSUME NEW s \in SUBSET (1..m)
        PROVE  g[s] = IF s = {} THEN Start ELSE Take(g[s \ {Max(s)}], tokens[Max(s)])
    <3>1. CASE m \in s
      <4>1. g[s] = Take(f[s \ {m}], tokens[m]) /\ Max(s) = m /\ s # {}
        BY <2>4, <3>1
      <4>2. g[s \ {m}] = f[s \ {m}]
        BY <2>3, <2>6
      <4> HIDE DEF g
      <4>3. QED
        BY <4>1, <4>2
    <3>2. CASE m \notin s
      <4>1. s \in SUBSET (1..n)
        BY <2>3, <3>2
      <4>2. g[s] = f[s]
        BY <2>6, <4>1
      <4>3. s \ {Max(s)} \in SUBSET (1..n)
        BY <4>1
      <4>4. g[s \ {Max(s)}] = f[s \ {Max(s)}]
        BY <2>6, <4>3
      <4> HIDE DEF g
      <4>5. QED
        BY <2>2, <4>1, <4>2, <4>4
    <3>3. QED
      BY <3>1, <3>2
  <2>8. g = [s \in SUBSET (1..m) |-> IF s = {} THEN Start
                                     ELSE Take(g[s \ {Max(s)}], tokens[Max(s)])]
    <3> DEFINE rhs == [s \in SUBSET (1..m) |-> IF s = {} THEN Start
                                     ELSE Take(g[s \ {Max(s)}], tokens[Max(s)])]
    <3>1. \A s \in SUBSET (1..m) : g[s] = rhs[s]
      <4> SUFFICES ASSUME NEW s \in SUBSET (1..m) PROVE g[s] = rhs[s]
        OBVIOUS
      <4>1. g[s] = IF s = {} THEN Start ELSE Take(g[s \ {Max(s)}], tokens[Max(s)])
        BY <2>7
      <4> HIDE DEF g
      <4>2. QED
        BY <4>1
    <3>2. QED
      BY <3>1
  <2> HIDE DEF g
  <2>9. ClientFolds(tokens, 1..m, g)
    BY <2>8, Zenon DEF ClientFolds
  <2>10. QED
    BY <2>9 DEF m
<1> HIDE DEF T
<1>3. \A n \in Nat : n \in T
  BY <1>1, <1>2, Induction
<1>4. QED
  BY <1>3 DEF T

(* Client is a value of that function.                                     *)
LEMMA ClientDef ==
  ASSUME NEW S, NEW tokens \in Seq(S)
  PROVE  \E f : ClientFolds(tokens, 1..Len(tokens), f) /\ Client(tokens) = f[1..Len(tokens)]
<1> DEFINE D == DOMAIN tokens
           F == CHOOSE f : f = [s \in SUBSET D |-> IF s = {} THEN Start
                            ELSE Take(f[s \ {Max(s)}], tokens[Max(s)])]
<1>1. Client(tokens) = F[D]
  BY Zenon DEF Client, FoldLeft, MapThenFoldSet
<1>2. D = 1..Len(tokens) /\ Len(tokens) \in Nat
  BY LenProperties
<1>3. \E f : f = [s \in SUBSET D |-> IF s = {} THEN Start
                            ELSE Take(f[s \ {Max(s)}], tokens[Max(s)])]
  <2>1. \E f : ClientFolds(tokens, 1..Len(tokens), f)
    BY <1>2, ClientFoldsExist
  <2> HIDE DEF D
  <2>2. \E f : ClientFolds(tokens, D, f)
    BY <1>2, <2>1
  <2>3. QED
    BY <2>2, Zenon DEF ClientFolds
<1>4. F = [s \in SUBSET D |-> IF s = {} THEN Start
                            ELSE Take(F[s \ {Max(s)}], tokens[Max(s)])]
  BY <1>3, Zenon
<1>5. ClientFolds(tokens, D, F)
  BY <1>4, Zenon DEF ClientFolds
<1> HIDE DEF D, F
<1>6. QED
  BY <1>1, <1>2, <1>5

(* That function takes the tokens one after the other.                     *)
LEMMA ClientFoldsStep ==
  ASSUME NEW tokens, NEW n \in Nat, NEW f, ClientFolds(tokens, 1..n, f)
  PROVE  f[1..0] = Start /\ \A k \in 0..n-1 : f[1..k+1] = Take(f[1..k], tokens[k+1])
<1>1. \A s \in SUBSET (1..n) : f[s] = IF s = {} THEN Start
                                       ELSE Take(f[s \ {Max(s)}], tokens[Max(s)])
  BY Zenon DEF ClientFolds
<1>2. f[1..0] = Start
  <2>1. 1..0 \in SUBSET (1..n) /\ 1..0 = {}
    OBVIOUS
  <2>2. QED
    BY <1>1, <2>1
<1>3. ASSUME NEW k \in 0..n-1 PROVE f[1..k+1] = Take(f[1..k], tokens[k+1])
  <2> DEFINE s == 1..k+1
  <2>1. s \in SUBSET (1..n) /\ k + 1 \in s /\ s # {} /\ s \ {k + 1} = 1..k /\ k \in Nat
    OBVIOUS
  <2>2. Max(s) = k + 1
    BY <2>1, MaxOfPositions
  <2> HIDE DEF s
  <2>3. f[s] = Take(f[s \ {Max(s)}], tokens[Max(s)])
    BY <1>1, <2>1
  <2>4. f[s] = Take(f[1..k], tokens[k+1])
    BY <2>1, <2>2, <2>3
  <2>5. QED
    BY <2>4 DEF s
<1>4. QED
  BY <1>2, <1>3

(* Nothing is read of no token.                                            *)
LEMMA ClientOfNothing == Client(<<>>) = Start
<1> DEFINE e == <<>>
<1>1. e \in Seq(Nat) /\ Len(e) = 0
  BY EmptySeq
<1> HIDE DEF e
<1>2. PICK f : ClientFolds(e, 1..Len(e), f) /\ Client(e) = f[1..Len(e)]
  BY <1>1, ClientDef
<1>3. ClientFolds(e, 1..0, f) /\ Client(e) = f[1..0]
  BY <1>1, <1>2
<1>4. f[1..0] = Start
  BY <1>3, ClientFoldsStep
<1>5. QED
  BY <1>3, <1>4 DEF e

(* Client takes a token that is added last.                                *)
LEMMA ClientStep ==
  ASSUME NEW S, NEW tokens \in Seq(S), NEW x \in S
  PROVE  Client(Append(tokens, x)) = Take(Client(tokens), x)
<1> DEFINE n == Len(tokens)
           more == Append(tokens, x)
<1>1. /\ n \in Nat /\ more \in Seq(S) /\ Len(more) = n + 1
      /\ \A i \in 1..n : more[i] = tokens[i]
      /\ more[n+1] = x
  BY AppendProperties, LenProperties
<1> HIDE DEF more
<1>2. PICK f : ClientFolds(tokens, 1..n, f) /\ Client(tokens) = f[1..n]
  BY ClientDef
<1>3. PICK g : ClientFolds(more, 1..Len(more), g) /\ Client(more) = g[1..Len(more)]
  BY <1>1, ClientDef
<1> HIDE DEF n
<1>4. ClientFolds(more, 1..n+1, g) /\ Client(more) = g[1..n+1]
  BY <1>1, <1>3
<1>5. f[1..0] = Start /\ \A k \in 0..n-1 : f[1..k+1] = Take(f[1..k], tokens[k+1])
  BY <1>1, <1>2, ClientFoldsStep
<1>6. g[1..0] = Start /\ \A k \in 0..(n+1)-1 : g[1..k+1] = Take(g[1..k], more[k+1])
  <2>1. n + 1 \in Nat
    BY <1>1
  <2>2. QED
    BY <1>4, <2>1, ClientFoldsStep
<1> DEFINE T == {k \in Nat : k <= n => f[1..k] = g[1..k]}
<1>7. 0 \in T
  BY <1>5, <1>6
<1>8. ASSUME NEW k \in Nat, k \in T PROVE k + 1 \in T
  <2> SUFFICES ASSUME k + 1 <= n PROVE f[1..k+1] = g[1..k+1]
    OBVIOUS
  <2>1. k \in 0..n-1 /\ k \in 0..(n+1)-1 /\ k + 1 \in 1..n /\ k <= n
    BY <1>1
  <2>2. f[1..k] = g[1..k]
    BY <1>8, <2>1
  <2>3. QED
    BY <1>1, <1>5, <1>6, <2>1, <2>2
<1> HIDE DEF T
<1>9. \A k \in Nat : k \in T
  BY <1>7, <1>8, Induction
<1>10. f[1..n] = g[1..n]
  BY <1>1, <1>9 DEF T
<1>11. g[1..n+1] = Take(g[1..n], more[n+1])
  <2>1. n \in 0..(n+1)-1
    BY <1>1
  <2>2. QED
    BY <1>6, <2>1
<1>12. QED
  BY <1>1, <1>2, <1>4, <1>10, <1>11 DEF more

(* A version is read back with one digit after the point.                  *)
LEMMA VersionReads ==
  ASSUME NEW v \in Nat
  PROVE  ReadVersion(VersionText(v)) = v - (v % 10)
<1> DEFINE q == v \div 100
           m == v % 100
           d == m \div 10
<1>1. q \in Nat /\ m \in 0..99 /\ v = 100 * q + m
  OBVIOUS
<1> HIDE DEF m
<1>2. d \in 0..9 /\ m = 10 * d + (m % 10) /\ m % 10 \in 0..9
  BY <1>1
<1>3. v % 10 = m % 10
  <2> HIDE DEF q
  <2>1. QED
    BY <1>1
<1>4. CASE m = 0
  <2>1. VersionText(v) = <<q>> /\ m % 10 = 0
    BY <1>4 DEF VersionText, m
  <2>2. Len(<<q>>) = 1 /\ <<q>>[1] = q
    OBVIOUS
  <2>3. ReadVersion(<<q>>) = 100 * q
    <3> HIDE DEF q
    <3>1. QED
      BY <1>1, <2>2 DEF ReadVersion
  <2>4. QED
    <3> HIDE DEF q
    <3>1. QED
      BY <1>1, <1>3, <1>4, <2>1, <2>3
<1>5. CASE m # 0
  <2>1. VersionText(v) = <<q, d>>
    BY <1>5 DEF VersionText, m
  <2> HIDE DEF q, d
  <2>2. ReadVersion(<<q, d>>) = 100 * q + 10 * d
    BY <1>1, <1>2 DEF ReadVersion
  <2>3. QED
    BY <1>1, <1>2, <1>3, <2>1, <2>2
<1>6. QED
  BY <1>4, <1>5

Position(in, left, messages) == [in |-> in, left |-> left, messages |-> messages]
Read(version, status, headers, content) ==
    [version |-> version, status |-> status, headers |-> headers, content |-> content]

(* A line begins a message.                                                *)
LEMMA TakeLine ==
  ASSUME NEW left, NEW messages, NEW line
  PROVE  Take(Position("start", left, messages), LineText(line)[1])
           = Position("headers", left,
                      Append(messages, Read(ReadVersion(VersionText(line.version)), line.status,
                                            <<>>, <<>>)))
<1> DEFINE c == Position("start", left, messages)
           x == LineText(line)[1]
<1>1. x[1] = "line" /\ x[2] = VersionText(line.version) /\ x[3] = line.status
  BY DEF LineText
<1>2. c.in = "start" /\ c.left = left /\ c.messages = messages
  BY DEF Position
<1> HIDE DEF x
<1>3. Take(c, x) = [c EXCEPT !.in = "headers",
                     !.messages = Append(@, [version |-> ReadVersion(x[2]),
                                             status |-> x[3],
                                             headers |-> <<>>, content |-> <<>>])]
  BY <1>1, <1>2 DEF Take
<1>4. QED
  BY <1>1, <1>2, <1>3 DEF Position, Read, x

(* A header goes to the last message, and may give its length.             *)
LEMMA TakeHeader ==
  ASSUME NEW S, NEW ms \in Seq(S), NEW left, NEW v, NEW st, NEW hs, NEW ct, NEW name, NEW value
  PROVE  Take(Position("headers", left, Append(ms, Read(v, st, hs, ct))),
              HeaderText(name, value)[1])
           = Position("headers", IF name = "Content-Length" THEN value ELSE left,
                      Append(ms, Read(v, st, Append(hs, <<name, value>>), ct)))
<1> DEFINE m == Read(v, st, hs, ct)
           k == Read(v, st, Append(hs, <<name, value>>), ct)
           a == Append(ms, m)
           c == Position("headers", left, a)
           x == HeaderText(name, value)[1]
<1>1. x = <<"header", name, value>>
  BY DEF HeaderText
<1>2. x[1] = "header" /\ x[2] = name /\ x[3] = value
  BY <1>1
<1>3. c.in = "headers" /\ c.left = left /\ c.messages = a
  BY DEF Position
<1>4. m.headers = hs /\ [m EXCEPT !["headers"] = Append(@, <<name, value>>)] = k
  <2> DEFINE e == [m EXCEPT !["headers"] = Append(@, <<name, value>>)]
             F == {"version", "status", "headers", "content"}
  <2>1. m.headers = hs /\ m["headers"] = hs /\ DOMAIN m = F /\ DOMAIN k = F
    BY DEF Read
  <2>2. DOMAIN e = F
    BY <2>1
  <2>3. \A f \in F : e[f] = k[f]
    <3>1. e["version"] = k["version"]
      BY DEF Read
    <3>2. e["status"] = k["status"]
      BY DEF Read
    <3>3. e["headers"] = k["headers"]
      BY DEF Read
    <3>4. e["content"] = k["content"]
      BY DEF Read
    <3>5. QED
      BY <3>1, <3>2, <3>3, <3>4
  <2>4. e = [f \in F |-> e[f]] /\ k = [f \in F |-> k[f]]
    BY <2>1, <2>2, Zenon DEF Read
  <2> HIDE DEF e, k, m
  <2>5. e = k
    BY <2>3, <2>4
  <2>6. QED
    BY <2>1, <2>5 DEF e
<1> HIDE DEF x, m, k
<1>5. a[Len(a)] = m /\ [a EXCEPT ![Len(a)] = k] = Append(ms, k)
  BY LastReplaced
<1> HIDE DEF a
<1>6. Extend(c, "headers", <<name, value>>) = Append(ms, k)
  <2>1. Extend(c, "headers", <<name, value>>)
          = [a EXCEPT ![Len(a)]["headers"] = Append(@, <<name, value>>)]
    BY <1>3 DEF Extend
  <2>2. [a EXCEPT ![Len(a)]["headers"] = Append(@, <<name, value>>)]
          = [a EXCEPT ![Len(a)] = [a[Len(a)] EXCEPT !["headers"] = Append(@, <<name, value>>)]]
    OBVIOUS
  <2>3. [a[Len(a)] EXCEPT !["headers"] = Append(@, <<name, value>>)] = k
    BY <1>4, <1>5
  <2>4. QED
    BY <1>5, <2>1, <2>2, <2>3
<1> HIDE DEF c
<1>b. x # Blank
  BY <1>2 DEF Blank
<1>7. Take(c, x) = [c EXCEPT !.left = IF x[2] = "Content-Length" THEN x[3] ELSE @,
                             !.messages = Extend(c, "headers", <<x[2], x[3]>>)]
  BY <1>2, <1>3, <1>b DEF Take
<1>8. Take(c, x) = [c EXCEPT !.left = IF name = "Content-Length" THEN value ELSE left,
                             !.messages = Append(ms, k)]
  BY <1>2, <1>3, <1>6, <1>7
<1>9. Take(c, x) = Position("headers", IF name = "Content-Length" THEN value ELSE left,
                            Append(ms, k))
  BY <1>8 DEF Position, c
<1>10. QED
  BY <1>9 DEF c, x, a, m, k

(* A blank line ends the headers, and a message that has no content.       *)
LEMMA TakeBlank ==
  ASSUME NEW left, NEW messages
  PROVE  Take(Position("headers", left, messages), Blank)
           = Position(IF left = 0 THEN "start" ELSE "content", left, messages)
<1> DEFINE c == Position("headers", left, messages)
<1>1. c.in = "headers" /\ c.left = left
  BY DEF Position
<1>2. Blank[1] = "blank"
  BY DEF Blank
<1> HIDE DEF c
<1>3. Take(c, Blank) = [c EXCEPT !.in = IF c.left = 0 THEN "start" ELSE "content"]
  BY <1>1, <1>2 DEF Take
<1>4. QED
  BY <1>1, <1>3 DEF Position, c

(* In a content, any token is one of the content's.                        *)
LEMMA TakeContent ==
  ASSUME NEW S, NEW ms \in Seq(S), NEW left, NEW v, NEW st, NEW hs, NEW ct, NEW x
  PROVE  Take(Position("content", left, Append(ms, Read(v, st, hs, ct))), x)
           = Position(IF left = 1 THEN "start" ELSE "content", left - 1,
                      Append(ms, Read(v, st, hs, Append(ct, x))))
<1> DEFINE m == Read(v, st, hs, ct)
           k == Read(v, st, hs, Append(ct, x))
           a == Append(ms, m)
           c == Position("content", left, a)
<1>1. c.in = "content" /\ c.left = left /\ c.messages = a
  BY DEF Position
<1>2. m.content = ct /\ [m EXCEPT !["content"] = Append(@, x)] = k
  <2> DEFINE e == [m EXCEPT !["content"] = Append(@, x)]
             F == {"version", "status", "headers", "content"}
  <2>1. m.content = ct /\ m["content"] = ct /\ DOMAIN m = F /\ DOMAIN k = F
    BY DEF Read
  <2>2. DOMAIN e = F
    BY <2>1
  <2>3. \A f \in F : e[f] = k[f]
    <3>1. e["version"] = k["version"]
      BY DEF Read
    <3>2. e["status"] = k["status"]
      BY DEF Read
    <3>3. e["headers"] = k["headers"]
      BY DEF Read
    <3>4. e["content"] = k["content"]
      BY DEF Read
    <3>5. QED
      BY <3>1, <3>2, <3>3, <3>4
  <2>4. e = [f \in F |-> e[f]] /\ k = [f \in F |-> k[f]]
    BY <2>1, <2>2, Zenon DEF Read
  <2> HIDE DEF e, k, m
  <2>5. e = k
    BY <2>3, <2>4
  <2>6. QED
    BY <2>1, <2>5 DEF e
<1> HIDE DEF m, k
<1>3. a[Len(a)] = m /\ [a EXCEPT ![Len(a)] = k] = Append(ms, k)
  BY LastReplaced
<1> HIDE DEF a
<1>4. Extend(c, "content", x) = Append(ms, k)
  <2>1. Extend(c, "content", x) = [a EXCEPT ![Len(a)]["content"] = Append(@, x)]
    BY <1>1 DEF Extend
  <2>2. [a EXCEPT ![Len(a)]["content"] = Append(@, x)]
          = [a EXCEPT ![Len(a)] = [a[Len(a)] EXCEPT !["content"] = Append(@, x)]]
    OBVIOUS
  <2>3. [a[Len(a)] EXCEPT !["content"] = Append(@, x)] = k
    BY <1>2, <1>3
  <2>4. QED
    BY <1>3, <2>1, <2>2, <2>3
<1> HIDE DEF c
<1>5. Take(c, x) = [c EXCEPT !.in = IF c.left = 1 THEN "start" ELSE "content",
                             !.left = @ - 1, !.messages = Extend(c, "content", x)]
  BY <1>1 DEF Take
<1>6. Take(c, x) = [c EXCEPT !.in = IF left = 1 THEN "start" ELSE "content",
                             !.left = left - 1, !.messages = Append(ms, k)]
  BY <1>1, <1>4, <1>5
<1>7. Take(c, x) = Position(IF left = 1 THEN "start" ELSE "content", left - 1, Append(ms, k))
  BY <1>6 DEF Position, c
<1>8. QED
  BY <1>7 DEF c, a, m, k

(* A content is read as long as the headers say, whatever it looks like.   *)
LEMMA ReadsContent ==
  ASSUME NEW S, NEW s \in Seq(S), NEW ct \in Seq(S), Len(ct) # 0,
         NEW M, NEW ms \in Seq(M), NEW v, NEW st, NEW hs,
         Client(s) = Position("content", Len(ct), Append(ms, Read(v, st, hs, <<>>)))
  PROVE  Client(s \o ct) = Position("start", 0, Append(ms, Read(v, st, hs, ct)))
<1> DEFINE n == Len(ct)
           P(k) == SubSeq(ct, 1, k)
           Where(k) == IF k = n THEN "start" ELSE "content"
           At(k) == Client(s \o P(k)) = Position(Where(k), n - k, Append(ms, Read(v, st, hs, P(k))))
           T == {k \in Nat : k <= n => At(k)}
<1>1. n \in Nat /\ n # 0
  BY LenProperties
<1>2. 0 \in T
  <2>1. P(0) = <<>> /\ s \o <<>> = s
    BY SubSeqEmpty, ConcatEmptySeq
  <2>2. Where(0) = "content" /\ n - 0 = n
    BY <1>1
  <2>3. QED
    <3> HIDE DEF n, Where, P
    <3>1. At(0)
      BY <2>1, <2>2 DEF n
    <3>2. QED
      BY <3>1
<1>3. ASSUME NEW k \in Nat, k \in T PROVE k + 1 \in T
  <2> SUFFICES ASSUME k + 1 <= n PROVE At(k + 1)
    OBVIOUS
  <2> DEFINE x == ct[k+1]
  <2>1. k <= n /\ k # n /\ n - (k + 1) = (n - k) - 1 /\ ((n - k = 1) <=> (k + 1 = n))
    BY <1>1
  <2>2. Client(s \o P(k)) = Position("content", n - k, Append(ms, Read(v, st, hs, P(k))))
    BY <1>3, <2>1
  <2>3. /\ P(k) \in Seq(S) /\ x \in S /\ s \o P(k) \in Seq(S)
        /\ P(k + 1) = Append(P(k), x)
        /\ s \o P(k + 1) = Append(s \o P(k), x)
    BY OneMore
  <2> HIDE DEF P, x
  <2>4. Client(s \o P(k + 1)) = Take(Client(s \o P(k)), x)
    BY <2>3, ClientStep
  <2>5. Take(Position("content", n - k, Append(ms, Read(v, st, hs, P(k)))), x)
          = Position(IF n - k = 1 THEN "start" ELSE "content", (n - k) - 1,
                     Append(ms, Read(v, st, hs, Append(P(k), x))))
    BY TakeContent
  <2>6. (IF n - k = 1 THEN "start" ELSE "content") = Where(k + 1)
    BY <2>1
  <2> HIDE DEF Where, n
  <2>7. QED
    BY <2>1, <2>2, <2>3, <2>4, <2>5, <2>6
<1> HIDE DEF T
<1>4. n \in T
  BY <1>1, <1>2, <1>3, Induction
<1>5. At(n)
  BY <1>1, <1>4 DEF T
<1>6. P(n) = ct
  BY SubSeqFull
<1>7. Where(n) = "start" /\ n - n = 0
  BY <1>1
<1> HIDE DEF P, Where
<1>8. QED
  BY <1>5, <1>6, <1>7

HeaderTexts(hs) == [i \in DOMAIN hs |-> HeaderText(hs[i].name, hs[i].value)]
Pairs(hs) == [i \in DOMAIN hs |-> <<hs[i].name, hs[i].value>>]

(* Headers are read as they are written, and which was the last            *)
(* Content-Length is settled by what follows.                              *)
LEMMA ReadsHeaders ==
  ASSUME NEW S, NEW s \in Seq(S), NEW H, NEW hs \in Seq(H),
         \A i \in 1..Len(hs) : HeaderText(hs[i].name, hs[i].value) \in Seq(S),
         NEW M, NEW ms \in Seq(M), NEW v, NEW st, NEW left,
         Client(s) = Position("headers", left, Append(ms, Read(v, st, <<>>, <<>>)))
  PROVE  /\ HeaderTexts(hs) \in Seq(Seq(S))
         /\ \E l : Client(s \o FlattenSeq(HeaderTexts(hs)))
                    = Position("headers", l, Append(ms, Read(v, st, Pairs(hs), <<>>)))
<1> DEFINE n == Len(hs)
           tt == HeaderTexts(hs)
           ps == Pairs(hs)
           N == {ps[i] : i \in 1..n}
           F(k) == FlattenFirst(tt, k)
           P(k) == SubSeq(ps, 1, k)
           At(k) == \E l : Client(s \o F(k))
                              = Position("headers", l, Append(ms, Read(v, st, P(k), <<>>)))
           T == {k \in Nat : k <= n => At(k)}
<1>1. n \in Nat /\ DOMAIN hs = 1..n
  BY LenProperties
<1> HIDE DEF n
<1>2. tt \in Seq(Seq(S)) /\ Len(tt) = n
  <2>1. tt \in [1..n -> Seq(S)]
    BY <1>1 DEF n, HeaderTexts
  <2>2. tt \in Seq(Seq(S))
    BY <1>1, <2>1, SeqDef
  <2>3. QED
    <3> HIDE DEF tt
    <3>1. QED
      BY <1>1, <2>1, <2>2, LenProperties
<1>3. ps \in Seq(N) /\ Len(ps) = n
  <2>1. ps \in [1..n -> N]
    BY <1>1 DEF Pairs
  <2> HIDE DEF N
  <2>2. ps \in Seq(N)
    BY <1>1, <2>1, SeqDef
  <2>3. QED
    <3> HIDE DEF ps
    <3>1. QED
      BY <1>1, <2>1, <2>2, LenProperties
<1> HIDE DEF N
<1>4. \A k \in 0..n : F(k) \in Seq(S)
  <2> HIDE DEF tt
  <2>1. QED
    BY <1>2, FlattenFirstType
<1>5. 0 \in T
  <2>1. F(0) = <<>>
    <3> HIDE DEF tt
    <3>1. SubSeq(tt, 1, 0) = <<>>
      BY SubSeqEmpty
    <3>2. QED
      BY <3>1, FlattenSeqEmpty DEF FlattenFirst
  <2>2. P(0) = <<>> /\ s \o <<>> = s
    BY SubSeqEmpty, ConcatEmptySeq
  <2> HIDE DEF F, P
  <2>3. At(0)
    BY <2>1, <2>2
  <2>4. QED
    BY <2>3
<1>6. ASSUME NEW k \in Nat, k \in T PROVE k + 1 \in T
  <2> SUFFICES ASSUME k + 1 <= n PROVE At(k + 1)
    <3> HIDE DEF At
    <3>1. QED
      OBVIOUS
  <2> DEFINE g == hs[k+1]
             x == HeaderText(g.name, g.value)[1]
  <2>1. k <= n /\ k + 1 \in 1..n /\ k \in 0..n /\ k + 1 \in 0..n /\ k \in 0..n-1
    BY <1>1
  <2>a. At(k)
    <3> HIDE DEF At
    <3>1. QED
      BY <1>6, <2>1
  <2>2. PICK l : Client(s \o F(k)) = Position("headers", l, Append(ms, Read(v, st, P(k), <<>>)))
    BY <2>a
  <2>3. tt[k+1] = HeaderText(g.name, g.value) /\ ps[k+1] = <<g.name, g.value>>
    BY <1>1, <2>1 DEF HeaderTexts, Pairs
  <2>4. HeaderText(g.name, g.value) \in Seq(S)
    BY <2>1 DEF n
  <2>5. HeaderText(g.name, g.value) = <<x>> /\ Len(<<x>>) = 1 /\ <<x>>[1] = x
    BY DEF HeaderText
  <2> HIDE DEF g
  <2>6. x \in S
    <3> HIDE DEF x
    <3>1. <<x>> \in Seq(S) /\ 1 \in 1..Len(<<x>>)
      BY <2>4, <2>5
    <3>2. QED
      BY <3>1, <2>5, ElementOfSeq
  <2> HIDE DEF tt, ps, x
  <2>7. F(k + 1) = F(k) \o tt[k+1]
    BY <1>2, <2>1, FlattenFirstStep
  <2>8. P(k + 1) = Append(P(k), ps[k+1])
    <3>1. QED
      BY <1>3, <2>1, OneMore
  <2>9. F(k) \in Seq(S) /\ s \o F(k) \in Seq(S)
    BY <1>4, <2>1, ConcatProperties
  <2> HIDE DEF F, P
  <2>10. s \o F(k + 1) = (s \o F(k)) \o <<x>>
    <3> DEFINE y == <<x>>
    <3>1. y \in Seq(S) /\ F(k + 1) = F(k) \o y
      BY <2>3, <2>4, <2>5, <2>7
    <3> HIDE DEF y
    <3>2. (s \o F(k)) \o y = s \o (F(k) \o y)
      BY <2>9, <3>1, ConcatAssociative
    <3>3. QED
      BY <3>1, <3>2 DEF y
  <2>11. Client(s \o F(k + 1)) = Take(Client(s \o F(k)), x)
    BY <2>6, <2>9, <2>10, AppendIsConcat, ClientStep
  <2>12. Take(Position("headers", l, Append(ms, Read(v, st, P(k), <<>>))), x)
          = Position("headers", IF g.name = "Content-Length" THEN g.value ELSE l,
                     Append(ms, Read(v, st, Append(P(k), <<g.name, g.value>>), <<>>)))
    BY TakeHeader DEF x
  <2>13. QED
    BY <2>2, <2>3, <2>8, <2>11, <2>12
<1> HIDE DEF T
<1>7. n \in T
  BY <1>1, <1>5, <1>6, Induction
<1>8. At(n)
  <2> HIDE DEF At
  <2>1. QED
    BY <1>1, <1>7 DEF T
<1>9. P(n) = ps /\ F(n) = FlattenSeq(tt)
  <2> HIDE DEF ps, tt
  <2>1. QED
    BY <1>2, <1>3, SubSeqFull DEF FlattenFirst
<1>10. QED
  <2> HIDE DEF P, F
  <2>1. QED
    BY <1>2, <1>8, <1>9

(* A text and a response as they are grouped when it is written and when it *)
(* is read.                                                                *)
AsWritten(s, a, b, x, y, z, w) == s \o ((a \o b) \o (((x \o y) \o z) \o w))
AsRead(s, a, b, x, y, z, w) == (((((s \o a) \o b) \o x) \o y) \o z) \o w

LEMMA Regrouped ==
  ASSUME NEW S, NEW s, NEW a, NEW b, NEW x, NEW y, NEW z, NEW w, s \in Seq(S),
         a \in Seq(S), b \in Seq(S), x \in Seq(S), y \in Seq(S), z \in Seq(S), w \in Seq(S)
  PROVE  AsWritten(s, a, b, x, y, z, w) = AsRead(s, a, b, x, y, z, w)
<1>1. PICK u : u = x \o y
  OBVIOUS
<1>2. PICK v : v = u \o z
  OBVIOUS
<1>3. PICK t : t = v \o w
  OBVIOUS
<1>4. PICK c : c = a \o b
  OBVIOUS
<1>5. PICK d : d = s \o c
  OBVIOUS
<1>6. u \in Seq(S)
  BY ONLY x \in Seq(S), y \in Seq(S), <1>1, ConcatProperties
<1>7. v \in Seq(S)
  BY ONLY z \in Seq(S), <1>6, <1>2, ConcatProperties
<1>8. t \in Seq(S)
  BY ONLY w \in Seq(S), <1>7, <1>3, ConcatProperties
<1>9. c \in Seq(S)
  BY ONLY a \in Seq(S), b \in Seq(S), <1>4, ConcatProperties
<1>10. d \in Seq(S)
  BY ONLY s \in Seq(S), <1>9, <1>5, ConcatProperties
<1>11. s \o (c \o t) = (s \o c) \o t
  BY ONLY s \in Seq(S), <1>9, <1>8, Associative
<1>12. s \o (a \o b) = (s \o a) \o b
  BY ONLY s \in Seq(S), a \in Seq(S), b \in Seq(S), Associative
<1>13. d \o (x \o y) = (d \o x) \o y
  BY ONLY <1>10, x \in Seq(S), y \in Seq(S), Associative
<1>14. d \o (u \o z) = (d \o u) \o z
  BY ONLY <1>10, <1>6, z \in Seq(S), Associative
<1>15. d \o (v \o w) = (d \o v) \o w
  BY ONLY <1>10, <1>7, w \in Seq(S), Associative
<1>16. QED
  BY ONLY <1>1, <1>2, <1>3, <1>4, <1>5, <1>11, <1>12, <1>13, <1>14, <1>15 DEF AsWritten, AsRead

(* Client takes a token that is joined to a text.                          *)
LEMMA ClientOne ==
  ASSUME NEW S, NEW s \in Seq(S), NEW x \in S
  PROVE  /\ s \o <<x>> \in Seq(S)
         /\ Client(s \o <<x>>) = Take(Client(s), x)
<1>1. Append(s, x) = s \o <<x>>
  BY AppendIsConcat
<1>2. Append(s, x) \in Seq(S)
  BY AppendProperties
<1>3. Client(Append(s, x)) = Take(Client(s), x)
  BY ClientStep
<1>4. QED
  BY <1>1, <1>2, <1>3

(* The tokens that the text of a response with one body is made of.        *)
TokensOf(r) ==
    {LineText(r.line)[1], Blank, HeaderText("Content-Length", Len(r.body[1].content))[1],
     HeaderText("Content-Type", r.body[1].type)[1]}
    \cup {HeaderText(r.headers[i].name, r.headers[i].value)[1] : i \in 1..Len(r.headers)}

(* A response with a body is read as it was meant.                         *)
LEMMA ReadsOne ==
  ASSUME NEW S, NEW s \in Seq(S), NEW r, r.headers \in Seq(Range(r.headers)),
         r.body \in Seq(Range(r.body)), Len(r.body) = 1, r.body[1].content \in Seq(S),
         r.line.version \in Nat, TokensOf(r) \subseteq S,
         NEW M, NEW ms \in Seq(M), Client(s) = Position("start", 0, ms)
  PROVE  Client(s \o Text(r)) = Position("start", 0, Append(ms, Message(r)))
<1> DEFINE b == r.body[1]
           ct == b.content
           n == Len(ct)
           line == LineText(r.line)[1]
           cl == HeaderText("Content-Length", n)[1]
           cy == HeaderText("Content-Type", b.type)[1]
           hs == r.headers
           htext == FlattenSeq(HeaderTexts(hs))
           ps == Pairs(hs)
           v == ReadVersion(VersionText(r.line.version))
           st == r.line.status
<1>1. /\ line \in S /\ cl \in S /\ cy \in S /\ Blank \in S /\ ct \in Seq(S)
      /\ LineText(r.line) = <<line>> /\ HeaderText("Content-Length", n) = <<cl>>
      /\ HeaderText("Content-Type", b.type) = <<cy>>
  <2>1. LineText(r.line) = <<line>>
    BY DEF LineText
  <2>2. HeaderText("Content-Length", n) = <<cl>>
    BY DEF HeaderText
  <2>3. HeaderText("Content-Type", b.type) = <<cy>>
    BY DEF HeaderText
  <2>4. line \in S /\ cl \in S /\ cy \in S /\ Blank \in S /\ ct \in Seq(S)
    BY DEF TokensOf
  <2>5. QED
    BY <2>1, <2>2, <2>3, <2>4
<1>2. hs \in Seq(Range(hs)) /\ \A i \in 1..Len(hs) : HeaderText(hs[i].name, hs[i].value) \in Seq(S)
  <2> SUFFICES ASSUME NEW i \in 1..Len(hs) PROVE HeaderText(hs[i].name, hs[i].value) \in Seq(S)
    OBVIOUS
  <2> DEFINE x == HeaderText(hs[i].name, hs[i].value)[1]
  <2>1. HeaderText(hs[i].name, hs[i].value) = <<x>>
    BY DEF HeaderText
  <2>2. x \in S
    BY DEF TokensOf
  <2> HIDE DEF x
  <2>3. <<x>> \in Seq(S)
    BY <2>2
  <2>4. QED
    BY <2>1, <2>3
<1>3. Text(r) = (<<line>> \o htext) \o (((<<cl>> \o <<cy>>) \o <<Blank>>) \o ct)
  <2> DEFINE bt == BodyText(b)
             bs == [i \in DOMAIN r.body |-> BodyText(r.body[i])]
  <2>1. bt = ((<<cl>> \o <<cy>>) \o <<Blank>>) \o ct
    BY <1>1 DEF BodyText
  <2>2. bt \in Seq(S)
    <3> HIDE DEF ct, cl, cy
    <3> DEFINE x == <<cl>>
               y == <<cy>>
               z == <<Blank>>
    <3>1. x \in Seq(S) /\ y \in Seq(S) /\ z \in Seq(S)
      BY <1>1
    <3> HIDE DEF x, y, z
    <3>2. x \o y \in Seq(S)
      BY <3>1, ConcatProperties
    <3>3. (x \o y) \o z \in Seq(S)
      BY <3>1, <3>2, ConcatProperties
    <3>4. ((x \o y) \o z) \o ct \in Seq(S)
      BY <1>1, <3>3, ConcatProperties
    <3>5. QED
      BY <2>1, <3>4 DEF x, y, z
  <2>3. bs = <<bt>>
    <3>1. DOMAIN r.body = 1..1
      BY LenProperties
    <3>2. bs = [i \in 1..1 |-> BodyText(r.body[i])]
      BY <3>1
    <3>3. [i \in 1..1 |-> BodyText(r.body[i])] = <<BodyText(r.body[1])>>
      <4> DEFINE e(i) == BodyText(r.body[i])
      <4> HIDE DEF e
      <4>1. [i \in 1..1 |-> e(i)] = <<e(1)>>
        OBVIOUS
      <4>2. QED
        BY <4>1 DEF e
    <3>4. QED
      BY <3>2, <3>3
  <2> HIDE DEF bt
  <2>4. FlattenSeq(<<bt>>) = bt
    BY <2>2, FlattenSeqOne
  <2>5. Text(r) = (LineText(r.line) \o htext) \o FlattenSeq(bs)
    BY DEF Text, HeaderTexts
  <2>6. QED
    BY <1>1, <2>1, <2>3, <2>4, <2>5
<1> DEFINE s1 == s \o <<line>>
           s2 == s1 \o htext
           s3 == s2 \o <<cl>>
           s4 == s3 \o <<cy>>
           s5 == s4 \o <<Blank>>
           s6 == s5 \o ct
           h1 == Append(ps, <<"Content-Length", n>>)
           h2 == Append(h1, <<"Content-Type", b.type>>)
<1>4. s1 \in Seq(S) /\ Client(s1) = Position("headers", 0, Append(ms, Read(v, st, <<>>, <<>>)))
  <2>1. Take(Position("start", 0, ms), line)
          = Position("headers", 0, Append(ms, Read(v, st, <<>>, <<>>)))
    BY TakeLine
  <2> HIDE DEF line
  <2>2. s1 \in Seq(S) /\ Client(s1) = Take(Client(s), line)
    BY <1>1, ClientOne
  <2>3. QED
    BY <2>1, <2>2
<1> HIDE DEF v, st
<1>6. /\ HeaderTexts(hs) \in Seq(Seq(S))
      /\ \E l : Client(s2) = Position("headers", l, Append(ms, Read(v, st, ps, <<>>)))
  <2> DEFINE H == Range(hs)
  <2>1. hs \in Seq(H)
    BY <1>2
  <2> HIDE DEF hs, s1, H
  <2>2. QED
    BY <1>2, <1>4, <2>1, ReadsHeaders
<1>5. htext \in Seq(S)
  BY <1>6, FlattenSeqType
<1>7. s2 \in Seq(S)
  <2> HIDE DEF s1, htext
  <2>1. QED
    BY <1>4, <1>5, ConcatProperties
<1>8. PICK l : Client(s2) = Position("headers", l, Append(ms, Read(v, st, ps, <<>>)))
  BY <1>6
<1>9. s3 \in Seq(S) /\ Client(s3) = Position("headers", n, Append(ms, Read(v, st, h1, <<>>)))
  <2>1. Take(Position("headers", l, Append(ms, Read(v, st, ps, <<>>))), cl)
          = Position("headers", IF "Content-Length" = "Content-Length" THEN n ELSE l,
                     Append(ms, Read(v, st, h1, <<>>)))
    <3> HIDE DEF n, ps
    <3>1. QED
      BY TakeHeader
  <2> HIDE DEF cl, s2
  <2>2. s3 \in Seq(S) /\ Client(s3) = Take(Client(s2), cl)
    BY <1>1, <1>7, ClientOne
  <2>3. QED
    BY <1>8, <2>1, <2>2
<1>10. s4 \in Seq(S) /\ Client(s4) = Position("headers", n, Append(ms, Read(v, st, h2, <<>>)))
  <2>1. Take(Position("headers", n, Append(ms, Read(v, st, h1, <<>>))), cy)
          = Position("headers", IF "Content-Type" = "Content-Length" THEN b.type ELSE n,
                     Append(ms, Read(v, st, h2, <<>>)))
    <3> HIDE DEF n, h1, b
    <3>1. QED
      BY TakeHeader
  <2> HIDE DEF cy, s3, n, h1, h2
  <2>2. s4 \in Seq(S) /\ Client(s4) = Take(Client(s3), cy)
    BY <1>1, <1>9, ClientOne
  <2>3. QED
    BY <1>9, <2>1, <2>2
<1> HIDE DEF s4, h2, n
<1>11. s5 \in Seq(S) /\ Client(s5) = Position(IF n = 0 THEN "start" ELSE "content", n,
                                             Append(ms, Read(v, st, h2, <<>>)))
  <2>1. s5 \in Seq(S) /\ Client(s5) = Take(Client(s4), Blank)
    BY <1>1, <1>10, ClientOne
  <2>2. QED
    BY <1>10, <2>1, TakeBlank
<1> HIDE DEF s5, ct
<1>12. Client(s6) = Position("start", 0, Append(ms, Read(v, st, h2, ct)))
  <2>1. CASE n = 0
    <3>1. ct = <<>> /\ s6 = s5
      BY <1>1, <1>11, <2>1, EmptySeq, ConcatEmptySeq DEF n
    <3>2. QED
      BY <1>11, <2>1, <3>1
  <2>2. CASE n # 0
    <3>1. Client(s5) = Position("content", Len(ct), Append(ms, Read(v, st, h2, <<>>)))
      BY <1>11, <2>2 DEF n
    <3>2. Len(ct) # 0
      BY <2>2 DEF n
    <3>3. QED
      BY <1>1, <1>11, <3>1, <3>2, ReadsContent
  <2>3. QED
    BY <2>1, <2>2
<1>13. s \o Text(r) = s6
  <2>1. PICK x, c, d, e, h : x = <<line>> /\ c = <<cl>> /\ d = <<cy>> /\ e = <<Blank>> /\ h = htext
    OBVIOUS
  <2>2. x \in Seq(S) /\ c \in Seq(S) /\ d \in Seq(S) /\ e \in Seq(S) /\ h \in Seq(S)
    <3> HIDE DEF line, cl, cy, htext
    <3>1. QED
      BY <1>1, <1>5, <2>1
  <2>3. PICK w : w = ct /\ w \in Seq(S)
    BY <1>1
  <2>4. AsWritten(s, x, h, c, d, e, w) = AsRead(s, x, h, c, d, e, w)
    <3>1. w \in Seq(S)
      BY <2>3
    <3>2. QED
      BY ONLY s \in Seq(S), <2>2, <3>1, Regrouped
  <2> HIDE DEF line, cl, cy, htext
  <2>5. QED
    BY ONLY <1>3, <2>1, <2>3, <2>4 DEF AsWritten, AsRead, s6, s5, s4, s3, s2, s1
<1>14. Message(r) = Read(v, st, h2, ct)
  <2>1. v = r.line.version - (r.line.version % 10)
    BY VersionReads DEF v
  <2>2. h2 = ps \o << <<"Content-Length", n>>, <<"Content-Type", b.type>> >>
    <3> DEFINE p == <<"Content-Length", n>>
               q == <<"Content-Type", b.type>>
               pp == <<p>>
               qq == <<q>>
               N == {ps[i] : i \in DOMAIN hs} \cup {p, q}
    <3>1. ps \in Seq(N) /\ p \in N /\ q \in N
      <4> DEFINE k == Len(hs)
      <4>1. ps \in [1..k -> N] /\ k \in Nat
        BY <1>2, LenProperties DEF Pairs
      <4> HIDE DEF N, ps, k
      <4>2. ps \in Seq(N)
        BY <4>1, SeqDef
      <4>3. QED
        BY <4>2 DEF N
    <3> HIDE DEF N, ps, p, q
    <3>2. pp \in Seq(N) /\ qq \in Seq(N)
      BY <3>1
    <3>3. pp \o qq = <<p, q>>
      BY <3>1, TwoJoined
    <3>4. Append(ps, p) = ps \o pp
      BY <3>1, AppendIsConcat
    <3> DEFINE pspp == ps \o pp
    <3> HIDE DEF pp, qq
    <3>5. pspp \in Seq(N) /\ ps \o (pp \o qq) = pspp \o qq
      BY ONLY <3>1, <3>2, Associative
    <3> HIDE DEF pspp
    <3>6. Append(pspp, q) = pspp \o qq
      BY <3>1, <3>5, AppendIsConcat DEF qq
    <3>7. QED
      BY <3>3, <3>4, <3>5, <3>6 DEF h2, h1, p, q, pspp
  <2>3. QED
    BY <2>1, <2>2 DEF Message, Read, st, n, ct, Pairs
<1>15. QED
  BY <1>12, <1>13, <1>14

(* The first n messages that a client has read are those of ms, and one    *)
(* more has begun when it is in headers or in a content.                   *)
KeepsIn(n, ms, in, all) ==
    /\ n <= Len(all)
    /\ in \in {"headers", "content"} => n < Len(all)
    /\ \A i \in 1..n : all[i] = ms[i]
Keeps(n, ms, c) ==
    \E in, left, M : \E all \in Seq(M) : c = Position(in, left, all) /\ KeepsIn(n, ms, in, all)

(* Only the last message is extended.                                      *)
LEMMA ExtendKeeps ==
  ASSUME NEW n \in Nat, NEW ms, NEW in, NEW left, NEW M, NEW all \in Seq(M),
         KeepsIn(n, ms, in, all), in \in {"headers", "content"}, NEW field, NEW value
  PROVE  \E U : \E more \in Seq(U) :
            /\ Extend(Position(in, left, all), field, value) = more
            /\ n < Len(more) /\ \A i \in 1..n : more[i] = ms[i]
<1> DEFINE k == Len(all)
           new == [all[k] EXCEPT ![field] = Append(@, value)]
           U == M \cup {new}
           more == [all EXCEPT ![k] = new]
<1>1. k \in Nat /\ n < k /\ \A i \in 1..n : all[i] = ms[i]
  BY LenProperties DEF KeepsIn
<1>2. Extend(Position(in, left, all), field, value) = more
  <2> HIDE DEF k
  <2>1. Position(in, left, all).messages = all
    BY DEF Position
  <2>2. Extend(Position(in, left, all), field, value)
          = [all EXCEPT ![Len(all)][field] = Append(@, value)]
    BY <2>1 DEF Extend
  <2>3. QED
    BY <2>2 DEF k
<1> HIDE DEF new
<1>3. all \in Seq(U) /\ new \in U
  BY SeqMonotonic
<1> HIDE DEF U
<1>4. k \in 1..Len(all)
  BY <1>1
<1>5. /\ more \in Seq(U) /\ Len(more) = k
      /\ \A j \in 1..k : more[j] = IF j = k THEN new ELSE all[j]
  BY <1>3, <1>4, ExceptSeq
<1> HIDE DEF more, k
<1>6. ASSUME NEW i \in 1..n PROVE more[i] = ms[i]
  <2>1. i \in 1..k /\ i # k
    BY <1>1
  <2>2. QED
    BY <1>1, <1>5, <2>1
<1>7. QED
  BY <1>1, <1>2, <1>5, <1>6

(* Whatever comes next, what was read stays read.                          *)
LEMMA TakeKeeps ==
  ASSUME NEW n \in Nat, NEW ms, NEW c, Keeps(n, ms, c), NEW x
  PROVE  Keeps(n, ms, Take(c, x))
<1>1. PICK in, left, M : \E all \in Seq(M) : c = Position(in, left, all) /\ KeepsIn(n, ms, in, all)
  BY DEF Keeps
<1>2. PICK all \in Seq(M) : c = Position(in, left, all) /\ KeepsIn(n, ms, in, all)
  BY <1>1
<1>3. c.in = in /\ c.left = left /\ c.messages = all
  BY <1>2 DEF Position
<1>4. ASSUME NEW i, NEW l, NEW U, NEW more \in Seq(U), Take(c, x) = Position(i, l, more),
             KeepsIn(n, ms, i, more)
      PROVE  Keeps(n, ms, Take(c, x))
  BY <1>4 DEF Keeps
<1>5. Len(all) \in Nat /\ n <= Len(all) /\ \A i \in 1..n : all[i] = ms[i]
  BY <1>2, LenProperties DEF KeepsIn
<1>6. CASE in = "start" /\ x[1] = "line"
  <2> DEFINE new == [version |-> ReadVersion(x[2]), status |-> x[3],
                     headers |-> <<>>, content |-> <<>>]
             U == M \cup {new}
             more == Append(all, new)
  <2>1. Take(c, x) = [c EXCEPT !.in = "headers", !.messages = Append(@, new)]
    BY <1>3, <1>6 DEF Take
  <2> HIDE DEF new
  <2>2. Take(c, x) = Position("headers", left, more)
    BY <1>2, <1>3, <2>1 DEF Position
  <2>3. all \in Seq(U) /\ new \in U
    BY SeqMonotonic
  <2> HIDE DEF U
  <2>4. /\ more \in Seq(U) /\ Len(more) = Len(all) + 1
        /\ \A i \in 1..Len(all) : more[i] = all[i]
    BY <2>3, AppendProperties
  <2> HIDE DEF more
  <2>5. \A i \in 1..n : more[i] = ms[i]
    BY <1>5, <2>4
  <2>6. KeepsIn(n, ms, "headers", more)
    BY <1>5, <2>4, <2>5 DEF KeepsIn
  <2>7. QED
    BY <1>4, <2>2, <2>4, <2>6
<1>7. CASE in = "headers" /\ x[1] = "header"
  <2> DEFINE l == IF x[2] = "Content-Length" THEN x[3] ELSE left
  <2>1. x # Blank
    BY <1>7 DEF Blank
  <2>2. Take(c, x) = [c EXCEPT !.left = IF x[2] = "Content-Length" THEN x[3] ELSE @,
                               !.messages = Extend(c, "headers", <<x[2], x[3]>>)]
    BY <1>3, <1>7, <2>1 DEF Take
  <2>3. Take(c, x) = Position("headers", l, Extend(c, "headers", <<x[2], x[3]>>))
    BY <1>2, <1>3, <1>7, <2>2 DEF Position
  <2>4. in \in {"headers", "content"}
    BY <1>7
  <2> DEFINE value == <<x[2], x[3]>>
  <2> HIDE DEF l, value
  <2>5. PICK U : \E more \in Seq(U) : /\ Extend(c, "headers", value) = more
                                      /\ n < Len(more) /\ \A i \in 1..n : more[i] = ms[i]
    BY <1>2, <2>4, ExtendKeeps
  <2>6. PICK more \in Seq(U) : /\ Extend(c, "headers", value) = more
                               /\ n < Len(more) /\ \A i \in 1..n : more[i] = ms[i]
    BY <2>5
  <2>7. KeepsIn(n, ms, "headers", more)
    BY <2>6, LenProperties DEF KeepsIn
  <2>8. Take(c, x) = Position("headers", l, more)
    BY <2>3, <2>6 DEF value
  <2>9. QED
    BY <1>4, <2>7, <2>8
<1>8. CASE in = "headers" /\ x = Blank
  <2> DEFINE i == IF left = 0 THEN "start" ELSE "content"
  <2>1. Take(c, x) = Position(i, left, all)
    BY <1>2, <1>8, TakeBlank
  <2>2. KeepsIn(n, ms, i, all)
    BY <1>2, <1>8 DEF KeepsIn
  <2> HIDE DEF i
  <2>3. QED
    BY <1>4, <2>1, <2>2
<1>9. CASE in = "content"
  <2> DEFINE i == IF left = 1 THEN "start" ELSE "content"
             l == left - 1
  <2>1. Take(c, x) = [c EXCEPT !.in = IF c.left = 1 THEN "start" ELSE "content",
                               !.left = @ - 1, !.messages = Extend(c, "content", x)]
    BY <1>3, <1>9 DEF Take
  <2>2. Take(c, x) = Position(i, l, Extend(c, "content", x))
    BY <1>2, <1>3, <2>1 DEF Position
  <2>3. in \in {"headers", "content"}
    BY <1>9
  <2>4. PICK U : \E more \in Seq(U) : /\ Extend(c, "content", x) = more
                                      /\ n < Len(more) /\ \A j \in 1..n : more[j] = ms[j]
    BY <1>2, <2>3, ExtendKeeps
  <2>5. PICK more \in Seq(U) : /\ Extend(c, "content", x) = more
                               /\ n < Len(more) /\ \A j \in 1..n : more[j] = ms[j]
    BY <2>4
  <2> HIDE DEF i, l
  <2>6. KeepsIn(n, ms, i, more)
    BY <2>5, LenProperties DEF KeepsIn
  <2>7. Take(c, x) = Position(i, l, more)
    BY <2>2, <2>5
  <2>8. QED
    BY <1>4, <2>6, <2>7
<1>10. CASE /\ ~(in = "start" /\ x[1] = "line") /\ ~(in = "headers" /\ x[1] = "header")
            /\ ~(in = "headers" /\ x = Blank) /\ in # "content"
  <2>1. Take(c, x) = [c EXCEPT !.in = "lost"]
    BY <1>3, <1>10 DEF Take
  <2>2. Take(c, x) = Position("lost", left, all)
    BY <1>2, <2>1 DEF Position
  <2>3. KeepsIn(n, ms, "lost", all)
    BY <1>5 DEF KeepsIn
  <2>4. QED
    BY <1>4, <2>2, <2>3
<1>11. QED
  BY <1>6, <1>7, <1>8, <1>9, <1>10

(* So it does whatever text comes next.                                    *)
LEMMA TextKeeps ==
  ASSUME NEW n \in Nat, NEW ms, NEW S, NEW s \in Seq(S), NEW t \in Seq(S),
         Keeps(n, ms, Client(s))
  PROVE  Keeps(n, ms, Client(s \o t))
<1> DEFINE P(k) == SubSeq(t, 1, k)
           T == {k \in Nat : k <= Len(t) => Keeps(n, ms, Client(s \o P(k)))}
<1>1. Len(t) \in Nat
  BY LenProperties
<1>2. 0 \in T
  <2>1. P(0) = <<>> /\ s \o <<>> = s
    BY SubSeqEmpty, ConcatEmptySeq
  <2> HIDE DEF P
  <2>2. QED
    BY <2>1
<1>3. ASSUME NEW k \in Nat, k \in T PROVE k + 1 \in T
  <2> SUFFICES ASSUME k + 1 <= Len(t) PROVE Keeps(n, ms, Client(s \o P(k + 1)))
    OBVIOUS
  <2>1. Keeps(n, ms, Client(s \o P(k)))
    BY <1>1, <1>3
  <2>2. t[k+1] \in S /\ s \o P(k) \in Seq(S) /\ s \o P(k + 1) = Append(s \o P(k), t[k+1])
    BY OneMore
  <2> HIDE DEF P
  <2>3. Client(s \o P(k + 1)) = Take(Client(s \o P(k)), t[k+1])
    BY <2>2, ClientStep
  <2>4. QED
    BY <2>1, <2>3, TakeKeeps
<1> HIDE DEF T
<1>4. Len(t) \in T
  BY <1>1, <1>2, <1>3, Induction
<1>5. Keeps(n, ms, Client(s \o P(Len(t))))
  BY <1>1, <1>4 DEF T
<1>6. P(Len(t)) = t
  BY SubSeqFull
<1>7. QED
  BY <1>5, <1>6

(* Every token that a response can have, and the bytes.                    *)
Tokens == Byte \cup UNION {TokensOf(r) : r \in Responses}

MessagesOf(rs) == [i \in DOMAIN rs |-> Message(rs[i])]

(* The messages that responses should be read as.                          *)
LEMMA MessagesProperties ==
  ASSUME NEW rs \in Seq(Responses)
  PROVE  \E M : /\ MessagesOf(rs) \in Seq(M) /\ Len(MessagesOf(rs)) = Len(rs)
                /\ \A i \in 1..Len(rs) : MessagesOf(rs)[i] = Message(rs[i])
<1> DEFINE n == Len(rs)
           ms == MessagesOf(rs)
           M == {Message(rs[i]) : i \in 1..n}
<1>1. n \in Nat /\ DOMAIN rs = 1..n
  BY LenProperties
<1> HIDE DEF n
<1>2. ms = [i \in 1..n |-> Message(rs[i])]
  BY <1>1 DEF MessagesOf
<1>3. ms \in [1..n -> M] /\ \A i \in 1..n : ms[i] = Message(rs[i])
  BY <1>2
<1> HIDE DEF M, ms
<1>4. ms \in Seq(M)
  BY <1>1, <1>3, SeqDef
<1>5. Len(ms) = n
  BY <1>1, <1>3, <1>4, LenProperties
<1>6. QED
  BY <1>3, <1>4, <1>5 DEF n, ms

(* Responses that have bodies are read one by one.                         *)
LEMMA ReadsFirst ==
  ASSUME NEW rs \in Seq(Responses), NEW n \in 0..Len(rs),
         \A i \in 1..n : rs[i].body # <<>>
  PROVE  Client(FlattenFirst(TextsOf(rs), n)) = Position("start", 0, SubSeq(MessagesOf(rs), 1, n))
<1> DEFINE tt == TextsOf(rs)
           ms == MessagesOf(rs)
           F(k) == FlattenFirst(tt, k)
           P(k) == SubSeq(ms, 1, k)
           At(k) == Client(F(k)) = Position("start", 0, P(k))
           T == {k \in Nat : k <= n => At(k)}
<1>1. /\ tt \in Seq(Seq(Byte)) /\ Len(tt) = Len(rs) /\ Len(rs) \in Nat /\ n \in Nat
      /\ \A i \in 1..Len(rs) : tt[i] = Text(rs[i]) /\ rs[i] \in Responses
  BY TextsProperties, LenProperties, ElementOfSeq
<1>2. PICK M : /\ ms \in Seq(M) /\ Len(ms) = Len(rs)
               /\ \A i \in 1..Len(rs) : ms[i] = Message(rs[i])
  BY MessagesProperties
<1> HIDE DEF tt, ms
<1>3. 0 \in T
  <2>1. SubSeq(tt, 1, 0) = <<>>
    BY SubSeqEmpty
  <2>2. F(0) = <<>>
    BY <2>1, FlattenSeqEmpty DEF FlattenFirst
  <2>3. P(0) = <<>>
    BY SubSeqEmpty
  <2>4. Client(<<>>) = Position("start", 0, <<>>)
    BY ClientOfNothing DEF Start, Position
  <2> HIDE DEF F, P
  <2>5. At(0)
    BY <2>2, <2>3, <2>4
  <2>6. QED
    BY <2>5
<1>4. ASSUME NEW k \in Nat, k \in T PROVE k + 1 \in T
  <2> SUFFICES ASSUME k + 1 <= n PROVE At(k + 1)
    <3> HIDE DEF At
    <3>1. QED
      OBVIOUS
  <2> DEFINE r == rs[k+1]
  <2>1. /\ k <= n /\ k + 1 \in 1..Len(rs) /\ k \in 0..Len(rs)-1 /\ k \in 0..Len(rs)
        /\ k + 1 \in 1..n /\ k + 1 <= Len(rs)
    BY <1>1
  <2>2. At(k)
    <3> HIDE DEF At
    <3>1. QED
      BY <1>4, <2>1
  <2>3. r \in Responses /\ tt[k+1] = Text(r) /\ ms[k+1] = Message(r) /\ r.body # <<>>
    BY <1>1, <1>2, <2>1
  <2> HIDE DEF r
  <2>4. /\ r.line.version \in Nat /\ r.headers \in Seq(Range(r.headers))
        /\ r.body \in Seq(Range(r.body)) /\ Len(r.body) <= 1
        /\ \A i \in DOMAIN r.body : r.body[i].content \in Seq(Byte)
    BY <2>3, ResponseAssumption
  <2>5. Len(r.body) = 1 /\ 1 \in DOMAIN r.body
    <3>1. Len(r.body) \in Nat \ {0} /\ DOMAIN r.body = 1..Len(r.body)
      BY <2>3, <2>4, EmptySeq, LenProperties
    <3>2. Len(r.body) <= 1
      BY <2>4
    <3> DEFINE l == Len(r.body)
    <3>3. l \in Nat \ {0} /\ l <= 1
      BY <3>1, <3>2
    <3> HIDE DEF l
    <3>4. l = 1
      BY <3>3
    <3>5. QED
      BY <3>1, <3>4 DEF l
  <2>6. r.body[1].content \in Seq(Byte)
    BY <2>4, <2>5
  <2>7. Byte \subseteq Tokens /\ TokensOf(r) \subseteq Tokens
    BY <2>3 DEF Tokens
  <2>8. r.body[1].content \in Seq(Tokens)
    <3> DEFINE ct == r.body[1].content
    <3> HIDE DEF ct
    <3>1. ct \in Seq(Byte)
      BY <2>6 DEF ct
    <3>2. ct \in Seq(Tokens)
      BY <2>7, <3>1, SeqMonotonic
    <3>3. QED
      BY <3>2 DEF ct
  <2>9. F(k) \in Seq(Tokens)
    <3>1. F(k) \in Seq(Byte)
      BY <1>1, <2>1, FlattenFirstType
    <3> HIDE DEF F
    <3>2. QED
      BY <2>7, <3>1, SeqMonotonic
  <2>10. F(k + 1) = F(k) \o tt[k+1]
    BY <1>1, <2>1, FlattenFirstStep
  <2>11. P(k) \in Seq(M) /\ P(k + 1) = Append(P(k), ms[k+1])
    BY <1>2, <2>1, OneMore
  <2> HIDE DEF F, P
  <2>12. Client(F(k)) = Position("start", 0, P(k))
    BY <2>2
  <2>13. Client(F(k) \o Text(r)) = Position("start", 0, Append(P(k), Message(r)))
    <3>1. /\ r.line.version \in Nat /\ r.headers \in Seq(Range(r.headers))
          /\ r.body \in Seq(Range(r.body)) /\ Len(r.body) = 1
          /\ r.body[1].content \in Seq(Tokens) /\ TokensOf(r) \subseteq Tokens
      BY <2>4, <2>5, <2>7, <2>8
    <3>2. F(k) \in Seq(Tokens) /\ P(k) \in Seq(M)
      BY <2>9, <2>11
    <3>3. QED
      BY ONLY <2>12, <3>1, <3>2, ReadsOne
  <2>14. QED
    BY <2>3, <2>10, <2>11, <2>13
<1> HIDE DEF T
<1>5. n \in T
  BY <1>1, <1>3, <1>4, Induction
<1>6. At(n)
  <2> HIDE DEF At
  <2>1. QED
    BY <1>1, <1>5 DEF T
<1>7. QED
  BY <1>6 DEF tt, ms

(* The responses in front of the first without a body are so many.         *)
LEMMA FramedProperties ==
  ASSUME NEW n \in Nat, n = Len(responses)
  PROVE  /\ Framed \in 0..n
         /\ \A i \in 1..Framed : responses[i].body # <<>>
<1> DEFINE Whole(k) == \A i \in 1..k : responses[i].body # <<>>
           Ends(k) == Whole(k) /\ (k = n \/ ~Whole(k + 1))
           S == {k \in Nat : k = n \/ ~Whole(k + 1)}
<1>1. n \in S
  OBVIOUS
<1>2. PICK m \in S : \A k \in S : m <= k
  BY <1>1, LeastNatural
<1>3. m <= n /\ m \in 0..n
  BY <1>1, <1>2
<1>4. Whole(m)
  <2>1. CASE m = 0
    BY <2>1
  <2>2. CASE m # 0
    <3> DEFINE j == m - 1
    <3>1. j \in Nat /\ j < m /\ j + 1 = m
      BY <2>2, <1>2
    <3> HIDE DEF j, Whole
    <3>2. j \notin S
      BY <1>2, <3>1
    <3>3. Whole(j + 1)
      BY <3>1, <3>2
    <3>4. QED
      BY <3>1, <3>3
  <2>3. QED
    BY <2>1, <2>2
<1>5. Ends(m)
  BY <1>2, <1>4
<1>6. Framed = CHOOSE k \in 0..n : Ends(k)
  BY Zenon DEF Framed
<1> HIDE DEF Ends
<1>7. Framed \in 0..n /\ Ends(Framed)
  BY <1>3, <1>5, <1>6
<1>8. QED
  BY <1>7 DEF Ends

(* What was inserted would be read as it should be.                        *)
LEMMA AllTextRead ==
  ASSUME responses \in Seq(Responses)
  PROVE  LET read == Client(AllText).messages
         IN /\ Framed <= Len(read)
            /\ \A i \in 1..Framed : read[i] = Message(responses[i])
<1> DEFINE n == Len(responses)
           m == Framed
           tt == TextsOf(responses)
           ms == MessagesOf(responses)
           F == FlattenFirst(tt, m)
           P == SubSeq(ms, 1, m)
<1>1. n \in Nat /\ tt \in Seq(Seq(Byte)) /\ Len(tt) = n
  BY LenProperties, TextsProperties
<1>2. m \in 0..n /\ \A i \in 1..m : responses[i].body # <<>>
  BY <1>1, FramedProperties
<1>3. Client(F) = Position("start", 0, P)
  <2> HIDE DEF m
  <2>1. QED
    BY <1>2, ReadsFirst
<1>4. PICK M : /\ ms \in Seq(M) /\ Len(ms) = n
               /\ \A i \in 1..n : ms[i] = Message(responses[i])
  BY MessagesProperties
<1> HIDE DEF m, tt, ms, n
<1>5. F \in Seq(Byte) /\ \E r \in Seq(Byte) : FlattenSeq(tt) = F \o r
  BY <1>1, <1>2, FlattenFirstType, FlattenFirstWithin
<1>6. P \in Seq(M) /\ Len(P) = m /\ \A i \in 1..m : P[i] = ms[i]
  <2>1. 1 \in Int /\ m \in Int /\ \A i \in 1..m : i \in 1..Len(ms)
    BY <1>1, <1>2, <1>4
  <2>2. \A i \in 1..m : ms[i] \in M
    BY <1>4, <2>1, ElementOfSeq
  <2>3. /\ P \in Seq(M) /\ Len(P) = IF 1 <= m THEN m - 1 + 1 ELSE 0
        /\ \A i \in 1..m-1+1 : P[i] = ms[1+i-1]
    BY <2>1, <2>2, SubSeqProperties
  <2> HIDE DEF P
  <2>4. Len(P) = m
    BY <1>1, <1>2, <2>3
  <2>5. ASSUME NEW i \in 1..m PROVE P[i] = ms[i]
    <3>1. i \in 1..m-1+1 /\ 1+i-1 = i
      BY <1>1, <1>2
    <3>2. QED
      BY <2>3, <3>1
  <2>6. QED
    BY <2>3, <2>4, <2>5
<1> HIDE DEF F, P
<1>7. PICK r \in Seq(Byte) : FlattenSeq(tt) = F \o r
  BY <1>5
<1>8. KeepsIn(m, ms, "start", P)
  BY <1>1, <1>2, <1>6 DEF KeepsIn
<1>9. Keeps(m, ms, Client(F))
  BY <1>3, <1>6, <1>8 DEF Keeps
<1>10. m \in Nat
  BY <1>1, <1>2
<1>11. Keeps(m, ms, Client(F \o r))
  BY <1>5, <1>9, <1>10, TextKeeps
<1>12. AllText = F \o r
  BY <1>7 DEF AllText, TextsOf, tt
<1>13. PICK in, left, N : \E all \in Seq(N) : /\ Client(AllText) = Position(in, left, all)
                                              /\ KeepsIn(m, ms, in, all)
  BY <1>11, <1>12 DEF Keeps
<1>14. PICK all \in Seq(N) : Client(AllText) = Position(in, left, all) /\ KeepsIn(m, ms, in, all)
  BY <1>13
<1>15. Client(AllText).messages = all
  BY <1>14 DEF Position
<1>16. m <= Len(all) /\ \A i \in 1..m : all[i] = ms[i]
  BY <1>14 DEF KeepsIn
<1>17. \A i \in 1..m : ms[i] = Message(responses[i])
  BY <1>1, <1>2, <1>4
<1>18. QED
  BY <1>15, <1>16, <1>17 DEF m

(* A client that reads what a good stream has put finds each response in   *)
(* front of the first that has no body, whatever the contents look like.   *)
THEOREM ClientReads == ReplySpec => []ClientReadsResponses
<1>1. ReplyInv => ClientReadsResponses
  <2> SUFFICES ASSUME ReplyInv, Idle, good
               PROVE  LET read == Client(put).messages
                      IN /\ Framed <= Len(read)
                         /\ \A i \in 1..Framed : read[i] = Message(responses[i])
    BY Zenon DEF ClientReadsResponses
  <2>1. PICK rest \in Seq(Byte) : Missing(rest)
    BY DEF ReplyInv
  <2>2. put \in Seq(Byte) /\ responses \in Seq(Responses)
    BY DEF ReplyInv, ReplyTyped, IInv, TypeOK
  <2>3. put \o <<>> = AllText /\ put \o <<>> = put
    BY <2>1, <2>2, ConcatEmptySeq DEF Missing, Idle
  <2>4. QED
    BY <2>2, <2>3, AllTextRead
<1>2. QED
  BY <1>1, ReplyInvariant, PTL
=============================================================================
