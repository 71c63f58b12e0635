------------------------- MODULE SocketInputProofs --------------------------
(***************************************************************************)
(* Proofs about the get area, for any characters, any buffer size and any  *)
(* split of what the peer sends into reads.                                *)
(***************************************************************************)
EXTENDS SocketInput, SequenceTheorems, TLAPS

Left == Len(ibuf) - gpos     \* characters at hand

\* NothingLost, character by character.
InPlace ==
    /\ Len(sent) = Len(got) + Left + Len(wire)
    /\ \A i \in 1..Len(got) : sent[i] = got[i]
    /\ \A i \in 1..Left : sent[Len(got) + i] = ibuf[gpos + i]
    /\ \A i \in 1..Len(wire) : sent[Len(got) + Left + i] = wire[i]

IInv == TypeOK /\ Len(sent) <= MaxSent /\ InPlace

-----------------------------------------------------------------------------
LEMMA Lengths ==
  TypeOK => /\ Len(ibuf) \in Nat /\ gpos \in Nat /\ Left \in Nat /\ gpos <= Len(ibuf)
            /\ Len(wire) \in Nat /\ Len(sent) \in Nat /\ Len(got) \in Nat
            /\ BufSize \in Nat
  BY SocketInputAssumption, LenProperties DEF TypeOK, Left

(* The two ways of saying that nothing is lost are one.                    *)
LEMMA Concatenated == IInv => NothingLost
<1> SUFFICES ASSUME IInv PROVE NothingLost
  OBVIOUS
<1> DEFINE rest == SubSeq(ibuf, gpos + 1, Len(ibuf))
<1>1. \A i \in gpos+1..Len(ibuf) : ibuf[i] \in Byte
  BY Lengths, ElementOfSeq DEF IInv, TypeOK
<1>2. /\ rest \in Seq(Byte) /\ Len(rest) = Left
      /\ \A i \in 1..Left : rest[i] = ibuf[gpos + i]
  <2>1. gpos + 1 \in Int /\ Len(ibuf) \in Int
    BY Lengths DEF IInv
  <2>2. /\ rest \in Seq(Byte)
        /\ Len(rest) = IF gpos + 1 <= Len(ibuf) THEN Len(ibuf) - (gpos + 1) + 1 ELSE 0
        /\ \A i \in 1..Len(ibuf)-(gpos + 1)+1 : rest[i] = ibuf[(gpos + 1) + i - 1]
    BY <1>1, <2>1, SubSeqProperties
  <2>3. QED
    BY <2>2, Lengths DEF IInv, Left
<1> HIDE DEF rest
<1>3. got \in Seq(Byte) /\ wire \in Seq(Byte) /\ sent \in Seq(Byte)
  BY DEF IInv, TypeOK
<1> DEFINE head == got \o rest
<1>4. /\ head \in Seq(Byte) /\ Len(head) = Len(got) + Left
      /\ \A i \in 1..Len(got)+Left :
           head[i] = IF i <= Len(got) THEN got[i] ELSE rest[i - Len(got)]
  BY <1>2, <1>3, ConcatProperties
<1> HIDE DEF head
<1> DEFINE all == head \o wire
<1>5. /\ all \in Seq(Byte) /\ Len(all) = Len(head) + Len(wire)
      /\ \A i \in 1..Len(head)+Len(wire) :
           all[i] = IF i <= Len(head) THEN head[i] ELSE wire[i - Len(head)]
  BY <1>3, <1>4, ConcatProperties
<1> HIDE DEF all
<1>6. ASSUME NEW i \in 1..Len(sent) PROVE sent[i] = all[i]
  <2>1. CASE i <= Len(got)
    <3>1. i \in 1..Len(got) /\ i \in 1..Len(got)+Left /\ i \in 1..Len(head)+Len(wire)
          /\ i <= Len(head)
      BY <1>4, <2>1, Lengths DEF IInv, InPlace
    <3>2. all[i] = head[i] /\ head[i] = got[i]
      BY <1>4, <1>5, <2>1, <3>1
    <3>3. QED
      BY <3>1, <3>2 DEF IInv, InPlace
  <2>2. CASE i > Len(got) /\ i <= Len(got) + Left
    <3>1. i - Len(got) \in 1..Left /\ i = Len(got) + (i - Len(got))
      BY <2>2, Lengths DEF IInv
    <3>2. sent[i] = ibuf[gpos + (i - Len(got))]
      BY <3>1 DEF IInv, InPlace
    <3>3. /\ i \in 1..Len(got)+Left /\ ~(i <= Len(got))
          /\ i \in 1..Len(head)+Len(wire) /\ i <= Len(head)
      BY <1>4, <2>2, Lengths DEF IInv
    <3>4. head[i] = rest[i - Len(got)]
      BY <1>4, <3>3
    <3>5. rest[i - Len(got)] = ibuf[gpos + (i - Len(got))]
      BY <1>2, <3>1
    <3>6. all[i] = head[i]
      BY <1>5, <3>3
    <3>7. QED
      BY <3>2, <3>4, <3>5, <3>6
  <2>3. CASE i > Len(got) + Left
    <3>1. i - (Len(got) + Left) \in 1..Len(wire)
          /\ i = Len(got) + Left + (i - (Len(got) + Left))
      BY <2>3, Lengths DEF IInv, InPlace
    <3>2. sent[i] = wire[i - (Len(got) + Left)]
      BY <3>1 DEF IInv, InPlace
    <3>3. i \in 1..Len(head)+Len(wire) /\ ~(i <= Len(head))
      BY <1>4, <2>3, Lengths DEF IInv, InPlace
    <3>4. all[i] = wire[i - (Len(got) + Left)]
      BY <1>4, <1>5, <3>3
    <3>5. QED
      BY <3>2, <3>4
  <2>4. QED
    BY <2>1, <2>2, <2>3, Lengths DEF IInv
<1>7. sent = all
  BY <1>3, <1>4, <1>5, <1>6, SeqEqual DEF IInv, InPlace
<1>8. QED
  BY <1>7 DEF NothingLost, all, head, rest

-----------------------------------------------------------------------------
LEMMA InputInit == Init => IInv
<1> SUFFICES ASSUME Init PROVE IInv
  OBVIOUS
<1>1. Len(<<>>) = 0 /\ <<>> \in Seq(Byte)
  BY EmptySeq
<1>2. /\ ibuf = <<>> /\ wire = <<>> /\ sent = <<>> /\ got = <<>> /\ gpos = 0
      /\ closed = FALSE /\ ended = FALSE /\ failed = FALSE
  BY DEF Init
<1>3. Len(ibuf) = 0 /\ Len(wire) = 0 /\ Len(sent) = 0 /\ Len(got) = 0 /\ Left = 0
  BY <1>1, <1>2 DEF Left
<1>4. TypeOK
  <2>1. ibuf \in Seq(Byte) /\ wire \in Seq(Byte) /\ sent \in Seq(Byte) /\ got \in Seq(Byte)
    BY <1>1, <1>2
  <2>2. Len(ibuf) <= BufSize /\ gpos \in 0..Len(ibuf)
    BY <1>2, <1>3, SocketInputAssumption
  <2>3. closed \in BOOLEAN /\ ended \in BOOLEAN /\ failed \in BOOLEAN
    BY <1>2
  <2>4. QED
    BY <2>1, <2>2, <2>3 DEF TypeOK
<1>5. InPlace
  BY <1>3 DEF InPlace
<1>6. QED
  BY <1>3, <1>4, <1>5, SocketInputAssumption DEF IInv

LEMMA InputNext == IInv /\ [Next]_vars => IInv'
<1> SUFFICES ASSUME IInv, [Next]_vars PROVE IInv'
  OBVIOUS
<1>0. /\ ibuf \in Seq(Byte) /\ wire \in Seq(Byte) /\ sent \in Seq(Byte) /\ got \in Seq(Byte)
      /\ MaxSent \in Nat
  BY SocketInputAssumption DEF IInv, TypeOK
<1>1. ASSUME NEW b \in Byte, Send(b) PROVE IInv'
  <2>1. /\ sent' \in Seq(Byte) /\ Len(sent') = Len(sent) + 1
        /\ \A i \in 1..Len(sent) : sent'[i] = sent[i]
        /\ sent'[Len(sent) + 1] = b
    BY <1>0, <1>1, AppendProperties DEF Send
  <2>2. /\ wire' \in Seq(Byte) /\ Len(wire') = Len(wire) + 1
        /\ \A i \in 1..Len(wire) : wire'[i] = wire[i]
        /\ wire'[Len(wire) + 1] = b
    BY <1>0, <1>1, AppendProperties DEF Send
  <2>3. TypeOK' /\ Len(sent') <= MaxSent
    BY <1>0, <1>1, <2>1, <2>2, Lengths DEF Send, IInv, TypeOK
  <2>4. Left' = Left /\ got' = got /\ ibuf' = ibuf /\ gpos' = gpos
    BY <1>1 DEF Send, Left
  <2>5. InPlace'
    <3>1. Len(sent') = Len(got') + Left' + Len(wire')
      BY <2>1, <2>2, <2>4, Lengths DEF IInv, InPlace
    <3>2. \A i \in 1..Len(got') : sent'[i] = got'[i]
      BY <2>1, <2>4, Lengths DEF IInv, InPlace
    <3>3. \A i \in 1..Left' : sent'[Len(got') + i] = ibuf'[gpos' + i]
      <4>1. \A i \in 1..Left : Len(got) + i \in 1..Len(sent)
        BY Lengths DEF IInv, InPlace
      <4>2. QED
        BY <2>1, <2>4, <4>1 DEF IInv, InPlace
    <3>4. ASSUME NEW i \in 1..Len(wire')
          PROVE  sent'[Len(got') + Left' + i] = wire'[i]
      <4>1. CASE i \in 1..Len(wire)
        <5>1. Len(got) + Left + i \in 1..Len(sent)
          BY <4>1, Lengths DEF IInv, InPlace
        <5>2. QED
          BY <2>1, <2>2, <2>4, <4>1, <5>1 DEF IInv, InPlace
      <4>2. CASE i = Len(wire) + 1
        <5>1. Len(got) + Left + i = Len(sent) + 1
          BY <4>2, Lengths DEF IInv, InPlace
        <5>2. QED
          BY <2>1, <2>2, <2>4, <4>2, <5>1
      <4>3. QED
        BY <2>2, <4>1, <4>2, Lengths DEF IInv
    <3>5. QED
      BY <3>1, <3>2, <3>3, <3>4 DEF InPlace
  <2>6. QED
    BY <2>3, <2>5 DEF IInv
<1>2. CASE Close
  BY <1>2 DEF Close, IInv, TypeOK, InPlace, Left
<1>3. CASE Underflow
  <2>1. Left = 0 /\ Len(wire) >= 1
    <3>1. Left = 0
      BY <1>3, Lengths DEF Underflow, Left, IInv
    <3>2. Len(wire) # 0
      BY <1>0, <1>3, EmptySeq DEF Underflow
    <3>3. QED
      BY <3>1, <3>2, Lengths DEF IInv
  <2>2. PICK n \in Nat : /\ 1 <= n /\ n <= BufSize /\ n <= Len(wire)
                         /\ ibuf' = SubSeq(wire, 1, n) /\ gpos' = 0
                         /\ wire' = SubSeq(wire, n + 1, Len(wire))
    <3>1. PICK n \in 1..Min({BufSize, Len(wire)}) :
             /\ ibuf' = Refill(n) /\ gpos' = Gpos(n)
             /\ wire' = SubSeq(wire, n + 1, Len(wire))
      BY <1>3 DEF Underflow
    <3>2. LET m == Min({BufSize, Len(wire)})
          IN m \in Nat /\ m <= BufSize /\ m <= Len(wire)
      <4>1. BufSize <= Len(wire) \/ Len(wire) <= BufSize
        BY Lengths DEF IInv
      <4>2. \E x \in {BufSize, Len(wire)} : \A y \in {BufSize, Len(wire)} : x <= y
        BY <4>1, Lengths DEF IInv
      <4>3. Min({BufSize, Len(wire)}) \in {BufSize, Len(wire)}
            /\ \A y \in {BufSize, Len(wire)} : Min({BufSize, Len(wire)}) <= y
        BY <4>2 DEF Min
      <4>4. QED
        BY <4>3, Lengths DEF IInv
    <3>3. n \in Nat /\ 1 <= n /\ n <= BufSize /\ n <= Len(wire)
      BY <3>2, Lengths DEF IInv
    <3>4. QED
      BY <3>1, <3>3 DEF Refill, Gpos
  <2>3. \A i \in 1..Len(wire) : wire[i] \in Byte
    BY <1>0, ElementOfSeq
  <2>4. /\ ibuf' \in Seq(Byte) /\ Len(ibuf') = n
        /\ \A i \in 1..n : ibuf'[i] = wire[i]
    <3>1. 1 \in Int /\ n \in Int /\ \A i \in 1..n : wire[i] \in Byte
      BY <2>2, <2>3, Lengths DEF IInv
    <3>2. /\ SubSeq(wire, 1, n) \in Seq(Byte)
          /\ Len(SubSeq(wire, 1, n)) = IF 1 <= n THEN n - 1 + 1 ELSE 0
          /\ \A i \in 1..n-1+1 : SubSeq(wire, 1, n)[i] = wire[1 + i - 1]
      BY <3>1, SubSeqProperties
    <3>3. QED
      BY <2>2, <3>2
  <2>5. /\ wire' \in Seq(Byte) /\ Len(wire') = Len(wire) - n
        /\ \A i \in 1..Len(wire)-n : wire'[i] = wire[n + i]
    <3>1. n + 1 \in Int /\ Len(wire) \in Int /\ \A i \in n+1..Len(wire) : wire[i] \in Byte
      BY <2>2, <2>3, Lengths DEF IInv
    <3>2. /\ SubSeq(wire, n+1, Len(wire)) \in Seq(Byte)
          /\ Len(SubSeq(wire, n+1, Len(wire))) =
               IF n + 1 <= Len(wire) THEN Len(wire) - (n + 1) + 1 ELSE 0
          /\ \A i \in 1..Len(wire)-(n + 1)+1 :
               SubSeq(wire, n+1, Len(wire))[i] = wire[(n + 1) + i - 1]
      BY <3>1, SubSeqProperties
    <3>3. QED
      BY <2>2, <3>2, Lengths DEF IInv
  <2>6. Left' = n /\ sent' = sent /\ got' = got
    BY <1>3, <2>2, <2>4 DEF Underflow, Left
  <2>7. TypeOK'
    BY <1>0, <1>3, <2>2, <2>4, <2>5 DEF Underflow, IInv, TypeOK
  <2>8. InPlace'
    <3>1. \A i \in 1..Len(wire) : sent[Len(got) + i] = wire[i]
      BY <2>1, Lengths DEF IInv, InPlace
    <3>2. Len(sent') = Len(got') + Left' + Len(wire')
      <4>1. Len(sent) = Len(got) + Len(wire)
        BY <2>1, Lengths DEF IInv, InPlace
      <4>2. Len(got) \in Nat /\ Len(wire) \in Nat
        BY Lengths DEF IInv
      <4>3. Len(sent') = Len(sent) /\ Len(got') = Len(got)
        BY <2>6
      <4>4. QED
        BY <2>5, <2>6, <4>1, <4>2, <4>3
    <3>3. \A i \in 1..Len(got') : sent'[i] = got'[i]
      BY <2>6 DEF IInv, InPlace
    <3>4. \A i \in 1..Left' : sent'[Len(got') + i] = ibuf'[gpos' + i]
      <4>1. ASSUME NEW i \in 1..Left' PROVE sent'[Len(got') + i] = ibuf'[gpos' + i]
        <5>1. i \in 1..n /\ i \in 1..Len(wire) /\ 0 + i = i
          BY <2>2, <2>6, Lengths DEF IInv
        <5>2. sent'[Len(got') + i] = wire[i]
          BY <2>6, <3>1, <5>1
        <5>3. ibuf'[gpos' + i] = wire[i]
          BY <2>2, <2>4, <5>1
        <5>4. QED
          BY <5>2, <5>3
      <4>2. QED
        BY <4>1
    <3>5. ASSUME NEW i \in 1..Len(wire') PROVE sent'[Len(got') + Left' + i] = wire'[i]
      <4>1. n + i \in 1..Len(wire) /\ i \in 1..Len(wire)-n
            /\ Len(got) + n + i = Len(got) + (n + i)
        BY <2>2, <2>5, Lengths DEF IInv
      <4>2. QED
        BY <2>5, <2>6, <3>1, <4>1
    <3>6. QED
      BY <3>2, <3>3, <3>4, <3>5 DEF InPlace
  <2>9. QED
    BY <2>6, <2>7, <2>8 DEF IInv
<1>4. CASE UnderflowEof
  <2>1. Left = 0 /\ Len(<<>>) = 0 /\ <<>> \in Seq(Byte)
    BY <1>4, Lengths, EmptySeq DEF UnderflowEof, Left, IInv
  <2>2. Left' = 0
    BY <1>4, <2>1 DEF UnderflowEof, Left
  <2>3. TypeOK'
    BY <1>4, <2>1, Lengths DEF UnderflowEof, IInv, TypeOK
  <2>4. InPlace'
    BY <1>4, <2>1, <2>2, Lengths DEF UnderflowEof, IInv, InPlace
  <2>5. QED
    BY <1>4, <2>3, <2>4 DEF UnderflowEof, IInv
<1>5. CASE Get
  <2>1. gpos + 1 \in 1..Len(ibuf) /\ ibuf[gpos + 1] \in Byte
    BY <1>0, <1>5, Lengths, ElementOfSeq DEF Get, IInv
  <2>2. /\ got' \in Seq(Byte) /\ Len(got') = Len(got) + 1
        /\ \A i \in 1..Len(got) : got'[i] = got[i]
        /\ got'[Len(got) + 1] = ibuf[gpos + 1]
    BY <1>0, <1>5, <2>1, AppendProperties DEF Get
  <2>3. /\ ibuf' = ibuf /\ gpos' = gpos + 1 /\ wire' = wire /\ sent' = sent
        /\ Left' = Left - 1 /\ Left >= 1
    BY <1>5, Lengths DEF Get, Left, IInv
  <2>4. TypeOK'
    BY <1>5, <2>1, <2>2, <2>3, Lengths DEF Get, IInv, TypeOK
  <2>5. InPlace'
    <3>1. Len(sent') = Len(got') + Left' + Len(wire')
      BY <2>2, <2>3, Lengths DEF IInv, InPlace
    <3>2. ASSUME NEW i \in 1..Len(got') PROVE sent'[i] = got'[i]
      <4>1. CASE i \in 1..Len(got)
        BY <2>2, <2>3, <4>1 DEF IInv, InPlace
      <4>2. CASE i = Len(got) + 1
        <5>1. 1 \in 1..Left
          BY <2>3, Lengths DEF IInv
        <5>2. QED
          BY <2>2, <2>3, <4>2, <5>1 DEF IInv, InPlace
      <4>3. QED
        BY <2>2, <4>1, <4>2, Lengths DEF IInv
    <3>3. ASSUME NEW i \in 1..Left' PROVE sent'[Len(got') + i] = ibuf'[gpos' + i]
      <4>1. i + 1 \in 1..Left /\ Len(got) + 1 + i = Len(got) + (i + 1)
            /\ gpos + 1 + i = gpos + (i + 1)
        BY <2>3, Lengths DEF IInv
      <4>2. QED
        BY <2>2, <2>3, <4>1 DEF IInv, InPlace
    <3>4. ASSUME NEW i \in 1..Len(wire') PROVE sent'[Len(got') + Left' + i] = wire'[i]
      <4>1. Len(got') + Left' + i = Len(got) + Left + i
        BY <2>2, <2>3, Lengths DEF IInv
      <4>2. QED
        BY <2>3, <4>1 DEF IInv, InPlace
    <3>5. QED
      BY <3>1, <3>2, <3>3, <3>4 DEF InPlace
  <2>6. QED
    BY <2>3, <2>4, <2>5 DEF IInv
<1>6. CASE UnderflowFails
  BY <1>6 DEF UnderflowFails, IInv, TypeOK, InPlace, Left
<1>7. CASE UNCHANGED vars
  BY <1>7 DEF vars, IInv, TypeOK, InPlace, Left
<1>8. QED
  BY <1>1, <1>2, <1>3, <1>4, <1>5, <1>6, <1>7 DEF Next, Read

LEMMA InputInvariant == Spec => []IInv
<1>1. QED
  BY InputInit, InputNext, PTL DEF Spec

(* Areas and counters keep their types.                                    *)
THEOREM InputTypeCorrect == Spec => []TypeOK
<1>1. IInv => TypeOK
  BY DEF IInv
<1>2. QED
  BY <1>1, InputInvariant, PTL

(* No byte is lost, doubled or reordered between the peer and the reader,  *)
(* for any buffer and any return values of ::read() in underflow().        *)
THEOREM NoByteLost == Spec => []NothingLost
  BY InputInvariant, Concatenated, PTL

-----------------------------------------------------------------------------
(* Each step is one of ByteChannel or changes nothing that is seen of it.  *)
LEMMA ChannelStep == IInv /\ [Next]_vars => [Channel!Next]_(Channel!vars)
<1> SUFFICES ASSUME IInv, [Next]_vars PROVE [Channel!Next]_(Channel!vars)
  OBVIOUS
<1>1. ASSUME NEW b \in Byte, Send(b) PROVE Channel!Send(b)
  BY <1>1 DEF Send, Channel!Send
<1>2. CASE Close
  BY <1>2 DEF Close, Channel!Close, Channel!Next
<1>3. CASE Underflow
  BY <1>3 DEF Underflow, Channel!vars
<1>4. CASE ~failed /\ UnderflowEof
  <2>1. Left = 0 /\ Len(wire) = 0
    BY <1>4, Lengths, EmptySeq DEF UnderflowEof, AtEnd, Left, IInv
  <2>2. Len(got) = Len(sent) /\ got \in Seq(Byte) /\ sent \in Seq(Byte)
    BY <2>1, Lengths DEF IInv, InPlace, TypeOK
  <2>3. \A i \in 1..Len(got) : got[i] = sent[i]
    BY DEF IInv, InPlace
  <2>4. got = sent
    BY <2>2, <2>3, SeqEqual
  <2>5. QED
    BY <1>4, <2>4 DEF UnderflowEof, AtEnd, Channel!End, Channel!Next
<1>5. CASE ~failed /\ Get
  <2>1. 1 \in 1..Left /\ Len(got) < Len(sent)
    BY <1>5, Lengths DEF Get, Left, IInv, InPlace
  <2>2. ibuf[gpos + 1] = sent[Len(got) + 1]
    BY <2>1 DEF IInv, InPlace
  <2>3. QED
    BY <1>5, <2>1, <2>2 DEF Get, Channel!Receive, Channel!Next
<1>6. CASE UnderflowFails
  BY <1>6 DEF UnderflowFails, Channel!Fail, Channel!Next
<1>7. CASE UNCHANGED vars
  BY <1>7 DEF vars, Channel!vars
<1>8. QED
  BY <1>1, <1>2, <1>3, <1>4, <1>5, <1>6, <1>7 DEF Next, Read, Channel!Next

(* underflow() and the get area implement the safety part of ByteChannel.  *)
THEOREM ChannelImplemented == Spec => Channel!Init /\ [][Channel!Next]_(Channel!vars)
<1>1. Init => Channel!Init
  BY DEF Init, Channel!Init
<1>2. QED
  BY <1>1, ChannelStep, InputInvariant, PTL DEF Spec
=============================================================================
