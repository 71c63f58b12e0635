------------------------- MODULE HttpRequestProofs --------------------------
(***************************************************************************)
(* The safety invariants of HttpRequest hold for any names, values, lines  *)
(* and bodies, and any number of messages read into one object.            *)
(***************************************************************************)
EXTENDS HttpRequest, SequenceLemmas

Header == StandardNames \cup CustomNames

(* The position of the first field named h, and what the parser has kept.  *)
IsFirst(f, i, h) == f[i].name = h /\ \A j \in 1..i-1 : f[j].name # h
FirstIn(f, h) == CHOOSE i \in DOMAIN f : IsFirst(f, i, h)
NamesIn(f) == {f[i].name : i \in DOMAIN f}
AllHaveFirst(f) == \A h \in NamesIn(f) : \E i \in DOMAIN f : IsFirst(f, i, h)

\* What each program location says of the call.
Control ==
    /\ pc \in {"idle", "line", "headers", "body"}
    /\ pc # "idle" => result = "none"
    /\ count \in Nat /\ avail \in Nat
    /\ count = 0 => pc = "idle" /\ result = "none" /\ standard = <<>>
    /\ pc = "line" => fields = <<>>
    /\ pc = "body" => data = <<>>

Shapes == /\ headers \subseteq Entry
          /\ fields \in Seq(Field) /\ AllHaveFirst(fields)
          /\ standard = [h \in DOMAIN standard |-> standard[h]]

LineIsOwn ==
    HeadAccepted => /\ method = line.method /\ uri = NonEmpty(line.path)
                    /\ LET c == line.tail.chars
                       IN version = 100 * c[1] + IF Len(c) = 3 THEN 10 * c[3] ELSE 0

\* The entries that can be found: each is a field of the message, no two have
\* one name; the long names and the latest are among them.
LiveAreFields ==
    HeadAccepted =>
        /\ \A e \in headers : e.live =>
              \E i \in DOMAIN fields : fields[i] = [name |-> e.name, value |-> e.value]
        /\ \A d, e \in headers : d.live /\ e.live /\ d.name = e.name => d = e

LongAreLive ==
    HeadAccepted =>
        /\ \A h \in SentNames \cap LongNames :
              \E e \in headers : e.live /\ e.name = h /\ e.value = FirstSent(h)
        /\ fields # <<>> /\ fields[Len(fields)].name \in CustomNames =>
              \E e \in headers : e.live /\ e.name = fields[Len(fields)].name

\* Standard headers of the first message.
StandardIsExact ==
    count = 1 =>
        /\ pc = "line" => DOMAIN standard = {}
        /\ HeadAccepted =>
              /\ DOMAIN standard = SentNames \cap StandardNames
              /\ \A h \in DOMAIN standard : standard[h] = FirstSent(h)

DataIsOwn ==
    Accepted =>
        LET n == IF ContentLength \in DOMAIN standard THEN standard[ContentLength].text ELSE 0
        IN /\ n \in Nat /\ data \in Seq(Nat) /\ Len(data) = n
           /\ ContentLength \in DOMAIN standard => n \in Lengths
           /\ \A i \in 1..n : data[i] = count \/ (data[i] = 0 /\ eof /\ i > avail)

IInv == /\ Control /\ Shapes
        /\ LineIsOwn /\ LiveAreFields /\ LongAreLive
        /\ StandardIsExact /\ DataIsOwn

-----------------------------------------------------------------------------
(* The first field of a name, before and after one more is read.           *)

LEMMA FirstIsUnique ==
  ASSUME NEW f \in Seq(Field), NEW h, NEW i \in DOMAIN f, IsFirst(f, i, h)
  PROVE  FirstIn(f, h) = i
<1> DEFINE c == FirstIn(f, h)
<1>1. c \in DOMAIN f /\ IsFirst(f, c, h)
  BY Zenon DEF FirstIn
<1> HIDE DEF c
<1>2. DOMAIN f = 1..Len(f) /\ Len(f) \in Nat
  BY LenProperties
<1>3. ~(c < i) /\ ~(i < c)
  BY <1>1, <1>2 DEF IsFirst
<1>4. QED
  BY <1>1, <1>2, <1>3 DEF c

LEMMA OneMoreField ==
  ASSUME NEW f \in Seq(Field), NEW x \in Field, AllHaveFirst(f)
  PROVE  LET g == Append(f, x)
         IN /\ g \in Seq(Field) /\ g # <<>> /\ Len(g) = Len(f) + 1
            /\ DOMAIN f \subseteq DOMAIN g /\ \A i \in DOMAIN f : g[i] = f[i]
            /\ Len(g) \in DOMAIN g /\ g[Len(g)] = x
            /\ NamesIn(g) = NamesIn(f) \cup {x.name}
            /\ AllHaveFirst(g)
            /\ \A h \in NamesIn(f) : g[FirstIn(g, h)] = f[FirstIn(f, h)]
            /\ x.name \notin NamesIn(f) => g[FirstIn(g, x.name)] = x
<1> DEFINE g == Append(f, x)
<1>1. /\ g \in Seq(Field) /\ g # <<>> /\ Len(g) = Len(f) + 1
      /\ \A i \in 1..Len(f) : g[i] = f[i]
      /\ g[Len(f) + 1] = x
  BY AppendProperties
<1>2. /\ Len(f) \in Nat /\ DOMAIN f = 1..Len(f) /\ DOMAIN g = 1..Len(f)+1
  BY <1>1, LenProperties
<1> HIDE DEF g
<1>3. NamesIn(g) = NamesIn(f) \cup {x.name}
  <2>1. \A i \in DOMAIN g : i \in DOMAIN f \/ i = Len(f) + 1
    BY <1>2
  <2>2. QED
    BY <1>1, <1>2, <2>1 DEF NamesIn
<1>4. ASSUME NEW h, NEW i \in DOMAIN f, IsFirst(f, i, h)
      PROVE  IsFirst(g, i, h) /\ FirstIn(f, h) = i /\ FirstIn(g, h) = i
  <2>1. i \in DOMAIN g /\ IsFirst(g, i, h)
    BY <1>1, <1>2, <1>4 DEF IsFirst
  <2>2. QED
    BY <1>1, <1>4, <2>1, FirstIsUnique
<1>5. \A h \in NamesIn(f) : \E i \in DOMAIN f : IsFirst(f, i, h)
  BY DEF AllHaveFirst
<1>6. ASSUME x.name \notin NamesIn(f)
      PROVE  IsFirst(g, Len(f) + 1, x.name) /\ FirstIn(g, x.name) = Len(f) + 1
  <2>1. \A j \in 1..Len(f) : g[j].name # x.name
    BY <1>1, <1>2, <1>6 DEF NamesIn
  <2>2. IsFirst(g, Len(f) + 1, x.name) /\ Len(f) + 1 \in DOMAIN g
    BY <1>1, <1>2, <2>1 DEF IsFirst
  <2>3. QED
    BY <1>1, <2>2, FirstIsUnique
<1>7. AllHaveFirst(g)
  <2>1. \A h \in NamesIn(f) : \E i \in DOMAIN g : IsFirst(g, i, h)
    BY <1>2, <1>4, <1>5
  <2>2. x.name \notin NamesIn(f) => \E i \in DOMAIN g : IsFirst(g, i, x.name)
    BY <1>2, <1>6
  <2>3. QED
    BY <1>3, <2>1, <2>2 DEF AllHaveFirst
<1>8. \A h \in NamesIn(f) : g[FirstIn(g, h)] = f[FirstIn(f, h)]
  BY <1>1, <1>2, <1>4, <1>5
<1>9. x.name \notin NamesIn(f) => g[FirstIn(g, x.name)] = x
  BY <1>1, <1>6
<1>10. /\ DOMAIN f \subseteq DOMAIN g /\ \A i \in DOMAIN f : g[i] = f[i]
       /\ Len(g) \in DOMAIN g /\ g[Len(g)] = x
  BY <1>1, <1>2
<1>11. QED
  BY <1>1, <1>3, <1>7, <1>8, <1>9, <1>10 DEF g

LEMMA FirstSentIsFirst ==
  /\ SentNames = NamesIn(fields)
  /\ \A h : FirstSent(h) = fields[FirstIn(fields, h)].value
  BY DEF SentNames, NamesIn, FirstSent, FirstIn, IsFirst

(* headerNames_ may grow: what can still be found is unchanged, long names *)
(* stay, and the new one is there.                                         *)
LEMMA InsertProperties ==
  ASSUME headers \subseteq Entry,
         \A d, e \in headers : d.live /\ e.live /\ d.name = e.name => d = e,
         NEW h \in CustomNames, NEW v \in Value
  PROVE  LET new == InsertCustom(AfterPush, h, v)
             e0 == [name |-> h, value |-> v, live |-> TRUE]
         IN /\ new \subseteq Entry
            /\ \A e \in new : e.live => e \in headers \/ e = e0
            /\ \A d, e \in new : d.live /\ e.live /\ d.name = e.name => d = e
            /\ \A e \in headers : e.live /\ e.name \in LongNames => e \in new
            /\ \E e \in new : e.live /\ e.name = h
            /\ e0 \in new \/ \E e \in headers : e.live /\ e.name = h
<1> DEFINE pushed == AfterPush
           e0 == [name |-> h, value |-> v, live |-> TRUE]
           new == InsertCustom(pushed, h, v)
<1>1. ASSUME NEW e \in Entry, NEW b \in BOOLEAN
      PROVE  LET x == [e EXCEPT !.live = e.live /\ b]
             IN x \in Entry /\ (x.live => x = e) /\ (b => x = e)
  BY <1>1 DEF Entry
<1>2. /\ pushed \subseteq Entry
      /\ \A e \in pushed : e.live => e \in headers
      /\ \A e \in headers : e.live /\ e.name \in LongNames => e \in pushed
  <2>1. CASE names = capacity
    <3>1. pushed = {[e EXCEPT !.live = e.live /\ e.name \in LongNames] : e \in headers}
      BY <2>1 DEF AfterPush
    <3>2. \A e \in headers : LET x == [e EXCEPT !.live = e.live /\ e.name \in LongNames]
                             IN x \in Entry /\ (x.live => x = e) /\ (e.name \in LongNames => x = e)
      BY <1>1
    <3>3. ASSUME NEW x \in pushed PROVE x \in Entry /\ (x.live => x \in headers)
      <4>1. PICK e \in headers : x = [e EXCEPT !.live = e.live /\ e.name \in LongNames]
        BY <3>1
      <4>2. x \in Entry /\ (x.live => x = e)
        BY <3>2, <4>1
      <4>3. QED
        BY <4>2
    <3>4. ASSUME NEW e \in headers, e.name \in LongNames PROVE e \in pushed
      <4>1. [e EXCEPT !.live = e.live /\ e.name \in LongNames] \in pushed
        BY <3>1
      <4>2. QED
        BY <3>2, <3>4, <4>1
    <3>5. QED
      BY <3>3, <3>4
  <2>2. CASE names # capacity
    BY <2>2 DEF AfterPush
  <2>3. QED
    BY <2>1, <2>2
<1> HIDE DEF pushed
<1>3. /\ e0 \in Entry /\ e0.live /\ e0.name = h
  BY DEF Entry
<1> HIDE DEF e0
<1>4. CASE \E e \in pushed : e.name = h /\ e.live
  <2>1. new = pushed
    BY <1>4 DEF InsertCustom
  <2>2. QED
    BY <1>2, <1>4, <2>1 DEF pushed, e0
<1>5. CASE ~\E e \in pushed : e.name = h /\ e.live
  <2>1. new = pushed \cup {e0}
    BY <1>5 DEF InsertCustom, e0
  <2> HIDE DEF new
  <2>2. \A d, e \in new : d.live /\ e.live /\ d.name = e.name => d = e
    BY <1>2, <1>3, <1>5, <2>1
  <2>3. /\ new \subseteq Entry
        /\ \A e \in new : e.live => e \in headers \/ e = e0
        /\ \A e \in headers : e.live /\ e.name \in LongNames => e \in new
        /\ \E e \in new : e.live /\ e.name = h
        /\ e0 \in new
    BY <1>2, <1>3, <2>1
  <2>4. QED
    BY <2>2, <2>3 DEF new, pushed, e0
<1>6. QED
  BY <1>4, <1>5

-----------------------------------------------------------------------------
LEMMA NoFields ==
  /\ <<>> \in Seq(Field) /\ NamesIn(<<>>) = {} /\ AllHaveFirst(<<>>) /\ DOMAIN <<>> = {}
<1>1. <<>> \in Seq(Field) /\ Len(<<>>) = 0
  BY EmptySeq
<1>2. DOMAIN <<>> = {}
  BY <1>1, LenProperties
<1>3. NamesIn(<<>>) = {}
  BY <1>2 DEF NamesIn
<1>4. QED
  BY <1>1, <1>2, <1>3 DEF AllHaveFirst

LEMMA RequestInit == Init => IInv
<1> SUFFICES ASSUME Init PROVE IInv
  OBVIOUS
<1>1. Control
  BY DEF Init, Control
<1>2. standard = [h \in DOMAIN standard |-> standard[h]]
  BY DEF Init
<1>3. Shapes
  BY <1>2, NoFields DEF Init, Shapes
<1>4. ~HeadAccepted /\ ~Accepted /\ count = 0
  BY DEF Init, HeadAccepted, Accepted
<1>5. QED
  BY <1>1, <1>3, <1>4
  DEF IInv, LineIsOwn, LiveAreFields, LongAreLive, StandardIsExact, DataIsOwn

(* A step after which no head is accepted only has to keep the shapes.     *)
LEMMA Rejected ==
  ASSUME Shapes', Control', ~HeadAccepted', pc' # "line" \/ DOMAIN standard' = {} \/ count' # 1
  PROVE  IInv'
  BY DEF IInv, LineIsOwn, LiveAreFields, LongAreLive, StandardIsExact, DataIsOwn, HeadAccepted

LEMMA CallStep == ASSUME IInv, Call PROVE IInv'
<1>1. Control'
  BY DEF IInv, Control, Call
<1>2. Shapes'
  BY NoFields DEF IInv, Shapes, Call, object
<1>3. ~HeadAccepted'
  BY DEF Call, HeadAccepted, Accepted
<1>4. DOMAIN standard' = {} \/ count' # 1
  BY NoFields DEF IInv, Control, Call, object
<1>5. QED
  BY <1>1, <1>2, <1>3, <1>4, Rejected

LEMMA RequestLineStep ==
  ASSUME IInv, NEW l \in RequestLine, RequestLineRead(l) PROVE IInv'
<1>0. pc = "line" /\ result = "none" /\ fields = <<>> /\ fields' = fields
      /\ UNCHANGED <<standard, count, data, avail>>
      /\ (count = 1 => DOMAIN standard = {})
  BY DEF RequestLineRead, IInv, Control, StandardIsExact
<1>1. Shapes'
  BY <1>0 DEF RequestLineRead, Clear, IInv, Shapes
<1>2. CASE l.method # NoMethod /\ ValidTail(l.tail)
  <2>1. /\ pc' = "headers" /\ result' = "none" /\ headers' = {} /\ line' = l
        /\ method' = l.method /\ uri' = NonEmpty(l.path) /\ version' = VersionAfter(l.tail)
    BY <1>0, <1>2 DEF RequestLineRead, Clear
  <2>2. Control'
    BY <1>0, <2>1 DEF IInv, Control
  <2>3. VersionAfter(l.tail) = LET c == l.tail.chars
                               IN 100 * c[1] + IF Len(c) = 3 THEN 10 * c[3] ELSE 0
    BY <1>2 DEF VersionAfter, ValidTail, HasMajor, HasMinor
  <2>4. LineIsOwn'
    BY <2>1, <2>3 DEF LineIsOwn
  <2>5. SentNames' = {}
    BY <1>0, NoFields DEF SentNames
  <2>6. LiveAreFields' /\ LongAreLive'
    BY <1>0, <2>1, <2>5 DEF LiveAreFields, LongAreLive
  <2>7. StandardIsExact'
    BY <1>0, <2>1, <2>5 DEF StandardIsExact
  <2>8. DataIsOwn'
    BY <2>1 DEF DataIsOwn, Accepted
  <2>9. QED
    BY <1>1, <2>2, <2>4, <2>6, <2>7, <2>8 DEF IInv
<1>3. CASE ~(l.method # NoMethod /\ ValidTail(l.tail))
  <2>1. pc' = "idle" /\ result' = "false"
    BY <1>3 DEF RequestLineRead, Return
  <2>2. Control'
    BY <1>0, <2>1 DEF IInv, Control
  <2>3. ~HeadAccepted'
    BY <2>1 DEF HeadAccepted, Accepted
  <2>4. QED
    BY <1>1, <2>1, <2>2, <2>3, Rejected
<1>4. QED
  BY <1>2, <1>3

LEMMA HeaderStep ==
  ASSUME IInv, NEW h \in Header, NEW v \in Value, HeaderRead(h, v) PROVE IInv'
<1> DEFINE x == [name |-> h, value |-> v]
<1>0. /\ pc = "headers" /\ pc' = "headers" /\ result = "none" /\ result' = "none"
      /\ HeadAccepted /\ HeadAccepted' /\ fields' = Append(fields, x)
      /\ UNCHANGED <<method, version, uri, data, count, line>>
  BY DEF HeaderRead, IInv, Control, HeadAccepted
<1>1. x \in Field /\ x.name = h /\ x.value = v
  BY DEF Field, Header
<1> HIDE DEF x
<1>2. /\ fields' \in Seq(Field) /\ fields' # <<>>
      /\ DOMAIN fields \subseteq DOMAIN fields' /\ \A i \in DOMAIN fields : fields'[i] = fields[i]
      /\ Len(fields') \in DOMAIN fields' /\ fields'[Len(fields')] = x
      /\ NamesIn(fields') = NamesIn(fields) \cup {h}
      /\ AllHaveFirst(fields')
      /\ \A k \in NamesIn(fields) :
            fields'[FirstIn(fields', k)] = fields[FirstIn(fields, k)]
      /\ h \notin NamesIn(fields) => fields'[FirstIn(fields', h)] = x
  BY <1>0, <1>1, OneMoreField DEF IInv, Shapes
<1>3. /\ SentNames = NamesIn(fields) /\ SentNames' = SentNames \cup {h}
      /\ \A k \in SentNames : FirstSent(k)' = FirstSent(k)
      /\ h \notin SentNames => FirstSent(h)' = v
  <2>1. SentNames = NamesIn(fields) /\ SentNames' = NamesIn(fields')
    BY DEF SentNames, NamesIn
  <2>2. \A k : FirstSent(k) = fields[FirstIn(fields, k)].value
    BY FirstSentIsFirst
  <2>3. \A k : FirstSent(k)' = fields'[FirstIn(fields', k)].value
    BY DEF FirstSent, FirstIn, IsFirst
  <2>4. QED
    BY <1>1, <1>2, <2>1, <2>2, <2>3
<1>4. Control' /\ LineIsOwn' /\ DataIsOwn'
  BY <1>0 DEF HeaderRead, IInv, Control, LineIsOwn, DataIsOwn, Accepted
<1>5. /\ \A e \in headers : e.live =>
            \E i \in DOMAIN fields : fields[i] = [name |-> e.name, value |-> e.value]
      /\ \A d, e \in headers : d.live /\ e.live /\ d.name = e.name => d = e
      /\ \A k \in SentNames \cap LongNames :
            \E e \in headers : e.live /\ e.name = k /\ e.value = FirstSent(k)
      /\ headers \subseteq Entry
  BY <1>0 DEF IInv, LiveAreFields, LongAreLive, Shapes
<1>6. CASE IsStandard(h)
  <2>1. standard' = InsertStandard(h, v) /\ headers' = headers
    BY <1>6 DEF HeaderRead
  <2>2. h \in StandardNames /\ h \notin CustomNames /\ h \notin LongNames
    BY <1>6, HttpRequestAssumption DEF IsStandard, CustomNames
  <2>3. /\ DOMAIN standard' = DOMAIN standard \cup {h}
        /\ \A k \in DOMAIN standard : standard'[k] = standard[k]
        /\ h \notin DOMAIN standard => standard'[h] = v
        /\ standard' = [k \in DOMAIN standard' |-> standard'[k]]
    BY <2>1 DEF InsertStandard
  <2>4. Shapes'
    BY <1>2, <2>1, <2>3 DEF IInv, Shapes
  <2>5. LiveAreFields'
    <3>1. ASSUME NEW e \in headers, e.live
          PROVE  \E i \in DOMAIN fields' : fields'[i] = [name |-> e.name, value |-> e.value]
      BY <1>2, <1>5, <3>1
    <3>2. QED
      BY <1>5, <2>1, <3>1 DEF LiveAreFields
  <2>6. LongAreLive'
    <3>1. SentNames' \cap LongNames = SentNames \cap LongNames
      BY <1>3, <2>2
    <3>2. fields'[Len(fields')].name \notin CustomNames
      BY <1>1, <1>2, <2>2
    <3>3. \A k \in SentNames' \cap LongNames :
             \E e \in headers' : e.live /\ e.name = k /\ e.value = FirstSent(k)'
      BY <1>3, <1>5, <2>1, <3>1
    <3>4. QED
      BY <3>2, <3>3 DEF LongAreLive
  <2>7. StandardIsExact'
    <3> SUFFICES ASSUME count = 1
                 PROVE  /\ DOMAIN standard' = SentNames' \cap StandardNames
                        /\ \A k \in DOMAIN standard' : standard'[k] = FirstSent(k)'
      BY <1>0 DEF StandardIsExact
    <3>1. /\ DOMAIN standard = SentNames \cap StandardNames
          /\ \A k \in DOMAIN standard : standard[k] = FirstSent(k)
      BY <1>0 DEF IInv, StandardIsExact
    <3>2. QED
      BY <1>3, <2>2, <2>3, <3>1
  <2>8. QED
    BY <1>4, <2>4, <2>5, <2>6, <2>7 DEF IInv
<1>7. CASE ~IsStandard(h)
  <2>1. headers' = InsertCustom(AfterPush, h, v) /\ standard' = standard
    BY <1>7 DEF HeaderRead
  <2>2. h \in CustomNames /\ h \notin StandardNames
    BY <1>7 DEF IsStandard, Header
  <2> DEFINE e0 == [name |-> h, value |-> v, live |-> TRUE]
  <2>3. /\ headers' \subseteq Entry
        /\ \A e \in headers' : e.live => e \in headers \/ e = e0
        /\ \A d, e \in headers' : d.live /\ e.live /\ d.name = e.name => d = e
        /\ \A e \in headers : e.live /\ e.name \in LongNames => e \in headers'
        /\ \E e \in headers' : e.live /\ e.name = h
        /\ e0 \in headers' \/ \E e \in headers : e.live /\ e.name = h
    BY <1>5, <2>1, <2>2, InsertProperties
  <2>4. e0.live /\ e0.name = h /\ e0.value = v
    OBVIOUS
  <2> HIDE DEF e0
  <2>5. Shapes'
    BY <1>2, <2>1, <2>3 DEF IInv, Shapes
  <2>6. LiveAreFields'
    <3>1. ASSUME NEW e \in headers', e.live
          PROVE  \E i \in DOMAIN fields' : fields'[i] = [name |-> e.name, value |-> e.value]
      <4>1. CASE e \in headers
        BY <1>2, <1>5, <3>1, <4>1
      <4>2. CASE e = e0
        BY <1>2, <2>4, <4>2 DEF x
      <4>3. QED
        BY <2>3, <3>1, <4>1, <4>2
    <3>2. QED
      BY <2>3, <3>1 DEF LiveAreFields
  <2>7. LongAreLive'
    <3>1. ASSUME NEW k \in SentNames \cap LongNames
          PROVE  \E e \in headers' : e.live /\ e.name = k /\ e.value = FirstSent(k)'
      BY <1>3, <1>5, <2>3
    <3>2. ASSUME h \notin SentNames
          PROVE  \E e \in headers' : e.live /\ e.name = h /\ e.value = FirstSent(h)'
      <4>1. ASSUME NEW e \in headers, e.live, e.name = h PROVE FALSE
        <5>1. PICK i \in DOMAIN fields : fields[i] = [name |-> h, value |-> e.value]
          BY <1>5, <4>1
        <5>2. fields[i].name = h
          BY <5>1
        <5>3. QED
          BY <3>2, <5>2 DEF SentNames
      <4>2. e0 \in headers'
        BY <2>3, <4>1
      <4>3. QED
        BY <1>3, <2>4, <3>2, <4>2
    <3>3. \E e \in headers' : e.live /\ e.name = fields'[Len(fields')].name
      BY <1>1, <1>2, <2>3
    <3>4. ASSUME NEW k \in SentNames' \cap LongNames
          PROVE  \E e \in headers' : e.live /\ e.name = k /\ e.value = FirstSent(k)'
      BY <1>3, <3>1, <3>2
    <3>5. QED
      BY <3>3, <3>4 DEF LongAreLive
  <2>8. StandardIsExact'
    <3> SUFFICES ASSUME count = 1
                 PROVE  /\ DOMAIN standard' = SentNames' \cap StandardNames
                        /\ \A k \in DOMAIN standard' : standard'[k] = FirstSent(k)'
      BY <1>0 DEF StandardIsExact
    <3>1. /\ DOMAIN standard = SentNames \cap StandardNames
          /\ \A k \in DOMAIN standard : standard[k] = FirstSent(k)
      BY <1>0 DEF IInv, StandardIsExact
    <3>2. QED
      BY <1>3, <2>1, <2>2, <3>1
  <2>9. QED
    BY <1>4, <2>5, <2>6, <2>7, <2>8 DEF IInv
<1>8. QED
  BY <1>6, <1>7

(* A step that reads no line and is still, or at last, in an accepted head *)
(* changes nothing that the heads are judged by.                           *)
LEMMA SameHead ==
  ASSUME IInv, HeadAccepted,
         UNCHANGED <<method, version, uri, standard, headers, count, line, fields>>,
         pc' # "line"
  PROVE  Shapes' /\ LineIsOwn' /\ LiveAreFields' /\ LongAreLive' /\ StandardIsExact'
<1>1. SentNames' = SentNames /\ \A k : FirstSent(k)' = FirstSent(k)
  BY DEF SentNames, FirstSent
<1>2. Shapes' /\ LineIsOwn' /\ LiveAreFields'
  BY DEF IInv, Shapes, LineIsOwn, LiveAreFields
<1>3. LongAreLive' /\ StandardIsExact'
  BY <1>1 DEF IInv, LongAreLive, StandardIsExact
<1>4. QED
  BY <1>2, <1>3

LEMMA HeadersEndStep ==
  ASSUME IInv, NEW n \in Lengths, NEW close \in BOOLEAN, HeadersEnd(n, close) PROVE IInv'
<1>1. /\ pc = "headers" /\ pc' = "body" /\ HeadAccepted /\ result = "none" /\ result' = "none"
      /\ UNCHANGED <<method, version, uri, standard, headers, count, line, fields>>
      /\ data' = <<>>
  BY DEF HeadersEnd, ClearData, HeadAccepted, IInv, Control
<1>2. avail' \in Nat
  BY HttpRequestAssumption DEF HeadersEnd, Lengths
<1>3. Control' /\ DataIsOwn'
  BY <1>1, <1>2 DEF IInv, Control, DataIsOwn, Accepted
<1>4. QED
  BY <1>1, <1>3, SameHead DEF IInv

LEMMA NoBodyStep == ASSUME IInv, NoBody PROVE IInv'
<1>1. /\ pc = "body" /\ pc' = "idle" /\ HeadAccepted /\ result' = "true"
      /\ UNCHANGED <<method, version, uri, standard, headers, count, line, fields>>
      /\ data = <<>> /\ data' = data /\ ContentLength \notin DOMAIN standard
      /\ avail' = avail
  BY DEF NoBody, Return, HeadAccepted, IInv, Control, object, message
<1>2. Control'
  BY <1>1 DEF IInv, Control
<1>3. data \in Seq(Nat) /\ Len(data) = 0
  BY <1>1, EmptySeq
<1>4. DataIsOwn'
  BY <1>1, <1>3 DEF DataIsOwn
<1>5. QED
  BY <1>1, <1>2, <1>4, SameHead DEF IInv

LEMMA ReadBodyStep == ASSUME IInv, ReadBody PROVE IInv'
<1>1. /\ pc = "body" /\ pc' = "idle" /\ HeadAccepted /\ result' = "true"
      /\ UNCHANGED <<method, version, uri, standard, headers, count, line, fields>>
      /\ UNCHANGED <<eof, avail>>
      /\ data = <<>> /\ ContentLength \in DOMAIN standard
      /\ Wanted \in Lengths /\ Wanted' = Wanted
      /\ count \in Nat /\ avail \in Nat
  BY DEF ReadBody, Return, HeadAccepted, IInv, Control, message, Wanted
<1>2. Control'
  BY <1>1 DEF IInv, Control
<1>3. Wanted \in Nat /\ (Wanted <= avail \/ eof)
  BY <1>1, HttpRequestAssumption DEF ReadBody, Lengths
<1>4. Len(data) = 0
  BY <1>1, EmptySeq
<1>5. \A i \in 1..Wanted : Resized(i) = 0
  BY <1>3, <1>4 DEF Resized
<1>6. data' = [i \in 1..Wanted |-> IF i <= avail THEN count ELSE 0]
  BY <1>5 DEF ReadBody
<1>7. data' \in [1..Wanted -> Nat]
  BY <1>1, <1>6
<1>8. data' \in Seq(Nat) /\ Len(data') = Wanted
  BY <1>3, <1>7
<1>9. \A i \in 1..Wanted : data'[i] = count \/ (data'[i] = 0 /\ eof /\ i > avail)
  <2> SUFFICES ASSUME NEW i \in 1..Wanted
               PROVE  data'[i] = count \/ (data'[i] = 0 /\ eof /\ i > avail)
    OBVIOUS
  <2>1. CASE i <= avail
    BY <1>6, <2>1
  <2>2. CASE ~(i <= avail)
    <3>1. data'[i] = 0
      BY <1>6, <2>2
    <3>2. i > avail /\ ~(Wanted <= avail)
      BY <1>1, <1>3, <2>2
    <3>3. QED
      BY <1>3, <3>1, <3>2
  <2>3. QED
    BY <2>1, <2>2
<1>10. DataIsOwn'
  BY <1>1, <1>3, <1>8, <1>9 DEF DataIsOwn, Wanted
<1>11. QED
  BY <1>1, <1>2, <1>10, SameHead DEF IInv

(* NoDelimiter and BadLength: the call fails, the object stays.            *)
LEMMA FailStep == ASSUME IInv, NoDelimiter \/ BadLength PROVE IInv'
<1>1. /\ pc' = "idle" /\ result' \in {"false", "throws"} /\ pc # "idle"
      /\ UNCHANGED <<standard, headers, count, fields, avail>>
  BY DEF NoDelimiter, BadLength, Return, object, message
<1>2. Control' /\ Shapes' /\ ~HeadAccepted'
  BY <1>1 DEF IInv, Control, Shapes, HeadAccepted, Accepted
<1>3. QED
  BY <1>1, <1>2, Rejected

LEMMA RequestNext == IInv /\ [Next]_vars => IInv'
<1> SUFFICES ASSUME IInv, [Next]_vars PROVE IInv'
  OBVIOUS
<1>1. CASE Call
  BY <1>1, CallStep
<1>2. ASSUME NEW l \in RequestLine, RequestLineRead(l) PROVE IInv'
  BY <1>2, RequestLineStep
<1>3. ASSUME NEW h \in StandardNames \cup CustomNames, NEW torn \in BOOLEAN,
             NEW t \in TextsOf(h), HeaderRead(h, [text |-> t, torn |-> torn])
      PROVE  IInv'
  <2>1. [text |-> t, torn |-> torn] \in Value
    BY DEF Value, TextsOf
  <2>2. QED
    BY <1>3, <2>1, HeaderStep DEF Header
<1>4. ASSUME NEW n \in Lengths, NEW close \in BOOLEAN, HeadersEnd(n, close) PROVE IInv'
  BY <1>4, HeadersEndStep
<1>5. CASE NoDelimiter \/ BadLength
  BY <1>5, FailStep
<1>6. CASE NoBody
  BY <1>6, NoBodyStep
<1>7. CASE ReadBody
  BY <1>7, ReadBodyStep
<1>8. CASE UNCHANGED vars
  <2>1. /\ UNCHANGED <<method, version, uri, standard, headers, data, pc, result>>
        /\ UNCHANGED <<eof, avail, count, line, fields>>
    BY <1>8 DEF vars, object, message
  <2>2. SentNames' = SentNames /\ \A k : FirstSent(k)' = FirstSent(k)
    BY <2>1 DEF SentNames, FirstSent
  <2>3. HeadAccepted' = HeadAccepted /\ Accepted' = Accepted
    BY <2>1 DEF HeadAccepted, Accepted
  <2>4. Control' /\ Shapes' /\ LineIsOwn' /\ LiveAreFields' /\ DataIsOwn'
    BY <2>1, <2>3 DEF IInv, Control, Shapes, LineIsOwn, LiveAreFields, DataIsOwn
  <2>5. LongAreLive' /\ StandardIsExact'
    BY <2>1, <2>2, <2>3 DEF IInv, LongAreLive, StandardIsExact
  <2>6. QED
    BY <2>4, <2>5 DEF IInv
<1>9. QED
  BY <1>1, <1>2, <1>3, <1>4, <1>5, <1>6, <1>7, <1>8 DEF Next, Accept

LEMMA RequestInvariant == Spec => []IInv
<1>1. QED
  BY RequestInit, RequestNext, PTL DEF Spec

-----------------------------------------------------------------------------
(* An accepted request has its own method, target and version.             *)
THEOREM LinesAreOwn == Spec => []RequestLineIsOwn
<1>1. IInv => RequestLineIsOwn
  BY DEF IInv, LineIsOwn, HeadAccepted, RequestLineIsOwn
<1>2. QED
  BY <1>1, RequestInvariant, PTL

(* headers_ never yields a value of an earlier message, nor two for one    *)
(* name, however headerNames_ grows.                                       *)
THEOREM CustomsAreOwn == Spec => []CustomHeadersAreOwn
<1>1. IInv => CustomHeadersAreOwn
  <2> SUFFICES ASSUME IInv, HeadAccepted PROVE CustomHeadersAreOwn
    BY DEF CustomHeadersAreOwn
  <2>1. ASSUME NEW h, NEW v, v \in HttpHeader(h)
        PROVE  [name |-> h, value |-> v] \in {fields[i] : i \in DOMAIN fields}
    <3>1. PICK e \in headers : e.name = h /\ e.live /\ e.value = v
      BY <2>1 DEF HttpHeader
    <3>2. QED
      BY <3>1 DEF IInv, LiveAreFields
  <2>2. QED
    BY <2>1 DEF IInv, LiveAreFields, CustomHeadersAreOwn
<1>2. QED
  BY <1>1, RequestInvariant, PTL

(* Growth of headerNames_ loses neither a long name nor the latest one.    *)
THEOREM LongNamesStay == Spec => []LostNamesAreShort
<1>1. IInv => LostNamesAreShort
  <2> SUFFICES ASSUME IInv, HeadAccepted PROVE LostNamesAreShort
    BY DEF LostNamesAreShort
  <2>1. ASSUME NEW h \in SentNames \cap LongNames PROVE HttpHeader(h) = {FirstSent(h)}
    <3>1. PICK e \in headers : e.live /\ e.name = h /\ e.value = FirstSent(h)
      BY DEF IInv, LongAreLive
    <3>2. \A d \in headers : d.live /\ d.name = h => d = e
      BY <3>1 DEF IInv, LiveAreFields
    <3>3. QED
      BY <3>1, <3>2 DEF HttpHeader
  <2>2. fields # <<>> /\ fields[Len(fields)].name \in CustomNames =>
           HttpHeader(fields[Len(fields)].name) # {}
    BY DEF IInv, LongAreLive, HttpHeader
  <2>3. QED
    BY <2>1, <2>2 DEF LostNamesAreShort
<1>2. QED
  BY <1>1, RequestInvariant, PTL

(* The body is as long as the Content-Length in force says and holds       *)
(* nothing of an earlier message.                                          *)
THEOREM BodiesAreOwn == Spec => []BodyIsOwn
<1>1. IInv => BodyIsOwn
  <2> SUFFICES ASSUME IInv, Accepted PROVE BodyIsOwn
    BY DEF BodyIsOwn
  <2> DEFINE n == IF ContentLength \in DOMAIN standard
                  THEN standard[ContentLength].text ELSE 0
  <2>1. Len(data) = n /\ \A i \in 1..n : data[i] = count \/ (data[i] = 0 /\ eof)
    BY DEF IInv, DataIsOwn
  <2>2. QED
    BY <2>1 DEF BodyIsOwn
<1>2. QED
  BY <1>1, RequestInvariant, PTL

(* Whatever it holds, the first whole message into a new object is parsed  *)
(* exactly.                                                                *)
THEOREM FirstIsExact == Spec => []FirstMessageExact
<1>1. IInv => FirstMessageExact
  <2> SUFFICES ASSUME IInv, Accepted, count = 1, Whole
               PROVE  /\ standard = [h \in SentNames \cap StandardNames |-> FirstSent(h)]
                      /\ data = [i \in 1..SentLength |-> 1]
    BY DEF FirstMessageExact
  <2>1. /\ DOMAIN standard = SentNames \cap StandardNames
        /\ \A h \in DOMAIN standard : standard[h] = FirstSent(h)
        /\ standard = [h \in DOMAIN standard |-> standard[h]]
    BY DEF IInv, StandardIsExact, Shapes, HeadAccepted
  <2>2. standard = [h \in SentNames \cap StandardNames |-> FirstSent(h)]
    BY <2>1
  <2> DEFINE n == IF ContentLength \in DOMAIN standard
                  THEN standard[ContentLength].text ELSE 0
  <2>3. /\ n \in Nat /\ data \in Seq(Nat) /\ Len(data) = n
        /\ ContentLength \in DOMAIN standard => n \in Lengths
        /\ \A i \in 1..n : data[i] = 1 \/ (data[i] = 0 /\ eof /\ i > avail)
    BY DEF IInv, DataIsOwn
  <2>4. ContentLength \in StandardNames
    BY DEF StandardNames
  <2>5. SentLength = n
    BY <2>1, <2>3, <2>4 DEF SentLength
  <2> HIDE DEF n
  <2>6. \A i \in 1..n : data[i] = 1
    BY <2>3, <2>5 DEF Whole, IInv, Control
  <2>7. data \in [1..n -> Nat]
    BY <2>3, LenProperties
  <2>8. data = [i \in 1..n |-> 1]
    BY <2>6, <2>7
  <2>9. QED
    BY <2>2, <2>5, <2>8
<1>2. QED
  BY <1>1, RequestInvariant, PTL

-----------------------------------------------------------------------------
(* Types.                                                                  *)

LEMMA NonEmptyType ==
  ASSUME NEW path \in Seq(Segments \cup {Empty})
  PROVE  NonEmpty(path) \in Seq(Segments)
<1> DEFINE n == Len(path)
           kept == [i \in DOMAIN path |-> IF path[i] = Empty THEN <<>> ELSE <<path[i]>>]
           T == Seq(Segments)
<1>1. n \in Nat /\ DOMAIN path = 1..n /\ \A i \in 1..n : path[i] \in Segments \cup {Empty}
  BY LenProperties, ElementOfSeq
<1>2. ASSUME NEW i \in 1..n
      PROVE  (IF path[i] = Empty THEN <<>> ELSE <<path[i]>>) \in T
  <2>1. CASE path[i] = Empty
    BY <2>1, EmptySeq
  <2>2. CASE path[i] # Empty
    <3>1. path[i] \in Segments
      BY <1>1, <2>2
    <3>2. <<path[i]>> \in Seq(Segments)
      BY <3>1
    <3>3. QED
      BY <2>2, <3>2
  <2>3. QED
    BY <2>1, <2>2
<1>3. kept \in [1..n -> T]
  <2> HIDE DEF T
  <2>1. kept = [i \in 1..n |-> IF path[i] = Empty THEN <<>> ELSE <<path[i]>>]
    BY <1>1
  <2>2. QED
    BY <1>2, <2>1
<1>4. kept \in Seq(T)
  <2> HIDE DEF kept, T
  <2>1. QED
    BY <1>1, <1>3, SeqDef
<1>5. FlattenSeq(kept) \in Seq(Segments)
  BY <1>4, FlattenSeqType
<1>6. QED
  BY <1>5 DEF NonEmpty

LEMMA TypeRequestLine ==
  ASSUME TypeOK, NEW l \in RequestLine, RequestLineRead(l), headers' \subseteq Entry
  PROVE  TypeOK'
<1>1. /\ l.method \in Methods \cup {NoMethod} /\ l.path \in Seq(Segments \cup {Empty})
      /\ l.tail \in LineTail
  BY HttpRequestAssumption DEF RequestLine
<1>2. NonEmpty(l.path) \in Seq(Segments)
  BY <1>1, NonEmptyType
<1>3. VersionAfter(l.tail) \in Nat
  <2>1. \A d \in Digits : 100 * d \in Nat /\ 10 * d \in Nat
    BY DEF Digits
  <2>2. HasMajor(l.tail) => 100 * l.tail.chars[1] \in Nat
    BY <2>1 DEF HasMajor
  <2>3. HasMinor(l.tail) => 10 * l.tail.chars[3] \in Nat
    BY <2>1 DEF HasMinor
  <2>4. version \in Nat
    BY DEF TypeOK
  <2>5. QED
    BY <2>2, <2>3, <2>4 DEF VersionAfter
<1>4. method' \in Methods \cup {NoMethod} /\ uri' \in Seq(Segments) /\ version' \in Nat
  BY <1>1, <1>2, <1>3 DEF RequestLineRead, TypeOK
<1>5. /\ pc' \in {"idle", "line", "headers", "body"}
      /\ result' \in {"none", "true", "false", "throws"}
      /\ names' \in Nat
  BY DEF RequestLineRead, Return, Clear, TypeOK
<1>6. UNCHANGED <<standard, capacity, data, eof, avail, count, fields>> /\ line' = l
  BY DEF RequestLineRead
<1>7. QED
  BY <1>4, <1>5, <1>6 DEF TypeOK

LEMMA TypeHeader ==
  ASSUME TypeOK, NEW h \in Header, NEW torn \in BOOLEAN, NEW t \in TextsOf(h),
         HeaderRead(h, [text |-> t, torn |-> torn]), headers' \subseteq Entry
  PROVE  TypeOK'
<1> DEFINE v == [text |-> t, torn |-> torn]
<1>1. v \in Value /\ v.text \in TextsOf(h) /\ v.torn \in BOOLEAN
  BY DEF TextsOf, Value
<1>2. [name |-> h, value |-> v] \in Field
  BY <1>1 DEF Field, Header
<1> HIDE DEF v
<1>3. fields' \in Seq(Field)
  BY <1>2, AppendProperties DEF HeaderRead, TypeOK, v
<1>4. eof' \in BOOLEAN
  BY <1>1 DEF HeaderRead, v
<1>5. names' \in Nat /\ capacity' \in Nat
  BY DEF HeaderRead, Grown, TypeOK
<1>6. DOMAIN standard' \subseteq StandardNames
      /\ \A k \in DOMAIN standard' : standard'[k] \in Value /\ standard'[k].text \in TextsOf(k)
  <2>1. CASE standard' = standard
    BY <2>1 DEF TypeOK
  <2>2. CASE IsStandard(h) /\ standard' = InsertStandard(h, v)
    <3>1. standard' = [k \in DOMAIN standard \cup {h} |->
                         IF k \in DOMAIN standard THEN standard[k] ELSE v]
      BY <2>2 DEF InsertStandard
    <3>2. DOMAIN standard' = DOMAIN standard \cup {h} /\ h \in StandardNames
      BY <2>2, <3>1 DEF IsStandard
    <3>3. \A k \in DOMAIN standard \cup {h} :
             standard'[k] = IF k \in DOMAIN standard THEN standard[k] ELSE v
      BY <3>1
    <3>4. QED
      BY <1>1, <3>2, <3>3 DEF TypeOK
  <2>3. QED
    BY <2>1, <2>2 DEF HeaderRead, v
<1>7. UNCHANGED <<method, version, uri, data, pc, result, avail, count, line>>
  BY DEF HeaderRead
<1>8. QED
  BY <1>3, <1>4, <1>5, <1>6, <1>7 DEF TypeOK

LEMMA TypeBody == ASSUME TypeOK, ReadBody, headers' \subseteq Entry PROVE TypeOK'
<1>1. /\ ContentLength \in DOMAIN standard /\ Wanted \in Nat
      /\ data' = [i \in 1..Wanted |-> IF i <= avail THEN count ELSE Resized(i)]
  BY DEF ReadBody, Wanted, Lengths
<1>2. count \in 0..MaxMessages /\ 0 \in 0..MaxMessages
  BY HttpRequestAssumption DEF TypeOK
<1>3. data \in Seq(0..MaxMessages) /\ Len(data) \in Nat
  BY LenProperties DEF TypeOK
<1>4. ASSUME NEW i \in 1..Wanted PROVE Resized(i) \in 0..MaxMessages
  <2>1. CASE i <= Len(data)
    <3>1. i \in 1..Len(data)
      BY <1>1, <1>3, <2>1
    <3>2. data[i] \in 0..MaxMessages
      BY <1>3, <3>1, ElementOfSeq
    <3>3. QED
      BY <2>1, <3>2 DEF Resized
  <2>2. CASE ~(i <= Len(data))
    BY <1>2, <2>2 DEF Resized
  <2>3. QED
    BY <2>1, <2>2
<1>5. data' \in [1..Wanted -> 0..MaxMessages]
  BY <1>1, <1>2, <1>4
<1>6. data' \in Seq(0..MaxMessages)
  BY <1>1, <1>5, SeqDef
<1>7. pc' = "idle" /\ result' = "true"
  BY DEF ReadBody, Return
<1>8. UNCHANGED <<method, version, uri, standard, headers, names, capacity, message>>
  BY DEF ReadBody
<1>9. QED
  BY <1>6, <1>7, <1>8 DEF TypeOK, message

LEMMA TypeNext == TypeOK /\ IInv' /\ [Next]_vars => TypeOK'
<1> SUFFICES ASSUME TypeOK, IInv', [Next]_vars PROVE TypeOK'
  OBVIOUS
<1>1. headers' \subseteq Entry
  BY DEF IInv, Shapes
<1>2. CASE UNCHANGED vars
  BY <1>2 DEF TypeOK, vars, object, message
<1>3. CASE Call
  <2>1. count' \in 0..MaxMessages
    BY <1>3, HttpRequestAssumption DEF Call, TypeOK
  <2>2. fields' \in Seq(Field) /\ avail' \in Lengths
    BY <1>3, EmptySeq, HttpRequestAssumption DEF Call, Lengths
  <2>3. QED
    BY <1>3, <2>1, <2>2 DEF Call, TypeOK, object
<1>4. ASSUME NEW l \in RequestLine, RequestLineRead(l) PROVE TypeOK'
  BY <1>1, <1>4, TypeRequestLine
<1>5. ASSUME NEW h \in Header, NEW torn \in BOOLEAN, NEW t \in TextsOf(h),
             HeaderRead(h, [text |-> t, torn |-> torn])
      PROVE  TypeOK'
  BY <1>1, <1>5, TypeHeader
<1>6. ASSUME NEW n \in Lengths, NEW close \in BOOLEAN, HeadersEnd(n, close) PROVE TypeOK'
  <2>1. data' \in Seq(0..MaxMessages)
    BY <1>6, EmptySeq DEF HeadersEnd, ClearData
  <2>2. QED
    BY <1>6, <2>1 DEF HeadersEnd, TypeOK
<1>7. CASE NoDelimiter \/ NoBody \/ BadLength
  BY <1>7 DEF NoDelimiter, NoBody, BadLength, Return, TypeOK, object, message
<1>8. CASE ReadBody
  BY <1>1, <1>8, TypeBody
<1>9. QED
  BY <1>2, <1>3, <1>4, <1>5, <1>6, <1>7, <1>8 DEF Next, Accept, Header

(* What is parsed has the shape that the accessors promise: segments that  *)
(* are not empty, headers with their values, bytes of the body.            *)
THEOREM RequestTypeCorrect == Spec => []TypeOK
<1>1. Init => TypeOK
  <2> SUFFICES ASSUME Init PROVE TypeOK
    OBVIOUS
  <2>1. /\ <<>> \in Seq(Segments) /\ <<>> \in Seq(Field) /\ <<>> \in Seq(0..MaxMessages)
        /\ DOMAIN standard = {}
    BY EmptySeq, NoFields DEF Init
  <2>2. 0 \in Lengths /\ 0 \in 0..MaxMessages
    BY HttpRequestAssumption DEF Lengths
  <2>3. QED
    BY <2>1, <2>2 DEF Init, TypeOK
<1>2. QED
  BY <1>1, TypeNext, RequestInvariant, PTL DEF Spec
=============================================================================
