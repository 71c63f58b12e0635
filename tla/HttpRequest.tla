---------------------------- MODULE HttpRequest ----------------------------
(***************************************************************************)
(* One cppws::http_request object that http_request::accept fills again    *)
(* and again, as request_processor does with processedRequest_: each call  *)
(* reads one message from a new stream.  A step reads one line, or the     *)
(* body.  The client may close its connection at any byte; get() then      *)
(* yields EOF, which is appended to the line as the byte 0xFF.             *)
(***************************************************************************)
EXTENDS Naturals, Sequences, SequencesExt

CONSTANTS Methods, NoMethod,      \* what precedes the first blank, or nothing known
          Segments, Empty,        \* pieces of the path between slashes
          ContentLength,
          OtherStandard,          \* further members of enum http_request_header
          ShortNames, LongNames,  \* other names that do and do not fit in the
                                  \* string object itself
          Texts,                  \* header values
          NotANumber, TooLong,    \* ... of Content-Length that from_chars
                                  \* rejects, and for which resize() throws
          Paths, Tails,           \* request targets and what follows them
          MaxBody, MaxHeaders, MaxMessages    \* bounds on the exploration

StandardNames == OtherStandard \cup {ContentLength}
CustomNames == ShortNames \cup LongNames
Lengths == 0..MaxBody
TextsOf(h) == IF h = ContentLength THEN Lengths \cup {NotANumber, TooLong} ELSE Texts

\* What follows the target: whether it starts with " HTTP/", then characters.
Digits == 0..9
Dot == 10
Other == 11
LineTail == [http : BOOLEAN, chars : Seq(0..Other)]

ASSUME HttpRequestAssumption ==
    /\ NoMethod \notin Methods /\ Empty \notin Segments
    /\ StandardNames \cap CustomNames = {} /\ ShortNames \cap LongNames = {}
    /\ ContentLength \notin OtherStandard
    /\ NotANumber \notin Nat /\ TooLong \notin Nat /\ NotANumber # TooLong
    /\ MaxBody \in Nat /\ MaxHeaders \in Nat /\ MaxMessages \in Nat
    /\ Paths \subseteq Seq(Segments \cup {Empty}) /\ Tails \subseteq LineTail

VARIABLES method, version, uri,
          standard,       \* standardHeaders_
          headers,        \* headers_: a set of entries
          names, capacity,\* size and capacity of headerNames_
          data,           \* data_, each byte named by the message it came in
          pc, result,     \* where accept is, and how the last call ended
          eof,            \* the stream has reached the end of the connection
          avail,          \* body bytes that the client sends
          count,          \* calls so far
          line, fields    \* the message: its request line and its header lines

object == <<method, version, uri, standard, headers, names, capacity, data>>
message == <<eof, avail, count, line, fields>>
vars == <<object, pc, result, message>>

\* A header value as stored: torn when it ends in the 0xFF of an EOF.
Value == [text : Texts \cup Lengths \cup {NotANumber, TooLong}, torn : BOOLEAN]
Entry == [name : CustomNames, value : Value, live : BOOLEAN]
Field == [name : StandardNames \cup CustomNames, value : Value]
RequestLine == [method : Methods \cup {NoMethod}, path : Paths, tail : Tails]
NoLine == [method |-> NoMethod, path |-> <<>>, tail |-> [http |-> FALSE, chars |-> <<>>]]

TypeOK ==
    /\ method \in Methods \cup {NoMethod} /\ version \in Nat
    /\ uri \in Seq(Segments)
    /\ DOMAIN standard \subseteq StandardNames
    /\ \A h \in DOMAIN standard : standard[h] \in Value /\ standard[h].text \in TextsOf(h)
    /\ headers \subseteq Entry /\ names \in Nat /\ capacity \in Nat
    /\ data \in Seq(0..MaxMessages)
    /\ pc \in {"idle", "line", "headers", "body"}
    /\ result \in {"none", "true", "false", "throws"}
    /\ eof \in BOOLEAN /\ avail \in Lengths /\ count \in 0..MaxMessages
    /\ line \in RequestLine \cup {NoLine} /\ fields \in Seq(Field)

-----------------------------------------------------------------------------
(* A new object says GET and 1.1; NoMethod stands for that initial GET.    *)
Init ==
    /\ method = NoMethod /\ version = 110 /\ uri = <<>>
    /\ standard = <<>> /\ headers = {} /\ names = 0 /\ capacity = 0
    /\ data = <<>>
    /\ pc = "idle" /\ result = "none"
    /\ eof = FALSE /\ avail = 0 /\ count = 0 /\ line = NoLine /\ fields = <<>>

Return(r) == pc' = "idle" /\ result' = r

Call ==
    /\ pc = "idle" /\ count < MaxMessages
    /\ pc' = "line" /\ result' = "none"
    /\ count' = count + 1
    /\ eof' = FALSE /\ avail' = 0 /\ line' = NoLine /\ fields' = <<>>
    /\ UNCHANGED object

-----------------------------------------------------------------------------
(* The request line.  What is assigned before an early return stays.       *)

MutNonEmpty(path) == path
NonEmpty(path) ==
    FlattenSeq([i \in DOMAIN path |-> IF path[i] = Empty THEN <<>> ELSE <<path[i]>>])

HasMajor(t) == t.http /\ t.chars # <<>> /\ t.chars[1] \in Digits
HasMinor(t) == /\ HasMajor(t) /\ Len(t.chars) >= 3
               /\ t.chars[2] = Dot /\ t.chars[3] \in Digits
ValidTail(t) == \/ HasMajor(t) /\ Len(t.chars) = 1
                \/ HasMinor(t) /\ Len(t.chars) = 3

\* The value of httpVersion_ after the tail t has been looked at.
MutVersionAfter(t) == IF HasMajor(t) THEN 100 * t.chars[1] ELSE version
VersionAfter(t) ==
    IF ~HasMajor(t) THEN version
    ELSE 100 * t.chars[1] + IF HasMinor(t) THEN 10 * t.chars[3] ELSE 0

\* headerNames_.clear() and headers_.clear().
MutClear == UNCHANGED <<headers, names>>
Clear == headers' = {} /\ names' = 0

\* A connection that ends in the request line leaves one that no branch accepts.
RequestLineRead(l) ==
    /\ pc = "line"
    /\ line' = l
    /\ IF l.method = NoMethod
       THEN UNCHANGED <<method, uri, version>>
       ELSE /\ method' = l.method
            /\ uri' = NonEmpty(l.path)
            /\ version' = VersionAfter(l.tail)
    /\ IF l.method # NoMethod /\ ValidTail(l.tail)
       THEN pc' = "headers" /\ Clear /\ UNCHANGED result
       ELSE Return("false") /\ UNCHANGED <<headers, names>>
    /\ UNCHANGED <<standard, capacity, data, eof, avail, count, fields>>

-----------------------------------------------------------------------------
(* A header line.                                                          *)

IsStandard(h) == h \in StandardNames

\* standardHeaders_.insert, which keeps a value that is already there.
MutInsertStandard(h, v) == [k \in DOMAIN standard \cup {h} |-> IF k = h THEN v ELSE standard[k]]
InsertStandard(h, v) ==
    [k \in DOMAIN standard \cup {h} |-> IF k \in DOMAIN standard THEN standard[k] ELSE v]

\* headerNames_.push_back.  A key of headers_ is a view of a name stored there;
\* when the vector grows, a short name moves with its string object and the
\* view is left on the emptied one: the entry can no longer be found.
Grown == IF capacity = 0 THEN 1 ELSE 2 * capacity
MutAfterPush == IF names = capacity THEN {[e EXCEPT !.live = FALSE] : e \in headers}
                ELSE headers
AfterPush ==
    IF names = capacity
    THEN {[e EXCEPT !.live = @ /\ e.name \in LongNames] : e \in headers}
    ELSE headers

\* headers_.insert, which keeps an entry that has an equal key.
InsertCustom(entries, h, v) ==
    IF \E e \in entries : e.name = h /\ e.live
    THEN entries
    ELSE entries \cup {[name |-> h, value |-> v, live |-> TRUE]}

HeaderRead(h, v) ==
    /\ pc = "headers" /\ ~eof /\ Len(fields) < MaxHeaders
    /\ fields' = Append(fields, [name |-> h, value |-> v])
    /\ eof' = v.torn
    /\ \/ /\ IsStandard(h)
          /\ standard' = InsertStandard(h, v)
          /\ UNCHANGED <<headers, names, capacity>>
       \/ /\ ~IsStandard(h)
          /\ headers' = InsertCustom(AfterPush, h, v)
          /\ names' = names + 1
          /\ capacity' = IF names = capacity THEN Grown ELSE capacity
          /\ UNCHANGED standard
    /\ UNCHANGED <<method, version, uri, data, pc, result, avail, count, line>>

\* A line without ": ", which an EOF can also cause.
NoDelimiter ==
    /\ pc = "headers" /\ ~eof
    /\ Return("false")
    /\ UNCHANGED <<object, message>>

\* A blank line, after which the client sends n bytes and then closes its side
\* or not.  A stream that has reached its end also yields an empty line.
MutClearData == UNCHANGED data
ClearData == data' = <<>>
HeadersEnd(n, close) ==
    /\ pc = "headers" /\ (eof => n = 0 /\ close)
    /\ pc' = "body"
    /\ ClearData
    /\ avail' = n /\ eof' = close
    /\ UNCHANGED <<method, version, uri, standard, headers, names, capacity,
                   result, count, line, fields>>

-----------------------------------------------------------------------------
(* The body.                                                               *)

NoBody ==
    /\ pc = "body" /\ ContentLength \notin DOMAIN standard
    /\ Return("true")
    /\ UNCHANGED <<object, message>>

\* from_chars fails, or resize() throws.
BadLength ==
    /\ pc = "body" /\ ContentLength \in DOMAIN standard
    /\ \/ standard[ContentLength].text = NotANumber /\ Return("false")
       \/ standard[ContentLength].text = TooLong /\ Return("throws")
    /\ UNCHANGED <<object, message>>

\* resize() keeps what data_ holds and adds zeros; read() then waits for every
\* byte or the end of the connection, and writes over those it gets.
MutWanted == standard[ContentLength].text + 1
Wanted == standard[ContentLength].text
Resized(i) == IF i <= Len(data) THEN data[i] ELSE 0
ReadBody ==
    /\ pc = "body" /\ ContentLength \in DOMAIN standard
    /\ standard[ContentLength].text \in Lengths
    /\ Wanted <= avail \/ eof
    /\ data' = [i \in 1..Wanted |-> IF i <= avail THEN count ELSE Resized(i)]
    /\ Return("true")
    /\ UNCHANGED <<method, version, uri, standard, headers, names, capacity, message>>

-----------------------------------------------------------------------------
Accept ==
    \/ \E l \in RequestLine : RequestLineRead(l)
    \/ \E h \in StandardNames \cup CustomNames, torn \in BOOLEAN :
          \E t \in TextsOf(h) : HeaderRead(h, [text |-> t, torn |-> torn])
    \/ NoDelimiter
    \/ \E n \in Lengths, close \in BOOLEAN : HeadersEnd(n, close)
    \/ NoBody \/ BadLength \/ ReadBody

Next == Call \/ Accept

Spec == Init /\ [][Next]_vars

\* A client that has been accepted sends its message or closes.
FairSpec == Spec /\ WF_vars(Accept)

-----------------------------------------------------------------------------
(* What the message said, and what http_header() finds.                    *)

SentNames == {fields[i].name : i \in DOMAIN fields}
FirstSent(h) ==
    fields[CHOOSE i \in DOMAIN fields :
              fields[i].name = h /\ \A j \in 1..i-1 : fields[j].name # h].value
SentLength == IF /\ ContentLength \in SentNames
                 /\ FirstSent(ContentLength).text \in Lengths
              THEN FirstSent(ContentLength).text ELSE 0
WholeHead == \A i \in DOMAIN fields : ~fields[i].value.torn
Whole == WholeHead /\ avail >= SentLength

\* http_header() on a name that is not standard: the values it may point to.
HttpHeader(h) == {e.value : e \in {x \in headers : x.name = h /\ x.live}}

Accepted == result = "true"
HeadAccepted == pc \in {"headers", "body"} \/ Accepted

-----------------------------------------------------------------------------
(* What holds.                                                             *)

\* An accepted request has the method, the target and the version of its own
\* request line, whatever a rejected message before it had assigned.
RequestLineIsOwn ==
    Accepted =>
        /\ method = line.method
        /\ uri = NonEmpty(line.path)
        /\ version = LET c == line.tail.chars
                     IN 100 * c[1] + IF Len(c) = 3 THEN 10 * c[3] ELSE 0

\* No custom header of an earlier message is ever found, and no name twice.
CustomHeadersAreOwn ==
    HeadAccepted =>
        /\ \A h \in CustomNames, v \in Value :
              v \in HttpHeader(h) => [name |-> h, value |-> v] \in {fields[i] : i \in DOMAIN fields}
        /\ \A d, e \in headers : d.live /\ e.live /\ d.name = e.name => d = e

\* Growth of headerNames_ loses short names only (whatever http_request.hpp:403
\* says of http_header()), and never the latest one: a long name keeps the first
\* value that it came with.
LostNamesAreShort ==
    HeadAccepted =>
        /\ \A h \in SentNames \cap LongNames : HttpHeader(h) = {FirstSent(h)}
        /\ fields # <<>> /\ fields[Len(fields)].name \in CustomNames =>
              HttpHeader(fields[Len(fields)].name) # {}

\* The body has as many bytes as the Content-Length in force, and none of them
\* is left from an earlier message; zeros stand in after a lost connection only.
BodyIsOwn ==
    Accepted =>
        /\ Len(data) = IF ContentLength \in DOMAIN standard
                       THEN standard[ContentLength].text ELSE 0
        /\ \A i \in 1..Len(data) : data[i] = count \/ (data[i] = 0 /\ eof)

\* Of the first message into a new object, if it is whole, each standard header is
\* kept with the first value it came with, and no other, and the body it announces.
FirstMessageExact ==
    Accepted /\ count = 1 /\ Whole =>
        /\ standard = [h \in SentNames \cap StandardNames |-> FirstSent(h)]
        /\ data = [i \in 1..SentLength |-> 1]

\* Once the client has sent the body it announced, or has closed, accept comes
\* back.  A later message may inherit a Content-Length and wait for ever.
FirstMessageReturns ==
    (count = 1 /\ pc = "body" /\ (Whole \/ eof)) ~> (pc = "idle")

-----------------------------------------------------------------------------
(* What the documentation says and the code does not do.                   *)

\* http_request.hpp:361, accept(), out: "Variable that receives the parsed
\* request."  standardHeaders_ is never cleared.
StandardHeadersAreOwn ==
    Accepted => \A h \in DOMAIN standard : h \in SentNames /\ standard[h] = FirstSent(h)
=============================================================================
