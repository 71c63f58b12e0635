------------------------------- MODULE Reply --------------------------------
(***************************************************************************)
(* Responses written to a socket stream: the operators << of               *)
(* http_response.hpp put the text of a response through the put area of    *)
(* basic_socket_streambuf, as request_processor::process_request() and a   *)
(* handler that has a stream do, until the stream goes.                    *)
(***************************************************************************)
EXTENDS SocketOutput, HttpResponse

CONSTANTS Responses,    \* the responses that may be written
          MaxResponses  \* bound on how many are

ASSUME ReplyAssumption ==
    /\ MaxResponses \in Nat
    /\ \A r \in Responses : Text(r) \in Seq(Byte)

\* A response has a sequence of headers and a body or none.
ASSUME ResponseAssumption ==
    \A r \in Responses :
        /\ r.line.version \in Nat
        /\ r.headers \in Seq(Range(r.headers))
        /\ r.body \in Seq(Range(r.body)) /\ Len(r.body) <= 1
        /\ \A i \in DOMAIN r.body : r.body[i].content \in Seq(Byte)

VARIABLES responses,  \* the responses inserted into the stream
          queue,      \* what is left to put of the last of them
          good,       \* good() of the stream
          open        \* the stream still is

replyVars == <<vars, responses, queue, good, open>>

ReplyTypeOK ==
    /\ TypeOK
    /\ responses \in Seq(Responses) /\ Len(responses) <= MaxResponses
    /\ queue \in Seq(Byte)
    /\ good \in BOOLEAN /\ open \in BOOLEAN
    /\ queue # <<>> => good /\ open

ReplyInit == Init /\ responses = <<>> /\ queue = <<>> /\ good = TRUE /\ open = TRUE

Idle == open /\ queue = <<>>

-----------------------------------------------------------------------------
\* A stream that is not good() takes nothing.
Insert(r) ==
    /\ Idle /\ good /\ Len(responses) < MaxResponses
    /\ responses' = Append(responses, r)
    /\ queue' = Text(r)
    /\ UNCHANGED <<vars, good, open>>

\* A character that does not look like one that overflow() could not put.
PutOne ==
    LET c == Head(queue)
    IN /\ queue # <<>>
       /\ Store(c) \/ (c # Ones /\ Overflow(c))
       /\ queue' = Tail(queue)
       /\ UNCHANGED <<responses, good, open>>

\* A failure sets badbit, and what is left of the response is not put: write()
\* threw, or overflow() returned what equals Traits::eof().
MutFailed == good
Failed == FALSE
MutLeftToPut == Tail(queue)
LeftToPut == <<>>
PutFails ==
    /\ queue # <<>>
    /\ \/ ppos = epos /\ UNCHANGED vars
       \/ Head(queue) = Ones /\ Overflow(Ones)
    /\ queue' = LeftToPut /\ good' = Failed
    /\ UNCHANGED <<responses, open>>

\* flush(): it fails, too, when the first character of obuf_ is Ones, which sync()
\* returns.
FlushStream ==
    /\ Idle /\ good
    /\ \/ Flush /\ good' = (obuf[1] # Ones)
       \/ UNCHANGED vars /\ good' = Failed
    /\ UNCHANGED <<responses, queue, open>>

\* The stream is destroyed or another takes its place; nothing is flushed.
Drop == Idle /\ open' = FALSE /\ UNCHANGED <<vars, responses, queue, good>>

ReplyNext == \/ \E r \in Responses : Insert(r)
             \/ PutOne \/ PutFails \/ FlushStream \/ Drop

ReplySpec == ReplyInit /\ [][ReplyNext]_replyVars

-----------------------------------------------------------------------------
AllText == FlattenSeq([i \in DOMAIN responses |-> Text(responses[i])])

\* A stream that is good has put every response in full, whatever the kernel
\* took of each write; one that is not has put no more than a beginning.
GoodMeansPut ==
    /\ IsPrefix(put, AllText)
    /\ good => put \o queue = AllText

\* The responses in front of the first that has no body, which is what ends the
\* headers.
Framed ==
    LET Whole(n) == \A i \in 1..n : responses[i].body # <<>>
    IN CHOOSE n \in 0..Len(responses) :
          Whole(n) /\ (n = Len(responses) \/ ~Whole(n + 1))

\* A client that reads what was put finds each of these responses, with its
\* version, status, headers and content, whatever its content looks like.
ClientReadsResponses ==
    Idle /\ good =>
        LET read == Client(put).messages
        IN /\ Framed <= Len(read)
           /\ \A i \in 1..Framed : read[i] = Message(responses[i])
=============================================================================
