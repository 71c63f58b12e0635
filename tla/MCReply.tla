------------------------------ MODULE MCReply -------------------------------
(* A small instance of Reply.                                              *)
EXTENDS Reply

CONSTANTS t, h, v

MCOnes == <<"ones">>

\* A content that looks like the end of headers and the begin of a message, one
\* that is not text, and none at all.
MCContents == { << Blank, <<"line", <<1, 1>>, 200>> >>, <<MCOnes>>, <<>> }

MCResponses ==
    { [line |-> [version |-> 110, status |-> 200],
       headers |-> <<[name |-> h, value |-> v]>>,
       body |-> <<[type |-> t, content |-> c]>>] : c \in MCContents }
    \cup
    { [line |-> [version |-> 205, status |-> 204], headers |-> <<>>, body |-> b] :
         b \in { <<>>, <<[type |-> t, content |-> <<MCOnes, Blank>>]>> } }

MCByte == UNION {Range(Text(r)) : r \in MCResponses}
=============================================================================
