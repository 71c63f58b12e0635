---------------------------- MODULE ByteChannel ----------------------------
(***************************************************************************)
(* What a reader of a connection is promised: the bytes the peer sent, in  *)
(* order, each once, and an end of file only after the last of them.  If   *)
(* the connection fails, it is given nothing more, and no end of file.     *)
(***************************************************************************)
EXTENDS Naturals, Sequences

CONSTANTS Byte, MaxSent

VARIABLES sent,    \* the bytes the peer has sent
          got,     \* the bytes the reader has been given
          closed,  \* the peer has closed its side
          ended,   \* the reader has been told so
          failed   \* a read has failed

vars == <<sent, got, closed, ended, failed>>

Init == sent = <<>> /\ got = <<>> /\ closed = FALSE /\ ended = FALSE
        /\ failed = FALSE

Send(b) == /\ ~closed /\ Len(sent) < MaxSent
           /\ sent' = Append(sent, b)
           /\ UNCHANGED <<got, closed, ended, failed>>

Close == /\ ~closed /\ closed' = TRUE
         /\ UNCHANGED <<sent, got, ended, failed>>

Receive == /\ ~failed /\ Len(got) < Len(sent)
           /\ got' = Append(got, sent[Len(got) + 1])
           /\ UNCHANGED <<sent, closed, ended, failed>>

End == /\ ~failed /\ closed /\ got = sent /\ ended' = TRUE
       /\ UNCHANGED <<sent, got, closed, failed>>

Fail == /\ failed' = TRUE
        /\ UNCHANGED <<sent, got, closed, ended>>

Next == (\E b \in Byte : Send(b)) \/ Close \/ Receive \/ End \/ Fail

\* A reader that keeps reading gets what there is, while no read fails.
Spec == Init /\ [][Next]_vars /\ WF_vars(Receive \/ End)
=============================================================================
