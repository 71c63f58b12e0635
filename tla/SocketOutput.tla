---------------------------- MODULE SocketOutput ----------------------------
(***************************************************************************)
(* The put area of basic_socket_streambuf.  A writer puts characters;      *)
(* sputc() stores one while there is room and otherwise calls overflow(),  *)
(* and both overflow() and a flush call sync().                            *)
(***************************************************************************)
EXTENDS Naturals, Sequences

CONSTANTS Byte,      \* the characters written
          Ones,      \* 0xFF, which as a char equals Traits::eof()
          Zero,      \* the character that obuf_.resize() fills obuf_ with
          BufSize,   \* obuf_.size(), 1024 in the code
          MaxSyncs   \* bound on the exploration

ASSUME SocketOutputAssumption ==
    /\ Zero \notin Byte
    /\ BufSize \in Nat \ {0} /\ MaxSyncs \in Nat

VARIABLES obuf,       \* all of obuf_
          ppos, epos, \* pptr() and epptr(), counted from pbase(); the area is
                      \* empty until the first setp()
          delivered,  \* what the peer receives
          put,        \* the characters that sputc() reported as written
          syncs       \* calls of sync() so far

vars == <<obuf, ppos, epos, delivered, put, syncs>>

TypeOK ==
    /\ obuf \in [1..BufSize -> Byte \cup {Zero}]
    /\ epos \in 0..BufSize /\ ppos \in 0..epos
    /\ delivered \in Seq(Byte \cup {Zero}) /\ put \in Seq(Byte)
    /\ syncs \in 0..MaxSyncs

Init == /\ obuf = [i \in 1..BufSize |-> Zero]
        /\ ppos = 0 /\ epos = 0
        /\ delivered = <<>> /\ put = <<>> /\ syncs = 0

-----------------------------------------------------------------------------
\* sputc() with room in the area.
Store(c) ==
    /\ ppos < epos
    /\ obuf' = [obuf EXCEPT ![ppos + 1] = c]
    /\ ppos' = ppos + 1
    /\ put' = Append(put, c)
    /\ UNCHANGED <<epos, delivered, syncs>>

\* sync(): writes the whole of obuf_, used or not, and makes room for as many
\* characters as the kernel took; what it did not take is forgotten.
MutSent(n) == SubSeq(obuf, BufSize - n + 1, BufSize)
Sent(n) == SubSeq(obuf, 1, n)
MutPpos == ppos
Ppos == 0
Epos(n) == n
Sync(n) ==
    /\ syncs < MaxSyncs
    /\ delivered' = delivered \o Sent(n)
    /\ ppos' = Ppos /\ epos' = Epos(n)
    /\ syncs' = syncs + 1

\* overflow(c): the character is stored at pptr(), which does not move, so that
\* the next one takes its place, and is returned: Ones looks like a failure.
Overflow(c) ==
    /\ ppos = epos
    /\ \E n \in 1..BufSize : Sync(n)
    /\ obuf' = [obuf EXCEPT ![1] = c]
    /\ put' = IF c = Ones THEN put ELSE Append(put, c)

Flush == (\E n \in 1..BufSize : Sync(n)) /\ UNCHANGED <<obuf, put>>

Next == (\E c \in Byte : Store(c) \/ Overflow(c)) \/ Flush

Spec == Init /\ [][Next]_vars

-----------------------------------------------------------------------------
\* The last n characters that were put.
Latest(n) == SubSeq(put, Len(put) - n + 1, Len(put))

\* The put area holds the characters put last, in order.
AreaHoldsLatest == ppos <= Len(put) /\ SubSeq(obuf, 1, ppos) = Latest(ppos)

\* When the kernel takes at least the characters in the area, the peer gets
\* these, in order, before anything else.
SyncSendsArea ==
    [][Len(delivered') >= Len(delivered) + ppos /\ syncs' # syncs =>
         SubSeq(delivered', Len(delivered) + 1, Len(delivered) + ppos) = Latest(ppos)]_vars

\* socket_stream.hpp:93: "I/O stream for reading/writing to a socket."  The peer
\* should get a prefix of what was written.
PeerGetsWhatWasPut ==
    Len(delivered) <= Len(put) /\ delivered = SubSeq(put, 1, Len(delivered))
=============================================================================
