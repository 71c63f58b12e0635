---------------------------- MODULE SocketInput ----------------------------
(***************************************************************************)
(* The get area of basic_socket_streambuf: a reader takes characters one   *)
(* by one, and underflow() refills the empty area with whatever one        *)
(* ::read() returns.                                                       *)
(***************************************************************************)
EXTENDS Naturals, Sequences, FiniteSetsExt

CONSTANTS Byte,      \* characters
          BufSize,   \* ibuf_.size(), 1024 in the code
          MaxSent    \* bound on what the peer sends

ASSUME SocketInputAssumption == BufSize \in Nat \ {0} /\ MaxSent \in Nat

VARIABLES ibuf,      \* eback() up to egptr()
          gpos,      \* gptr() - eback()
          wire,      \* received by the kernel and not read
          closed,    \* the peer has closed its side
          sent, got, ended, failed   \* as in ByteChannel

vars == <<ibuf, gpos, wire, closed, sent, got, ended, failed>>

TypeOK ==
    /\ ibuf \in Seq(Byte) /\ Len(ibuf) <= BufSize
    /\ gpos \in 0..Len(ibuf)
    /\ wire \in Seq(Byte) /\ sent \in Seq(Byte) /\ got \in Seq(Byte)
    /\ closed \in BOOLEAN /\ ended \in BOOLEAN /\ failed \in BOOLEAN

Init == /\ ibuf = <<>> /\ gpos = 0 /\ wire = <<>> /\ closed = FALSE
        /\ sent = <<>> /\ got = <<>> /\ ended = FALSE /\ failed = FALSE

\* The peer.
Send(b) == /\ ~closed /\ Len(sent) < MaxSent
           /\ sent' = Append(sent, b) /\ wire' = Append(wire, b)
           /\ UNCHANGED <<ibuf, gpos, closed, got, ended, failed>>

Close == /\ ~closed /\ closed' = TRUE
         /\ UNCHANGED <<ibuf, gpos, wire, sent, got, ended, failed>>

-----------------------------------------------------------------------------
\* underflow() when the area is empty.  ::read() returns between one byte and
\* a full buffer, waits while there is none, and returns 0 at the end.
MutRefill(n) == SubSeq(wire, 1, n - 1)
Refill(n) == SubSeq(wire, 1, n)
MutGpos(n) == gpos
Gpos(n) == 0

Underflow ==
    /\ gpos = Len(ibuf) /\ wire # <<>>
    /\ \E n \in 1..Min({BufSize, Len(wire)}) :
          /\ ibuf' = Refill(n)
          /\ gpos' = Gpos(n)
          /\ wire' = SubSeq(wire, n + 1, Len(wire))
    /\ UNCHANGED <<closed, sent, got, ended, failed>>

MutAtEnd == closed
AtEnd == closed /\ wire = <<>>

UnderflowEof ==
    /\ gpos = Len(ibuf) /\ AtEnd
    /\ ibuf' = <<>> /\ gpos' = 0 /\ ended' = TRUE
    /\ UNCHANGED <<wire, closed, sent, got, failed>>

\* ::read() returns -1, read() throws and the istream sets badbit: the area stays
\* empty and nothing more is read, whatever the kernel still holds.
UnderflowFails ==
    /\ ~failed /\ gpos = Len(ibuf)
    /\ failed' = TRUE
    /\ UNCHANGED <<ibuf, gpos, wire, closed, sent, got, ended>>

\* sbumpc() with a character at hand.
Get == /\ gpos < Len(ibuf)
       /\ got' = Append(got, ibuf[gpos + 1])
       /\ gpos' = gpos + 1
       /\ UNCHANGED <<ibuf, wire, closed, sent, ended, failed>>

Read == ~failed /\ (Underflow \/ UnderflowEof \/ Get)

Next == (\E b \in Byte : Send(b)) \/ Close \/ Read \/ UnderflowFails

\* The reader keeps reading: get() is called again whenever it has returned.
\* Nothing makes a read fail.
Spec == Init /\ [][Next]_vars /\ WF_vars(Read)

-----------------------------------------------------------------------------
Channel == INSTANCE ByteChannel

\* The reader gets what ByteChannel promises, through any split of the bytes
\* into reads and any size of the buffer, up to a read that fails.
ImplementsChannel == Channel!Spec

\* No byte is in two places or in none: what was sent is what the reader got,
\* what the get area still holds and what the kernel still holds.
NothingLost == sent = got \o SubSeq(ibuf, gpos + 1, Len(ibuf)) \o wire
=============================================================================
