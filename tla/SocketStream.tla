---------------------------- MODULE SocketStream ----------------------------
(***************************************************************************)
(* basic_socket_iostream, istream and ostream: standard streams that hold  *)
(* a basic_socket_streambuf, which holds a socket, two vectors and the     *)
(* pointers of the get and put areas into them.  Every move is defaulted,  *)
(* so that what moves is decided by the standard library: the socket, by   *)
(* its own operations (Socket); the vectors, with their storage; the area  *)
(* pointers, by copy; the state of the stream; but never rdbuf().          *)
(***************************************************************************)
EXTENDS Socket

CONSTANTS Streams,    \* the objects that are streams; the others are sockets
          Storage,    \* memory that a pair of vectors may have
          NoStorage,
          Allocators  \* one for std::allocator, a value for each resource of pmr

ASSUME SocketStreamAssumption ==
    /\ Streams \subseteq Objects /\ NoStorage \notin Storage
    /\ Allocators # {}

VARIABLE strm  \* the members of each stream beside its socket

streamVars == <<sock, kernel, strm>>

\* buf: rdbuf() is streambuf_, or null; good: good(); store: the storage of
\* ibuf_ and obuf_; get, put: the storage that the areas point into; mixed (a
\* history): they, or those of a stream moved into this one, have come from a
\* stream of another resource.
Empty(a) == [buf |-> FALSE, good |-> FALSE, alloc |-> a, mixed |-> FALSE,
             store |-> NoStorage, get |-> NoStorage, put |-> NoStorage]

StreamsTyped ==
    LET Place == Storage \cup {NoStorage}
    IN /\ strm \in [Streams -> [buf : BOOLEAN, good : BOOLEAN, alloc : Allocators,
                                mixed : BOOLEAN, store : Place, get : Place, put : Place]]
       /\ \A s \in Streams : ~sock[s].live => strm[s] = Empty(strm[s].alloc)

StreamTypeOK == TypeOK /\ StreamsTyped

StreamInit == Init /\ strm \in [Streams -> {Empty(a) : a \in Allocators}]

Unowned == Storage \ {strm[s].store : s \in Streams}

-----------------------------------------------------------------------------
(* Construction.  A stream without a socket still constructs one, which    *)
(* opens a descriptor, and has no buffer: it is not good().                *)

Default(s) ==
    /\ Construct(s)
    /\ \E a \in Allocators : strm' = [strm EXCEPT ![s] = Empty(a)]

\* From a socket, or from a stream buffer that was made from one.
Fresh(a, m) == [Empty(a) EXCEPT !.buf = TRUE, !.good = TRUE, !.store = m]

FromSocket(s, o) ==
    /\ MoveConstruct(s, o)
    /\ \E a \in Allocators, m \in Unowned : strm' = [strm EXCEPT ![s] = Fresh(a, m)]

\* resize() throws once the socket has been moved in, which is closed.
FromSocketFails(s, o) == ~sock[s].live /\ Close(o) /\ UNCHANGED strm

\* ~basic_socket_iostream(): the vectors and the socket go, nothing is flushed.
MutGone(m) == [m EXCEPT !.buf = FALSE, !.good = FALSE]
Gone(m) == Empty(m.alloc)
StreamDestroy(s) == Destroy(s) /\ strm' = [strm EXCEPT ![s] = Gone(@)]

-----------------------------------------------------------------------------
(* Moves.                                                                  *)

\* The stream moved from: its areas still point where they did.
MutLeft(m) == m
Left(m) == [m EXCEPT !.store = NoStorage]

\* A constructor takes everything but rdbuf().
Constructed(from) == [from EXCEPT !.buf = FALSE]

StreamMoveConstruct(s, from) ==
    /\ MoveConstruct(s, from)
    /\ strm' = [strm EXCEPT ![s] = Constructed(strm[from]), ![from] = Left(@)]

\* The vectors of s after an assignment.  They take the storage of the others
\* if both have one allocator, and copy the elements if not.
CopiedTo(s, from) ==
    IF strm[s].store # NoStorage \/ strm[from].store = NoStorage
    THEN {strm[s].store} ELSE Unowned

\* An assignment swaps the states and keeps rdbuf().
Assigned(m, from) == [from EXCEPT !.buf = m.buf, !.alloc = m.alloc]
StateOf(m, n) == [n EXCEPT !.good = m.good]

\* Between two resources the elements are copied, and the area pointers too.
HasAreas(m) == {m.get, m.put} # {NoStorage}
Copied(m, from, to) ==
    [Assigned(m, from) EXCEPT !.store = to, !.mixed = from.mixed \/ HasAreas(from)]

StreamMoveAssign(s, from) ==
    /\ MoveAssign(s, from)
    /\ \/ /\ strm[s].alloc = strm[from].alloc
          /\ strm' = [strm EXCEPT ![s] = Assigned(@, strm[from]),
                                  ![from] = StateOf(strm[s], Left(@))]
       \/ /\ strm[s].alloc # strm[from].alloc
          /\ \E m \in CopiedTo(s, from) :
                strm' = [strm EXCEPT ![s] = Copied(@, strm[from], m),
                                     ![from] = StateOf(strm[s], @)]

-----------------------------------------------------------------------------
(* Use of a good stream that has a buffer, when the area is used up.  (One *)
(* that is good and has no buffer dereferences a null pointer.)  A read or *)
(* write that throws, an end of file, a vector without elements and, in    *)
(* the put area, a character that is eof() as an int end good(); the areas *)
(* are set again unless something was thrown.                              *)

CanTransfer(s) == sock[s].fd # NoFd /\ kernel[sock[s].fd].state = "connected"
Usable(s) == sock[s].live /\ strm[s].good /\ strm[s].buf

\* The stream after a transfer that returned, and after one that threw.
Filled(m, more) == [m EXCEPT !.get = m.store, !.good = more]
Flushed(m, more) == [m EXCEPT !.put = m.store, !.good = more]
Bad(m) == [m EXCEPT !.good = FALSE]

Underflow(s) ==
    /\ Usable(s)
    /\ \/ /\ CanTransfer(s)
          /\ \E more \in {FALSE, strm[s].store # NoStorage} :
                strm' = [strm EXCEPT ![s] = Filled(@, more)]
       \/ strm' = [strm EXCEPT ![s] = Bad(@)]
    /\ UNCHANGED vars

Sync(s) ==
    /\ Usable(s)
    /\ \/ /\ CanTransfer(s)
          /\ \E more \in {FALSE, strm[s].store # NoStorage} :
                strm' = [strm EXCEPT ![s] = Flushed(@, more)]
       \/ strm' = [strm EXCEPT ![s] = Bad(@)]
    /\ UNCHANGED vars

-----------------------------------------------------------------------------
\* Sockets, and what socket() gives access to in a stream.
SocketNext ==
    \/ \E o \in Objects \ Streams :
          \/ Construct(o) \/ Adopt(o) \/ Destroy(o)
          \/ \E p \in Ports : ServerSocket(o, p)
          \/ \E other \in Objects : MoveConstruct(o, other) \/ Accept(other, o)
    \/ \E o \in Objects :
          \/ Close(o)
          \/ \E p \in Ports : Listen(o, p)
          \/ \E h \in Hosts \cup Names, p \in Ports : Connect(o, h, p)
          \/ \E other \in Objects : MoveAssign(o, other)

StreamNext ==
    \/ \E s \in Streams :
          \/ Default(s) \/ StreamDestroy(s) \/ Underflow(s) \/ Sync(s)
          \/ \E o \in Objects \ Streams : FromSocket(s, o) \/ FromSocketFails(s, o)
          \/ \E from \in Streams : StreamMoveConstruct(s, from) \/ StreamMoveAssign(s, from)
    \/ SocketNext /\ UNCHANGED strm

StreamSpec == StreamInit /\ [][StreamNext]_streamVars

-----------------------------------------------------------------------------
(* What holds.                                                             *)

\* No two streams own one storage, and a stream that owns storage reads and
\* writes there, after any moves between streams of one resource: the copied
\* area pointers follow the vectors (socket_stream.hpp:151).  Between two
\* resources they do not (AreasAreOwn), and what a stream is left with that was
\* moved from, areas of the memory it gave away, is nobody's to use.
StorageIsOwn ==
    \A s \in Streams : strm[s].store # NoStorage =>
        /\ ~strm[s].mixed => {strm[s].get, strm[s].put} \subseteq {NoStorage, strm[s].store}
        /\ \A t \in Streams \ {s} : strm[t].store # strm[s].store

-----------------------------------------------------------------------------
(* What the documentation says and the code does not do.                   *)


\* socket_stream.hpp:106: "Allocator used to allocate the internal stream
\* buffer."  What a stream buffers is in its own vectors; but an assignment from
\* a stream of another memory resource leaves the areas in the memory of that
\* stream.  (request_processor.cpp:22 makes such an assignment, from a stream
\* that has not been used.)
AreasAreOwn ==
    \A s \in Streams : strm[s].store # NoStorage =>
        {strm[s].get, strm[s].put} \subseteq {NoStorage, strm[s].store}
=============================================================================
