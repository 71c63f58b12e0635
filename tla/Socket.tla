------------------------------- MODULE Socket -------------------------------
(***************************************************************************)
(* cppws::socket objects and the descriptors they own.  An operation is    *)
(* one step, a listen() or connect() that fails half-way included; the     *)
(* kernel may refuse any system call.  Members keep their names without    *)
(* the trailing underscore.                                                *)
(***************************************************************************)
EXTENDS Integers, FiniteSets

CONSTANTS Objects,     \* C++ objects of class socket or server_socket
          Fds,         \* descriptors the process may have open
          Hosts,       \* numeric addresses, which inet_pton understands
          Names,       \* any other host string
          Ports,       \* the arguments callers pass as port
          Ephemeral,   \* the port the kernel picks
          Modulus,     \* 65536: htons() keeps the port modulo this
          LeftToRight  \* the orders in which a compiler evaluates the operands
                       \* of | in listen()

NoFd == -1
NoHost == ""

ASSUME SocketAssumption ==
    /\ Fds \subseteq Nat /\ IsFiniteSet(Fds)
    /\ Hosts \cap Names = {} /\ NoHost \notin Hosts \cup Names
    /\ Ports \subseteq Int /\ Modulus \in Nat \ {0}
    /\ Ephemeral \in 1..Modulus-1
    /\ LeftToRight \subseteq BOOLEAN

VARIABLES sock,    \* the members of each object, or Dead
          kernel   \* what each open descriptor is

vars == <<sock, kernel>>

Dead == [fd |-> NoFd, host |-> NoHost, port |-> -1, live |-> FALSE]
Blank == [Dead EXCEPT !.live = TRUE]

\* kernel[fd]: state of the descriptor, its local port, its peer (if any).
States == {"closed", "new", "bound", "listening", "connected"}
Closed == [state |-> "closed", port |-> 0, peer |-> NoHost]
New == [Closed EXCEPT !.state = "new"]
Peered(h) == [state |-> "connected", port |-> Ephemeral, peer |-> h]

TypeOK ==
    /\ sock \in [Objects -> [fd : Fds \cup {NoFd}, host : Hosts \cup Names \cup {NoHost},
                             port : Ports \cup {-1}, live : BOOLEAN]]
    /\ kernel \in [Fds -> [state : States, port : 0..Modulus-1,
                           peer : Hosts \cup {NoHost}]]

Init == sock = [o \in Objects |-> Dead] /\ kernel = [f \in Fds |-> Closed]

Open(f) == kernel[f].state # "closed"
\* The kernel gives out the lowest descriptor that is not in use.
Free(f) == ~Open(f) /\ \A g \in Fds : ~Open(g) => f <= g

Owned == {o \in Objects : sock[o].fd # NoFd}

-----------------------------------------------------------------------------
(* The system calls, on one descriptor k.                                  *)

PortOf(p) == IF p % Modulus = 0 THEN Ephemeral ELSE p % Modulus
CanBind(k) == k.state = "new"
Bind(k, p) == IF CanBind(k) THEN [k EXCEPT !.state = "bound", !.port = PortOf(p)] ELSE k

\* listen(2) on a socket without a port binds it to one of the kernel's choice.
CanListen(k) == k.state \in {"new", "bound", "listening"}
ListenOn(k) ==
    CASE k.state = "new" -> [k EXCEPT !.state = "listening", !.port = Ephemeral]
      [] k.state = "bound" -> [k EXCEPT !.state = "listening"]
      [] OTHER -> k

-----------------------------------------------------------------------------
(* listen(): what becomes of the descriptor and whether the calls succeed, *)
(* when the kernel refuses those in R.  A compiler that evaluates the      *)
(* operands of | from the left checks each result before the next call;    *)
(* from the right, it has made all three, the last one first.              *)

FromRight(k, p, R) ==
    LET k1 == IF "listen" \in R THEN k ELSE ListenOn(k)
    IN [fd |-> IF "bind" \in R THEN k1 ELSE Bind(k1, p),
        ok |-> R = {} /\ CanListen(k) /\ CanBind(k1)]

MutFromLeft(k, p, R) == FromRight(k, p, R)
FromLeft(k, p, R) ==
    IF "setsockopt" \in R \/ "bind" \in R \/ ~CanBind(k) THEN [fd |-> k, ok |-> FALSE]
    ELSE IF "listen" \in R THEN [fd |-> Bind(k, p), ok |-> FALSE]
    ELSE [fd |-> ListenOn(Bind(k, p)), ok |-> TRUE]

ListenResult(k, p, R, left) == IF left THEN FromLeft(k, p, R) ELSE FromRight(k, p, R)

MutListened(m, p, ok) == [m EXCEPT !.port = p]
Listened(m, p, ok) == IF ok THEN [m EXCEPT !.port = p] ELSE m

Listen(o, p) ==
    /\ sock[o].fd # NoFd
    /\ \E R \in SUBSET {"setsockopt", "bind", "listen"}, left \in LeftToRight :
          LET r == ListenResult(kernel[sock[o].fd], p, R, left)
          IN /\ kernel' = [kernel EXCEPT ![sock[o].fd] = r.fd]
             /\ sock' = [sock EXCEPT ![o] = Listened(@, p, r.ok)]

-----------------------------------------------------------------------------
(* Construction and destruction.                                           *)

Construct(o) ==
    /\ ~sock[o].live
    /\ \E f \in Fds : /\ Free(f)
                      /\ kernel' = [kernel EXCEPT ![f] = New]
                      /\ sock' = [sock EXCEPT ![o] = [Blank EXCEPT !.fd = f]]

\* socket(fd): takes the descriptor that the caller has opened, or none.  (What
\* a caller has made to listen with the system calls is left out.)
Adopt(o) ==
    /\ ~sock[o].live
    /\ \/ UNCHANGED kernel /\ sock' = [sock EXCEPT ![o] = Blank]
       \/ \E f \in Fds, k \in {New} \cup {Peered(h) : h \in Hosts} :
             /\ Free(f)
             /\ kernel' = [kernel EXCEPT ![f] = k]
             /\ sock' = [sock EXCEPT ![o] = [Blank EXCEPT !.fd = f]]

\* server_socket(port): if listen() throws, the base class closes the socket.
ServerSocket(o, p) ==
    /\ ~sock[o].live
    /\ \E f \in Fds, left \in LeftToRight :
          LET r == ListenResult(New, p, {}, left)
          IN /\ Free(f) /\ r.ok
             /\ kernel' = [kernel EXCEPT ![f] = r.fd]
             /\ sock' = [sock EXCEPT ![o] = [Blank EXCEPT !.fd = f, !.port = p]]

\* The kernel after object o has closed its descriptor, if it has one.
MutClosedBy(o) == kernel
ClosedBy(o) == [f \in Fds |-> IF f = sock[o].fd THEN Closed ELSE kernel[f]]

Close(o) ==
    /\ sock[o].fd # NoFd
    /\ kernel' = ClosedBy(o)
    /\ sock' = [sock EXCEPT ![o] = Blank]

Destroy(o) ==
    /\ sock[o].live
    /\ kernel' = ClosedBy(o)
    /\ sock' = [sock EXCEPT ![o] = Dead]

\* move(): the members of the object moved from.
MutMovedFrom(m) == [m EXCEPT !.fd = NoFd, !.host = NoHost]
MovedFrom(m) == [m EXCEPT !.fd = NoFd, !.host = NoHost, !.port = -1]

MoveTo(o, other) ==
    sock' = [sock EXCEPT ![o] = sock[other], ![other] = MovedFrom(@)]

MoveConstruct(o, other) ==
    /\ ~sock[o].live /\ sock[other].live
    /\ MoveTo(o, other)
    /\ UNCHANGED kernel

MoveAssign(o, other) ==
    /\ o # other /\ sock[o].live /\ sock[other].live
    /\ kernel' = ClosedBy(o)
    /\ MoveTo(o, other)

-----------------------------------------------------------------------------
(* Connections.                                                            *)

\* accept(): the caller gets a socket with neither host_ nor port_.
Accept(o, new) ==
    /\ sock[o].fd # NoFd /\ sock[o].port >= 0
    /\ ~sock[new].live
    /\ kernel[sock[o].fd].state = "listening"
    /\ \E f \in Fds, h \in Hosts :
          /\ Free(f)
          /\ kernel' = [kernel EXCEPT ![f] = [state |-> "connected", peer |-> h,
                                              port |-> kernel[sock[o].fd].port]]
          /\ sock' = [sock EXCEPT ![new] = [Blank EXCEPT !.fd = f]]

\* connect(): inet_pton returns 0, which check lets pass, for a host it does
\* not understand; the address is then whatever was in that memory.
Address(h) == IF h \in Hosts THEN {h} ELSE Hosts

\* The members once the connection is attempted: host_ and port_ are set after
\* the last call that can throw.
MutConnected(m, h, p, ok) == [m EXCEPT !.host = h, !.port = IF ok THEN p ELSE @]
Connected(m, h, p, ok) == IF ok THEN [m EXCEPT !.host = h, !.port = p] ELSE m

Connect(o, h, p) ==
    /\ sock[o].fd # NoFd /\ sock[o].port <= 0
    /\ \E ok \in BOOLEAN, peer \in Address(h) :
          LET k == kernel[sock[o].fd]
          IN /\ ok => k.state \in {"new", "bound"}
             /\ kernel' = IF ~ok THEN kernel
                          ELSE [kernel EXCEPT ![sock[o].fd] =
                                  [state |-> "connected", peer |-> peer,
                                   port |-> IF k.state = "new" THEN Ephemeral ELSE k.port]]
             /\ sock' = [sock EXCEPT ![o] = Connected(@, h, p, ok)]

-----------------------------------------------------------------------------
Next ==
    \E o \in Objects :
       \/ Construct(o) \/ Adopt(o) \/ Close(o) \/ Destroy(o)
       \/ \E p \in Ports : Listen(o, p) \/ ServerSocket(o, p)
       \/ \E h \in Hosts \cup Names, p \in Ports : Connect(o, h, p)
       \/ \E other \in Objects :
             MoveConstruct(o, other) \/ MoveAssign(o, other) \/ Accept(o, other)

Spec == Init /\ [][Next]_vars

-----------------------------------------------------------------------------
(* What holds.                                                             *)

\* Through moves, assignments and exceptions, an open descriptor has one owner,
\* which will close it, and nobody holds a descriptor that has been closed.
FdOwnership ==
    /\ \A o \in Owned : Open(sock[o].fd)
    /\ \A o, p \in Owned : sock[o].fd = sock[p].fd => o = p
    /\ \A f \in Fds : Open(f) => \E o \in Owned : sock[o].fd = f

\* An object that says it has a port listens or is connected: members are "set
\* here for exception safety" (socket.cpp:93), after every call that can throw,
\* and a socket moved from forgets them.
PortMeansUse ==
    \A o \in Objects : sock[o].port >= 0 =>
        /\ sock[o].fd # NoFd
        /\ kernel[sock[o].fd].state \in {"listening", "connected"}

\* An object that names a numeric host is connected to it.
HostIsPeer ==
    \A o \in Objects : sock[o].host \in Hosts =>
        sock[o].fd # NoFd /\ kernel[sock[o].fd].peer = sock[o].host

\* A socket listens only if listen() has returned, so that port_ says so
\* (socket.hpp:74: "Creates a new server socket that listens on the specified
\* port.").  This needs operands that are evaluated from the left: from the
\* right, the socket listens before bind() fails, on a port of the kernel's.
ListeningHasPort ==
    \A o \in Owned : kernel[sock[o].fd].state = "listening" => sock[o].port >= 0
=============================================================================
