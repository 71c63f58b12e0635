---------------------------- MODULE SocketProofs ----------------------------
(***************************************************************************)
(* The safety invariants of Socket hold for any number of objects and      *)
(* descriptors, any ports, and either order of evaluation in listen().     *)
(***************************************************************************)
EXTENDS SocketStream, TLAPS

(* Ownership is inductive only if a constructor is known to overwrite      *)
(* nothing: an object that does not live holds no descriptor.              *)
DeadHoldsNothing == \A o \in Objects : ~sock[o].live => sock[o] = Dead

IInv == /\ TypeOK
        /\ DeadHoldsNothing
        /\ FdOwnership
        /\ PortMeansUse
        /\ HostIsPeer

Descriptor == [state : States, port : 0..Modulus-1, peer : Hosts \cup {NoHost}]
Members == [fd : Fds \cup {NoFd}, host : Hosts \cup Names \cup {NoHost},
            port : Ports \cup {-1}, live : BOOLEAN]

-----------------------------------------------------------------------------
(* The port that htons() leaves is one of the kernel's.                    *)
LEMMA PortOfType == ASSUME NEW p \in Ports PROVE PortOf(p) \in 0..Modulus-1
  BY SocketAssumption DEF PortOf

(* What a call of listen() leaves behind: a descriptor that is in use      *)
(* remains so, and one on which the call succeeded listens.                *)
LEMMA ListenResultProperties ==
  ASSUME NEW k \in Descriptor, NEW p \in Ports, NEW R, NEW left \in BOOLEAN,
         k.state # "closed"
  PROVE  LET r == ListenResult(k, p, R, left)
         IN /\ r.fd \in Descriptor /\ r.ok \in BOOLEAN
            /\ r.fd.state # "closed" /\ r.fd.peer = k.peer
            /\ r.ok => r.fd.state = "listening"
            /\ k.state \in {"listening", "connected"} => r.fd.state = k.state
<1>1. Ephemeral \in 0..Modulus-1
  BY SocketAssumption
<1>2. PortOf(p) \in 0..Modulus-1
  BY PortOfType
<1>3. ASSUME NEW j \in Descriptor, j.state # "closed"
      PROVE  /\ Bind(j, p) \in Descriptor /\ Bind(j, p).state # "closed"
             /\ Bind(j, p).peer = j.peer
             /\ CanBind(j) => Bind(j, p).state = "bound"
             /\ ~CanBind(j) => Bind(j, p) = j
  BY <1>2, <1>3 DEF Bind, CanBind, Descriptor, States
<1>4. ASSUME NEW j \in Descriptor, j.state # "closed"
      PROVE  /\ ListenOn(j) \in Descriptor /\ ListenOn(j).state # "closed"
             /\ ListenOn(j).peer = j.peer
             /\ CanListen(j) => ListenOn(j).state = "listening"
             /\ j.state = "connected" => ListenOn(j) = j
  BY <1>1, <1>4 DEF ListenOn, CanListen, Descriptor, States
<1>5. CASE left
  BY <1>3, <1>4, <1>5 DEF ListenResult, FromLeft, CanBind, CanListen
<1>6. CASE ~left
  BY <1>3, <1>4, <1>6 DEF ListenResult, FromRight, CanBind, CanListen
<1>7. QED
  BY <1>5, <1>6

-----------------------------------------------------------------------------
(* The initial states satisfy the inductive invariant.                     *)
LEMMA InitInv == Init => IInv
  BY SocketAssumption
  DEF Init, IInv, TypeOK, DeadHoldsNothing, FdOwnership, PortMeansUse, HostIsPeer,
      Owned, Open, Dead, NoFd, Closed, States

(* What the types say, once and for all.                                   *)
LEMMA Types ==
  /\ IInv => sock \in [Objects -> Members] /\ kernel \in [Fds -> Descriptor]
  /\ TypeOK' <=> sock' \in [Objects -> Members] /\ kernel' \in [Fds -> Descriptor]
  /\ \A m \in Members : m.fd \in Fds \cup {NoFd}
  /\ NoFd \notin Fds /\ ~(-1 >= 0) /\ NoHost \notin Hosts
<1>1. IInv => sock \in [Objects -> Members] /\ kernel \in [Fds -> Descriptor]
  BY DEF IInv, TypeOK, Members, Descriptor
<1>2. TypeOK' <=> sock' \in [Objects -> Members] /\ kernel' \in [Fds -> Descriptor]
  BY DEF TypeOK, Members, Descriptor
<1>3. \A m \in Members : m.fd \in Fds \cup {NoFd}
  BY DEF Members
<1>4. NoFd \notin Fds /\ ~(-1 >= 0) /\ NoHost \notin Hosts
  BY SocketAssumption DEF NoFd
<1>5. QED
  BY <1>1, <1>2, <1>3, <1>4

LEMMA Initials ==
  /\ Dead \in Members /\ Dead.fd = NoFd /\ Dead.port = -1 /\ Dead.host = NoHost
  /\ Blank \in Members /\ Blank.fd = NoFd /\ Blank.port = -1 /\ Blank.host = NoHost /\ Blank.live
  /\ New \in Descriptor /\ New.state = "new"
  /\ Closed \in Descriptor /\ Closed.state = "closed"
  /\ \A h \in Hosts : Peered(h) \in Descriptor /\ Peered(h).state = "connected"
<1>1. 0 \in 0..Modulus-1
  BY SocketAssumption
<1>2. /\ Dead \in Members /\ Dead.fd = NoFd /\ Dead.port = -1 /\ Dead.host = NoHost
  BY DEF Dead, Members
<1>3. Blank \in Members /\ Blank.fd = NoFd /\ Blank.port = -1 /\ Blank.host = NoHost /\ Blank.live
  BY DEF Dead, Blank, Members
<1>4. Closed \in Descriptor /\ Closed.state = "closed"
  BY <1>1 DEF Closed, Descriptor, States
<1>5. New \in Descriptor /\ New.state = "new"
  BY <1>1 DEF Closed, New, Descriptor, States
<1>6. \A h \in Hosts : Peered(h) \in Descriptor /\ Peered(h).state = "connected"
  BY SocketAssumption DEF Peered, Descriptor, States
<1>7. QED
  BY <1>2, <1>3, <1>4, <1>5, <1>6

(* A step that changes one object and one descriptor, which is the one the *)
(* object owns or a closed one, and leaves these two consistent.           *)
LEMMA LocalStep ==
  ASSUME IInv,
         NEW o \in Objects, NEW m \in Members, NEW f \in Fds, NEW k \in Descriptor,
         sock' = [sock EXCEPT ![o] = m], kernel' = [kernel EXCEPT ![f] = k],
         sock[o].fd = f \/ (sock[o].fd = NoFd /\ ~Open(f)),
         m.fd \in {f, NoFd}, k.state # "closed" <=> m.fd = f,
         ~m.live => m = Dead,
         m.port >= 0 => m.fd = f /\ k.state \in {"listening", "connected"},
         m.host \in Hosts => m.fd = f /\ k.peer = m.host
  PROVE  IInv'
<1>1. sock \in [Objects -> Members] /\ kernel \in [Fds -> Descriptor]
  BY Types
<1>2. TypeOK'
  BY <1>1, Types
<1>3. /\ \A u \in Objects : sock'[u] = IF u = o THEN m ELSE sock[u]
      /\ \A g \in Fds : kernel'[g] = IF g = f THEN k ELSE kernel[g]
  BY <1>1
<1>4. \A u \in Objects : sock[u].fd \in Fds \cup {NoFd}
  BY <1>1, Types
<1>5. \A u \in Objects \ {o} : sock[u].fd # f
  BY <1>4, Types DEF IInv, FdOwnership, Owned
<1>6. DeadHoldsNothing'
  BY <1>3 DEF IInv, DeadHoldsNothing
<1>7. FdOwnership'
  <2>1. \A u \in Owned' : Open(sock[u].fd)'
    BY <1>3, <1>4, <1>5, Types DEF IInv, FdOwnership, Owned, Open
  <2>2. \A u, v \in Owned' : sock'[u].fd = sock'[v].fd => u = v
    BY <1>3, <1>4, <1>5, Types DEF IInv, FdOwnership, Owned, Open
  <2>3. ASSUME NEW g \in Fds, Open(g)' PROVE \E u \in Owned' : sock'[u].fd = g
    BY <1>3, <1>4, <1>5, <2>3, Types DEF IInv, FdOwnership, Owned, Open
  <2>4. QED
    BY <2>1, <2>2, <2>3 DEF FdOwnership
<1>8. PortMeansUse' /\ HostIsPeer'
  BY <1>3, <1>4, <1>5, Types DEF IInv, PortMeansUse, HostIsPeer
<1>9. QED
  BY <1>2, <1>6, <1>7, <1>8 DEF IInv

(* The members of one object move to another, whose descriptor is closed.  *)
LEMMA MoveStep ==
  ASSUME IInv, NEW o \in Objects, NEW other \in Objects, o # other,
         sock[other].live, MoveTo(o, other), kernel' = ClosedBy(o)
  PROVE  IInv'
<1> DEFINE m == sock[other]  n == MovedFrom(m)
<1>1. sock \in [Objects -> Members] /\ kernel \in [Fds -> Descriptor]
  BY Types
<1>2. n \in Members /\ n.fd = NoFd /\ n.port = -1 /\ n.host = NoHost /\ n.live
  BY <1>1 DEF MovedFrom, Members
<1> HIDE DEF n
<1>3. sock' = [sock EXCEPT ![o] = m, ![other] = n]
  BY DEF MoveTo, n
<1>4. TypeOK'
  BY <1>1, <1>2, <1>3, Types, Initials DEF ClosedBy
<1>5. /\ \A u \in Objects : sock'[u] = IF u = o THEN m ELSE IF u = other THEN n ELSE sock[u]
      /\ \A g \in Fds : kernel'[g] = IF g = sock[o].fd THEN Closed ELSE kernel[g]
  BY <1>1, <1>3 DEF ClosedBy
<1>6. \A u \in Objects : sock[u].fd \in Fds \cup {NoFd}
  BY <1>1, Types
<1>7. \A u, v \in Objects : sock[u].fd = sock[v].fd /\ sock[u].fd # NoFd => u = v
  BY DEF IInv, FdOwnership, Owned
<1>8. DeadHoldsNothing'
  BY <1>2, <1>5 DEF IInv, DeadHoldsNothing
<1>9. FdOwnership'
  BY <1>2, <1>5, <1>6, <1>7, Types, Initials DEF IInv, FdOwnership, Owned, Open
<1>10. PortMeansUse' /\ HostIsPeer'
  BY <1>2, <1>5, <1>6, <1>7, Types DEF IInv, PortMeansUse, HostIsPeer
<1>11. QED
  BY <1>4, <1>8, <1>9, <1>10 DEF IInv

(* Every operation preserves the invariant.                                *)
LEMMA NextInv == IInv /\ [Next]_vars => IInv'
<1> SUFFICES ASSUME IInv, [Next]_vars PROVE IInv'
  OBVIOUS
<1>0. /\ sock \in [Objects -> Members] /\ kernel \in [Fds -> Descriptor]
      /\ \A u \in Objects : sock[u].fd \in Fds \cup {NoFd}
  BY Types
<1>1. ASSUME NEW o \in Objects, ~sock[o].live,
             NEW f \in Fds, Free(f), NEW k \in Descriptor, k.state # "closed",
             kernel' = [kernel EXCEPT ![f] = k],
             sock' = [sock EXCEPT ![o] = [Blank EXCEPT !.fd = f]]
      PROVE  IInv'
  <2> DEFINE m == [Blank EXCEPT !.fd = f]
  <2>2. m \in Members /\ m.fd = f /\ m.live /\ ~(m.port >= 0) /\ m.host \notin Hosts
    BY Types DEF Blank, Dead, Members
  <2>3. sock[o].fd = NoFd
    BY <1>1, Initials DEF IInv, DeadHoldsNothing
  <2>4. sock' = [sock EXCEPT ![o] = m] /\ ~Open(f)
    BY <1>1 DEF Free
  <2> HIDE DEF m
  <2>5. QED
    BY <1>1, <2>2, <2>3, <2>4, LocalStep
<1>2. ASSUME NEW o \in Objects, NEW m \in {Blank, Dead}, sock[o].fd # NoFd,
             kernel' = ClosedBy(o), sock' = [sock EXCEPT ![o] = m]
      PROVE  IInv'
  <2>1. kernel' = [kernel EXCEPT ![sock[o].fd] = Closed]
    BY <1>0, <1>2 DEF ClosedBy
  <2>2. sock[o].fd \in Fds
    BY <1>0, <1>2
  <2>3. /\ m \in Members /\ m.fd = NoFd /\ (m.live \/ m = Dead)
        /\ ~(m.port >= 0) /\ m.host \notin Hosts
    BY <1>2, Initials, Types
  <2>4. Closed.state # "closed" <=> m.fd = sock[o].fd
    BY <1>2, <2>3, Initials
  <2>5. QED
    BY <1>2, <2>1, <2>2, <2>3, <2>4, LocalStep, Initials
<1>3. ASSUME NEW o \in Objects, NEW m \in {Blank, Dead}, sock[o].fd = NoFd,
             kernel' = kernel, sock' = [sock EXCEPT ![o] = m]
      PROVE  IInv'
  <2>1. /\ kernel' = kernel
        /\ \A u \in Objects : sock'[u] = IF u = o THEN m ELSE sock[u]
    BY <1>0, <1>3
  <2>2. TypeOK'
    BY <1>0, <1>3, <2>1, Types, Initials
  <2>3. QED
    BY <1>3, <2>1, <2>2, Initials, Types
    DEF IInv, DeadHoldsNothing, FdOwnership, Owned, Open, PortMeansUse, HostIsPeer
<1>4. ASSUME NEW o \in Objects, NEW p \in Ports, Listen(o, p)
      PROVE  IInv'
  <2> DEFINE f == sock[o].fd
  <2>1. PICK R \in SUBSET {"setsockopt", "bind", "listen"}, left \in LeftToRight :
           LET r == ListenResult(kernel[f], p, R, left)
           IN /\ kernel' = [kernel EXCEPT ![f] = r.fd]
              /\ sock' = [sock EXCEPT ![o] = Listened(@, p, r.ok)]
    BY <1>4 DEF Listen
  <2> DEFINE r == ListenResult(kernel[f], p, R, left)
             m == Listened(sock[o], p, r.ok)
  <2>2. f \in Fds /\ kernel[f] \in Descriptor /\ kernel[f].state # "closed"
    BY <1>0, <1>4 DEF Listen, IInv, FdOwnership, Owned, Open
  <2>3. /\ r.fd \in Descriptor /\ r.ok \in BOOLEAN
        /\ r.fd.state # "closed" /\ r.fd.peer = kernel[f].peer
        /\ r.ok => r.fd.state = "listening"
        /\ kernel[f].state \in {"listening", "connected"} => r.fd.state = kernel[f].state
    BY <2>2, ListenResultProperties, SocketAssumption
  <2>4. kernel' = [kernel EXCEPT ![f] = r.fd] /\ sock' = [sock EXCEPT ![o] = m]
    BY <2>1
  <2> HIDE DEF r
  <2>5. /\ m \in Members /\ m.fd = f /\ m.live = sock[o].live /\ m.host = sock[o].host
        /\ r.ok \/ m.port = sock[o].port
    BY <1>0, <2>3 DEF Listened, Members
  <2> HIDE DEF m
  <2>6. m.live /\ f # NoFd
    BY <2>2, <2>5, Initials, Types DEF IInv, DeadHoldsNothing
  <2>7. m.port >= 0 => r.fd.state \in {"listening", "connected"}
    BY <2>3, <2>5 DEF IInv, PortMeansUse
  <2>8. m.host \in Hosts => r.fd.peer = m.host
    BY <2>3, <2>5 DEF IInv, HostIsPeer
  <2>9. QED
    BY <2>2, <2>3, <2>4, <2>5, <2>6, <2>7, <2>8, LocalStep
<1>5. ASSUME NEW o \in Objects, NEW p \in Ports, ServerSocket(o, p)
      PROVE  IInv'
  <2>1. PICK f \in Fds, left \in LeftToRight :
           LET r == ListenResult(New, p, {}, left)
           IN /\ ~Open(f) /\ r.ok
              /\ kernel' = [kernel EXCEPT ![f] = r.fd]
              /\ sock' = [sock EXCEPT ![o] = [Blank EXCEPT !.fd = f, !.port = p]]
    BY <1>5 DEF ServerSocket, Free
  <2> DEFINE k == ListenResult(New, p, {}, left).fd
             m == [Blank EXCEPT !.fd = f, !.port = p]
  <2>2. k \in Descriptor /\ k.state = "listening"
    BY <2>1, ListenResultProperties, Initials, SocketAssumption
  <2>3. m \in Members /\ m.fd = f /\ m.live /\ m.host = NoHost
    BY DEF Blank, Dead, Members
  <2>4. sock[o].fd = NoFd
    BY <1>5, Initials DEF ServerSocket, IInv, DeadHoldsNothing
  <2>5. kernel' = [kernel EXCEPT ![f] = k] /\ sock' = [sock EXCEPT ![o] = m] /\ ~Open(f)
    BY <2>1
  <2> HIDE DEF m, k
  <2>6. QED
    BY <2>2, <2>3, <2>4, <2>5, LocalStep, Types
<1>6. ASSUME NEW o \in Objects, NEW h \in Hosts \cup Names, NEW p \in Ports, Connect(o, h, p)
      PROVE  IInv'
  <2> DEFINE f == sock[o].fd
  <2>1. PICK ok \in BOOLEAN, peer \in Address(h) :
          LET k == kernel[f]
          IN /\ ok => k.state \in {"new", "bound"}
             /\ kernel' = IF ~ok THEN kernel
                          ELSE [kernel EXCEPT ![f] =
                                  [state |-> "connected", peer |-> peer,
                                   port |-> IF k.state = "new" THEN Ephemeral ELSE k.port]]
             /\ sock' = [sock EXCEPT ![o] = Connected(@, h, p, ok)]
    BY <1>6 DEF Connect
  <2>2. f \in Fds /\ kernel[f] \in Descriptor
    BY <1>0, <1>6 DEF Connect
  <2>3. CASE ~ok
    BY <1>0, <2>1, <2>3 DEF Connected, IInv, TypeOK, DeadHoldsNothing, FdOwnership,
       Owned, Open, PortMeansUse, HostIsPeer
  <2>4. CASE ok
    <3> DEFINE k == [state |-> "connected", peer |-> peer,
                     port |-> IF kernel[f].state = "new" THEN Ephemeral ELSE kernel[f].port]
               m == [sock[o] EXCEPT !.host = h, !.port = p]
    <3>1. k \in Descriptor /\ k.state = "connected" /\ k.peer = peer
      BY <2>2, SocketAssumption DEF Descriptor, States, Address
    <3>2. m \in Members /\ m.fd = f /\ m.host = h /\ m.live = sock[o].live
      BY <1>0 DEF Members
    <3>3. kernel' = [kernel EXCEPT ![f] = k] /\ sock' = [sock EXCEPT ![o] = m]
      BY <2>1, <2>4 DEF Connected
    <3>4. h \in Hosts => peer = h
      BY DEF Address
    <3> HIDE DEF m, k
    <3>5. m.live
      BY <2>2, <3>2, Initials, Types DEF IInv, DeadHoldsNothing
    <3>6. QED
      BY <2>2, <3>1, <3>2, <3>3, <3>4, <3>5, LocalStep, Types
  <2>5. QED
    BY <2>3, <2>4
<1>7. ASSUME NEW o \in Objects, NEW other \in Objects, MoveConstruct(o, other)
      PROVE  IInv'
  <2>1. sock[o].fd = NoFd
    BY <1>7, Initials DEF MoveConstruct, IInv, DeadHoldsNothing
  <2>2. kernel' = ClosedBy(o)
    BY <1>0, <1>7, <2>1, Types DEF MoveConstruct, ClosedBy
  <2>3. QED
    BY <1>7, <2>2, MoveStep DEF MoveConstruct
<1>8. ASSUME NEW o \in Objects, NEW other \in Objects, MoveAssign(o, other)
      PROVE  IInv'
  BY <1>8, MoveStep DEF MoveAssign
<1>9. ASSUME NEW o \in Objects, NEW new \in Objects, Accept(o, new)
      PROVE  IInv'
  <2>1. PICK f \in Fds, h \in Hosts :
          /\ ~Open(f)
          /\ kernel' = [kernel EXCEPT ![f] = [state |-> "connected", peer |-> h,
                                              port |-> kernel[sock[o].fd].port]]
          /\ sock' = [sock EXCEPT ![new] = [Blank EXCEPT !.fd = f]]
    BY <1>9 DEF Accept, Free
  <2> DEFINE k == [state |-> "connected", peer |-> h, port |-> kernel[sock[o].fd].port]
             m == [Blank EXCEPT !.fd = f]
  <2>2. sock[o].fd \in Fds /\ kernel[sock[o].fd] \in Descriptor
    BY <1>0, <1>9 DEF Accept
  <2>3. k \in Descriptor /\ k.state = "connected"
    BY <2>2 DEF Descriptor, States
  <2>4. m \in Members /\ m.fd = f /\ m.live /\ ~(m.port >= 0) /\ m.host \notin Hosts
    BY Types DEF Blank, Dead, Members
  <2>5. sock[new].fd = NoFd
    BY <1>9, Initials DEF Accept, IInv, DeadHoldsNothing
  <2>6. kernel' = [kernel EXCEPT ![f] = k] /\ sock' = [sock EXCEPT ![new] = m] /\ ~Open(f)
    BY <2>1
  <2> HIDE DEF k, m
  <2>7. QED
    BY <2>3, <2>4, <2>5, <2>6, LocalStep
<1>10. CASE UNCHANGED vars
  BY <1>10 DEF vars, IInv, TypeOK, DeadHoldsNothing, FdOwnership, Owned, Open,
     PortMeansUse, HostIsPeer
<1>11. ASSUME NEW o \in Objects, Construct(o) PROVE IInv'
  BY <1>1, <1>11, Initials DEF Construct
<1>12. ASSUME NEW o \in Objects, Adopt(o) PROVE IInv'
  <2>1. CASE UNCHANGED kernel /\ sock' = [sock EXCEPT ![o] = Blank]
    BY <1>3, <1>12, <2>1, Initials DEF Adopt, IInv, DeadHoldsNothing
  <2>2. CASE \E f \in Fds, k \in {New} \cup {Peered(h) : h \in Hosts} :
               /\ Free(f)
               /\ kernel' = [kernel EXCEPT ![f] = k]
               /\ sock' = [sock EXCEPT ![o] = [Blank EXCEPT !.fd = f]]
    <3>1. \A k \in {New} \cup {Peered(h) : h \in Hosts} :
             k \in Descriptor /\ k.state # "closed"
      BY Initials
    <3>2. QED
      BY <1>1, <1>12, <2>2, <3>1 DEF Adopt
  <2>3. QED
    BY <1>12, <2>1, <2>2 DEF Adopt
<1>13. ASSUME NEW o \in Objects, Destroy(o) PROVE IInv'
  <2>1. sock[o].fd = NoFd => kernel' = kernel
    BY <1>0, <1>13, Types DEF Destroy, ClosedBy
  <2>2. QED
    BY <1>2, <1>3, <1>13, <2>1 DEF Destroy
<1>14. QED
  BY <1>2, <1>4, <1>5, <1>6, <1>7, <1>8, <1>9, <1>10, <1>11, <1>12, <1>13
  DEF Next, Close

-----------------------------------------------------------------------------
(* The inductive invariant holds in every reachable state.                 *)
THEOREM Invariant == Spec => []IInv
<1>1. QED
  BY InitInv, NextInv, PTL DEF Spec

(* Objects and descriptors keep their types; a port in use fits htons().   *)
THEOREM TypeCorrect == Spec => []TypeOK
<1>1. IInv => TypeOK
  BY DEF IInv
<1>2. QED
  BY <1>1, Invariant, PTL

(* Moves, assignments, failures and destruction leave every open           *)
(* descriptor with exactly one owner, and no object with a closed one.     *)
THEOREM OneOwner == Spec => []FdOwnership
<1>1. IInv => FdOwnership
  BY DEF IInv
<1>2. QED
  BY <1>1, Invariant, PTL

(* An object with a port listens or is connected, whatever call failed.    *)
THEOREM PortsAreInUse == Spec => []PortMeansUse
<1>1. IInv => PortMeansUse
  BY DEF IInv
<1>2. QED
  BY <1>1, Invariant, PTL

(* An object that names a numeric host is connected to that host.          *)
THEOREM HostsArePeers == Spec => []HostIsPeer
<1>1. IInv => HostIsPeer
  BY DEF IInv
<1>2. QED
  BY <1>1, Invariant, PTL

-----------------------------------------------------------------------------
(* Operands that are evaluated from the left.                              *)

\* A compiler of this kind, and callers that pass ports.
FromTheLeft == LeftToRight \subseteq {TRUE} /\ Ports \subseteq Nat

(* Evaluated from the left, a call of listen() that fails does not leave a *)
(* descriptor listening that was not before.                               *)
LEMMA FailedListenIsQuiet ==
  ASSUME NEW k \in Descriptor, NEW p \in Ports, NEW R,
         ListenResult(k, p, R, TRUE).fd.state = "listening"
  PROVE  ListenResult(k, p, R, TRUE).ok \/ k.state = "listening"
<1>1. CanBind(k) => Bind(k, p).state = "bound"
  BY DEF CanBind, Bind, Descriptor
<1>2. QED
  BY <1>1 DEF ListenResult, FromLeft

(* Each operation keeps ListeningHasPort: an object that is not touched    *)
(* keeps its descriptor, which nobody else owns, and its port.             *)
LEMMA ListeningStep ==
  ASSUME FromTheLeft, IInv, ListeningHasPort, [Next]_vars PROVE ListeningHasPort'
<1>0. /\ sock \in [Objects -> Members] /\ kernel \in [Fds -> Descriptor]
      /\ \A u \in Objects : sock[u].fd \in Fds \cup {NoFd}
  BY Types
<1>1. /\ \A u, v \in Objects : sock[u].fd = sock[v].fd /\ sock[u].fd # NoFd => u = v
      /\ \A u \in Objects : sock[u].fd # NoFd => Open(sock[u].fd)
      /\ \A u \in Objects : sock[u].fd # NoFd /\ kernel[sock[u].fd].state = "listening"
                            => sock[u].port >= 0
  BY DEF IInv, FdOwnership, Owned, ListeningHasPort
<1>2. ASSUME NEW o \in Objects, NEW m, NEW f \in Fds, NEW k,
             sock' = [sock EXCEPT ![o] = m], kernel' = [kernel EXCEPT ![f] = k],
             sock[o].fd = f \/ ~Open(f),
             m.fd \in {f, NoFd},
             m.fd = f /\ k.state = "listening" => m.port >= 0
      PROVE  ListeningHasPort'
  <2>1. \A u \in Objects : sock'[u] = IF u = o THEN m ELSE sock[u]
    BY <1>0, <1>2
  <2>2. \A g \in Fds : kernel'[g] = IF g = f THEN k ELSE kernel[g]
    BY <1>0, <1>2
  <2>3. \A u \in Objects \ {o} : sock[u].fd # f
    BY <1>1, <1>2, Types
  <2>4. QED
    BY <1>0, <1>1, <1>2, <2>1, <2>2, <2>3 DEF ListeningHasPort, Owned
<1>3. ASSUME NEW o \in Objects, Construct(o) PROVE ListeningHasPort'
  <2>1. PICK f \in Fds : /\ Free(f) /\ kernel' = [kernel EXCEPT ![f] = New]
                         /\ sock' = [sock EXCEPT ![o] = [Blank EXCEPT !.fd = f]]
    BY <1>3 DEF Construct
  <2>2. [Blank EXCEPT !.fd = f].fd = f
    BY DEF Blank, Dead
  <2>3. QED
    BY <1>2, <2>1, <2>2, Initials DEF Free
<1>4. ASSUME NEW o \in Objects, NEW m \in {Blank, Dead},
             kernel' = ClosedBy(o), sock' = [sock EXCEPT ![o] = m]
      PROVE  ListeningHasPort'
  <2>1. \A u \in Objects : sock'[u] = IF u = o THEN m ELSE sock[u]
    BY <1>0, <1>4
  <2>2. \A g \in Fds : kernel'[g] = IF g = sock[o].fd THEN Closed ELSE kernel[g]
    BY <1>4 DEF ClosedBy
  <2>3. m.fd = NoFd
    BY <1>4, Initials
  <2>4. QED
    BY <1>0, <1>1, <2>1, <2>2, <2>3, Initials DEF ListeningHasPort, Owned
<1>5. ASSUME NEW o \in Objects, NEW p \in Ports, Listen(o, p) PROVE ListeningHasPort'
  <2> DEFINE f == sock[o].fd
  <2>1. PICK R \in SUBSET {"setsockopt", "bind", "listen"}, left \in LeftToRight :
           LET r == ListenResult(kernel[f], p, R, left)
           IN /\ kernel' = [kernel EXCEPT ![f] = r.fd]
              /\ sock' = [sock EXCEPT ![o] = Listened(@, p, r.ok)]
    BY <1>5 DEF Listen
  <2> DEFINE r == ListenResult(kernel[f], p, R, TRUE)
             m == Listened(sock[o], p, r.ok)
  <2>2. left = TRUE /\ p \in Nat
    BY DEF FromTheLeft
  <2>3. kernel' = [kernel EXCEPT ![f] = r.fd] /\ sock' = [sock EXCEPT ![o] = m]
    BY <1>0, <2>1, <2>2
  <2>4. f # NoFd /\ f \in Fds /\ kernel[f] \in Descriptor
    BY <1>0, <1>5 DEF Listen
  <2>5. r.fd.state = "listening" => r.ok \/ kernel[f].state = "listening"
    BY <2>4, FailedListenIsQuiet
  <2> HIDE DEF r
  <2>6. m.fd = f /\ m.port = IF r.ok THEN p ELSE sock[o].port
    BY <1>0 DEF Listened, Members
  <2> HIDE DEF m
  <2>7. r.fd.state = "listening" => m.port >= 0
    BY <1>1, <2>2, <2>4, <2>5, <2>6
  <2>8. QED
    BY <1>2, <2>3, <2>4, <2>6, <2>7
<1>6. ASSUME NEW o \in Objects, NEW p \in Ports, ServerSocket(o, p) PROVE ListeningHasPort'
  <2>1. PICK f \in Fds, left \in LeftToRight :
           LET r == ListenResult(New, p, {}, left)
           IN /\ Free(f) /\ r.ok
              /\ kernel' = [kernel EXCEPT ![f] = r.fd]
              /\ sock' = [sock EXCEPT ![o] = [Blank EXCEPT !.fd = f, !.port = p]]
    BY <1>6 DEF ServerSocket
  <2> DEFINE m == [Blank EXCEPT !.fd = f, !.port = p]
             k == ListenResult(New, p, {}, left).fd
  <2>2. m.fd = f /\ m.port = p /\ p >= 0
    BY DEF Blank, Dead, FromTheLeft
  <2>3. kernel' = [kernel EXCEPT ![f] = k] /\ sock' = [sock EXCEPT ![o] = m] /\ ~Open(f)
    BY <2>1 DEF Free
  <2> HIDE DEF m, k
  <2>4. QED
    BY <1>2, <2>2, <2>3
<1>7. ASSUME NEW o \in Objects, NEW h \in Hosts \cup Names, NEW p \in Ports, Connect(o, h, p)
      PROVE  ListeningHasPort'
  <2> DEFINE f == sock[o].fd
  <2>1. PICK ok \in BOOLEAN, peer \in Address(h) :
          LET k == kernel[f]
          IN /\ ok => k.state \in {"new", "bound"}
             /\ kernel' = IF ~ok THEN kernel
                          ELSE [kernel EXCEPT ![f] =
                                  [state |-> "connected", peer |-> peer,
                                   port |-> IF k.state = "new" THEN Ephemeral ELSE k.port]]
             /\ sock' = [sock EXCEPT ![o] = Connected(@, h, p, ok)]
    BY <1>7 DEF Connect
  <2>2. f \in Fds /\ f # NoFd
    BY <1>0, <1>7 DEF Connect
  <2>3. CASE ~ok
    BY <1>0, <1>1, <2>1, <2>3 DEF Connected, ListeningHasPort, Owned
  <2>4. CASE ok
    <3> DEFINE k == [state |-> "connected", peer |-> peer,
                     port |-> IF kernel[f].state = "new" THEN Ephemeral ELSE kernel[f].port]
               m == [sock[o] EXCEPT !.host = h, !.port = p]
    <3>1. k.state # "listening" /\ m.fd = f
      BY <1>0 DEF Members
    <3>2. kernel' = [kernel EXCEPT ![f] = k] /\ sock' = [sock EXCEPT ![o] = m]
      BY <2>1, <2>4 DEF Connected
    <3> HIDE DEF k, m
    <3>3. QED
      BY <1>2, <2>2, <3>1, <3>2
  <2>5. QED
    BY <2>3, <2>4
<1>8. ASSUME NEW o \in Objects, NEW other \in Objects, o # other,
             MoveTo(o, other), kernel' = ClosedBy(o)
      PROVE  ListeningHasPort'
  <2> DEFINE m == sock[other]  n == MovedFrom(m)
  <2>1. n.fd = NoFd
    BY <1>0 DEF MovedFrom, Members
  <2> HIDE DEF n
  <2>2. sock' = [sock EXCEPT ![o] = m, ![other] = n]
    BY <1>8 DEF MoveTo, n
  <2>3. \A u \in Objects : sock'[u] = IF u = o THEN m ELSE IF u = other THEN n ELSE sock[u]
    BY <1>0, <1>8, <2>2
  <2>4. \A g \in Fds : kernel'[g] = IF g = sock[o].fd THEN Closed ELSE kernel[g]
    BY <1>8 DEF ClosedBy
  <2>5. QED
    BY <1>0, <1>1, <2>1, <2>3, <2>4, Initials DEF ListeningHasPort, Owned
<1>9. ASSUME NEW o \in Objects, NEW other \in Objects, MoveConstruct(o, other)
      PROVE  ListeningHasPort'
  <2>1. sock[o].fd = NoFd /\ o # other
    BY <1>9, Initials DEF MoveConstruct, IInv, DeadHoldsNothing
  <2>2. kernel' = ClosedBy(o)
    BY <1>0, <1>9, <2>1, Types DEF MoveConstruct, ClosedBy
  <2>3. QED
    BY <1>8, <1>9, <2>1, <2>2 DEF MoveConstruct
<1>10. ASSUME NEW o \in Objects, NEW other \in Objects, MoveAssign(o, other)
       PROVE  ListeningHasPort'
  BY <1>8, <1>10 DEF MoveAssign
<1>11. ASSUME NEW o \in Objects, NEW new \in Objects, Accept(o, new)
       PROVE  ListeningHasPort'
  <2>1. PICK f \in Fds, h \in Hosts :
          /\ Free(f)
          /\ kernel' = [kernel EXCEPT ![f] = [state |-> "connected", peer |-> h,
                                              port |-> kernel[sock[o].fd].port]]
          /\ sock' = [sock EXCEPT ![new] = [Blank EXCEPT !.fd = f]]
    BY <1>11 DEF Accept
  <2> DEFINE k == [state |-> "connected", peer |-> h, port |-> kernel[sock[o].fd].port]
             m == [Blank EXCEPT !.fd = f]
  <2>2. k.state # "listening" /\ m.fd = f
    BY DEF Blank, Dead
  <2>3. kernel' = [kernel EXCEPT ![f] = k] /\ sock' = [sock EXCEPT ![new] = m] /\ ~Open(f)
    BY <2>1 DEF Free
  <2> HIDE DEF k, m
  <2>4. QED
    BY <1>2, <2>2, <2>3
<1>12. CASE UNCHANGED vars
  BY <1>12 DEF vars, ListeningHasPort, Owned
<1>13. ASSUME NEW o \in Objects, Adopt(o) PROVE ListeningHasPort'
  <2>1. CASE UNCHANGED kernel /\ sock' = [sock EXCEPT ![o] = Blank]
    <3>1. sock[o].fd = NoFd
      BY <1>13, Initials DEF Adopt, IInv, DeadHoldsNothing
    <3>2. kernel' = ClosedBy(o)
      BY <1>0, <2>1, <3>1, Types DEF ClosedBy
    <3>3. QED
      BY <1>4, <2>1, <3>2
  <2>2. CASE \E f \in Fds, k \in {New} \cup {Peered(h) : h \in Hosts} :
               /\ Free(f)
               /\ kernel' = [kernel EXCEPT ![f] = k]
               /\ sock' = [sock EXCEPT ![o] = [Blank EXCEPT !.fd = f]]
    <3>1. PICK f \in Fds, k \in {New} \cup {Peered(h) : h \in Hosts} :
               /\ Free(f)
               /\ kernel' = [kernel EXCEPT ![f] = k]
               /\ sock' = [sock EXCEPT ![o] = [Blank EXCEPT !.fd = f]]
      BY <2>2
    <3>2. k.state # "listening" /\ [Blank EXCEPT !.fd = f].fd = f
      BY Initials DEF Blank, Dead
    <3>3. QED
      BY <1>2, <3>1, <3>2 DEF Free
  <2>3. QED
    BY <1>13, <2>1, <2>2 DEF Adopt
<1>14. QED
  BY <1>3, <1>4, <1>5, <1>6, <1>7, <1>9, <1>10, <1>11, <1>12, <1>13
  DEF Next, Close, Destroy

(* With a compiler that evaluates the operands of | in listen() from the   *)
(* left, only a socket on which listen() has returned listens.             *)
THEOREM ListenersHavePorts == ASSUME FromTheLeft PROVE Spec => []ListeningHasPort
<1>1. Init => ListeningHasPort
  BY DEF Init, ListeningHasPort, Owned, Dead
<1>2. IInv /\ ListeningHasPort /\ [Next]_vars => ListeningHasPort'
  BY ListeningStep
<1>3. QED
  BY <1>1, <1>2, Invariant, PTL DEF Spec

-----------------------------------------------------------------------------
(* Streams.  A socket inside a stream is used as a socket, so that what    *)
(* holds of sockets holds of them; moves keep the areas with their storage. *)

(* Every operation of a stream is one operation of its socket, or none.    *)
THEOREM StreamsUseSockets == StreamSpec => Spec
<1>1. StreamInit => Init
  BY DEF StreamInit
<1>2. [StreamNext]_streamVars => [Next]_vars
  <2> SUFFICES ASSUME [StreamNext]_streamVars PROVE [Next]_vars
    OBVIOUS
  <2> USE SocketStreamAssumption
  <2>1. ASSUME NEW s \in Streams, Default(s) PROVE Next
    BY <2>1 DEF Default, Next
  <2>2. ASSUME NEW s \in Streams, StreamDestroy(s) PROVE Next
    BY <2>2 DEF StreamDestroy, Next
  <2>3. ASSUME NEW s \in Streams, Underflow(s) \/ Sync(s) PROVE UNCHANGED vars
    BY <2>3 DEF Underflow, Sync
  <2>4. ASSUME NEW s \in Streams, NEW o \in Objects \ Streams,
               FromSocket(s, o) \/ FromSocketFails(s, o)
        PROVE  Next
    BY <2>4 DEF FromSocket, FromSocketFails, Next
  <2>5. ASSUME NEW s \in Streams, NEW from \in Streams,
               StreamMoveConstruct(s, from) \/ StreamMoveAssign(s, from)
        PROVE  Next
    BY <2>5 DEF StreamMoveConstruct, StreamMoveAssign, Next
  <2>6. ASSUME SocketNext PROVE Next
    BY <2>6 DEF SocketNext, Next
  <2>7. CASE UNCHANGED streamVars
    BY <2>7 DEF streamVars, vars
  <2>8. QED
    BY <2>1, <2>2, <2>3, <2>4, <2>5, <2>6, <2>7 DEF StreamNext
<1>3. QED
  BY <1>1, <1>2, PTL DEF StreamSpec, Spec

(* Streams leak no descriptor, close none twice and use none that is       *)
(* closed, whatever is moved into whatever.                                *)
THEOREM StreamsOwnDescriptors == StreamSpec => []FdOwnership
  BY StreamsUseSockets, OneOwner, PTL

(* Evaluated from the left, listen() leaves no socket of a stream that     *)
(* listens and does not say so.                                            *)
THEOREM StreamsListenWithPorts ==
  ASSUME FromTheLeft PROVE StreamSpec => []ListeningHasPort
  BY StreamsUseSockets, ListenersHavePorts, PTL

-----------------------------------------------------------------------------
(* StreamsTyped is inductive with the ownership of the sockets: that a     *)
(* stream is destroyed shows in its socket.                                *)
Place == Storage \cup {NoStorage}
StreamMembers == [buf : BOOLEAN, good : BOOLEAN, alloc : Allocators, mixed : BOOLEAN,
                  store : Place, get : Place, put : Place]

(* The values that the operations give to a stream.                        *)
LEMMA StreamValues ==
  /\ \A a \in Allocators : Empty(a) \in StreamMembers /\ Empty(a).alloc = a
  /\ \A a \in Allocators, k \in Place : Fresh(a, k) \in StreamMembers
  /\ \A m \in StreamMembers :
        /\ Gone(m) \in StreamMembers /\ Gone(m) = Empty(Gone(m).alloc)
        /\ Left(m) \in StreamMembers /\ Bad(m) \in StreamMembers
        /\ Constructed(m) \in StreamMembers
        /\ \A more \in BOOLEAN : Filled(m, more) \in StreamMembers
                                 /\ Flushed(m, more) \in StreamMembers
        /\ \A n \in StreamMembers : Assigned(m, n) \in StreamMembers
                                    /\ StateOf(m, n) \in StreamMembers
        /\ \A n \in StreamMembers, k \in Place : Copied(m, n, k) \in StreamMembers
<1>1. \A a \in Allocators : Empty(a) \in StreamMembers /\ Empty(a).alloc = a
  BY DEF Empty, StreamMembers, Place
<1>2. ASSUME NEW m \in StreamMembers
      PROVE  /\ Gone(m) \in StreamMembers /\ Gone(m) = Empty(Gone(m).alloc)
             /\ Left(m) \in StreamMembers /\ Bad(m) \in StreamMembers
             /\ Constructed(m) \in StreamMembers
  BY <1>1 DEF StreamMembers, Place, Gone, Left, Bad, Constructed, Empty
<1>3. ASSUME NEW m \in StreamMembers
      PROVE  \A more \in BOOLEAN : /\ Filled(m, more) \in StreamMembers
                                    /\ Flushed(m, more) \in StreamMembers
  BY DEF StreamMembers, Filled, Flushed
<1>4. ASSUME NEW m \in StreamMembers, NEW n \in StreamMembers
      PROVE  Assigned(m, n) \in StreamMembers /\ StateOf(m, n) \in StreamMembers
  BY DEF StreamMembers, Assigned, StateOf
<1>5. ASSUME NEW m \in StreamMembers, NEW n \in StreamMembers, NEW k \in Place
      PROVE  Copied(m, n, k) \in StreamMembers
  BY <1>4 DEF StreamMembers, Copied, HasAreas
<1>6. ASSUME NEW a \in Allocators, NEW k \in Place PROVE Fresh(a, k) \in StreamMembers
  <2> DEFINE e == Empty(a)
  <2>1. e \in StreamMembers
    BY <1>1
  <2> HIDE DEF e
  <2>2. [e EXCEPT !.buf = TRUE, !.good = TRUE, !.store = k] \in StreamMembers
    BY <2>1 DEF StreamMembers
  <2>3. QED
    BY <2>2 DEF Fresh, e
<1>7. QED
  BY <1>1, <1>2, <1>3, <1>4, <1>5, <1>6

SInv == IInv /\ StreamsTyped

(* What is done to sockets alone ends the life of no stream.               *)
LEMMA StreamsOutlive ==
  ASSUME IInv, SocketNext, NEW s \in Streams, ~sock'[s].live
  PROVE  ~sock[s].live
<1> USE SocketStreamAssumption
<1>1. sock \in [Objects -> Members] /\ \A m \in Members : m.live \in BOOLEAN
  BY Types DEF Members
<1>2. Dead \in Members /\ Blank.live
  BY Initials
<1>3. ASSUME NEW o \in Objects \ Streams,
             \/ Construct(o) \/ Adopt(o) \/ Destroy(o)
             \/ \E p \in Ports : ServerSocket(o, p)
      PROVE  sock'[s] = sock[s]
  BY <1>1, <1>3 DEF Construct, Adopt, Destroy, ServerSocket
<1>4. ASSUME NEW o \in Objects \ Streams, NEW other \in Objects, Accept(other, o)
      PROVE  sock'[s] = sock[s]
  BY <1>1, <1>4 DEF Accept
<1>5. ASSUME NEW o \in Objects, NEW other \in Objects,
             MoveAssign(o, other) \/ (o \notin Streams /\ MoveConstruct(o, other))
      PROVE  sock'[s].live = sock[s].live
  <2>1. sock' = [sock EXCEPT ![o] = sock[other], ![other] = MovedFrom(@)]
    BY <1>5 DEF MoveAssign, MoveConstruct, MoveTo
  <2>2. o # s \/ (sock[o].live /\ sock[other].live)
    BY <1>5 DEF MoveAssign
  <2>3. MovedFrom(sock[other]).live = sock[other].live
    BY <1>1 DEF MovedFrom, Members
  <2>4. o # other
    BY <1>5 DEF MoveAssign, MoveConstruct
  <2>5. QED
    BY <1>1, <2>1, <2>2, <2>3, <2>4
<1>6. ASSUME NEW o \in Objects, Close(o) PROVE FALSE \/ sock'[s].live \/ sock'[s] = sock[s]
  BY <1>1, <1>2, <1>6 DEF Close
<1>7. ASSUME NEW o \in Objects, NEW p \in Ports, Listen(o, p)
      PROVE  sock'[s].live = sock[s].live
  BY <1>1, <1>7 DEF Listen, Listened, Members
<1>8. ASSUME NEW o \in Objects, NEW h \in Hosts \cup Names, NEW p \in Ports, Connect(o, h, p)
      PROVE  sock'[s].live = sock[s].live
  BY <1>1, <1>8 DEF Connect, Connected, Members
<1>9. QED
  BY <1>3, <1>4, <1>5, <1>6, <1>7, <1>8 DEF SocketNext

(* The members of streams keep their types, and a dead stream holds none.  *)
LEMMA StreamTypeStep == SInv /\ [StreamNext]_streamVars => StreamsTyped'
<1> SUFFICES ASSUME SInv, [StreamNext]_streamVars PROVE StreamsTyped'
  OBVIOUS
<1> USE SocketStreamAssumption, StreamValues
<1>1. /\ strm \in [Streams -> StreamMembers]
      /\ \A s \in Streams : ~sock[s].live => strm[s] = Empty(strm[s].alloc)
      /\ sock \in [Objects -> Members]
  BY Types DEF SInv, StreamsTyped, StreamMembers, Place
<1>2. StreamsTyped' <=>
        /\ strm' \in [Streams -> StreamMembers]
        /\ \A s \in Streams : ~sock'[s].live => strm'[s] = Empty(strm'[s].alloc)
  BY DEF StreamsTyped, StreamMembers, Place
<1>3. Blank.live /\ Blank \in Members /\ Dead \in Members
  BY Initials
<1>4. ASSUME NEW s \in Streams, Default(s) PROVE StreamsTyped'
  <2>1. sock'[s].live /\ \A t \in Streams \ {s} : sock'[t] = sock[t]
    BY <1>1, <1>3, <1>4 DEF Default, Construct, Members
  <2>2. QED
    BY <1>1, <1>2, <1>4, <2>1 DEF Default
<1>5. ASSUME NEW s \in Streams, NEW o \in Objects \ Streams, FromSocket(s, o)
      PROVE  StreamsTyped'
  <2>1. sock'[s].live /\ \A t \in Streams \ {s} : sock'[t] = sock[t]
    BY <1>1, <1>5 DEF FromSocket, MoveConstruct, MoveTo
  <2>2. PICK a \in Allocators, m \in Unowned : strm' = [strm EXCEPT ![s] = Fresh(a, m)]
    BY <1>5 DEF FromSocket
  <2>3. Fresh(a, m) \in StreamMembers
    BY DEF Place, Unowned
  <2>4. QED
    BY <1>1, <1>2, <2>1, <2>2, <2>3
<1>6. ASSUME NEW s \in Streams, StreamDestroy(s) PROVE StreamsTyped'
  <2>1. \A t \in Streams \ {s} : sock'[t] = sock[t]
    BY <1>1, <1>6 DEF StreamDestroy, Destroy
  <2>2. QED
    BY <1>1, <1>2, <1>6, <2>1 DEF StreamDestroy
<1>7. ASSUME NEW s \in Streams, NEW from \in Streams,
             StreamMoveConstruct(s, from) \/ StreamMoveAssign(s, from)
      PROVE  StreamsTyped'
  <2>1. /\ s # from
        /\ sock'[s].live /\ sock'[from].live
        /\ \A t \in Streams \ {s, from} : sock'[t] = sock[t]
    <3>1. MoveTo(s, from) /\ s # from /\ sock[from].live
      BY <1>7 DEF StreamMoveConstruct, StreamMoveAssign, MoveConstruct, MoveAssign
    <3>2. MovedFrom(sock[from]).live
      BY <1>1, <3>1 DEF MovedFrom, Members
    <3>3. QED
      BY <1>1, <3>1, <3>2 DEF MoveTo
  <2>2. PICK m \in StreamMembers, n \in StreamMembers :
           strm' = [strm EXCEPT ![s] = m, ![from] = n]
    <3>1. strm[s] \in StreamMembers /\ strm[from] \in StreamMembers
      BY <1>1
    <3>2. \A k \in CopiedTo(s, from) : k \in Place
      BY <3>1 DEF CopiedTo, Unowned, StreamMembers, Place
    <3>3. CASE StreamMoveConstruct(s, from)
      BY <2>1, <3>1, <3>3 DEF StreamMoveConstruct
    <3>4. CASE StreamMoveAssign(s, from)
      BY <2>1, <3>1, <3>2, <3>4 DEF StreamMoveAssign
    <3>5. QED
      BY <1>7, <3>3, <3>4
  <2>3. QED
    BY <1>1, <1>2, <2>1, <2>2
<1>8. ASSUME NEW s \in Streams, Underflow(s) \/ Sync(s) PROVE StreamsTyped'
  <2>1. sock' = sock /\ sock[s].live
    BY <1>8 DEF Underflow, Sync, vars, Usable
  <2>2. PICK m \in StreamMembers : strm' = [strm EXCEPT ![s] = m]
    BY <1>1, <1>8 DEF Underflow, Sync, StreamMembers
  <2>3. QED
    BY <1>1, <1>2, <2>1, <2>2
<1>9. CASE SocketNext /\ UNCHANGED strm
  BY <1>1, <1>2, <1>9, StreamsOutlive DEF SInv
<1>10. CASE UNCHANGED streamVars
  BY <1>1, <1>2, <1>10 DEF streamVars
<1>11. ASSUME NEW s \in Streams, NEW o \in Objects \ Streams, FromSocketFails(s, o)
       PROVE  StreamsTyped'
  <2>1. strm' = strm /\ \A t \in Streams : sock'[t] = sock[t]
    BY <1>1, <1>11 DEF FromSocketFails, Close
  <2>2. QED
    BY <1>1, <1>2, <2>1
<1>12. QED
  BY <1>4, <1>5, <1>6, <1>7, <1>8, <1>9, <1>10, <1>11 DEF StreamNext

(* Every member of every stream keeps its type; a dead stream is empty.    *)
THEOREM StreamsTypeCorrect == StreamSpec => []StreamTypeOK
<1>1. StreamInit => StreamsTyped
  <2> SUFFICES ASSUME StreamInit PROVE StreamsTyped
    OBVIOUS
  <2>1. \A s \in Streams : \E a \in Allocators : strm[s] = Empty(a)
    BY DEF StreamInit
  <2>2. strm \in [Streams -> StreamMembers]
    BY <2>1, StreamValues DEF StreamInit
  <2>3. QED
    BY <2>1, <2>2, StreamValues DEF StreamsTyped, StreamMembers, Place
<1>2. IInv /\ StreamsTyped /\ [StreamNext]_streamVars => StreamsTyped'
  BY StreamTypeStep DEF SInv
<1>3. IInv /\ StreamsTyped => StreamTypeOK
  BY DEF IInv, StreamTypeOK
<1>4. QED
  BY <1>1, <1>2, <1>3, StreamsUseSockets, Invariant, PTL DEF StreamSpec

-----------------------------------------------------------------------------
(* A move between streams of one resource takes the storage along with the *)
(* pointers; one between two resources leaves it where it was, and records *)
(* that pointers were copied without it.                                   *)
OwnAreas(m) == m.store # NoStorage /\ ~m.mixed =>
                  {m.get, m.put} \subseteq {NoStorage, m.store}

LEMMA StorageStep ==
  ASSUME StreamsTyped, StorageIsOwn, [StreamNext]_streamVars
  PROVE  StorageIsOwn'
<1>1. strm \in [Streams -> StreamMembers]
  BY DEF StreamsTyped, StreamMembers, Place
<1>2. /\ \A s, t \in Streams : s # t /\ strm[s].store # NoStorage => strm[t].store # strm[s].store
      /\ \A s \in Streams : OwnAreas(strm[s])
  BY DEF StorageIsOwn, OwnAreas
<1>3. ASSUME NEW s \in Streams, NEW m \in StreamMembers, strm' = [strm EXCEPT ![s] = m],
             m.store \in {NoStorage, strm[s].store} \cup Unowned, OwnAreas(m)
      PROVE  StorageIsOwn'
  <2>1. \A t \in Streams : strm'[t] = IF t = s THEN m ELSE strm[t]
    BY <1>1, <1>3
  <2>2. \A t \in Streams \ {s} : m.store # NoStorage => strm[t].store # m.store
    BY <1>2, <1>3 DEF Unowned
  <2>3. QED
    BY <1>2, <1>3, <2>1, <2>2 DEF StorageIsOwn, OwnAreas
<1>4. ASSUME NEW s \in Streams, NEW from \in Streams,
             \/ StreamMoveConstruct(s, from)
             \/ StreamMoveAssign(s, from) /\ strm[s].alloc = strm[from].alloc
      PROVE  StorageIsOwn'
  <2>1. s # from /\ strm[s] \in StreamMembers /\ strm[from] \in StreamMembers
    BY <1>1, <1>4 DEF StreamMoveConstruct, StreamMoveAssign, MoveConstruct, MoveAssign
  <2>2. PICK m \in StreamMembers, n \in StreamMembers :
          /\ strm' = [strm EXCEPT ![s] = m, ![from] = n]
          /\ m.store = strm[from].store /\ m.get = strm[from].get /\ m.put = strm[from].put
          /\ m.mixed = strm[from].mixed
          /\ n.store = NoStorage
    <3>1. /\ Constructed(strm[from]).store = strm[from].store
          /\ Constructed(strm[from]).mixed = strm[from].mixed
          /\ Constructed(strm[from]).get = strm[from].get
          /\ Constructed(strm[from]).put = strm[from].put
          /\ Left(strm[from]).store = NoStorage
          /\ Left(strm[from]) \in StreamMembers
      BY <2>1, StreamValues DEF Constructed, Left, StreamMembers
    <3>2. /\ Assigned(strm[s], strm[from]).store = strm[from].store
          /\ Assigned(strm[s], strm[from]).get = strm[from].get
          /\ Assigned(strm[s], strm[from]).put = strm[from].put
          /\ Assigned(strm[s], strm[from]).mixed = strm[from].mixed
      BY <2>1 DEF Assigned, StreamMembers
    <3>3. StateOf(strm[s], Left(strm[from])).store = NoStorage
      BY <3>1 DEF StateOf, StreamMembers
    <3>4. CASE StreamMoveConstruct(s, from)
      BY <1>1, <2>1, <3>1, <3>4, StreamValues DEF StreamMoveConstruct
    <3>5. CASE StreamMoveAssign(s, from) /\ strm[s].alloc = strm[from].alloc
      <4>1. strm' = [strm EXCEPT ![s] = Assigned(strm[s], strm[from]),
                                 ![from] = StateOf(strm[s], Left(strm[from]))]
        BY <1>1, <2>1, <3>5 DEF StreamMoveAssign
      <4>2. QED
        BY <2>1, <3>1, <3>2, <3>3, <4>1, StreamValues
    <3>6. QED
      BY <1>4, <3>4, <3>5
  <2>3. \A t \in Streams : strm'[t] = IF t = s THEN m ELSE IF t = from THEN n ELSE strm[t]
    BY <1>1, <2>1, <2>2
  <2> DEFINE g(t) == IF t = s THEN from ELSE t
  <2>4. ASSUME NEW t \in Streams, strm'[t].store # NoStorage
        PROVE  /\ t # from /\ g(t) \in Streams
               /\ strm'[t].store = strm[g(t)].store
               /\ strm'[t].get = strm[g(t)].get /\ strm'[t].put = strm[g(t)].put
               /\ strm'[t].mixed = strm[g(t)].mixed
    BY <2>1, <2>2, <2>3, <2>4
  <2>5. ASSUME NEW t \in Streams, NEW u \in Streams, t # from, u # from, t # u
        PROVE  g(t) # g(u)
    BY <2>5
  <2> HIDE DEF g
  <2>6. ASSUME NEW t \in Streams, strm'[t].store # NoStorage
        PROVE  /\ ~strm'[t].mixed =>
                     {strm'[t].get, strm'[t].put} \subseteq {NoStorage, strm'[t].store}
               /\ \A u \in Streams \ {t} : strm'[u].store # strm'[t].store
    BY <1>2, <2>4, <2>5, <2>6 DEF OwnAreas
  <2>7. QED
    BY <2>6 DEF StorageIsOwn
<1>5. ASSUME NEW s \in Streams,
             \/ Default(s) \/ StreamDestroy(s) \/ Underflow(s) \/ Sync(s)
             \/ \E o \in Objects \ Streams : FromSocket(s, o)
      PROVE  StorageIsOwn'
  <2>1. PICK m \in StreamMembers :
          /\ strm' = [strm EXCEPT ![s] = m]
          /\ m.store \in {NoStorage, strm[s].store} \cup Unowned
          /\ OwnAreas(m)
    <3>1. strm[s] \in StreamMembers
      BY <1>1
    <3>2. CASE Default(s)
      BY <3>2, StreamValues DEF Default, Empty, OwnAreas
    <3>3. CASE StreamDestroy(s)
      <4>1. Gone(strm[s]) \in StreamMembers /\ Gone(strm[s]).store = NoStorage
        BY <3>1, StreamValues DEF Gone, Empty
      <4>2. QED
        BY <1>1, <3>3, <4>1 DEF StreamDestroy, OwnAreas
    <3>4. CASE Underflow(s) \/ Sync(s)
      <4>1. \A k \in StreamMembers, more \in BOOLEAN :
              /\ Filled(k, more).store = k.store /\ Filled(k, more).get = k.store
              /\ Filled(k, more).put = k.put /\ Filled(k, more).mixed = k.mixed
              /\ Flushed(k, more).store = k.store /\ Flushed(k, more).put = k.store
              /\ Flushed(k, more).get = k.get /\ Flushed(k, more).mixed = k.mixed
              /\ Bad(k).store = k.store /\ Bad(k).get = k.get /\ Bad(k).put = k.put
              /\ Bad(k).mixed = k.mixed
        BY DEF Filled, Flushed, Bad, StreamMembers
      <4>2. PICK m \in {Filled(strm[s], TRUE), Filled(strm[s], FALSE),
                        Flushed(strm[s], TRUE), Flushed(strm[s], FALSE), Bad(strm[s])} :
              strm' = [strm EXCEPT ![s] = m]
        BY <1>1, <3>4 DEF Underflow, Sync
      <4>3. /\ m \in StreamMembers
            /\ m.store = strm[s].store /\ m.mixed = strm[s].mixed
            /\ {m.get, m.put} \subseteq {strm[s].get, strm[s].put, strm[s].store}
        <5>1. \A k \in {Filled(strm[s], TRUE), Filled(strm[s], FALSE),
                        Flushed(strm[s], TRUE), Flushed(strm[s], FALSE), Bad(strm[s])} : k \in StreamMembers
          BY <3>1, StreamValues
        <5>2. m \in StreamMembers
          BY <4>2, <5>1
        <5>3. /\ m.store = strm[s].store /\ m.mixed = strm[s].mixed
              /\ {m.get, m.put} \subseteq {strm[s].get, strm[s].put, strm[s].store}
          <6>1. ASSUME NEW more \in BOOLEAN, m = Filled(strm[s], more)
                PROVE  /\ m.store = strm[s].store /\ m.mixed = strm[s].mixed
                       /\ m.get = strm[s].store /\ m.put = strm[s].put
            BY <3>1, <4>1, <6>1
          <6>2. ASSUME NEW more \in BOOLEAN, m = Flushed(strm[s], more)
                PROVE  /\ m.store = strm[s].store /\ m.mixed = strm[s].mixed
                       /\ m.put = strm[s].store /\ m.get = strm[s].get
            BY <3>1, <4>1, <6>2
          <6>3. ASSUME m = Bad(strm[s])
                PROVE  /\ m.store = strm[s].store /\ m.mixed = strm[s].mixed
                       /\ m.get = strm[s].get /\ m.put = strm[s].put
            BY <3>1, <4>1, <6>3
          <6>4. QED
            BY <4>2, <6>1, <6>2, <6>3
        <5>4. QED
          BY <5>2, <5>3
      <4>4. OwnAreas(m)
        BY <1>2, <4>3 DEF OwnAreas
      <4>5. QED
        BY <4>2, <4>3, <4>4
    <3>5. CASE \E o \in Objects \ Streams : FromSocket(s, o)
      <4>1. PICK a \in Allocators, k \in Unowned : strm' = [strm EXCEPT ![s] = Fresh(a, k)]
        BY <3>5 DEF FromSocket
      <4>2. Fresh(a, k) \in StreamMembers
        BY StreamValues DEF Place, Unowned
      <4>3. Fresh(a, k).store = k /\ OwnAreas(Fresh(a, k))
        BY DEF Fresh, Empty, OwnAreas
      <4>4. QED
        BY <4>1, <4>2, <4>3
    <3>6. QED
      BY <1>5, <3>2, <3>3, <3>4, <3>5
  <2>2. QED
    BY <1>3, <2>1
<1>6. ASSUME NEW s \in Streams, NEW from \in Streams,
             StreamMoveAssign(s, from), strm[s].alloc # strm[from].alloc
      PROVE  StorageIsOwn'
  <2>1. s # from /\ strm[s] \in StreamMembers /\ strm[from] \in StreamMembers
    BY <1>1, <1>6
  <2>2. PICK k \in CopiedTo(s, from) :
          strm' = [strm EXCEPT ![s] = Copied(strm[s], strm[from], k),
                               ![from] = StateOf(strm[s], strm[from])]
    BY <1>1, <1>6, <2>1 DEF StreamMoveAssign
  <2> DEFINE m == Copied(strm[s], strm[from], k)  n == StateOf(strm[s], strm[from])
  <2>3. k \in {strm[s].store} \cup Unowned /\ k \in Place
    BY <2>1, <2>2 DEF CopiedTo, Unowned, StreamMembers, Place
  <2>4. m.store = k /\ (~m.mixed => {m.get, m.put} = {NoStorage})
    BY <2>1 DEF Copied, Assigned, HasAreas, StreamMembers
  <2>5. /\ n.store = strm[from].store /\ n.mixed = strm[from].mixed
        /\ n.get = strm[from].get /\ n.put = strm[from].put
    BY <2>1 DEF StateOf, StreamMembers
  <2> HIDE DEF m, n
  <2>6. strm' = [strm EXCEPT ![s] = m, ![from] = n]
    BY <2>2 DEF m, n
  <2>7. \A t \in Streams : strm'[t] = IF t = s THEN m ELSE IF t = from THEN n ELSE strm[t]
    BY <1>1, <2>1, <2>6
  <2>8. \A t \in Streams \ {s} : strm'[t].store = strm[t].store /\ OwnAreas(strm'[t])
    BY <1>2, <2>5, <2>7 DEF OwnAreas
  <2>9. strm'[s].store = k /\ OwnAreas(strm'[s])
    BY <2>4, <2>7 DEF OwnAreas
  <2>10. \A t \in Streams \ {s} : k # NoStorage => strm[t].store # k
    BY <1>2, <2>3 DEF Unowned
  <2>11. QED
    BY <1>2, <2>8, <2>9, <2>10 DEF StorageIsOwn, OwnAreas
<1>7. CASE UNCHANGED strm
  BY <1>2, <1>7 DEF StorageIsOwn, OwnAreas
<1>8. QED
  BY <1>4, <1>5, <1>6, <1>7 DEF StreamNext, streamVars, FromSocketFails

(* No two streams own one storage, whatever is moved into whatever; and    *)
(* where no move between two resources has come in, the areas of a stream  *)
(* that has storage are in it.                                             *)
THEOREM StorageStays == StreamSpec => []StorageIsOwn
<1>1. StreamInit => StorageIsOwn
  BY DEF StreamInit, StorageIsOwn, Empty
<1>2. StreamsTyped /\ StorageIsOwn /\ [StreamNext]_streamVars => StorageIsOwn'
  BY StorageStep
<1>3. StreamTypeOK => StreamsTyped
  BY DEF StreamTypeOK
<1>4. QED
  BY <1>1, <1>2, <1>3, StreamsTypeCorrect, PTL DEF StreamSpec
=============================================================================
