-------------------------- MODULE RequestProcessor --------------------------
(***************************************************************************)
(* cppws::request_processor: one detached worker thread that executes      *)
(* run(), and any number of threads that call the public operations on the *)
(* same object.  Members keep their names without the trailing underscore. *)
(* A step is what happens between two points where threads can interleave: *)
(* a critical section that does no I/O is one step, guarded by a free      *)
(* lock; the one in accept() assigns to stream_ and parses from the        *)
(* network, so it holds the lock across several.  The worker assigns to    *)
(* stream_ without the lock.                                               *)
(***************************************************************************)
CONSTANTS Callers,      \* threads that call accept, wait_until_available, ...
          Worker,       \* the thread that executes run()
          Connections,  \* client connections, each carrying one request
          NoConn,       \* no connection: no descriptor, or one that leads nowhere
          Free,         \* lock_ held by nobody
          FlagInit      \* the values the constructor may leave in an atomic_bool

ASSUME RequestProcessorAssumption ==
    /\ Worker \notin Callers
    /\ Free \notin Callers
    /\ NoConn \notin Connections
    /\ FlagInit \subseteq BOOLEAN

VARIABLES running, busy, hasRequest, lock,
          stream,     \* the connection whose descriptor is in stream_'s fd_
          loaded,     \* what a thread found there when close() tested it
          request,    \* the connection whose bytes processedRequest_ holds
          pc,         \* where each thread is
          arg,        \* the connection a caller has passed to accept
          offered,    \* connections the callers hold and have not passed
          open,       \* connections whose descriptor is open
          accepted,   \* connections for which accept returned true
          taken,      \* connections whose request the worker took up
          raced,      \* two assignments to stream_ have overlapped
          alive       \* the request_processor has not been destroyed

vars == <<running, busy, hasRequest, lock, stream, loaded, request, pc, arg,
          offered, open, accepted, taken, raced, alive>>

flags == <<running, busy>>
ghosts == <<accepted, taken>>
fds == <<stream, loaded, open, raced>>

Threads == Callers \cup {Worker}
MaybeConn == Connections \cup {NoConn}
AssignPc == {"test", "close", "clear", "put"}
CallerPc == AssignPc \cup {"idle", "await", "store", "parse", "body"}
WorkerPc == AssignPc \cup {"loop", "check", "waiting", "woken", "resolve",
                          "handler", "reply", "notify", "exited"}

TypeOK ==
    /\ running \in BOOLEAN /\ busy \in BOOLEAN /\ hasRequest \in BOOLEAN
    /\ raced \in BOOLEAN /\ alive \in BOOLEAN
    /\ lock \in Callers \cup {Free}
    /\ stream \in MaybeConn /\ request \in MaybeConn
    /\ loaded \in [Threads -> MaybeConn]
    /\ pc \in [Threads -> CallerPc \cup WorkerPc]
    /\ pc[Worker] \in WorkerPc /\ \A t \in Callers : pc[t] \in CallerPc
    /\ arg \in [Callers -> MaybeConn]
    /\ offered \subseteq Connections /\ open \subseteq Connections
    /\ accepted \subseteq Connections /\ taken \subseteq Connections

-----------------------------------------------------------------------------
(* The constructor starts the worker and gives running_ and busy_ no value *)
(* of its own: they hold what std::atomic_bool's default constructor       *)
(* leaves, false since C++20 and indeterminate before it.                  *)
Init ==
    /\ running \in FlagInit /\ busy \in FlagInit
    /\ hasRequest = FALSE
    /\ lock = Free
    /\ stream = NoConn /\ request = NoConn
    /\ loaded = [x \in Threads |-> NoConn]
    /\ pc = [x \in Threads |-> IF x = Worker THEN "loop" ELSE "idle"]
    /\ arg = [t \in Callers |-> NoConn]
    /\ offered = Connections /\ open = Connections
    /\ accepted = {} /\ taken = {}
    /\ raced = FALSE /\ alive = TRUE

-----------------------------------------------------------------------------
(* Shared pieces: the mutex and the condition.                             *)
(* An operator whose name starts with Mut is a broken variant of the one   *)
(* after it; the runs are repeated with it to show that they would notice. *)

MutLockFree == TRUE
LockFree == lock = Free

MutUnlock == UNCHANGED lock
Unlock == lock' = Free

\* Where newConnectionCondition_.notify_one() leaves a worker that is at p.
MutNotified(p) == p
Notified(p) == IF p = "waiting" THEN "woken" ELSE p

-----------------------------------------------------------------------------
(* stream_ = ..., by accept() under lock_ and by the worker without it.    *)
(* Its socket is assigned to last: close() tests fd_, closes what it finds *)
(* and sets fd_ to -1, then move() sets fd_ to the new descriptor.         *)

Mid(x) == pc[x] \in {"close", "clear", "put"}
Overlaps(x) == \E y \in Threads \ {x} : Mid(y)

\* What ::close() closes when it is given the descriptor of c.  Once an
\* assignment has been disturbed, the number may have been closed before and
\* may name any other connection by now.
MutHit(c) == {NoConn}
Hit(c) == IF raced /\ c \notin open THEN MaybeConn ELSE {c}

rest == <<flags, hasRequest, lock, request, arg, offered, ghosts, alive>>

TestFd(x) ==
    /\ pc[x] = "test"
    /\ \E next \in {"close"} \cup (IF stream = NoConn THEN {"put"} ELSE {}) :
          pc' = [pc EXCEPT ![x] = next]
    /\ loaded' = [loaded EXCEPT ![x] = stream]
    /\ raced' = (raced \/ Overlaps(x))
    /\ UNCHANGED <<rest, stream, open>>

\* The compiler may keep the descriptor that was tested or read fd_ again.
CloseFd(x) ==
    /\ pc[x] = "close"
    /\ pc' = [pc EXCEPT ![x] = "clear"]
    /\ \E c \in {loaded[x], stream} : \E d \in Hit(c) : open' = open \ {d}
    /\ loaded' = [loaded EXCEPT ![x] = NoConn]
    /\ UNCHANGED <<rest, stream, raced>>

ClearFd(x) ==
    /\ pc[x] = "clear"
    /\ pc' = [pc EXCEPT ![x] = "put"]
    /\ stream' = NoConn
    /\ UNCHANGED <<rest, loaded, open, raced>>

\* accept() moves its connection in; the worker assigns {}, which holds a
\* fresh descriptor that leads nowhere.
PutFd(x) ==
    /\ pc[x] = "put"
    /\ pc' = [pc EXCEPT ![x] = IF x = Worker THEN "notify" ELSE "parse"]
    /\ stream' = IF x = Worker THEN NoConn ELSE arg[x]
    /\ UNCHANGED <<rest, loaded, open, raced>>

Assign(x) == TestFd(x) \/ CloseFd(x) \/ ClearFd(x) \/ PutFd(x)

-----------------------------------------------------------------------------
(* The callers.                                                            *)

Return(t) == /\ pc' = [pc EXCEPT ![t] = "idle"]
             /\ arg' = [arg EXCEPT ![t] = NoConn]

\* accept(c), or wait_until_available() itself when c = NoConn.  Both begin
\* with the test of running_ and return false, changing nothing, if it fails.
Enter(t, c) ==
    /\ pc[t] = "idle" /\ running
    /\ pc' = [pc EXCEPT ![t] = "await"]
    /\ arg' = [arg EXCEPT ![t] = c]
    /\ offered' = offered \ {c}
    /\ UNCHANGED <<flags, hasRequest, lock, fds, request, ghosts, alive>>

\* The rest of wait_until_available: while busy_, the caller waits until it
\* times out and returns false with the connection still its own.
AwaitAvailable(t) ==
    /\ pc[t] = "await" /\ LockFree
    /\ IF busy \/ arg[t] = NoConn
       THEN /\ Return(t)
            /\ offered' = offered \cup ({arg[t]} \cap Connections)
       ELSE /\ pc' = [pc EXCEPT ![t] = "store"]
            /\ UNCHANGED <<arg, offered>>
    /\ UNCHANGED <<flags, hasRequest, lock, fds, request, ghosts, alive>>

\* accept takes the lock, to assign the connection to stream_.
Store(t) ==
    /\ pc[t] = "store" /\ LockFree
    /\ lock' = t
    /\ pc' = [pc EXCEPT ![t] = "test"]
    /\ UNCHANGED <<flags, hasRequest, fds, request, arg, offered, ghosts, alive>>

\* http_request::accept has a request line and starts to overwrite
\* processedRequest_.  A stream_ emptied by the worker yields no line, nor does
\* a closed descriptor.
ParseRequestLine(t) ==
    /\ pc[t] = "parse" /\ stream = arg[t] /\ stream \in open
    /\ request' = arg[t]
    /\ pc' = [pc EXCEPT ![t] = "body"]
    /\ UNCHANGED <<flags, hasRequest, lock, fds, arg, offered, ghosts, alive>>

\* http_request::accept returns true.
ParseDone(t) ==
    /\ pc[t] = "body"
    /\ hasRequest' = TRUE
    /\ pc' = [pc EXCEPT ![t] = "idle", ![Worker] = Notified(@)]
    /\ arg' = [arg EXCEPT ![t] = NoConn]
    /\ Unlock
    /\ accepted' = accepted \cup {arg[t]}
    /\ UNCHANGED <<flags, fds, request, offered, taken, alive>>

\* http_request::accept returns false ("Bad format") or throws: the caller is
\* told so, but the connection stays in stream_.
ParseFails(t) ==
    /\ pc[t] \in {"parse", "body"}
    /\ Return(t)
    /\ Unlock
    /\ UNCHANGED <<flags, hasRequest, fds, request, offered, ghosts, alive>>

Parse(t) == alive /\ (ParseRequestLine(t) \/ ParseDone(t) \/ ParseFails(t))

Wait(t) == alive /\ (AwaitAvailable(t) \/ Store(t) \/ Assign(t))

Terminate ==
    /\ running' = FALSE
    /\ UNCHANGED <<busy, hasRequest, lock, fds, request, pc, arg, offered,
                   ghosts, alive>>

\* The owner destroys the object once active() is false and no call is in
\* progress.  There is no destructor: the members go, the thread does not.
Destroy ==
    /\ ~running /\ \A t \in Callers : pc[t] = "idle"
    /\ alive' = FALSE
    /\ \E d \in Hit(stream) : open' = open \ {d}
    /\ stream' = NoConn
    /\ raced' = (raced \/ Mid(Worker))
    /\ UNCHANGED <<flags, hasRequest, lock, loaded, request, pc, arg, offered, ghosts>>

-----------------------------------------------------------------------------
(* The worker.                                                             *)

WorkerAt(from, to) == pc[Worker] = from /\ pc' = [pc EXCEPT ![Worker] = to]

state == <<flags, hasRequest, lock, fds, request, arg, offered, accepted, alive>>

MutLoopTo == "check"
LoopTo == IF running THEN "check" ELSE "exited"
LoopTest == WorkerAt("loop", LoopTo) /\ UNCHANGED <<state, taken>>

\* The worker, with the lock held, goes on to "to", taking up the request if
\* that is process_request().
TakeUp(from, to) ==
    /\ LockFree /\ WorkerAt(from, to)
    /\ taken' = IF to = "resolve" THEN taken \cup {request} ELSE taken
    /\ UNCHANGED state

MutCheckTo == "waiting"
CheckTo == IF hasRequest THEN "resolve" ELSE "waiting"
CheckRequest == TakeUp("check", CheckTo)

SpuriousWake == WorkerAt("waiting", "woken") /\ UNCHANGED <<state, taken>>

\* wait() returns with the lock held again; without a request the loop restarts.
MutWakeTo == "resolve"
WakeTo == IF hasRequest THEN "resolve" ELSE "loop"
Wake == TakeUp("woken", WakeTo)

\* process_request, without the lock up to the end of stream_ = {}.  The mapper
\* returns a handler, returns none (the worker replies 403) or throws.
Resolve == /\ \E next \in {"handler", "reply", "test"} : WorkerAt("resolve", next)
           /\ UNCHANGED <<state, taken>>

\* The handler returns, or throws and the worker replies 500.
HandlerEnds == /\ \E next \in {"reply", "test"} : WorkerAt("handler", next)
               /\ UNCHANGED <<state, taken>>

WriteReply == WorkerAt("reply", "test") /\ UNCHANGED <<state, taken>>

MutNotifyAvailable ==
    /\ LockFree /\ WorkerAt("notify", "loop")
    /\ lock' = Worker
    /\ UNCHANGED <<flags, hasRequest, fds, request, arg, offered, ghosts, alive>>
NotifyAvailable ==
    LockFree /\ WorkerAt("notify", "loop") /\ UNCHANGED <<state, taken>>

Run == /\ alive
       /\ \/ LoopTest \/ CheckRequest \/ Wake \/ Resolve \/ HandlerEnds
          \/ WriteReply \/ Assign(Worker) \/ NotifyAvailable

-----------------------------------------------------------------------------
Next ==
    \/ \E t \in Callers : \/ \E c \in offered \cup {NoConn} : alive /\ Enter(t, c)
                          \/ Wait(t)
                          \/ Parse(t)
    \/ alive /\ Terminate
    \/ alive /\ Destroy
    \/ Run
    \/ alive /\ SpuriousWake

Spec == Init /\ [][Next]_vars

\* Threads are scheduled and handlers return; clients need not send anything.
ThreadFairness == WF_vars(Run) /\ \A t \in Callers : WF_vars(Wait(t))

\* Every client sends a whole request, or something that ends the parse.
ClientFairness == \A t \in Callers : WF_vars(Parse(t))

FairSpec == Spec /\ ThreadFairness /\ ClientFairness

-----------------------------------------------------------------------------
(* What holds.                                                             *)

Processing == pc[Worker] \in AssignPc \cup {"resolve", "handler", "reply"}
Parsing(t) == pc[t] \in {"parse", "body"}
InFlight == {c \in Connections : \E t \in Callers :
                pc[t] \in AssignPc \cup {"await", "store"} /\ arg[t] = c}

\* The worker runs process_request() only once a request has been parsed:
\* neither a spurious wake-up nor terminate() lets it through (lines 63-73).
ProcessingHasRequest == Processing => hasRequest /\ request # NoConn

\* The worker never sleeps on newConnectionCondition_ while a request is
\* pending: hasRequest_ is set and the condition notified under lock_.
NoLostWakeup == pc[Worker] = "waiting" => ~hasRequest

\* Whoever stores and parses holds lock_, so at most one thread does, and the
\* stream_ it parses from is its own connection unless the worker emptied it.
ParseUnderLock ==
    /\ \A t \in Callers : pc[t] \in AssignPc \cup {"parse", "body"} <=> lock = t
    /\ \A t \in Callers : Parsing(t) => stream \in {arg[t], NoConn}

\* Two callers never have the same connection in hand, and none has the one in
\* stream_.
OneHand ==
    /\ stream \notin offered \cup InFlight
    /\ InFlight \cap offered = {}
    /\ \A t, u \in Callers : t # u /\ arg[t] # NoConn => arg[t] # arg[u]

\* The assignments to stream_ never overlapping, no descriptor is leaked, closed
\* twice or closed in a caller's hand: the open connections are those the callers
\* hold, those on their way into accept and the one in stream_, and close() gets
\* the one in stream_, still open.  (accept() line 22, process_request() line 100.)
ConnectionOwnership ==
    /\ OneHand
    /\ ~raced => /\ offered \cup InFlight \subseteq open
                 /\ open \subseteq offered \cup InFlight \cup {stream}
                 /\ \A x \in Threads : pc[x] = "close" =>
                       loaded[x] = stream /\ stream \in open \cup {NoConn}

\* A stored request is eventually looked at by the worker, unless terminate()
\* stops it first.
PendingIsProcessed ==
    hasRequest ~> (Processing \/ pc[Worker] = "exited" \/ ~alive)

\* After terminate() a worker that has ever had a request leaves run().
PendingWorkerExits ==
    (~running /\ hasRequest) ~> (pc[Worker] = "exited" \/ ~alive)

\* accept() and wait_until_available() return, if the clients see to it that no
\* parse lasts for ever: the timeout does not cover the acquisition of lock_.
CallsReturn == \A t \in Callers : (pc[t] = "await") ~> (pc[t] = "idle")

-----------------------------------------------------------------------------
(* The processor seen from outside, as a RequestSlot.                      *)
Where == [c \in Connections |->
            IF c \notin open THEN "closed"
            ELSE IF c \in offered THEN "caller"
            ELSE IF c \in InFlight THEN "call"
            ELSE IF c = stream THEN "slot" ELSE "lost"]

Slot == INSTANCE RequestSlot
          WITH where <- Where, seen <- hasRequest, working <- Processing,
               overlap <- raced, quit <- pc[Worker] = "exited", stopped <- ~alive

\* Whatever the threads do, a connection goes from its caller through the call
\* into stream_ and is then closed, once, and only what was announced under
\* lock_ is processed; connections are lost, or closed elsewhere, only after the
\* worker's assignment to stream_ met that of a call.  (accept() and run().)
ImplementsSlot == Slot!Safety

\* A call that was passed a connection puts it into stream_ or gives it back,
\* and the worker that has taken a request comes back from process_request();
\* accept() and wait_until_available() return.
KeepsPromises == Slot!Promises /\ CallsReturn

-----------------------------------------------------------------------------
(* What the documentation says and the code does not do.                   *)

\* request_processor.hpp:62, accept(): "true if the socket was accepted"; the
\* requests the worker takes up, under lock_, are those accept returned true for.
OnlyAcceptedTaken == taken \subseteq accepted
=============================================================================
