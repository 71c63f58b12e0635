----------------------- MODULE RequestProcessorProofs -----------------------
(***************************************************************************)
(* The safety invariants of RequestProcessor hold for any number of        *)
(* callers and connections and whatever the flags start as.                *)
(***************************************************************************)
EXTENDS RequestProcessor, TLAPS

(* None of the invariants is inductive alone: that accepted is a set of    *)
(* connections needs the argument of a storing caller to be one, and that  *)
(* a pending request is not empty needs its parser to have written it.     *)
Arguments ==
    \A t \in Callers :
        /\ pc[t] \in AssignPc \cup {"store", "parse", "body"} => arg[t] \in Connections
        /\ pc[t] = "body" => request # NoConn
        /\ arg[t] \notin offered

(* As long as no two assignments to stream_ have overlapped, at most one   *)
(* thread is in the middle of one, and it finds fd_ as it left it.         *)
InTurn ==
    /\ \A x, y \in Threads : Mid(x) /\ Mid(y) => x = y
    /\ \A x \in Threads :
          /\ pc[x] = "close" => loaded[x] = stream /\ stream \in open \cup {NoConn}
          /\ pc[x] = "clear" => stream \notin open
          /\ pc[x] = "put" => stream = NoConn
    /\ stream \in open \cup {NoConn} \/ \E x \in Threads : pc[x] = "clear"
    /\ offered \cup InFlight \subseteq open
    /\ open \subseteq offered \cup InFlight \cup {stream}

IInv == /\ TypeOK
        /\ Arguments
        /\ hasRequest => request # NoConn
        /\ ProcessingHasRequest
        /\ NoLostWakeup
        /\ ParseUnderLock
        /\ OneHand
        /\ ~raced => InTurn

-----------------------------------------------------------------------------
(* The initial states satisfy the inductive invariant.                     *)
LEMMA InitInv == Init => IInv
<1> SUFFICES ASSUME Init PROVE IInv
  OBVIOUS
<1> USE RequestProcessorAssumption DEF Init
<1>1. \A t \in Callers : pc[t] = "idle" /\ arg[t] = NoConn
  BY DEF Threads
<1>2. InFlight = {}
  BY <1>1 DEF InFlight, AssignPc
<1>3. TypeOK
  BY DEF TypeOK, MaybeConn, CallerPc, WorkerPc, Threads
<1>4. Arguments /\ ParseUnderLock /\ OneHand
  BY <1>1, <1>2 DEF Arguments, ParseUnderLock, Parsing, OneHand, AssignPc
<1>5. ProcessingHasRequest /\ NoLostWakeup /\ ~hasRequest
  BY DEF ProcessingHasRequest, Processing, NoLostWakeup, AssignPc, Threads
<1>6. \A x \in Threads : pc[x] \in {"loop", "idle"}
  BY DEF Threads
<1>7. InTurn
  BY <1>2, <1>6 DEF InTurn, Mid
<1>8. QED
  BY <1>3, <1>4, <1>5, <1>7 DEF IInv

(* What a step may change, whichever of its conjuncts the action disturbs: *)
(* if the descriptors and the hands stay as they are, so does their part.  *)
LEMMA SameHands ==
  ASSUME IInv, UNCHANGED <<fds, offered, InFlight>>,
         \A x \in Threads : pc'[x] # pc[x] =>
             pc[x] \notin AssignPc \ {"test"} /\ pc'[x] \notin AssignPc \ {"test"},
         \A t, u \in Callers : t # u /\ arg'[t] # NoConn => arg'[t] # arg'[u]
  PROVE  OneHand' /\ (~raced' => InTurn')
<1>1. OneHand'
  BY DEF IInv, OneHand, fds
<1>2. \A x \in Threads : Mid(x)' <=> Mid(x)
  BY DEF Mid, AssignPc
<1>3. \A x \in Threads : \A p \in {"close", "clear", "put"} : pc'[x] = p <=> pc[x] = p
  BY DEF AssignPc
<1>4. ASSUME ~raced' PROVE InTurn'
  <2>1. InTurn
    BY <1>4 DEF IInv, fds
  <2>2. UNCHANGED <<stream, loaded, open, offered, InFlight>>
    BY DEF fds
  <2>3. \A x, y \in Threads : Mid(x)' /\ Mid(y)' => x = y
    BY <1>2, <2>1 DEF InTurn
  <2>4. QED
    BY <1>3, <2>1, <2>2, <2>3 DEF InTurn
<1>5. QED
  BY <1>1, <1>4

(* Every step of a caller or of the worker preserves it.  First the shared *)
(* assignment to stream_, by either.                                       *)
LEMMA AssignInv ==
  ASSUME IInv, NEW x \in Threads, Assign(x)
  PROVE  IInv'
<1> USE RequestProcessorAssumption
<1>1. /\ TypeOK /\ Arguments /\ ParseUnderLock /\ OneHand
      /\ hasRequest => request # NoConn
      /\ ProcessingHasRequest /\ NoLostWakeup
      /\ ~raced => InTurn
  BY DEF IInv
<1>2. UNCHANGED rest /\ pc[x] \in AssignPc
  BY DEF Assign, TestFd, CloseFd, ClearFd, PutFd, AssignPc
<1>3. UNCHANGED <<running, busy, hasRequest, lock, request, arg, offered,
                  accepted, taken, alive>>
  BY <1>2 DEF rest, flags, ghosts
<1>4. PICK p \in (AssignPc \ {"test"}) \cup {IF x = Worker THEN "notify" ELSE "parse"} :
        pc' = [pc EXCEPT ![x] = p]
  BY DEF Assign, TestFd, CloseFd, ClearFd, PutFd, AssignPc
<1>5. /\ \A y \in Threads : pc'[y] = IF y = x THEN p ELSE pc[y]
      /\ Worker \in Threads /\ \A t \in Callers : t \in Threads /\ t # Worker
  BY <1>1, <1>4 DEF TypeOK, Threads
<1>6. TypeOK'
  <2>1. stream' \in MaybeConn /\ open' \subseteq Connections /\ raced' \in BOOLEAN
    <3>1. CASE TestFd(x)
      BY <1>1, <3>1 DEF TestFd, TypeOK
    <3>2. CASE CloseFd(x)
      BY <1>1, <3>2 DEF CloseFd, TypeOK
    <3>3. CASE ClearFd(x)
      BY <1>1, <3>3 DEF ClearFd, TypeOK, MaybeConn
    <3>4. CASE PutFd(x)
      BY <1>1, <3>4 DEF PutFd, TypeOK, MaybeConn, Threads
    <3>5. QED
      BY <3>1, <3>2, <3>3, <3>4 DEF Assign
  <2>2. loaded' \in [Threads -> MaybeConn]
    BY <1>1 DEF Assign, TestFd, CloseFd, ClearFd, PutFd, TypeOK, MaybeConn
  <2>3. /\ pc' \in [Threads -> CallerPc \cup WorkerPc]
        /\ pc'[Worker] \in WorkerPc /\ \A t \in Callers : pc'[t] \in CallerPc
    <3>1. p \in CallerPc \cup WorkerPc /\ (x = Worker => p \in WorkerPc)
          /\ (x # Worker => p \in CallerPc)
      BY DEF CallerPc, WorkerPc, AssignPc
    <3>2. QED
      BY <1>1, <1>4, <1>5, <3>1 DEF TypeOK
  <2>4. QED
    BY <1>1, <1>3, <2>1, <2>2, <2>3 DEF TypeOK
<1>7. /\ (Processing' => Processing) /\ (pc'[Worker] = "waiting" => pc[Worker] = "waiting")
      /\ \A t \in Callers : pc'[t] # "body" \/ pc[t] = "body"
  BY <1>2, <1>5 DEF Processing, AssignPc
<1>8. ProcessingHasRequest' /\ NoLostWakeup' /\ (hasRequest' => request' # NoConn)
  BY <1>1, <1>3, <1>7 DEF ProcessingHasRequest, NoLostWakeup
<1>9. \A t \in Callers : pc'[t] \in AssignPc \cup {"parse", "body"}
                            <=> pc[t] \in AssignPc \cup {"parse", "body"}
  BY <1>2, <1>5 DEF AssignPc
<1>10. Arguments'
  BY <1>1, <1>2, <1>3, <1>5, <1>7 DEF Arguments, AssignPc
<1>11. x = Worker \/ lock = x
  BY <1>1, <1>2 DEF ParseUnderLock, Threads
<1>12. stream' \in {stream, NoConn} \/ (PutFd(x) /\ x # Worker /\ stream' = arg[x])
  BY DEF Assign, TestFd, CloseFd, ClearFd, PutFd
<1>13. ParseUnderLock'
  <2>1. ASSUME NEW t \in Callers, Parsing(t)' PROVE stream' \in {arg'[t], NoConn}
    <3>1. CASE t = x
      <4>1. PutFd(x)
        BY <1>1, <1>5, <2>1, <3>1 DEF Assign, TestFd, CloseFd, ClearFd, Parsing, TypeOK
      <4>2. QED
        BY <1>3, <1>5, <3>1, <4>1 DEF PutFd
    <3>2. CASE t # x
      <4>1. Parsing(t)
        BY <1>5, <2>1, <3>2 DEF Parsing
      <4>2. lock = t
        BY <1>1, <4>1 DEF ParseUnderLock, Parsing
      <4>3. x = Worker
        BY <1>11, <3>2, <4>2
      <4>4. stream \in {arg[t], NoConn}
        BY <1>1, <4>1 DEF ParseUnderLock
      <4>5. QED
        BY <1>3, <1>12, <4>3, <4>4
    <3>3. QED
      BY <3>1, <3>2
  <2>2. QED
    BY <1>1, <1>3, <1>9, <2>1 DEF ParseUnderLock
<1>14. /\ InFlight' \subseteq InFlight
       /\ ~PutFd(x) => InFlight' = InFlight
       /\ PutFd(x) => InFlight' = InFlight \ (IF x = Worker THEN {} ELSE {arg[x]})
  <2>1. ASSUME ~PutFd(x) \/ x = Worker PROVE InFlight' = InFlight
    <3>1. \A t \in Callers : pc'[t] \in AssignPc \cup {"await", "store"}
                               <=> pc[t] \in AssignPc \cup {"await", "store"}
      <4>1. x = Worker \/ p \in AssignPc
        BY <1>1, <1>5, <2>1 DEF Assign, TestFd, CloseFd, ClearFd, AssignPc, TypeOK
      <4>2. QED
        BY <1>2, <1>5, <4>1
    <3>2. QED
      BY <1>3, <3>1 DEF InFlight
  <2>2. ASSUME PutFd(x), x # Worker PROVE InFlight' = InFlight \ {arg[x]}
    <3>1. pc'[x] = "parse" /\ x \in Callers /\ pc[x] = "put"
      BY <1>1, <2>2 DEF PutFd, Threads, TypeOK
    <3>2. arg[x] # NoConn
      BY <1>1, <3>1 DEF Arguments, AssignPc
    <3>3. \A u \in Callers : u # x => arg[u] # arg[x]
      BY <1>1, <3>1, <3>2 DEF OneHand
    <3>4. \A u \in Callers : u # x => pc'[u] = pc[u]
      BY <1>5
    <3>5. QED
      BY <1>3, <3>1, <3>3, <3>4 DEF InFlight, AssignPc
  <2>3. QED
    BY <2>1, <2>2
<1>15. OneHand'
  <2>1. stream' \notin offered \cup InFlight'
    <3>1. CASE stream' \in {stream, NoConn}
      <4>1. NoConn \notin offered \cup InFlight
        BY <1>1 DEF TypeOK, InFlight
      <4>2. QED
        BY <1>1, <1>14, <3>1, <4>1 DEF OneHand
    <3>2. CASE PutFd(x) /\ x # Worker /\ stream' = arg[x]
      BY <1>1, <1>14, <3>2 DEF Arguments, Threads
    <3>3. QED
      BY <1>12, <3>1, <3>2
  <2>2. QED
    BY <1>1, <1>3, <1>14, <2>1 DEF OneHand
<1>16. ASSUME ~raced' PROVE InTurn'
  <2>1. ~raced
    BY <1>16 DEF Assign, TestFd, CloseFd, ClearFd, PutFd
  <2>2. InTurn
    BY <1>1, <2>1
  <2>3. CASE TestFd(x)
    <3>1. \A y \in Threads : y # x => ~Mid(y)
      BY <1>16, <2>3 DEF TestFd, Overlaps
    <3>2. \A y \in Threads : y # x => pc[y] # "clear" /\ pc'[y] \notin {"close", "clear", "put"}
      BY <1>5, <3>1 DEF Mid
    <3>3. pc[x] # "clear" /\ UNCHANGED <<stream, open>> /\ loaded'[x] = stream
      BY <1>1, <2>3 DEF TestFd, TypeOK
    <3>4. stream \in open \cup {NoConn}
      BY <2>2, <3>2, <3>3 DEF InTurn
    <3>5. pc'[x] = "close" \/ (pc'[x] = "put" /\ stream = NoConn)
      BY <1>1, <2>3 DEF TestFd, TypeOK
    <3>6. InFlight' = InFlight /\ offered' = offered
      BY <1>3, <1>14, <2>3 DEF TestFd, PutFd
    <3>7. \A y, z \in Threads : Mid(y)' /\ Mid(z)' => y = z
      BY <3>2 DEF Mid
    <3>8. \A y \in Threads :
            /\ pc'[y] = "close" => loaded'[y] = stream' /\ stream' \in open' \cup {NoConn}
            /\ pc'[y] = "clear" => stream' \notin open'
            /\ pc'[y] = "put" => stream' = NoConn
      BY <3>2, <3>3, <3>4, <3>5
    <3>9. QED
      BY <2>2, <3>3, <3>4, <3>6, <3>7, <3>8 DEF InTurn
  <2>4. ASSUME Mid(x), ~TestFd(x) PROVE InTurn'
    <3>1. \A y \in Threads : y # x => ~Mid(y)
      BY <2>2, <2>4 DEF InTurn
    <3>2. \A y \in Threads : y # x => pc'[y] \notin {"close", "clear", "put"}
      BY <1>5, <3>1 DEF Mid
    <3>3. \A y, z \in Threads : Mid(y)' /\ Mid(z)' => y = z
      BY <3>2 DEF Mid
    <3>4. CASE CloseFd(x)
      <4>1. pc[x] = "close" /\ pc'[x] = "clear" /\ UNCHANGED stream
        BY <1>1, <3>4 DEF CloseFd, TypeOK
      <4>2. loaded[x] = stream
        BY <2>2, <4>1 DEF InTurn
      <4>3. open' = open \ {stream}
        BY <2>1, <3>4, <4>2 DEF CloseFd, Hit
      <4>4. InFlight' = InFlight /\ offered' = offered
        BY <1>3, <1>14, <4>1 DEF PutFd
      <4>5. offered' \cup InFlight' \subseteq open'
            /\ open' \subseteq offered' \cup InFlight' \cup {stream'}
        BY <1>1, <2>2, <4>1, <4>3, <4>4 DEF InTurn, OneHand
      <4>6. \A y \in Threads : pc'[y] = "clear" => stream' \notin open'
        BY <4>1, <4>3
      <4>7. QED
        BY <3>2, <3>3, <4>1, <4>5, <4>6 DEF InTurn
    <3>5. CASE ClearFd(x)
      <4>1. pc[x] = "clear" /\ pc'[x] = "put" /\ stream' = NoConn /\ UNCHANGED open
        BY <1>1, <3>5 DEF ClearFd, TypeOK
      <4>2. InFlight' = InFlight /\ offered' = offered
        BY <1>3, <1>14, <4>1 DEF PutFd
      <4>3. stream \notin open
        BY <2>2, <4>1 DEF InTurn
      <4>4. offered' \cup InFlight' \subseteq open'
            /\ open' \subseteq offered' \cup InFlight' \cup {stream'}
        BY <2>2, <4>1, <4>2, <4>3 DEF InTurn
      <4>5. QED
        BY <3>2, <3>3, <4>1, <4>4 DEF InTurn
    <3>6. CASE PutFd(x)
      <4>1. pc[x] = "put" /\ pc'[x] \notin {"close", "clear", "put"} /\ UNCHANGED open
        BY <1>1, <3>6 DEF PutFd, TypeOK
      <4>2. stream = NoConn /\ NoConn \notin open
        BY <1>1, <2>2, <4>1 DEF InTurn, TypeOK
      <4>3. \A y \in Threads : pc'[y] \notin {"close", "clear", "put"}
        BY <3>2, <4>1
      <4>4. stream' \in open' \cup {NoConn}
            /\ open' \subseteq offered' \cup InFlight' \cup {stream'}
        <5>1. CASE x = Worker
          BY <1>3, <1>14, <2>2, <3>6, <4>1, <4>2, <5>1 DEF PutFd, InTurn
        <5>2. CASE x # Worker
          <6>1. x \in Callers /\ arg[x] \in Connections /\ stream' = arg[x]
            BY <1>1, <3>6, <4>1, <5>2 DEF Threads, Arguments, PutFd, AssignPc
          <6>2. arg[x] \in InFlight
            BY <4>1, <6>1 DEF InFlight, AssignPc
          <6>3. QED
            BY <1>3, <1>14, <2>2, <3>6, <4>1, <4>2, <5>2, <6>1, <6>2 DEF InTurn
        <5>3. QED
          BY <5>1, <5>2
      <4>5. offered' \cup InFlight' \subseteq open'
        BY <1>3, <1>14, <2>2, <4>1 DEF InTurn
      <4>6. QED
        BY <3>3, <4>3, <4>4, <4>5 DEF InTurn
    <3>7. QED
      BY <2>4, <3>4, <3>5, <3>6 DEF Assign
  <2>5. QED
    BY <2>3, <2>4 DEF Assign, CloseFd, ClearFd, PutFd, Mid
<1>17. QED
  BY <1>6, <1>8, <1>10, <1>13, <1>15, <1>16 DEF IInv

LEMMA NextInv == IInv /\ [Next]_vars => IInv'
<1> SUFFICES ASSUME IInv, [Next]_vars PROVE IInv'
  OBVIOUS
<1> USE RequestProcessorAssumption
<1>1. /\ TypeOK /\ Arguments /\ ParseUnderLock /\ OneHand
      /\ hasRequest => request # NoConn
      /\ ProcessingHasRequest /\ NoLostWakeup
      /\ \A t \in Callers : t \in Threads /\ t # Worker
      /\ Worker \in Threads
  BY DEF IInv, Threads
<1>2. ASSUME NEW t \in Callers, NEW c \in offered \cup {NoConn}, Enter(t, c)
      PROVE  IInv'
  <2>1. /\ pc[t] = "idle" /\ \A x \in Threads : pc'[x] = IF x = t THEN "await" ELSE pc[x]
        /\ \A u \in Callers : arg'[u] = IF u = t THEN c ELSE arg[u]
        /\ offered' = offered \ {c} /\ c \in MaybeConn
        /\ UNCHANGED <<hasRequest, lock, stream, loaded, request, open, raced>>
    BY <1>1, <1>2 DEF Enter, TypeOK, fds, MaybeConn
  <2>2. TypeOK'
    BY <1>1, <1>2 DEF Enter, TypeOK, fds, flags, ghosts, MaybeConn, Threads, CallerPc, WorkerPc
  <2>3. InFlight' = InFlight \cup ({c} \ {NoConn})
    BY <1>1, <1>2, <2>1 DEF InFlight, AssignPc, TypeOK, MaybeConn
  <2>4. Arguments' /\ ParseUnderLock'
    BY <1>1, <2>1 DEF Arguments, ParseUnderLock, Parsing, AssignPc
  <2>5. NoConn \notin offered /\ NoConn \notin open
    BY <1>1 DEF TypeOK
  <2>6. OneHand'
    BY <1>1, <1>2, <2>1, <2>3, <2>5 DEF OneHand, Arguments
  <2>7. ASSUME ~raced' PROVE InTurn'
    <3>1. InTurn
      BY <2>1, <2>7 DEF IInv
    <3>2. \A x \in Threads : \A p \in {"close", "clear", "put"} : pc'[x] = p <=> pc[x] = p
      BY <2>1
    <3>3. \A x \in Threads : Mid(x)' <=> Mid(x)
      BY <3>2 DEF Mid
    <3>4. offered' \cup InFlight' = offered \cup InFlight
      BY <1>2, <2>1, <2>3, <2>5
    <3>5. QED
      BY <2>1, <3>1, <3>2, <3>3, <3>4 DEF InTurn
  <2>8. ProcessingHasRequest' /\ NoLostWakeup'
    BY <1>1, <2>1 DEF ProcessingHasRequest, Processing, NoLostWakeup
  <2>9. QED
    BY <1>1, <2>1, <2>2, <2>4, <2>6, <2>7, <2>8 DEF IInv
<1>3. ASSUME NEW t \in Callers, AwaitAvailable(t)
      PROVE  IInv'
  <2>1. /\ pc[t] = "await"
        /\ \A x \in Threads : x # t => pc'[x] = pc[x]
        /\ \A u \in Callers : u # t => arg'[u] = arg[u]
        /\ UNCHANGED <<hasRequest, lock, stream, loaded, request, open, raced>>
    BY <1>1, <1>3 DEF AwaitAvailable, Return, TypeOK, fds
  <2>2. \/ /\ pc'[t] = "idle" /\ arg'[t] = NoConn
           /\ offered' = offered \cup ({arg[t]} \cap Connections)
        \/ /\ pc'[t] = "store" /\ arg'[t] = arg[t] /\ arg[t] # NoConn
           /\ offered' = offered
    BY <1>1, <1>3 DEF AwaitAvailable, Return, TypeOK
  <2>3. TypeOK'
    BY <1>1, <1>3 DEF AwaitAvailable, Return, TypeOK, fds, flags, ghosts, MaybeConn,
                      Threads, CallerPc, WorkerPc
  <2>4. InFlight' = InFlight \ (IF pc'[t] = "idle" THEN {arg[t]} ELSE {})
    <3>1. CASE pc'[t] = "idle"
      <4>1. \A u \in Callers : u # t /\ arg[t] # NoConn => arg[u] # arg[t]
        BY <1>1 DEF OneHand
      <4>2. QED
        BY <1>1, <2>1, <3>1, <4>1 DEF InFlight, AssignPc, TypeOK, MaybeConn
    <3>2. CASE pc'[t] = "store"
      BY <1>1, <2>1, <2>2, <3>2 DEF InFlight, AssignPc
    <3>3. QED
      BY <2>2, <3>1, <3>2
  <2>5. arg[t] # NoConn => arg[t] \in InFlight
    BY <1>1, <2>1 DEF InFlight, AssignPc, TypeOK, MaybeConn
  <2>6. /\ offered' \cup InFlight' = offered \cup InFlight
        /\ offered' \cap InFlight' = {}
    BY <1>1, <2>2, <2>4, <2>5 DEF OneHand, TypeOK, InFlight
  <2>7. Arguments' /\ ParseUnderLock'
    <3>1. \A u \in Callers : u # t => arg[u] # arg[t] \/ arg[t] = NoConn
      BY <1>1 DEF OneHand
    <3>2. arg[t] \in MaybeConn /\ NoConn \notin Connections /\ arg[t] \notin offered
      BY <1>1 DEF TypeOK, Arguments
    <3>3. ParseUnderLock'
      BY <1>1, <2>1, <2>2 DEF ParseUnderLock, Parsing, AssignPc
    <3>4. Arguments'
      BY <1>1, <2>1, <2>2, <3>1, <3>2 DEF Arguments, AssignPc, MaybeConn, TypeOK
    <3>5. QED
      BY <3>3, <3>4
  <2>8. OneHand'
    BY <1>1, <2>1, <2>2, <2>6 DEF OneHand
  <2>9. ASSUME ~raced' PROVE InTurn'
    <3>1. InTurn
      BY <2>1, <2>9 DEF IInv
    <3>2. \A x \in Threads : \A p \in {"close", "clear", "put"} : pc'[x] = p <=> pc[x] = p
      BY <2>1, <2>2
    <3>3. \A x \in Threads : Mid(x)' <=> Mid(x)
      BY <3>2 DEF Mid
    <3>4. QED
      BY <2>1, <2>6, <3>1, <3>2, <3>3 DEF InTurn
  <2>10. ProcessingHasRequest' /\ NoLostWakeup'
    BY <1>1, <2>1 DEF ProcessingHasRequest, Processing, NoLostWakeup
  <2>11. QED
    BY <1>1, <2>1, <2>3, <2>7, <2>8, <2>9, <2>10 DEF IInv
<1>4. ASSUME NEW t \in Callers, Store(t)
      PROVE  IInv'
  <2>1. /\ pc[t] = "store" /\ pc'[t] = "test" /\ lock = Free /\ lock' = t
        /\ \A x \in Threads : x # t => pc'[x] = pc[x]
        /\ UNCHANGED <<hasRequest, arg, offered, fds, request>>
    BY <1>1, <1>4 DEF Store, LockFree, TypeOK
  <2>2. TypeOK'
    BY <1>1, <1>4 DEF Store, TypeOK, fds, flags, ghosts, Threads, CallerPc, WorkerPc, AssignPc
  <2>3. InFlight' = InFlight
    BY <1>1, <2>1 DEF InFlight, AssignPc
  <2>4. Arguments' /\ ParseUnderLock'
    BY <1>1, <2>1 DEF Arguments, ParseUnderLock, Parsing, AssignPc, fds
  <2>5. OneHand' /\ (~raced' => InTurn')
    <3>1. \A x \in Threads : pc'[x] # pc[x] =>
             pc[x] \notin AssignPc \ {"test"} /\ pc'[x] \notin AssignPc \ {"test"}
      BY <2>1 DEF AssignPc
    <3>2. \A v, u \in Callers : v # u /\ arg'[v] # NoConn => arg'[v] # arg'[u]
      BY <1>1, <2>1 DEF OneHand
    <3>3. QED
      BY <2>1, <2>3, <3>1, <3>2, SameHands
  <2>6. ProcessingHasRequest' /\ NoLostWakeup'
    BY <1>1, <2>1 DEF ProcessingHasRequest, Processing, NoLostWakeup
  <2>7. QED
    BY <1>1, <2>1, <2>2, <2>4, <2>5, <2>6 DEF IInv
<1>5. ASSUME NEW t \in Callers, ParseRequestLine(t) \/ ParseDone(t) \/ ParseFails(t)
      PROVE  IInv'
  <2>1. pc[t] \in {"parse", "body"} /\ lock = t /\ arg[t] \in Connections
    <3>1. pc[t] \in {"parse", "body"}
      BY <1>5 DEF ParseRequestLine, ParseDone, ParseFails
    <3>2. QED
      BY <1>1, <3>1 DEF ParseUnderLock, Arguments
  <2>2. /\ \A x \in Threads : x # t /\ x # Worker => pc'[x] = pc[x]
        /\ pc'[Worker] \in {pc[Worker], Notified(pc[Worker])}
        /\ UNCHANGED <<offered, fds>>
    BY <1>1, <1>5 DEF ParseRequestLine, ParseDone, ParseFails, Return, TypeOK
  <2>3. \/ ParseRequestLine(t) /\ pc[t] = "parse" /\ pc'[t] = "body" /\ UNCHANGED <<lock, arg>>
        \/ pc'[t] = "idle" /\ lock' = Free /\ arg' = [arg EXCEPT ![t] = NoConn]
    BY <1>1, <1>5 DEF ParseRequestLine, ParseDone, ParseFails, Return, Unlock, TypeOK
  <2>4. InFlight' = InFlight
    BY <1>1, <2>1, <2>2, <2>3 DEF InFlight, AssignPc, TypeOK
  <2>5. TypeOK'
    <3>1. CASE ParseRequestLine(t)
      BY <1>1, <3>1 DEF ParseRequestLine, TypeOK, fds, flags, ghosts, Threads, CallerPc, WorkerPc
    <3>2. CASE ParseDone(t)
      <4>1. Notified(pc[Worker]) \in WorkerPc
        BY <1>1 DEF TypeOK, Notified, WorkerPc
      <4>2. /\ pc' \in [Threads -> CallerPc \cup WorkerPc]
            /\ pc'[Worker] \in WorkerPc /\ \A u \in Callers : pc'[u] \in CallerPc
        BY <1>1, <3>2, <4>1 DEF ParseDone, TypeOK, CallerPc
      <4>3. QED
        BY <1>1, <2>1, <3>2, <4>2 DEF ParseDone, Unlock, TypeOK, fds, flags, MaybeConn
    <3>3. CASE ParseFails(t)
      BY <1>1, <3>3 DEF ParseFails, Return, Unlock, TypeOK, fds, flags, ghosts, Threads,
                        CallerPc, WorkerPc, MaybeConn
    <3>4. QED
      BY <1>5, <3>1, <3>2, <3>3
  <2>6. \A u \in Callers : u # t => pc[u] \notin AssignPc \cup {"parse", "body"}
    BY <1>1, <2>1 DEF ParseUnderLock
  <2>7. Free \notin Callers /\ \A u \in Callers : u # t => pc'[u] = pc[u]
    BY <1>1, <2>2
  <2>8. ParseUnderLock'
    <3>1. CASE pc'[t] = "body" /\ UNCHANGED <<lock, arg>>
      BY <1>1, <2>1, <2>2, <2>6, <2>7, <3>1 DEF ParseUnderLock, Parsing, fds
    <3>2. CASE pc'[t] = "idle" /\ lock' = Free
      BY <2>6, <2>7, <3>2 DEF ParseUnderLock, Parsing, AssignPc
    <3>3. QED
      BY <2>3, <3>1, <3>2
  <2>9. request' \in {request, arg[t]} /\ (ParseRequestLine(t) => request' = arg[t])
    BY <1>5 DEF ParseRequestLine, ParseDone, ParseFails
  <2>10. request' # NoConn \/ request' = request
    BY <2>1, <2>9
  <2>11. Arguments'
    <3>1. NoConn \notin offered
      BY <1>1 DEF TypeOK
    <3>2. \A u \in Callers : arg'[u] \in {arg[u], NoConn}
                             /\ (u # t => arg'[u] = arg[u])
      BY <1>1, <2>3 DEF TypeOK
    <3>3. pc'[t] = "body" => arg'[t] = arg[t] /\ request' # NoConn
      BY <2>1, <2>3, <2>9
    <3>4. QED
      BY <1>1, <2>1, <2>2, <2>3, <2>6, <2>7, <3>1, <3>2, <3>3 DEF Arguments, AssignPc
  <2>12. OneHand' /\ (~raced' => InTurn')
    <3>1. pc'[Worker] # pc[Worker] => pc[Worker] = "waiting" /\ pc'[Worker] = "woken"
      BY <2>2 DEF Notified
    <3>2. \A x \in Threads : pc'[x] # pc[x] =>
             pc[x] \notin AssignPc \ {"test"} /\ pc'[x] \notin AssignPc \ {"test"}
      BY <2>1, <2>2, <2>3, <3>1 DEF AssignPc
    <3>3. \A v, u \in Callers : v # u /\ arg'[v] # NoConn => arg'[v] # arg'[u]
      BY <1>1, <2>3 DEF OneHand, TypeOK
    <3>4. QED
      BY <2>2, <2>4, <3>2, <3>3, SameHands
  <2>13. /\ hasRequest' => request' # NoConn
         /\ hasRequest => hasRequest'
         /\ hasRequest' = hasRequest \/ (ParseDone(t) /\ pc'[Worker] = Notified(pc[Worker]))
    <3>1. CASE ParseDone(t)
      <4>1. request # NoConn
        BY <1>1, <3>1 DEF ParseDone, Arguments
      <4>2. pc'[Worker] = Notified(pc[Worker]) /\ hasRequest' = TRUE /\ request' = request
        BY <1>1, <3>1 DEF ParseDone, TypeOK
      <4>3. QED
        BY <3>1, <4>1, <4>2
    <3>2. CASE ~ParseDone(t)
      <4>1. hasRequest' = hasRequest
        BY <1>5, <3>2 DEF ParseRequestLine, ParseFails
      <4>2. QED
        BY <1>1, <2>10, <4>1
    <3>3. QED
      BY <3>1, <3>2
  <2>14. ProcessingHasRequest' /\ NoLostWakeup'
    <3>1. Processing' => Processing
      BY <2>2 DEF Processing, Notified, AssignPc
    <3>2. pc'[Worker] = "waiting" => pc[Worker] = "waiting" /\ ~ (pc'[Worker] = Notified(pc[Worker]))
      BY <2>2 DEF Notified
    <3>3. QED
      BY <1>1, <2>10, <2>13, <3>1, <3>2 DEF ProcessingHasRequest, NoLostWakeup
  <2>15. QED
    BY <2>5, <2>8, <2>11, <2>12, <2>13, <2>14 DEF IInv
<1>6. CASE Terminate
  <2>1. /\ UNCHANGED <<busy, hasRequest, lock, fds, request, pc, arg, offered, ghosts, alive>>
        /\ running' = FALSE
    BY <1>6 DEF Terminate
  <2>2. TypeOK'
    BY <1>1, <2>1 DEF TypeOK, fds, ghosts
  <2>3. InFlight' = InFlight
    BY <2>1 DEF InFlight
  <2>4. Arguments' /\ ParseUnderLock' /\ ProcessingHasRequest' /\ NoLostWakeup'
        /\ (hasRequest' => request' # NoConn)
    BY <1>1, <2>1 DEF Arguments, ParseUnderLock, Parsing, ProcessingHasRequest,
                      Processing, NoLostWakeup, fds
  <2>5. OneHand' /\ (~raced' => InTurn')
    <3>1. \A v, u \in Callers : v # u /\ arg'[v] # NoConn => arg'[v] # arg'[u]
      BY <1>1, <2>1 DEF OneHand
    <3>2. QED
      BY <2>1, <2>3, <3>1, SameHands
  <2>6. QED
    BY <2>2, <2>4, <2>5 DEF IInv
<1>7. CASE Destroy
  <2>1. /\ UNCHANGED <<flags, hasRequest, lock, loaded, request, pc, arg, offered, ghosts>>
        /\ stream' = NoConn /\ alive' = FALSE /\ raced' = (raced \/ Mid(Worker))
        /\ \A t \in Callers : pc[t] = "idle"
    BY <1>7 DEF Destroy
  <2>2. PICK d \in Hit(stream) : open' = open \ {d}
    BY <1>7 DEF Destroy
  <2>3. TypeOK'
    BY <1>1, <2>1, <2>2 DEF TypeOK, flags, ghosts, MaybeConn, Mid
  <2>4. InFlight = {} /\ InFlight' = {}
    BY <2>1 DEF InFlight, AssignPc
  <2>5. Arguments' /\ ParseUnderLock' /\ ProcessingHasRequest' /\ NoLostWakeup'
        /\ (hasRequest' => request' # NoConn)
    BY <1>1, <2>1 DEF Arguments, ParseUnderLock, Parsing, ProcessingHasRequest,
                      Processing, NoLostWakeup
  <2>6. OneHand'
    BY <1>1, <2>1, <2>4 DEF OneHand, TypeOK
  <2>7. ASSUME ~raced' PROVE InTurn'
    <3>1. InTurn /\ ~raced /\ \A x \in Threads : ~Mid(x)
      BY <2>1, <2>7 DEF IInv, Mid, Threads
    <3>2. open' = open \ {stream}
      BY <2>2, <3>1 DEF Hit
    <3>3. /\ \A x \in Threads : pc'[x] \notin {"close", "clear", "put"}
          /\ \A x, y \in Threads : Mid(x)' /\ Mid(y)' => x = y
      BY <2>1, <3>1 DEF Mid
    <3>4. offered' \cup InFlight' \subseteq open'
          /\ open' \subseteq offered' \cup InFlight' \cup {stream'}
      BY <1>1, <2>1, <2>4, <3>1, <3>2 DEF InTurn, OneHand
    <3>5. QED
      BY <2>1, <3>3, <3>4 DEF InTurn
  <2>8. QED
    BY <2>3, <2>5, <2>6, <2>7 DEF IInv
<1>8. ASSUME Run \/ SpuriousWake, ~Assign(Worker)
      PROVE  IInv'
  <2> USE DEF Run, SpuriousWake, WorkerAt, LoopTest, LoopTo, TakeUp, CheckRequest,
              CheckTo, Wake, WakeTo, Resolve, HandlerEnds, WriteReply, NotifyAvailable
  <2>1. PICK p \in WorkerPc \ {"close", "clear", "put"} :
          pc' = [pc EXCEPT ![Worker] = p] /\ pc[Worker] \notin {"close", "clear", "put"}
    BY <1>8 DEF WorkerPc, AssignPc
  <2>2. UNCHANGED state
    BY <1>8
  <2>3. UNCHANGED <<running, busy, hasRequest, lock, fds, request, arg, offered, accepted, alive>>
    BY <2>2 DEF state, flags
  <2>4. /\ Processing' => hasRequest
        /\ pc'[Worker] = "waiting" => ~hasRequest
    BY <1>1, <1>8 DEF TypeOK, Processing, AssignPc, ProcessingHasRequest, NoLostWakeup
  <2>5. taken' = taken \/ (hasRequest /\ taken' = taken \cup {request})
    BY <1>8
  <2> HIDE DEF Run, SpuriousWake, WorkerAt, LoopTest, LoopTo, TakeUp, CheckRequest,
              CheckTo, Wake, WakeTo, Resolve, HandlerEnds, WriteReply, NotifyAvailable
  <2>6. /\ \A t \in Callers : pc'[t] = pc[t]
        /\ pc'[Worker] = p
    BY <1>1, <2>1 DEF TypeOK
  <2>7. TypeOK'
    <3>1. taken' \subseteq Connections
      BY <1>1, <2>5 DEF TypeOK, MaybeConn
    <3>2. pc' \in [Threads -> CallerPc \cup WorkerPc] /\ \A t \in Callers : pc'[t] \in CallerPc
      BY <1>1, <2>1, <2>6 DEF TypeOK
    <3>3. QED
      BY <1>1, <2>3, <2>6, <3>1, <3>2 DEF TypeOK, fds
  <2>8. InFlight' = InFlight
    BY <2>3, <2>6 DEF InFlight
  <2>9. Arguments' /\ ParseUnderLock'
    BY <1>1, <2>3, <2>6 DEF Arguments, ParseUnderLock, Parsing, fds
  <2>10. OneHand' /\ (~raced' => InTurn')
    <3>1. \A x \in Threads : pc'[x] # pc[x] =>
             pc[x] \notin AssignPc \ {"test"} /\ pc'[x] \notin AssignPc \ {"test"}
      BY <2>1, <2>6 DEF AssignPc, Threads
    <3>2. \A v, u \in Callers : v # u /\ arg'[v] # NoConn => arg'[v] # arg'[u]
      BY <1>1, <2>3 DEF OneHand
    <3>3. QED
      BY <2>3, <2>8, <3>1, <3>2, SameHands
  <2>11. ProcessingHasRequest' /\ NoLostWakeup' /\ (hasRequest' => request' # NoConn)
    BY <1>1, <2>3, <2>4 DEF ProcessingHasRequest, NoLostWakeup
  <2>12. QED
    BY <2>7, <2>9, <2>10, <2>11 DEF IInv
<1>9. CASE UNCHANGED vars
  <2>1. UNCHANGED <<running, busy, hasRequest, lock, fds, request, pc, arg, offered,
                    accepted, taken, alive>>
    BY <1>9 DEF vars, fds
  <2>2. TypeOK' /\ InFlight' = InFlight
    BY <1>1, <2>1 DEF TypeOK, InFlight, fds
  <2>3. Arguments' /\ ParseUnderLock' /\ ProcessingHasRequest' /\ NoLostWakeup'
        /\ (hasRequest' => request' # NoConn)
    BY <1>1, <2>1 DEF Arguments, ParseUnderLock, Parsing, ProcessingHasRequest,
                      Processing, NoLostWakeup, fds
  <2>4. OneHand' /\ (~raced' => InTurn')
    <3>1. \A v, u \in Callers : v # u /\ arg'[v] # NoConn => arg'[v] # arg'[u]
      BY <1>1, <2>1 DEF OneHand
    <3>2. QED
      BY <2>1, <2>2, <3>1, SameHands
  <2>5. QED
    BY <2>2, <2>3, <2>4 DEF IInv
<1>10. ASSUME NEW x \in Threads, Assign(x) PROVE IInv'
  BY <1>10, AssignInv
<1>11. QED
  BY <1>1, <1>2, <1>3, <1>4, <1>5, <1>6, <1>7, <1>8, <1>9, <1>10 DEF Next, Wait, Parse

(* The inductive invariant holds in every reachable state.                 *)
THEOREM Invariant == Spec => []IInv
<1>1. QED
  BY InitInv, NextInv, PTL DEF Spec

-----------------------------------------------------------------------------
(* Every variable keeps its type.                                          *)
THEOREM TypeCorrect == Spec => []TypeOK
<1>1. IInv => TypeOK
  BY DEF IInv
<1>2. QED
  BY <1>1, Invariant, PTL

(* process_request() runs only once a request has been parsed, however     *)
(* many callers there are and whenever terminate() is called.              *)
THEOREM ProcessesRequests == Spec => []ProcessingHasRequest
<1>1. IInv => ProcessingHasRequest
  BY DEF IInv
<1>2. QED
  BY <1>1, Invariant, PTL

(* The worker never sleeps on the condition with a request pending.        *)
THEOREM WakesUp == Spec => []NoLostWakeup
<1>1. IInv => NoLostWakeup
  BY DEF IInv
<1>2. QED
  BY <1>1, Invariant, PTL

(* One thread stores and parses at a time, under lock_, from its own       *)
(* connection.                                                             *)
THEOREM ParsesAlone == Spec => []ParseUnderLock
<1>1. IInv => ParseUnderLock
  BY DEF IInv
<1>2. QED
  BY <1>1, Invariant, PTL

(* No connection is in two hands, and unless the worker has assigned to    *)
(* stream_ while a call did, no descriptor leaks and none is closed twice. *)
THEOREM OwnsConnections == Spec => []ConnectionOwnership
<1>1. IInv => ConnectionOwnership
  BY DEF IInv, InTurn, ConnectionOwnership
<1>2. QED
  BY <1>1, Invariant, PTL
-----------------------------------------------------------------------------
(* The processor implements the slot: the initial states are initial       *)
(* states of RequestSlot, and a step is a step of it or leaves it alone.   *)

(* Where a connection is, read off the variables: OneHand excludes two     *)
(* places at once.                                                         *)
Placed == \A c \in Connections :
            /\ Where[c] = "closed" <=> c \notin open
            /\ Where[c] = "caller" <=> c \in open \cap offered
            /\ Where[c] = "call" <=> c \in open \cap InFlight
            /\ Where[c] = "slot" <=> c \in open /\ c = stream
            /\ Where[c] = "lost" <=> c \in open \ (offered \cup InFlight \cup {stream})
            /\ Where[c] \in {"caller", "call", "slot", "closed", "lost"}

LEMMA PlacedInv == IInv => Placed
<1> SUFFICES ASSUME IInv, NEW c \in Connections
             PROVE  /\ Where[c] = "closed" <=> c \notin open
                    /\ Where[c] = "caller" <=> c \in open \cap offered
                    /\ Where[c] = "call" <=> c \in open \cap InFlight
                    /\ Where[c] = "slot" <=> c \in open /\ c = stream
                    /\ Where[c] = "lost" <=> c \in open \ (offered \cup InFlight \cup {stream})
                    /\ Where[c] \in {"caller", "call", "slot", "closed", "lost"}
  BY DEF Placed
<1>1. stream \notin offered \cup InFlight /\ InFlight \cap offered = {}
  BY DEF IInv, OneHand
<1>2. Where[c] = IF c \notin open THEN "closed"
                 ELSE IF c \in offered THEN "caller"
                 ELSE IF c \in InFlight THEN "call"
                 ELSE IF c = stream THEN "slot" ELSE "lost"
  BY DEF Where
<1>3. QED
  BY <1>1, <1>2

LEMMA PlacedNext == IInv' => Placed'
  BY PlacedInv, PTL

(* A connection whose membership in the three sets does not change stays.  *)
LEMMA SameWhere ==
  ASSUME offered' = offered, InFlight' = InFlight, stream' = stream, open' = open
  PROVE  Where' = Where
  BY DEF Where

(* What the slot sees of an assignment to stream_.                         *)
LEMMA AssignSlotStep ==
  ASSUME IInv, IInv', Placed, Placed', alive, NEW x \in Threads, Assign(x)
  PROVE  [Slot!Next]_(Slot!vars)
<1> USE RequestProcessorAssumption
<1>1. /\ Where = [c \in Connections |-> Where[c]]
      /\ Where' = [c \in Connections |-> Where'[c]]
  BY DEF Where
<1>2. /\ TypeOK /\ Arguments /\ OneHand /\ ParseUnderLock
      /\ ~raced => InTurn
      /\ \A t \in Callers : t \in Threads /\ t # Worker
  BY DEF IInv, Threads
<1>3. UNCHANGED <<hasRequest, arg, offered, alive>> /\ pc[x] \in AssignPc
  BY DEF Assign, TestFd, CloseFd, ClearFd, PutFd, AssignPc, rest
<1>4. \A y \in Threads : y # x => pc'[y] = pc[y]
  BY <1>2 DEF Assign, TestFd, CloseFd, ClearFd, PutFd, TypeOK
<1>5. (pc'[Worker] = "exited") = (pc[Worker] = "exited")
  BY <1>2, <1>3, <1>4 DEF Assign, TestFd, CloseFd, ClearFd, PutFd, AssignPc, TypeOK, Threads
<1>6. ASSUME ~PutFd(x) PROVE UNCHANGED <<Processing, InFlight>>
  <2>1. pc'[x] \in AssignPc
    BY <1>2, <1>6 DEF Assign, TestFd, CloseFd, ClearFd, AssignPc, TypeOK
  <2>2. \A y \in Threads : pc'[y] = pc[y] \/ (pc[y] \in AssignPc /\ pc'[y] \in AssignPc)
    BY <1>3, <1>4, <2>1
  <2>3. Processing' = Processing
    BY <2>2 DEF Processing, Threads
  <2>4. InFlight' = InFlight
    BY <1>2, <1>3, <2>2 DEF InFlight
  <2>5. QED
    BY <2>3, <2>4
<1>7. x = Worker => Processing
  BY <1>3 DEF Processing
<1>8. ASSUME x # Worker PROVE x \in Callers /\ arg[x] \in InFlight /\ lock = x
  BY <1>2, <1>3, <1>8 DEF Threads, InFlight, Arguments, ParseUnderLock
<1>9. CASE TestFd(x)
  <2>1. UNCHANGED <<stream, open>> /\ ~PutFd(x) /\ raced' = (raced \/ Overlaps(x))
    BY <1>9 DEF TestFd, PutFd
  <2>2. Where' = Where
    BY <1>3, <1>6, <2>1, SameWhere
  <2>3. CASE raced' = raced
    BY <1>3, <1>5, <1>6, <2>1, <2>2, <2>3 DEF Slot!vars
  <2>4. CASE raced' # raced
    <3>1. ~raced /\ Overlaps(x)
      BY <1>2, <2>1, <2>4 DEF TypeOK
    <3>2. PICK y \in Threads : y # x /\ Mid(y)
      BY <3>1 DEF Overlaps
    <3>3. pc[y] \in AssignPc
      BY <3>2 DEF Mid, AssignPc
    <3>4. y \in Callers => lock = y
      BY <1>2, <3>3 DEF ParseUnderLock
    <3>5. x = Worker \/ y = Worker
      BY <1>8, <3>2, <3>4 DEF Threads
    <3>6. Processing
      BY <1>7, <3>3, <3>5 DEF Processing
    <3>7. PICK t \in Callers : pc[t] \in AssignPc
      BY <1>3, <1>8, <3>2, <3>3, <3>5 DEF Threads
    <3>8. arg[t] \in Connections /\ arg[t] \in InFlight
      BY <1>2, <3>7 DEF Arguments, InFlight
    <3>9. arg[t] \in open
      BY <1>2, <3>1, <3>8 DEF InTurn
    <3>10. Slot!At("call") # {}
      BY <3>8, <3>9 DEF Placed, Slot!At
    <3>11. raced' = TRUE
      BY <2>1, <3>1
    <3>12. Slot!Overlap
      BY <1>3, <1>5, <1>6, <2>1, <2>2, <3>6, <3>10, <3>11 DEF Slot!Overlap
    <3>13. QED
      BY <3>12 DEF Slot!Next
  <2>5. QED
    BY <2>3, <2>4
<1>10. CASE CloseFd(x)
  <2>1. PICK c \in {loaded[x], stream} : \E d \in Hit(c) : open' = open \ {d}
    BY <1>10 DEF CloseFd
  <2>2. PICK d \in Hit(c) : open' = open \ {d}
    BY <2>1
  <2>3. ~PutFd(x) /\ UNCHANGED <<stream, raced>> /\ pc[x] = "close"
    BY <1>10 DEF CloseFd, PutFd
  <2>4. c \in MaybeConn /\ d \in MaybeConn
    BY <1>2, <2>1, <2>2 DEF TypeOK, Hit
  <2>5. CASE d \notin open
    <3>1. open' = open
      BY <2>2, <2>5
    <3>2. Where' = Where
      BY <1>3, <1>6, <2>3, <3>1, SameWhere
    <3>3. QED
      BY <1>3, <1>5, <1>6, <2>3, <3>2 DEF Slot!vars
  <2>6. CASE d \in open
    <3>1. d \in Connections
      BY <1>2, <2>6 DEF TypeOK
    <3>2. Where' = [Where EXCEPT ![d] = "closed"]
      BY <1>1, <1>3, <1>6, <2>2, <2>3, <3>1 DEF Where
    <3>3. raced \/ (Where[d] = "slot" /\ (Processing \/ Slot!At("call") # {}))
      <4> SUFFICES ASSUME ~raced
                   PROVE  Where[d] = "slot" /\ (Processing \/ Slot!At("call") # {})
        OBVIOUS
      <4>1. c = stream /\ d = c
        BY <1>2, <2>1, <2>2, <2>3 DEF InTurn, Hit
      <4>2. Where[d] = "slot"
        BY <2>6, <3>1, <4>1 DEF Placed
      <4>3. CASE x = Worker
        BY <1>7, <4>2, <4>3
      <4>4. CASE x # Worker
        <5>1. arg[x] \in Connections /\ arg[x] \in open \cap InFlight
          BY <1>2, <1>8, <4>4 DEF InTurn, InFlight
        <5>2. Slot!At("call") # {}
          BY <5>1 DEF Placed, Slot!At
        <5>3. QED
          BY <4>2, <5>2
      <4>5. QED
        BY <4>3, <4>4
    <3>4. Slot!Close(d)
      BY <1>3, <1>5, <1>6, <2>3, <3>2, <3>3 DEF Slot!Close
    <3>5. QED
      BY <1>3, <3>1, <3>4 DEF Slot!Next
  <2>7. QED
    BY <2>5, <2>6
<1>11. CASE ClearFd(x)
  <2>1. ~PutFd(x) /\ UNCHANGED <<open, raced>> /\ pc[x] = "clear" /\ stream' = NoConn
    BY <1>11 DEF ClearFd, PutFd
  <2>2. Where' = Slot!Emptied("lost")
    BY <1>1, <1>3, <1>6, <2>1 DEF Where, Slot!Emptied
  <2>3. CASE raced
    <3>1. Slot!Lose
      BY <1>3, <1>5, <1>6, <2>1, <2>2, <2>3 DEF Slot!Lose
    <3>2. QED
      BY <3>1 DEF Slot!Next
  <2>4. CASE ~raced
    <3>1. stream \notin open
      BY <1>2, <2>1, <2>4 DEF InTurn
    <3>2. \A c \in Connections : Where[c] # "slot"
      BY <3>1 DEF Placed
    <3>3. Where' = Where
      BY <1>1, <2>2, <3>2 DEF Slot!Emptied
    <3>4. QED
      BY <1>3, <1>5, <1>6, <2>1, <3>3 DEF Slot!vars
  <2>5. QED
    BY <2>3, <2>4
<1>12. CASE PutFd(x)
  <2>1. UNCHANGED <<open, raced>> /\ pc[x] = "put"
        /\ stream' = IF x = Worker THEN NoConn ELSE arg[x]
    BY <1>12 DEF PutFd
  <2>2. raced \/ Slot!At("slot") = {}
    <3>1. raced \/ (stream = NoConn /\ NoConn \notin open)
      BY <1>2, <2>1 DEF InTurn, TypeOK
    <3>2. QED
      BY <3>1 DEF Placed, Slot!At
  <2>3. CASE x = Worker
    <3>1. pc'[Worker] = "notify"
      BY <1>2, <1>12, <2>3 DEF PutFd, TypeOK
    <3>2. Processing /\ Processing' = FALSE
      BY <1>7, <2>3, <3>1 DEF Processing, AssignPc
    <3>3. InFlight' = InFlight
      BY <1>2, <1>3, <1>4, <2>3 DEF InFlight
    <3>4. Where' = Slot!Emptied("lost")
      BY <1>1, <1>3, <2>1, <2>3, <3>3 DEF Where, Slot!Emptied
    <3>5. Slot!Finish
      BY <1>3, <1>5, <2>1, <2>2, <3>2, <3>4 DEF Slot!Finish
    <3>6. QED
      BY <1>3, <3>5 DEF Slot!Next
  <2>4. CASE x # Worker
    <3> DEFINE c == arg[x]
    <3>1. x \in Callers /\ c \in Connections /\ c \in InFlight /\ c \notin offered
      BY <1>2, <1>8, <2>4 DEF InFlight, Arguments
    <3>2. pc'[x] = "parse" /\ pc'[Worker] = pc[Worker]
      BY <1>2, <1>4, <1>12, <2>4 DEF PutFd, TypeOK, Threads
    <3>3. Processing' = Processing
      BY <3>2 DEF Processing
    <3>4. InFlight' = InFlight \ {c}
      <4>1. \A u \in Callers : u # x => arg[u] # c
        BY <1>2, <3>1 DEF OneHand
      <4>2. QED
        BY <1>2, <1>3, <1>4, <2>1, <3>1, <3>2, <4>1 DEF InFlight, AssignPc
    <3>5. stream' = c
      BY <2>1, <2>4
    <3>6. CASE c \in open
      <4>1. Where[c] = "call"
        BY <3>1, <3>6 DEF Placed
      <4>2. Where' = [Slot!Emptied("lost") EXCEPT ![c] = "slot"]
        BY <1>1, <1>3, <2>1, <3>1, <3>4, <3>5, <3>6 DEF Where, Slot!Emptied
      <4>3. Slot!Put(c)
        BY <1>3, <1>5, <2>1, <2>2, <3>3, <4>1, <4>2 DEF Slot!Put
      <4>4. QED
        BY <1>3, <3>1, <4>3 DEF Slot!Next
    <3>7. CASE c \notin open
      <4>1. raced
        BY <1>2, <3>1, <3>7 DEF InTurn
      <4>2. Where' = Slot!Emptied("lost")
        BY <1>1, <1>3, <2>1, <3>1, <3>4, <3>5, <3>7 DEF Where, Slot!Emptied
      <4>3. Slot!Lose
        BY <1>3, <1>5, <2>1, <3>3, <4>1, <4>2 DEF Slot!Lose
      <4>4. QED
        BY <4>3 DEF Slot!Next
    <3>8. QED
      BY <3>6, <3>7
  <2>5. QED
    BY <2>3, <2>4
<1>13. QED
  BY <1>9, <1>10, <1>11, <1>12 DEF Assign

(* One action at a time, from the invariant before and after the step.     *)
LEMMA SlotStep ==
  ASSUME IInv, IInv', Placed, Placed', [Next]_vars
  PROVE  [Slot!Next]_(Slot!vars)
<1> DEFINE Same == UNCHANGED <<hasRequest, Processing, raced, pc[Worker] = "exited", ~alive>>
<1> USE RequestProcessorAssumption
<1>1. /\ Where = [c \in Connections |-> Where[c]]
      /\ Where' = [c \in Connections |-> Where'[c]]
  BY DEF Where
<1>2. /\ TypeOK /\ Arguments /\ ParseUnderLock /\ OneHand
      /\ \A t \in Callers : t \in Threads /\ t # Worker
      /\ Worker \in Threads
      /\ NoConn \notin offered /\ NoConn \notin open /\ NoConn \notin InFlight
  BY DEF IInv, Threads, TypeOK, InFlight
<1>3. ASSUME NEW t \in Callers, NEW c \in offered \cup {NoConn}, alive, Enter(t, c)
      PROVE  [Slot!Next]_(Slot!vars)
  <2>1. pc'[Worker] = pc[Worker] /\ UNCHANGED <<hasRequest, stream, open, raced, alive>>
    BY <1>2, <1>3 DEF Enter, TypeOK, fds
  <2>2. Same
    BY <2>1 DEF Processing
  <2>3. InFlight' = InFlight \cup ({c} \ {NoConn}) /\ offered' = offered \ {c}
    BY <1>2, <1>3 DEF Enter, InFlight, AssignPc, TypeOK, MaybeConn
  <2>4. CASE c \notin open
    <3>1. Where' = Where
      BY <2>1, <2>3, <2>4 DEF Where
    <3>2. QED
      BY <2>1, <2>2, <3>1 DEF Slot!vars
  <2>5. CASE c \in open
    <3>1. c \in offered /\ c \in Connections
      BY <1>2, <1>3, <2>5 DEF TypeOK
    <3>2. Where[c] = "caller" /\ Where' = [Where EXCEPT ![c] = "call"]
      BY <1>1, <1>2, <2>1, <2>3, <2>5, <3>1 DEF Where, Placed
    <3>3. Slot!Pass(c)
      BY <2>1, <2>2, <3>2 DEF Slot!Pass, Slot!Move
    <3>4. QED
      BY <1>3, <3>1, <3>3 DEF Slot!Next
  <2>6. QED
    BY <2>4, <2>5
<1>4. ASSUME NEW t \in Callers, alive, AwaitAvailable(t)
      PROVE  [Slot!Next]_(Slot!vars)
  <2>1. pc'[Worker] = pc[Worker] /\ UNCHANGED <<hasRequest, stream, open, raced, alive>>
    BY <1>2, <1>4 DEF AwaitAvailable, Return, TypeOK, fds
  <2>2. Same
    BY <2>1 DEF Processing
  <2> DEFINE c == arg[t]
  <2>3. \/ offered' = offered /\ InFlight' = InFlight
        \/ c \in InFlight /\ offered' = offered \cup {c} /\ InFlight' = InFlight \ {c}
    <3>1. c # NoConn => \A u \in Callers : u # t => arg[u] # c
      BY <1>2 DEF OneHand
    <3>2. CASE ~ (busy \/ c = NoConn)
      BY <1>2, <1>4, <3>2 DEF AwaitAvailable, InFlight, AssignPc, TypeOK
    <3>3. CASE c = NoConn
      <4>1. NoConn \notin Connections
        BY RequestProcessorAssumption
      <4>2. offered' = offered
        BY <1>4, <3>3, <4>1 DEF AwaitAvailable
      <4>3. \A u \in Callers : u # t => pc'[u] = pc[u] /\ arg'[u] = arg[u]
        BY <1>2, <1>4 DEF AwaitAvailable, Return, TypeOK
      <4>4. arg[t] = NoConn /\ arg'[t] = NoConn
        BY <1>2, <1>4, <3>3 DEF AwaitAvailable, Return, TypeOK
      <4>5. InFlight' = InFlight
        BY <4>1, <4>3, <4>4 DEF InFlight
      <4>6. QED
        BY <4>2, <4>5
    <3>4. CASE busy /\ c # NoConn
      <4>1. c \in Connections
        BY <1>2, <3>4 DEF TypeOK, MaybeConn
      <4>2. QED
        BY <1>2, <1>4, <3>1, <3>4, <4>1 DEF AwaitAvailable, Return, InFlight, AssignPc, TypeOK
    <3>5. QED
      BY <3>2, <3>3, <3>4
  <2>4. CASE Where' = Where
    BY <2>1, <2>2, <2>4 DEF Slot!vars
  <2>5. CASE c \in InFlight /\ offered' = offered \cup {c} /\ InFlight' = InFlight \ {c} /\ c \in open
    <3>1. c \in Connections
      BY <2>5 DEF InFlight
    <3>2. Where[c] = "call" /\ Where' = [Where EXCEPT ![c] = "caller"]
      BY <1>1, <1>2, <2>1, <2>5, <3>1 DEF Where, Placed
    <3>3. Slot!Refuse(c)
      BY <2>1, <2>2, <3>2 DEF Slot!Refuse, Slot!Move
    <3>4. QED
      BY <1>4, <3>1, <3>3 DEF Slot!Next
  <2>6. CASE c \notin open
    BY <2>1, <2>3, <2>4, <2>6 DEF Where
  <2>7. CASE offered' = offered /\ InFlight' = InFlight
    BY <2>1, <2>4, <2>7, SameWhere
  <2>8. QED
    BY <2>3, <2>5, <2>6, <2>7
<1>5. ASSUME NEW t \in Callers, alive, Store(t)
      PROVE  [Slot!Next]_(Slot!vars)
  <2>1. pc'[Worker] = pc[Worker] /\ UNCHANGED <<hasRequest, stream, open, raced, alive, offered>>
    BY <1>2, <1>5 DEF Store, TypeOK, fds
  <2>2. Same
    BY <2>1 DEF Processing
  <2>3. InFlight' = InFlight
    BY <1>2, <1>5 DEF Store, InFlight, AssignPc, TypeOK
  <2>4. Where' = Where
    BY <2>1, <2>3, SameWhere
  <2>5. QED
    BY <2>1, <2>2, <2>4 DEF Slot!vars
<1>6. ASSUME NEW t \in Callers, alive, ParseRequestLine(t) \/ ParseDone(t) \/ ParseFails(t)
      PROVE  [Slot!Next]_(Slot!vars)
  <2>1. UNCHANGED <<offered, stream, open, raced, alive>>
    BY <1>6 DEF ParseRequestLine, ParseDone, ParseFails, fds
  <2>2. pc'[Worker] \in {pc[Worker], Notified(pc[Worker])}
    BY <1>2, <1>6 DEF ParseRequestLine, ParseDone, ParseFails, Return, TypeOK
  <2>3. UNCHANGED <<Processing, pc[Worker] = "exited">>
    BY <2>2 DEF Notified, Processing, AssignPc
  <2>4. InFlight' = InFlight
    <3>1. pc[t] \in {"parse", "body"} /\ (pc'[t] \in {"idle", "body"})
          /\ \A u \in Callers : u # t => pc'[u] = pc[u] /\ arg'[u] = arg[u]
      BY <1>2, <1>6 DEF ParseRequestLine, ParseDone, ParseFails, Return, TypeOK
    <3>2. QED
      BY <3>1 DEF InFlight, AssignPc
  <2>5. Where' = Where
    BY <2>1, <2>4, SameWhere
  <2>6. CASE ParseDone(t)
    <3>1. pc[t] = "body" /\ arg[t] \in Connections /\ arg[t] \notin offered
      BY <1>2, <2>6 DEF ParseDone, Arguments
    <3>2. arg[t] \notin InFlight
      <4>1. \A u \in Callers : u # t => arg[u] # arg[t]
        BY <1>2, <3>1 DEF OneHand
      <4>2. QED
        BY <3>1, <4>1 DEF InFlight, AssignPc
    <3>3. Slot!At("caller") \cup Slot!At("call") # Connections
      BY <3>1, <3>2 DEF Placed, Slot!At
    <3>4. hasRequest' = TRUE
      BY <2>6 DEF ParseDone
    <3>5. Slot!Announce
      BY <2>1, <2>3, <2>5, <3>3, <3>4 DEF Slot!Announce
    <3>6. QED
      BY <1>6, <3>5 DEF Slot!Next
  <2>7. CASE ~ParseDone(t)
    <3>1. hasRequest' = hasRequest
      BY <1>6, <2>7 DEF ParseRequestLine, ParseFails
    <3>2. QED
      BY <2>1, <2>3, <2>5, <3>1 DEF Slot!vars
  <2>8. QED
    BY <2>6, <2>7
<1>7. CASE Terminate
  <2>1. UNCHANGED <<offered, stream, open, pc, arg, hasRequest, raced, alive>>
    BY <1>7 DEF Terminate, fds
  <2>2. InFlight' = InFlight /\ Processing' = Processing
    BY <2>1 DEF InFlight, Processing
  <2>3. Where' = Where
    BY <2>1, <2>2, SameWhere
  <2>4. QED
    BY <2>1, <2>2, <2>3 DEF Slot!vars
<1>8. CASE alive /\ Destroy
  <2>1. UNCHANGED <<offered, pc, arg, hasRequest>> /\ stream' = NoConn /\ alive' = FALSE
        /\ raced' = (raced \/ Mid(Worker))
    BY <1>8 DEF Destroy
  <2>2. InFlight = {} /\ InFlight' = {}
    BY <1>8, <2>1 DEF Destroy, InFlight, AssignPc
  <2>3. PICK d \in Hit(stream) : open' = open \ {d}
    BY <1>8 DEF Destroy
  <2>4. Slot!At("call") = {}
    BY <2>2 DEF Placed, Slot!At
  <2>5. raced' \in {raced, raced \/ Processing}
    BY <1>2, <2>1 DEF Mid, Processing, AssignPc, TypeOK
  <2>6. \/ Where' = Slot!Emptied("closed")
        \/ raced /\ \E c \in Connections : Where' = [Where EXCEPT ![c] = "closed"]
    <3>1. CASE stream \in open
      <4>1. d = stream
        BY <2>3, <3>1 DEF Hit
      <4>2. Where' = Slot!Emptied("closed")
        BY <1>1, <2>1, <2>2, <2>3, <3>1, <4>1 DEF Where, Placed, Slot!Emptied
      <4>3. QED
        BY <4>2
    <3>2. CASE stream \notin open
      <4>1. \A c \in Connections : Where[c] # "slot"
        BY <3>2 DEF Placed
      <4>2. CASE d \notin open
        <5>1. open' = open
          BY <2>3, <4>2
        <5>2. Where' = Slot!Emptied("closed")
          BY <1>1, <2>1, <2>2, <3>2, <4>1, <5>1 DEF Where, Slot!Emptied
        <5>3. QED
          BY <5>2
      <4>3. CASE d \in open
        <5>1. raced /\ d \in Connections
          BY <1>2, <2>3, <3>2, <4>3 DEF Hit, TypeOK
        <5>2. Where' = [Where EXCEPT ![d] = "closed"]
          BY <1>1, <2>1, <2>2, <2>3, <3>2, <4>3, <5>1 DEF Where
        <5>3. QED
          BY <5>1, <5>2
      <4>4. QED
        BY <4>2, <4>3
    <3>3. QED
      BY <3>1, <3>2
  <2>7. UNCHANGED <<Processing, pc[Worker] = "exited">>
    BY <2>1 DEF Processing
  <2>8. Slot!Stop
    BY <2>1, <2>4, <2>5, <2>6, <2>7 DEF Slot!Stop
  <2>9. QED
    BY <1>8, <2>8 DEF Slot!Next
<1>9. ASSUME Run \/ (alive /\ SpuriousWake), ~Assign(Worker)
      PROVE  [Slot!Next]_(Slot!vars)
  <2> USE DEF Run, SpuriousWake, WorkerAt, LoopTest, LoopTo, TakeUp, CheckRequest,
              CheckTo, Wake, WakeTo, Resolve, HandlerEnds, WriteReply, NotifyAvailable
  <2>1. \E p \in WorkerPc : pc' = [pc EXCEPT ![Worker] = p]
    BY <1>9 DEF WorkerPc, AssignPc
  <2>2. UNCHANGED state /\ alive
    BY <1>9
  <2>3. \/ UNCHANGED <<Processing, pc[Worker] = "exited">>
        \/ ~Processing /\ Processing' /\ hasRequest
           /\ pc[Worker] # "exited" /\ pc'[Worker] # "exited"
        \/ ~Processing /\ ~Processing' /\ pc'[Worker] = "exited"
    BY <1>2, <1>9 DEF TypeOK, Processing, AssignPc, Threads
  <2> HIDE DEF Run, SpuriousWake, WorkerAt, LoopTest, LoopTo, TakeUp, CheckRequest,
              CheckTo, Wake, WakeTo, Resolve, HandlerEnds, WriteReply, NotifyAvailable
  <2>4. UNCHANGED <<offered, arg, hasRequest, alive, stream, open, raced>>
    BY <2>2 DEF state, fds
  <2>5. InFlight' = InFlight
    BY <1>2, <2>1, <2>4 DEF InFlight, TypeOK
  <2>6. Where' = Where
    BY <2>4, <2>5, SameWhere
  <2>7. CASE UNCHANGED <<Processing, pc[Worker] = "exited">>
    BY <2>4, <2>6, <2>7 DEF Slot!vars
  <2>8. CASE ~Processing /\ Processing' /\ hasRequest
             /\ pc[Worker] # "exited" /\ pc'[Worker] # "exited"
    <3>1. Slot!Start
      BY <2>4, <2>6, <2>8 DEF Slot!Start, Processing
    <3>2. QED
      BY <2>2, <3>1 DEF Slot!Next
  <2>9. CASE ~Processing /\ ~Processing' /\ pc'[Worker] = "exited"
    <3>1. Slot!Quit
      BY <2>4, <2>6, <2>9 DEF Slot!Quit, Processing
    <3>2. QED
      BY <2>2, <3>1 DEF Slot!Next
  <2>10. QED
    BY <2>3, <2>7, <2>8, <2>9
<1>10. ASSUME NEW x \in Threads, alive, Assign(x)
       PROVE  [Slot!Next]_(Slot!vars)
  BY <1>10, AssignSlotStep
<1>11. CASE UNCHANGED vars
  <2>1. UNCHANGED <<offered, stream, open, pc, arg, hasRequest, raced, alive>>
    BY <1>11 DEF vars
  <2>2. InFlight' = InFlight /\ Processing' = Processing
    BY <2>1 DEF InFlight, Processing
  <2>3. Where' = Where
    BY <2>1, <2>2, SameWhere
  <2>4. QED
    BY <2>1, <2>2, <2>3 DEF Slot!vars
<1>12. QED
  BY <1>2, <1>3, <1>4, <1>5, <1>6, <1>7, <1>8, <1>9, <1>10, <1>11
  DEF Next, Wait, Parse, Run, Threads

(* Every behaviour of the processor, seen through Where, is a behaviour of *)
(* the slot: no connection comes back or is processed unannounced, and     *)
(* none is lost before the worker and a call have been at stream_ together.*)
THEOREM SlotImplemented == Spec => ImplementsSlot
<1>1. Init => Slot!Init
  <2> SUFFICES ASSUME Init PROVE Slot!Init
    OBVIOUS
  <2>1. Where = [c \in Connections |-> "caller"]
    BY DEF Init, Where
  <2>2. ~Processing /\ pc[Worker] = "loop"
    BY DEF Init, Processing, AssignPc, Threads
  <2>3. QED
    BY <2>1, <2>2 DEF Init, Slot!Init
<1>2. IInv /\ IInv' /\ [Next]_vars => [Slot!Next]_(Slot!vars)
  BY PlacedInv, PlacedNext, SlotStep
<1>3. QED
  BY <1>1, <1>2, Invariant, PTL DEF Spec, ImplementsSlot, Slot!Safety
=============================================================================
