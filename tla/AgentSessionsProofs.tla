------------------------- MODULE AgentSessionsProofs -------------------------
(***************************************************************************)
(* Proofs about AgentSessions, for any connections, any number of packets, *)
(* any bound of the queues and any number of SessionClose packets.         *)
(***************************************************************************)
EXTENDS AgentSessions, FiniteSetTheorems, WellFoundedInduction, TLAPS

-----------------------------------------------------------------------------
(* The inductive invariant *)

SomeDone == \E k \in Closers : closer[k] = "done"

\* A worker has a packet only from the start of its handler on, and a proxy that is to be
\* registered was built.
HandsAgree ==
    \A w \in Workers : /\ worker[w].pc \in {"none", "take"} => worker[w].pkt = 0
                       /\ worker[w].pc = "register" => worker[w].proxy # 0

\* Before the session is open there is nothing to handle, and no parameters.
OpenedFirst ==
    opener \notin {"ok", "late"} =>
        /\ ~params /\ recv.do = "idle"
        /\ \A w \in Workers : worker[w].pc = "none"
        /\ running = {} /\ \A c \in Conns : store[c] = 0

\* The session is closed from the moment a cleanup has the lock.
ClosedByCleanup ==
    closed <=> \E k \in Closers : closer[k] \in Cleaning \union {"done"}
LateIsClosed == opener = "late" => closed

\* Until a cleanup drops the queues, the queue stored for a connection is the only one
\* with a worker.
WorkersStored ==
    ~SomeDone => \A w \in Workers :
        worker[w].pc # "none" \/ (recv.do = "push" /\ recv.to = w) => queueOf[w[1]] = w[2]

\* A cleanup waits for the handlers that hold the lock, and later ones see closed.
NoReaders == Guarded /\ closed => \A w \in Workers : worker[w].pc \notin Holding

\* A cleanup removes the parameters, unless they are stored after the close.
ParamsGone ==
    opener # "late" =>
        \A k \in Closers : /\ closer[k] = "delete" /\ params => found[k].params
                           /\ closer[k] \in {"queues", "done"} => ~params

AgentInv ==
    /\ TypeOK /\ HandsAgree /\ OpenedFirst /\ ClosedByCleanup /\ LateIsClosed /\ WorkersStored
    /\ NoReaders /\ ParamsGone /\ OneHandler

\* While no queue was dropped: what was written, what the worker holds and what its queue
\* holds are in the order of arrival.
Arriving(c) == IF recv.do = "push" /\ recv.to[1] = c THEN received[c] - 1 ELSE received[c]
InLine(w) ==
    LET c == w[1]
        q == queued[w]
        x == worker[w].pkt
        out == written[c]
    IN /\ \A i \in 1..Len(q) : q[i] <= Arriving(c) /\ x < q[i]
       /\ \A i \in 1..Len(q), j \in 1..Len(out) : out[j] < q[i]
       /\ \A i, j \in 1..Len(q) : i < j => q[i] < q[j]
       /\ x <= Arriving(c)
       /\ \A j \in 1..Len(out) : out[j] <= Arriving(c)
       /\ worker[w].pc \notin {"none", "take"} => \A j \in 1..Len(out) : out[j] < x
QueueOrder == ~SomeDone => \A w \in Workers : InLine(w)

\* A packet that is handled is later than all that were written.
HandledLater ==
    \A w \in Workers : worker[w].pc \in Holding =>
        \A j \in 1..Len(written[w[1]]) : written[w[1]][j] < worker[w].pkt \/ Reopened

OrderInv == QueueOrder /\ HandledLater /\ InOrder

\* A handler that builds a proxy replaces none, unless an HTTP session was reopened.
BuildsFirst ==
    \A w \in Workers : worker[w].pc \in {"build", "register"} => store[w[1]] = 0 \/ Reopened

\* Only HTTP handlers store a proxy after the close; in a reopened session all are.
StoredLate ==
    /\ Guarded => late = {}
    /\ opener = "late" => Stored \subseteq late

\* A cleanup finds all that was stored before the close, and deletes it.
FoundAll ==
    \A k \in Closers : /\ closer[k] = "delete" => Stored \ late \subseteq found[k].proxies
                       /\ closer[k] \in {"queues", "done"} => Stored \subseteq late

\* The MCP gateway is built by a handler that holds the lock.
GatewayGone ==
    /\ kind # "mcp" => ~gateway
    /\ SomeDone => ~gateway

\* A proxy that runs, and that no goroutine is about to close, is in the store, or about to
\* be, unless its key was deleted or replaced.
Registering(p) == \E g \in Queues : worker[<<p[1], g>>].pc = "register" /\ worker[<<p[1], g>>].proxy = p[2]
RunningIsKept ==
    \A p \in running \ closing :
        p \in Stored \union evicted \/ Registering(p) \/ (Reopened /\ p \in late)

CleanInv == BuildsFirst /\ StoredLate /\ FoundAll /\ GatewayGone /\ RunningIsKept

-----------------------------------------------------------------------------
(* Types *)

\* Queues are numbered from 1, so that 0 is none of them.
LEMMA QueuesNat == Queues \subseteq Nat /\ 0 \notin Queues
<1>1. Cardinality(Closers) \in Nat
    BY AgentAssumption, FS_CardinalityType
<1> QED BY <1>1 DEF Queues

\* What the loop holds has the type of what it is doing.
LEMMA RecvTyped ==
    ASSUME TypeOK
    PROVE  /\ recv.do = "push" => recv.to \in Workers /\ recv.to[1] \in Conns /\ recv.to[2] \in Queues
           /\ recv.do = "close" => recv.hit \subseteq Proxies
BY DEF TypeOK, Workers

LEMMA WorkerTyped ==
    ASSUME NEW w \in Workers
    PROVE  w[1] \in Conns /\ w[2] \in Queues /\ w = <<w[1], w[2]>>
BY DEF Workers

\* What connStore holds are proxies.
LEMMA StoredTyped == TypeOK => Stored \subseteq Proxies
BY DEF TypeOK, Stored, Proxies

WorkerType == [pc : WorkerStates, pkt : Nat, proxy : Nat]

LEMMA WorkersAre == TypeOK => worker \in [Workers -> WorkerType]
BY DEF TypeOK, WorkerType

LEMMA QueueTyped ==
    ASSUME TypeOK, NEW w \in Workers
    PROVE  /\ queued[w] \in Seq(Nat) /\ Len(queued[w]) \in Nat /\ Len(queued[w]) <= MaxQueued
           /\ queued[w] # <<>> => worker[w].pc # "none"
<1>1. queued[w] \in Seq(Nat)
    BY DEF TypeOK
<1>2. Len(queued[w]) <= MaxQueued /\ (queued[w] # <<>> => worker[w].pc # "none")
    BY DEF TypeOK
<1> QED BY <1>1, <1>2

\* The step of a worker that goes on keeps the types, and its queue has a worker.
LEMMA SetWorker ==
    ASSUME TypeOK, NEW w \in Workers, UNCHANGED queued,
           \E r \in WorkerType : r.pc # "none" /\ worker' = [worker EXCEPT ![w] = r]
    PROVE  /\ worker' \in [Workers -> WorkerType]
           /\ \A v \in Workers : /\ Len(queued'[v]) <= MaxQueued
                                 /\ queued'[v] # <<>> => worker'[v].pc # "none"
<1>1. PICK r \in WorkerType : r.pc # "none" /\ worker' = [worker EXCEPT ![w] = r]
    OBVIOUS
<1>2. worker' \in [Workers -> WorkerType]
    BY <1>1, WorkersAre
<1>3. \A v \in Workers : worker'[v] = IF v = w THEN r ELSE worker[v]
    BY <1>1, WorkersAre
<1> QED BY <1>1, <1>2, <1>3, QueueTyped

\* The handler's steps are such steps.
LEMMA Steps ==
    ASSUME TypeOK, NEW w \in Workers
    PROVE  /\ Returns(w) => \E r \in WorkerType : r.pc # "none" /\ worker' = [worker EXCEPT ![w] = r]
           /\ \A a, b \in Holding \union {"start"} : Goes(w, a, b) =>
                \E r \in WorkerType : r.pc # "none" /\ worker' = [worker EXCEPT ![w] = r]
<1>1. ASSUME Returns(w) PROVE \E r \in WorkerType : r.pc # "none" /\ worker' = [worker EXCEPT ![w] = r]
    <2> DEFINE r == [Idle EXCEPT !.pc = "take"]
    <2>1. r \in WorkerType /\ r.pc # "none"
        BY DEF Idle, WorkerType, WorkerStates
    <2>2. worker' = [worker EXCEPT ![w] = r]
        BY <1>1 DEF Returns
    <2> QED BY <2>1, <2>2
<1>2. ASSUME NEW a \in Holding \union {"start"}, NEW b \in Holding \union {"start"}, Goes(w, a, b)
      PROVE  \E r \in WorkerType : r.pc # "none" /\ worker' = [worker EXCEPT ![w] = r]
    <2> DEFINE r == [worker[w] EXCEPT !.pc = b]
    <2>1. r \in WorkerType /\ r.pc # "none"
        BY WorkersAre DEF WorkerType, WorkerStates, Holding
    <2>2. worker' = [worker EXCEPT ![w] = r]
        BY <1>2 DEF Goes
    <2> QED BY <2>1, <2>2
<1> QED BY <1>1, <1>2

LEMMA Finds ==
    ASSUME TypeOK, NEW w \in Workers, NEW a \in Holding, NEW n \in Nat,
           worker' = [worker EXCEPT ![w].pc = a, ![w].proxy = n]
    PROVE  \E r \in WorkerType : r.pc # "none" /\ worker' = [worker EXCEPT ![w] = r]
<1> DEFINE q == [worker[w] EXCEPT !.pc = a]
           r == [q EXCEPT !.proxy = n]
<1>1. worker' = [worker EXCEPT ![w] = r]
    BY WorkersAre DEF WorkerType
<1>2. q \in WorkerType /\ q.pc = a
    BY WorkersAre DEF WorkerType, WorkerStates
<1> HIDE DEF q
<1>3. r \in WorkerType /\ r.pc # "none"
    BY <1>2 DEF WorkerType, Holding
<1> HIDE DEF r
<1> QED BY <1>1, <1>3

LEMMA TypeStep ==
    ASSUME TypeOK, [Next]_vars
    PROVE  TypeOK'
<1> USE RecvTyped, QueuesNat DEF vars, openVars, recvVars, queueVars, proxyVars, closeVars, histVars
<1>0. CASE UNCHANGED vars
    BY <1>0 DEF TypeOK
<1>1. CASE RecvOpen
    BY <1>1 DEF RecvOpen, TypeOK
<1>2. CASE OpenFails
    BY <1>2 DEF OpenFails, TypeOK
<1>3. CASE OpenOk
    BY <1>3 DEF OpenOk, TypeOK
<1>4. ASSUME NEW c \in Conns, RecvWrite(c) PROVE TypeOK'
    <2>1. PICK g \in Queues : /\ queueOf' = [queueOf EXCEPT ![c] = g]
                             /\ recv' = [do |-> "push", to |-> <<c, g>>]
        BY <1>4 DEF RecvWrite
    <2>2. <<c, g>> \in Workers
        BY DEF Workers
    <2>3. received' \in [Conns -> Nat] /\ queueOf' \in [Conns -> Queues \union {0}]
        BY <1>4, <2>1 DEF RecvWrite, TypeOK
    <2> QED BY <1>4, <2>1, <2>2, <2>3 DEF RecvWrite, TypeOK
<1>5. ASSUME NEW c \in Conns, RecvTcpClose(c) PROVE TypeOK'
    BY <1>5, StoredTyped DEF RecvTcpClose, TypeOK
<1>6. CASE Push
    <2> DEFINE w == recv.to
    <2>1. w \in Workers /\ w[1] \in Conns
        BY <1>6 DEF Push
    <2>2. CASE UNCHANGED <<queued, worker>>
        BY <1>6, <2>1, <2>2 DEF Push, TypeOK
    <2>3. CASE /\ Len(queued[w]) < MaxQueued
               /\ queued' = [queued EXCEPT ![w] = Append(@, received[w[1]])]
               /\ worker' = [worker EXCEPT ![w].pc = IF @ = "none" THEN "take" ELSE @]
               /\ UNCHANGED told
        <3>1. /\ queued' = [queued EXCEPT ![w] = Append(@, received[w[1]])]
              /\ worker' = [worker EXCEPT ![w].pc = IF @ = "none" THEN "take" ELSE @]
            BY <2>3
        <3>2. received[w[1]] \in Nat /\ queued[w] \in Seq(Nat)
            BY <2>1 DEF TypeOK
        <3>3. queued' \in [Workers -> Seq(Nat)]
            BY <2>1, <3>1, <3>2 DEF TypeOK
        <3>4. worker' \in [Workers -> WorkerType]
            BY <2>1, <3>1, WorkersAre DEF WorkerType, WorkerStates
        <3>5. Len(queued'[w]) <= MaxQueued /\ worker'[w].pc # "none"
            <4>1. queued'[w] = Append(queued[w], received[w[1]])
                BY <2>1, <3>1 DEF TypeOK
            <4>2. Len(queued'[w]) = Len(queued[w]) + 1 /\ Len(queued[w]) \in Nat
                BY <4>1, <3>2
            <4>3. worker'[w].pc # "none"
                BY <2>1, <3>1, WorkersAre DEF WorkerType
            <4> QED BY <2>3, <4>2, <4>3, AgentAssumption
        <3>6. \A v \in Workers : /\ Len(queued'[v]) <= MaxQueued
                                 /\ queued'[v] # <<>> => worker'[v].pc # "none"
            BY <2>1, <3>1, <3>5 DEF TypeOK
        <3> QED BY <1>6, <2>3, <3>3, <3>4, <3>6 DEF Push, TypeOK, WorkerType
    <2> QED BY <1>6, <2>2, <2>3 DEF Push
<1>7. CASE TcpClose
    BY <1>7, StoredTyped DEF TcpClose, TypeOK, DelKeys, Bystanders
<1>8. ASSUME NEW w \in Workers, Take(w) PROVE TypeOK'
    <2>1. queued \in [Workers -> Seq(Nat)] /\ queued[w] \in Seq(Nat)
        BY QueueTyped DEF TypeOK
    <2>2. CASE queued[w] = <<>>
        <3>1. Idle \in WorkerType
            BY DEF Idle, WorkerType, WorkerStates
        <3>2. worker' = [worker EXCEPT ![w] = Idle] /\ queued' = queued
            BY <1>8, <2>2 DEF Take
        <3>3. worker' \in [Workers -> WorkerType] /\ \A v \in Workers : v # w => worker'[v] = worker[v]
            BY <3>1, <3>2, WorkersAre
        <3>4. \A v \in Workers : /\ Len(queued'[v]) <= MaxQueued
                                 /\ queued'[v] # <<>> => worker'[v].pc # "none"
            BY <2>2, <3>2, <3>3, QueueTyped
        <3> QED BY <1>8, <2>1, <3>2, <3>3, <3>4 DEF Take, TypeOK, WorkerType
    <2>3. CASE queued[w] # <<>>
        <3> DEFINE r == [pc |-> "start", pkt |-> Head(queued[w]), proxy |-> 0]
                   t == Tail(queued[w])
        <3>1. worker' = [worker EXCEPT ![w] = r] /\ queued' = [queued EXCEPT ![w] = t]
            BY <1>8, <2>3 DEF Take
        <3>2. /\ Head(queued[w]) \in Nat /\ t \in Seq(Nat) /\ Len(t) = Len(queued[w]) - 1
            BY <2>1, <2>3
        <3>3. r \in WorkerType /\ r.pc # "none"
            BY <3>2 DEF WorkerType, WorkerStates
        <3> HIDE DEF r, t
        <3>4. worker' \in [Workers -> WorkerType] /\ queued' \in [Workers -> Seq(Nat)]
            BY <2>1, <3>1, <3>2, <3>3, WorkersAre
        <3>5. \A v \in Workers : /\ worker'[v] = IF v = w THEN r ELSE worker[v]
                                 /\ queued'[v] = IF v = w THEN t ELSE queued[v]
            BY <2>1, <3>1, WorkersAre
        <3>6. Len(t) <= MaxQueued
            BY <3>2, QueueTyped, AgentAssumption
        <3>7. \A v \in Workers : /\ Len(queued'[v]) <= MaxQueued
                                 /\ queued'[v] # <<>> => worker'[v].pc # "none"
            BY <3>3, <3>5, <3>6, QueueTyped
        <3> QED BY <1>8, <3>4, <3>7 DEF Take, TypeOK, WorkerType
    <2> QED BY <2>2, <2>3
<1>9. ASSUME NEW w \in Workers, Start(w) PROVE TypeOK'
    <2>1. \E r \in WorkerType : r.pc # "none" /\ worker' = [worker EXCEPT ![w] = r]
        BY <1>9, Steps DEF Start, Holding
    <2> QED BY <1>9, <2>1, SetWorker DEF Start, TypeOK, WorkerType
<1>10. ASSUME NEW w \in Workers, Lookup(w) PROVE TypeOK'
    <2>1. store[w[1]] \in Nat
        BY WorkerTyped DEF TypeOK
    <2>2. \E r \in WorkerType : r.pc # "none" /\ worker' = [worker EXCEPT ![w] = r]
        BY <1>10, <2>1, Finds DEF Lookup, Holding
    <2> QED BY <1>10, <2>2, SetWorker DEF Lookup, TypeOK, WorkerType
<1>11. ASSUME NEW w \in Workers, BuildFails(w) PROVE TypeOK'
    <2>1. \E r \in WorkerType : r.pc # "none" /\ worker' = [worker EXCEPT ![w] = r]
        BY <1>11, Steps DEF BuildFails
    <2> QED BY <1>11, <2>1, SetWorker DEF BuildFails, TypeOK, WorkerType
<1>12. ASSUME NEW w \in Workers, Build(w) PROVE TypeOK'
    <2> DEFINE n == built[w[1]] + 1
    <2>1. w[1] \in Conns /\ n \in Nat /\ built' = [built EXCEPT ![w[1]] = n]
        BY <1>12, WorkerTyped DEF Build, TypeOK
    <2>6. worker' = [worker EXCEPT ![w].pc = "register", ![w].proxy = n]
        BY <1>12 DEF Build
    <2> HIDE DEF n
    <2>2. \E r \in WorkerType : r.pc # "none" /\ worker' = [worker EXCEPT ![w] = r]
        BY <2>1, <2>6, Finds DEF Holding
    <2>3. built' \in [Conns -> Nat]
        BY <2>1 DEF TypeOK
    <2>4. <<w[1], n>> \in Proxies
        BY <2>1 DEF Proxies
    <2>5. running' \union callbacks' \subseteq Proxies
        BY <1>12, <2>4 DEF Build, TypeOK, n
    <2> QED BY <1>12, <2>2, <2>3, <2>5, SetWorker DEF Build, TypeOK, WorkerType
<1>13. ASSUME NEW w \in Workers, Register(w) PROVE TypeOK'
    <2>1. w[1] \in Conns /\ worker[w].proxy \in Nat
        BY WorkerTyped, WorkersAre DEF WorkerType
    <2>2. \E r \in WorkerType : r.pc # "none" /\ worker' = [worker EXCEPT ![w] = r]
        BY <1>13, Steps DEF Register, Holding
    <2>3. store' \in [Conns -> Nat]
        BY <1>13, <2>1 DEF Register, TypeOK
    <2>4. <<w[1], worker[w].proxy>> \in Proxies
        BY <2>1 DEF Proxies
    <2> QED BY <1>13, <2>2, <2>3, <2>4, SetWorker DEF Register, TypeOK, WorkerType
<1>14. ASSUME NEW w \in Workers, WriteOk(w) PROVE TypeOK'
    <2>1. \E r \in WorkerType : r.pc # "none" /\ worker' = [worker EXCEPT ![w] = r]
        BY <1>14, Steps DEF WriteOk
    <2>2. w[1] \in Conns /\ worker[w].pkt \in Nat
        BY WorkerTyped, WorkersAre DEF WorkerType
    <2>3. written' \in [Conns -> Seq(Nat)]
        BY <1>14, <2>2 DEF WriteOk, TypeOK
    <2> QED BY <1>14, <2>1, <2>3, SetWorker DEF WriteOk, TypeOK, WorkerType
<1>15. ASSUME NEW w \in Workers, WriteFails(w) PROVE TypeOK'
    <2>1. \E r \in WorkerType : r.pc # "none" /\ worker' = [worker EXCEPT ![w] = r]
        BY <1>15, Steps DEF WriteFails
    <2>2. w[1] \in Conns
        BY WorkerTyped
    <2>3. store' \in [Conns -> Nat]
        <3>1. UNCHANGED store \/ DelKeys({w[1]})
            BY <1>15 DEF WriteFails
        <3> QED BY <3>1 DEF DelKeys, TypeOK
    <2>5. told' \subseteq Conns \union {Session}
        BY <1>15, <2>2 DEF WriteFails, TypeOK
    <2>4. running' \subseteq Proxies /\ evicted' \subseteq Proxies
        BY <1>15, StoredTyped DEF WriteFails, Bystanders, TypeOK
    <2> QED BY <1>15, <2>1, <2>3, <2>4, <2>5, SetWorker DEF WriteFails, TypeOK, WorkerType
<1>16. ASSUME NEW p \in callbacks, ProxyEnds(p) PROVE TypeOK'
    <2>1. p[1] \in Conns
        BY DEF TypeOK, Proxies
    <2>2. store' \in [Conns -> Nat]
        BY <1>16 DEF ProxyEnds, DelKeys, TypeOK
    <2> QED BY <1>16, <2>1, <2>2, StoredTyped DEF ProxyEnds, TypeOK, Bystanders
<1>17. ASSUME NEW p \in closing, CloseProxy(p) PROVE TypeOK'
    BY <1>17 DEF CloseProxy, TypeOK
<1>18. ASSUME NEW k \in Closers, RecvSessionClose(k) \/ AskLock(k) \/ Lock(k) PROVE TypeOK'
    BY <1>18 DEF RecvSessionClose, AskLock, Lock, Cleans, Cleaning, TypeOK
<1>19. ASSUME NEW k \in Closers, Filter(k) PROVE TypeOK'
    BY <1>19, StoredTyped DEF Filter, Cleans, Cleaning, TypeOK
<1>20. ASSUME NEW k \in Closers, Delete(k) PROVE TypeOK'
    BY <1>20, StoredTyped DEF Delete, Cleans, Cleaning, TypeOK, DelKeys, Bystanders
<1>21. ASSUME NEW k \in Closers, DropQueues(k) PROVE TypeOK'
    BY <1>21 DEF DropQueues, Cleans, Cleaning, TypeOK, Nothing
<1> QED
    BY <1>0, <1>1, <1>2, <1>3, <1>4, <1>5, <1>6, <1>7, <1>8, <1>9, <1>10, <1>11, <1>12, <1>13, <1>14,
       <1>15, <1>16, <1>17, <1>18, <1>19, <1>20, <1>21 DEF Next, Work, Cleanup

-----------------------------------------------------------------------------
(* What the steps do to the workers and to the cleanups *)

\* A worker changes by its own steps, and when the loop pushes to its queue.
LEMMA WorkFrame ==
    ASSUME [Next]_vars
    PROVE  \/ UNCHANGED <<worker, queued, written>>
           \/ Push
           \/ \E w \in Workers : Work(w)
<1> USE DEF vars, openVars, recvVars, queueVars, proxyVars, closeVars, histVars
<1>1. CASE UNCHANGED vars
    BY <1>1
<1>2. CASE RecvOpen \/ OpenFails \/ OpenOk \/ TcpClose
    BY <1>2 DEF RecvOpen, OpenFails, OpenOk, TcpClose
<1>3. ASSUME NEW c \in Conns, RecvWrite(c) \/ RecvTcpClose(c) PROVE UNCHANGED <<worker, queued, written>>
    BY <1>3 DEF RecvWrite, RecvTcpClose
<1>4. ASSUME NEW p, ProxyEnds(p) \/ CloseProxy(p) PROVE UNCHANGED <<worker, queued, written>>
    BY <1>4 DEF ProxyEnds, CloseProxy
<1>5. ASSUME NEW k \in Closers, RecvSessionClose(k) \/ Cleanup(k) PROVE UNCHANGED <<worker, queued, written>>
    BY <1>5 DEF RecvSessionClose, Cleanup, AskLock, Lock, Filter, Delete, DropQueues
<1> QED BY <1>1, <1>2, <1>3, <1>4, <1>5 DEF Next

\* The cleanups change by their own steps.
LEMMA CloseFrame ==
    ASSUME [Next]_vars
    PROVE  \/ UNCHANGED <<closed, closer, found>>
           \/ \E k \in Closers : RecvSessionClose(k) \/ Cleanup(k)
<1> USE DEF vars, openVars, recvVars, queueVars, proxyVars, closeVars, histVars
<1>1. CASE UNCHANGED vars
    BY <1>1
<1>2. CASE RecvOpen \/ OpenFails \/ OpenOk \/ TcpClose \/ Push
    BY <1>2 DEF RecvOpen, OpenFails, OpenOk, TcpClose, Push
<1>3. ASSUME NEW c \in Conns, RecvWrite(c) \/ RecvTcpClose(c) PROVE UNCHANGED <<closed, closer, found>>
    BY <1>3 DEF RecvWrite, RecvTcpClose
<1>4. ASSUME NEW p, ProxyEnds(p) \/ CloseProxy(p) PROVE UNCHANGED <<closed, closer, found>>
    BY <1>4 DEF ProxyEnds, CloseProxy
<1>5. ASSUME NEW w \in Workers, Work(w) PROVE UNCHANGED <<closed, closer, found>>
    BY <1>5 DEF Work, Take, Start, Lookup, BuildFails, Build, Register, WriteOk, WriteFails
<1> QED BY <1>1, <1>2, <1>3, <1>4, <1>5 DEF Next

\* The session is opened by its goroutine, and its parameters deleted by a cleanup.
LEMMA OpenFrame ==
    ASSUME [Next]_vars
    PROVE  /\ kind' = kind
           /\ \/ UNCHANGED <<opener, params>>
              \/ RecvOpen \/ OpenFails \/ OpenOk
              \/ \E k \in Closers : Delete(k)
<1> USE DEF vars, openVars, recvVars, queueVars, proxyVars, closeVars, histVars
<1>1. CASE UNCHANGED vars
    BY <1>1
<1>2. CASE RecvOpen \/ OpenFails \/ OpenOk
    BY <1>2 DEF RecvOpen, OpenFails, OpenOk
<1>6. CASE TcpClose \/ Push
    BY <1>6 DEF TcpClose, Push
<1>3. ASSUME NEW c \in Conns, RecvWrite(c) \/ RecvTcpClose(c) PROVE UNCHANGED openVars
    BY <1>3 DEF RecvWrite, RecvTcpClose
<1>4. ASSUME NEW p, ProxyEnds(p) \/ CloseProxy(p) PROVE UNCHANGED openVars
    BY <1>4 DEF ProxyEnds, CloseProxy
<1>5. ASSUME NEW w \in Workers, Work(w) PROVE UNCHANGED openVars
    BY <1>5 DEF Work, Take, Start, Lookup, BuildFails, Build, Register, WriteOk, WriteFails
<1>7. ASSUME NEW k \in Closers, RecvSessionClose(k) \/ AskLock(k) \/ Lock(k) \/ Filter(k) \/ DropQueues(k)
      PROVE  UNCHANGED openVars
    BY <1>7 DEF RecvSessionClose, AskLock, Lock, Filter, DropQueues
<1>8. ASSUME NEW k \in Closers, Delete(k) PROVE UNCHANGED <<kind, opener>>
    BY <1>8 DEF Delete
<1> QED BY <1>1, <1>2, <1>3, <1>4, <1>5, <1>6, <1>7, <1>8 DEF Next, Cleanup

\* The step of a worker: what it leaves alone, where it goes, and what it holds then.
LEMMA Moves ==
    ASSUME TypeOK, NEW w \in Workers, Work(w)
    PROVE  /\ \A v \in Workers : v # w => worker'[v] = worker[v] /\ queued'[v] = queued[v]
           /\ worker[w].pc # "none"
           /\ worker'[w].pc \in {"none", "take"} => worker'[w].pkt = 0 /\ worker'[w].proxy = 0
           /\ worker'[w].pc \in Holding =>
                /\ worker'[w].pkt = worker[w].pkt
                /\ worker[w].pc \in Holding \/ (worker[w].pc = "start" /\ Start(w))
           /\ worker'[w].pc = "register" => worker'[w].proxy # 0
           /\ UNCHANGED <<recv, received, queueOf>>
<1> USE WorkersAre, WorkerTyped DEF WorkerType, Idle, Returns, Goes, Holding
<1> USE DEF vars, openVars, recvVars, queueVars, proxyVars, closeVars, histVars
<1>1. CASE Take(w)
    BY <1>1 DEF Take, TypeOK
<1>2. CASE Start(w)
    BY <1>2 DEF Start
<1>3. CASE Lookup(w)
    BY <1>3 DEF Lookup
<1>4. CASE BuildFails(w)
    BY <1>4 DEF BuildFails
<1>5. CASE Build(w)
    <2>1. built[w[1]] \in Nat
        BY DEF TypeOK
    <2> QED BY <1>5, <2>1 DEF Build
<1>6. CASE Register(w)
    BY <1>6 DEF Register
<1>7. CASE WriteOk(w)
    BY <1>7 DEF WriteOk
<1>8. CASE WriteFails(w)
    BY <1>8 DEF WriteFails
<1> QED BY <1>1, <1>2, <1>3, <1>4, <1>5, <1>6, <1>7, <1>8 DEF Work

-----------------------------------------------------------------------------
(* The parts of AgentInv *)

\* The step of the loop that pushes: the worker it may start has nothing in hands yet.
LEMMA Pushes ==
    ASSUME TypeOK, Push
    PROVE  /\ recv.do = "push" /\ recv.to \in Workers /\ recv' = [do |-> "idle"]
           /\ UNCHANGED <<received, queueOf, written>>
           /\ \A v \in Workers :
                /\ worker'[v].pkt = worker[v].pkt /\ worker'[v].proxy = worker[v].proxy
                /\ \/ worker'[v].pc = worker[v].pc
                   \/ v = recv.to /\ worker[v].pc = "none" /\ worker'[v].pc = "take"
<1>1. recv.do = "push" /\ recv.to \in Workers
    BY RecvTyped DEF Push
<1> QED
    BY <1>1, WorkersAre
    DEF Push, WorkerType, openVars, recvVars, queueVars, proxyVars, closeVars, histVars

LEMMA HandsStep ==
    ASSUME TypeOK, HandsAgree, [Next]_vars
    PROVE  HandsAgree'
<1>1. CASE UNCHANGED worker
    BY <1>1 DEF HandsAgree
<1>2. CASE Push
    BY <1>2, Pushes DEF HandsAgree
<1>3. ASSUME NEW w \in Workers, Work(w) PROVE HandsAgree'
    BY <1>3, Moves DEF HandsAgree
<1> QED BY <1>1, <1>2, <1>3, WorkFrame

LEMMA ClosedStep ==
    ASSUME TypeOK, ClosedByCleanup, [Next]_vars
    PROVE  ClosedByCleanup'
<1> USE DEF ClosedByCleanup, TypeOK
<1>1. CASE UNCHANGED <<closed, closer, found>>
    BY <1>1
<1>2. ASSUME NEW k \in Closers, RecvSessionClose(k) \/ AskLock(k) PROVE ClosedByCleanup'
    BY <1>2 DEF RecvSessionClose, AskLock, Cleans, Cleaning
<1>3. ASSUME NEW k \in Closers, Lock(k) PROVE ClosedByCleanup'
    BY <1>3 DEF Lock, Cleans, Cleaning
<1>4. ASSUME NEW k \in Closers, Filter(k) \/ Delete(k) \/ DropQueues(k) PROVE ClosedByCleanup'
    BY <1>4 DEF Filter, Delete, DropQueues, Cleans, Cleaning
<1> HIDE DEF ClosedByCleanup, TypeOK
<1> QED BY <1>1, <1>2, <1>3, <1>4, CloseFrame DEF Cleanup

LEMMA ClosedStays == [Next]_vars => (closed => closed')
<1>1. ASSUME NEW k \in Closers, RecvSessionClose(k) \/ Cleanup(k) PROVE closed => closed'
    BY <1>1 DEF RecvSessionClose, Cleanup, AskLock, Lock, Filter, Delete, DropQueues
<1> QED BY <1>1, CloseFrame

LEMMA LateStep ==
    ASSUME LateIsClosed, [Next]_vars
    PROVE  LateIsClosed'
<1> USE ClosedStays DEF LateIsClosed
<1>1. CASE UNCHANGED <<opener, params>>
    BY <1>1
<1>2. CASE RecvOpen \/ OpenFails \/ OpenOk
    BY <1>2 DEF RecvOpen, OpenFails, OpenOk
<1>3. ASSUME NEW k \in Closers, Delete(k) PROVE LateIsClosed'
    BY <1>3 DEF Delete
<1> QED BY <1>1, <1>2, <1>3, OpenFrame

\* The session stays reopened.
LEMMA OpenerStays ==
    ASSUME [Next]_vars
    PROVE  /\ opener \in {"ok", "late"} => opener' = opener
           /\ Reopened => Reopened'
<1>1. ASSUME NEW k \in Closers, Delete(k) PROVE opener' = opener
    BY <1>1 DEF Delete
<1> QED BY <1>1, OpenFrame DEF RecvOpen, OpenFails, OpenOk, Reopened

\* Nothing is handled before the session is open, so nothing happens that a handler does.
LEMMA OpenedStep ==
    ASSUME TypeOK, OpenedFirst, [Next]_vars
    PROVE  OpenedFirst'
<1> SUFFICES ASSUME opener' \notin {"ok", "late"}
             PROVE  OpenedFirst'
    BY DEF OpenedFirst
<1>1. opener \notin {"ok", "late"}
    BY OpenerStays
<1>2. /\ ~params /\ recv.do = "idle" /\ running = {} /\ Stored = {}
      /\ \A w \in Workers : worker[w].pc = "none"
      /\ \A c \in Conns : store[c] = 0
    BY <1>1 DEF OpenedFirst, Stored
<1> USE DEF vars, openVars, recvVars, queueVars, proxyVars, closeVars, histVars, OpenedFirst
<1>3. CASE UNCHANGED vars
    BY <1>2, <1>3
<1>4. CASE RecvOpen \/ OpenFails
    BY <1>2, <1>4 DEF RecvOpen, OpenFails
<1>5. CASE OpenOk \/ Push \/ TcpClose
    BY <1>2, <1>5 DEF OpenOk, Push, TcpClose
<1>6. ASSUME NEW c \in Conns, RecvWrite(c) \/ RecvTcpClose(c) PROVE FALSE
    BY <1>1, <1>2, <1>6 DEF RecvWrite, RecvTcpClose
<1>7. ASSUME NEW w \in Workers, Work(w) PROVE FALSE
    BY <1>2, <1>7, Moves
<1>8. ASSUME NEW p, ProxyEnds(p) \/ CloseProxy(p) PROVE OpenedFirst'
    BY <1>2, <1>8 DEF ProxyEnds, CloseProxy, DelKeys
<1>9. ASSUME NEW k \in Closers, RecvSessionClose(k) \/ AskLock(k) \/ Lock(k) \/ Filter(k) \/ DropQueues(k)
      PROVE  OpenedFirst'
    BY <1>2, <1>9 DEF RecvSessionClose, AskLock, Lock, Filter, DropQueues
<1>10. ASSUME NEW k \in Closers, Delete(k) PROVE OpenedFirst'
    BY <1>2, <1>10 DEF Delete, DelKeys
<1> QED BY <1>3, <1>4, <1>5, <1>6, <1>7, <1>8, <1>9, <1>10 DEF Next, Cleanup

\* A cleanup that is through stays so.
LEMMA DoneStays ==
    ASSUME TypeOK, [Next]_vars, SomeDone
    PROVE  SomeDone'
<1>1. ASSUME NEW k \in Closers, RecvSessionClose(k) \/ Cleanup(k) PROVE SomeDone'
    BY <1>1 DEF RecvSessionClose, Cleanup, AskLock, Lock, Filter, Delete, DropQueues, Cleans, TypeOK, SomeDone
<1> QED BY <1>1, CloseFrame DEF SomeDone

LEMMA StoredWorkersStep ==
    ASSUME TypeOK, WorkersStored, [Next]_vars
    PROVE  WorkersStored'
<1> SUFFICES ASSUME ~SomeDone', NEW w \in Workers,
                    worker'[w].pc # "none" \/ (recv'.do = "push" /\ recv'.to = w)
             PROVE  queueOf'[w[1]] = w[2]
    BY DEF WorkersStored
<1>1. \A v \in Workers : worker[v].pc # "none" \/ (recv.do = "push" /\ recv.to = v) => queueOf[v[1]] = v[2]
    BY DoneStays DEF WorkersStored
<1> USE DEF vars, openVars, recvVars, queueVars, proxyVars, closeVars, histVars
<1>2. CASE UNCHANGED vars
    BY <1>1, <1>2
<1>3. CASE RecvOpen \/ OpenFails \/ OpenOk
    BY <1>1, <1>3 DEF RecvOpen, OpenFails, OpenOk
<1>4. CASE TcpClose
    BY <1>1, <1>4 DEF TcpClose
<1>5. CASE Push
    BY <1>1, <1>5, Pushes
<1>6. ASSUME NEW c \in Conns, RecvTcpClose(c) PROVE queueOf'[w[1]] = w[2]
    BY <1>1, <1>6 DEF RecvTcpClose
<1>7. ASSUME NEW c \in Conns, RecvWrite(c) PROVE queueOf'[w[1]] = w[2]
    <2>1. PICK g \in Queues : /\ LoadOrStore(c, g)
                             /\ queueOf' = [queueOf EXCEPT ![c] = g]
                             /\ recv' = [do |-> "push", to |-> <<c, g>>]
        BY <1>7 DEF RecvWrite
    <2>2. worker' = worker
        BY <1>7 DEF RecvWrite
    <2>3. CASE w = <<c, g>>
        BY <2>1, <2>3 DEF TypeOK
    <2>4. CASE w # <<c, g>>
        <3>1. worker[w].pc # "none" /\ queueOf[w[1]] = w[2]
            BY <1>1, <2>1, <2>2, <2>4
        <3>2. w[1] # c
            BY <2>1, <2>4, <3>1, WorkerTyped, QueuesNat DEF LoadOrStore
        <3> QED BY <2>1, <3>1, <3>2, WorkerTyped DEF TypeOK
    <2> QED BY <2>3, <2>4
<1>8. ASSUME NEW v \in Workers, Work(v) PROVE queueOf'[w[1]] = w[2]
    BY <1>1, <1>8, Moves
<1>9. ASSUME NEW p, ProxyEnds(p) \/ CloseProxy(p) PROVE queueOf'[w[1]] = w[2]
    BY <1>1, <1>9 DEF ProxyEnds, CloseProxy
<1>10. ASSUME NEW k \in Closers, RecvSessionClose(k) \/ AskLock(k) \/ Lock(k) \/ Filter(k) \/ Delete(k)
       PROVE  queueOf'[w[1]] = w[2]
    BY <1>1, <1>10 DEF RecvSessionClose, AskLock, Lock, Filter, Delete
<1>11. ASSUME NEW k \in Closers, DropQueues(k) PROVE FALSE
    BY <1>11 DEF DropQueues, Cleans, SomeDone, TypeOK
<1> QED
    BY <1>2, <1>3, <1>4, <1>5, <1>6, <1>7, <1>8, <1>9, <1>10, <1>11 DEF Next, Cleanup

LEMMA ReadersStep ==
    ASSUME TypeOK, NoReaders, [Next]_vars
    PROVE  NoReaders'
<1> SUFFICES ASSUME Guarded', closed', NEW w \in Workers, worker'[w].pc \in Holding
             PROVE  FALSE
    BY DEF NoReaders
<1>1. Guarded
    BY OpenFrame DEF Guarded
<1>2. CASE Push
    <2>1. closed
        BY <1>2 DEF Push, closeVars
    <2> QED BY <1>1, <1>2, <2>1, Pushes DEF NoReaders, Holding
<1>3. ASSUME NEW v \in Workers, Work(v) PROVE FALSE
    <2>1. closed' = closed /\ (Start(v) => ~(Guarded /\ closed) \/ Returns(v))
        BY <1>3 DEF Work, Take, Start, Lookup, BuildFails, Build, Register, WriteOk, WriteFails, closeVars
    <2>2. worker[w].pc \notin Holding
        BY <1>1, <2>1 DEF NoReaders
    <2>3. v = w /\ Start(v)
        BY <1>3, <2>2, Moves
    <2>4. worker'[w].pc = "take"
        BY <1>1, <2>1, <2>3, WorkersAre DEF Returns, Idle, WorkerType
    <2> QED BY <2>4 DEF Holding
<1>4. CASE UNCHANGED <<worker, queued, written>>
    <2>1. worker[w].pc \in Holding /\ ~closed
        BY <1>1, <1>4 DEF NoReaders
    <2>2. ASSUME NEW k \in Closers, RecvSessionClose(k) \/ Cleanup(k) PROVE Lock(k)
        BY <2>1, <2>2 DEF RecvSessionClose, Cleanup, AskLock, Filter, Delete, DropQueues, closeVars
    <2>3. \E k \in Closers : Lock(k)
        BY <2>1, <2>2, CloseFrame
    <2> QED BY <1>1, <2>1, <2>3 DEF Lock, Readers
<1> QED BY <1>2, <1>3, <1>4, WorkFrame

LEMMA ParamsStep ==
    ASSUME TypeOK, ClosedByCleanup, ParamsGone, [Next]_vars
    PROVE  ParamsGone'
<1> USE DEF ParamsGone
<1>1. CASE RecvOpen \/ OpenFails
    BY <1>1 DEF RecvOpen, OpenFails, closeVars
<1>2. CASE OpenOk
    BY <1>2 DEF OpenOk, closeVars, ClosedByCleanup, Cleaning
<1>3. ASSUME NEW k \in Closers, Delete(k) PROVE ParamsGone'
    BY <1>3 DEF Delete, Cleans, TypeOK
<1>4. CASE UNCHANGED <<opener, params>>
    <2>1. CASE UNCHANGED <<closed, closer, found>>
        BY <1>4, <2>1
    <2>2. ASSUME NEW k \in Closers, RecvSessionClose(k) \/ AskLock(k) \/ Lock(k) PROVE ParamsGone'
        BY <1>4, <2>2 DEF RecvSessionClose, AskLock, Lock, Cleans, TypeOK
    <2>3. ASSUME NEW k \in Closers, Filter(k) PROVE ParamsGone'
        BY <1>4, <2>3 DEF Filter, Cleans, TypeOK
    <2>4. ASSUME NEW k \in Closers, DropQueues(k) PROVE ParamsGone'
        BY <1>4, <2>4 DEF DropQueues, Cleans, TypeOK
    <2> QED BY <1>3, <2>1, <2>2, <2>3, <2>4, CloseFrame DEF Cleanup
<1> QED BY <1>1, <1>2, <1>3, <1>4, OpenFrame

\* A handler that starts finds the parameters and, when guarded, the session open: no queue
\* was dropped, unless the session was reopened.
LEMMA StartsBeforeDrop ==
    ASSUME TypeOK, ClosedByCleanup, ParamsGone, NEW w \in Workers, Start(w),
           worker'[w].pc \in Holding
    PROVE  ~SomeDone \/ Reopened
<1>1. ~(Guarded /\ closed) /\ params
    BY WorkersAre DEF Start, Returns, Idle, Holding, WorkerType
<1>2. ASSUME SomeDone PROVE Reopened
    <2>1. closed /\ ~Guarded /\ kind = "http"
        BY <1>1, <1>2 DEF ClosedByCleanup, SomeDone, Guarded, TypeOK, Kinds
    <2> QED BY <1>1, <1>2, <2>1 DEF ParamsGone, SomeDone, Reopened
<1> QED BY <1>2

LEMMA OneHandlerStep ==
    ASSUME AgentInv, [Next]_vars
    PROVE  OneHandler'
<1> SUFFICES ASSUME NEW v \in Workers, NEW w \in Workers, v[1] = w[1],
                    worker'[v].pc \in Holding, worker'[w].pc \in Holding, ~Reopened'
             PROVE  v = w
    BY DEF OneHandler
<1> USE DEF AgentInv
<1>1. ~Reopened
    BY OpenerStays
<1>2. CASE Push \/ UNCHANGED <<worker, queued, written>>
    BY <1>1, <1>2, Pushes DEF OneHandler, Holding
<1>3. ASSUME NEW u \in Workers, Work(u) PROVE v = w
    <2>1. worker[v].pc # "none" /\ worker[w].pc # "none"
        BY <1>3, Moves DEF Holding
    <2>2. CASE worker[v].pc \in Holding /\ worker[w].pc \in Holding
        BY <1>1, <2>2 DEF OneHandler
    <2>3. CASE ~(worker[v].pc \in Holding /\ worker[w].pc \in Holding)
        <3>1. ~SomeDone
            BY <1>1, <1>3, <2>3, Moves, StartsBeforeDrop
        <3> QED BY <2>1, <3>1, WorkerTyped DEF WorkersStored
    <2> QED BY <2>2, <2>3
<1> QED BY <1>2, <1>3, WorkFrame

LEMMA AgentInit == Init => AgentInv
<1> SUFFICES ASSUME Init PROVE AgentInv
    OBVIOUS
<1> USE DEF Init
<1>1. TypeOK
    <2>1. worker \in [Workers -> WorkerType] /\ queued \in [Workers -> Seq(Nat)]
        BY DEF WorkerType, WorkerStates, Idle
    <2>2. \A w \in Workers : Len(queued[w]) <= MaxQueued /\ queued[w] = <<>>
        BY AgentAssumption
    <2>3. /\ closer \in [Closers -> {"none", "spawned", "locking", "done"} \union Cleaning]
          /\ found \in [Closers -> [proxies : SUBSET Proxies, params : BOOLEAN]]
        BY DEF Nothing
    <2>4. /\ recv \in [do : {"idle"}] /\ queueOf \in [Conns -> Queues \union {0}]
          /\ store \in [Conns -> Nat] /\ built \in [Conns -> Nat]
          /\ received \in [Conns -> Nat] /\ written \in [Conns -> Seq(Nat)]
        OBVIOUS
    <2> QED BY <2>1, <2>2, <2>3, <2>4 DEF TypeOK, WorkerType
<1>2. \A w \in Workers : worker[w].pc = "none" /\ worker[w].pkt = 0
    BY DEF Idle
<1>3. HandsAgree /\ WorkersStored /\ NoReaders /\ OneHandler
    BY <1>2 DEF HandsAgree, WorkersStored, NoReaders, OneHandler, Holding
<1>4. OpenedFirst /\ ClosedByCleanup /\ LateIsClosed /\ ParamsGone
    BY <1>2 DEF OpenedFirst, ClosedByCleanup, LateIsClosed, ParamsGone, Cleaning
<1> QED BY <1>1, <1>3, <1>4 DEF AgentInv

LEMMA AgentStep ==
    ASSUME AgentInv, [Next]_vars
    PROVE  AgentInv'
<1> USE DEF AgentInv
<1>1. TypeOK' /\ HandsAgree' /\ OpenedFirst' /\ ClosedByCleanup' /\ LateIsClosed'
    BY TypeStep, HandsStep, OpenedStep, ClosedStep, LateStep
<1>2. WorkersStored' /\ NoReaders' /\ ParamsGone' /\ OneHandler'
    BY StoredWorkersStep, ReadersStep, ParamsStep, OneHandlerStep
<1> QED BY <1>1, <1>2

LEMMA AgentInvariant == Spec => []AgentInv
BY AgentInit, AgentStep, PTL DEF Spec

\* Type correctness of the agent's session, and the bound of push.
THEOREM AgentTypeCorrect == Spec => []TypeOK
BY AgentInvariant, PTL DEF AgentInv

\* packetQueue and sessionCleanup: one worker at a time handles the packets of a connection,
\* unless an HTTP session was opened after its close.
THEOREM OneHandlerCorrect == Spec => []OneHandler
BY AgentInvariant, PTL DEF AgentInv

-----------------------------------------------------------------------------
(* The order of the packets *)

\* A packet is written by the worker that handles it.
LEMMA WriteFrame ==
    ASSUME NEW w \in Workers, Work(w)
    PROVE  UNCHANGED written \/ WriteOk(w)
BY DEF Work, Take, Start, Lookup, BuildFails, Build, Register, WriteOk, WriteFails, histVars

LEMMA Writes ==
    ASSUME TypeOK, NEW w \in Workers, WriteOk(w)
    PROVE  /\ worker[w].pc \in Holding /\ worker'[w].pc = "take" /\ worker'[w].pkt = 0
           /\ UNCHANGED <<received, recv, queued>>
           /\ \A v \in Workers : v # w => worker'[v] = worker[v]
           /\ w[1] \in Conns /\ worker[w].pkt \in Nat
           /\ \A c \in Conns : c # w[1] => written'[c] = written[c]
           /\ Len(written'[w[1]]) = Len(written[w[1]]) + 1 /\ Len(written[w[1]]) \in Nat
           /\ \A j \in 1..Len(written[w[1]]) : written'[w[1]][j] = written[w[1]][j]
           /\ written'[w[1]][Len(written[w[1]]) + 1] = worker[w].pkt
<1>1. w[1] \in Conns /\ worker[w].pkt \in Nat /\ written[w[1]] \in Seq(Nat)
    BY WorkerTyped, WorkersAre DEF TypeOK, WorkerType
<1>2. written' = [written EXCEPT ![w[1]] = Append(@, worker[w].pkt)]
    BY DEF WriteOk
<1>3. /\ worker[w].pc \in Holding /\ worker'[w].pc = "take" /\ worker'[w].pkt = 0
      /\ UNCHANGED <<received, recv, queued>>
      /\ \A v \in Workers : v # w => worker'[v] = worker[v]
    BY WorkersAre DEF WriteOk, Returns, Idle, Holding, WorkerType, recvVars
<1>4. \A c \in Conns : c # w[1] => written'[c] = written[c]
    BY <1>1, <1>2 DEF TypeOK
<1>5. written'[w[1]] = Append(written[w[1]], worker[w].pkt)
    BY <1>1, <1>2 DEF TypeOK
<1> QED BY <1>1, <1>3, <1>4, <1>5

\* Every index of what is written then is an old one or the last.
LEMMA WrittenIndex ==
    ASSUME TypeOK, NEW w \in Workers, WriteOk(w), NEW j \in 1..Len(written'[w[1]])
    PROVE  j \in 1..Len(written[w[1]]) \/ j = Len(written[w[1]]) + 1
BY Writes

LEMMA HandledStep ==
    ASSUME AgentInv, OrderInv, [Next]_vars
    PROVE  HandledLater'
<1> SUFFICES ASSUME NEW v \in Workers, worker'[v].pc \in Holding, ~Reopened',
                    NEW j \in 1..Len(written'[v[1]])
             PROVE  written'[v[1]][j] < worker'[v].pkt
    BY DEF HandledLater
<1> USE DEF AgentInv, OrderInv
<1>1. ~Reopened
    BY OpenerStays
<1>2. CASE UNCHANGED <<worker, queued, written>>
    BY <1>1, <1>2 DEF HandledLater
<1>3. CASE Push
    BY <1>1, <1>3, Pushes DEF HandledLater, Holding
<1>4. ASSUME NEW w \in Workers, Work(w), written' = written
      PROVE  written'[v[1]][j] < worker'[v].pkt
    <2>1. CASE worker[v].pc \in Holding
        BY <1>1, <1>4, <2>1, Moves DEF HandledLater
    <2>2. CASE worker[v].pc \notin Holding
        <3>1. v = w /\ Start(w) /\ worker[w].pc = "start" /\ worker'[w].pkt = worker[w].pkt
            BY <1>4, <2>2, Moves
        <3>2. ~SomeDone
            BY <1>1, <3>1, StartsBeforeDrop
        <3> QED BY <1>4, <3>1, <3>2 DEF QueueOrder, InLine
    <2> QED BY <2>1, <2>2
<1>5. ASSUME NEW w \in Workers, WriteOk(w)
      PROVE  written'[v[1]][j] < worker'[v].pkt
    <2>1. v # w /\ worker'[v] = worker[v] /\ worker[w].pc \in Holding
        BY <1>5, Writes DEF Holding
    <2>2. v[1] # w[1]
        BY <1>1, <2>1 DEF OneHandler
    <2>3. written'[v[1]] = written[v[1]]
        BY <1>5, <2>2, Writes, WorkerTyped
    <2> QED BY <1>1, <2>1, <2>3 DEF HandledLater
<1> QED BY <1>2, <1>3, <1>4, <1>5, WorkFrame, WriteFrame

LEMMA InOrderStep ==
    ASSUME AgentInv, OrderInv, [Next]_vars
    PROVE  InOrder'
<1> SUFFICES ASSUME ~Reopened', NEW c \in Conns, NEW i \in 1..Len(written'[c]),
                    NEW j \in 1..Len(written'[c]), i < j
             PROVE  written'[c][i] < written'[c][j]
    BY DEF InOrder
<1> USE DEF AgentInv, OrderInv
<1>1. ~Reopened
    BY OpenerStays
<1>2. CASE UNCHANGED written
    BY <1>1, <1>2 DEF InOrder
<1>3. ASSUME NEW w \in Workers, WriteOk(w) PROVE written'[c][i] < written'[c][j]
    <2>1. CASE c # w[1]
        BY <1>1, <1>3, <2>1, Writes DEF InOrder
    <2>2. CASE c = w[1]
        <3>1. i \in 1..Len(written[c])
            BY <1>3, <2>2, Writes
        <3>2. CASE j \in 1..Len(written[c])
            BY <1>1, <1>3, <2>2, <3>1, <3>2, Writes DEF InOrder
        <3>3. CASE j = Len(written[c]) + 1
            BY <1>1, <1>3, <2>2, <3>1, <3>3, Writes DEF HandledLater
        <3> QED BY <1>3, <2>2, <3>2, <3>3, WrittenIndex
    <2> QED BY <2>1, <2>2
<1>4. CASE Push
    BY <1>2, <1>4, Pushes
<1> QED BY <1>2, <1>3, <1>4, WorkFrame, WriteFrame

\* The loop receives and pushes writes, and closes proxies.
LEMMA RecvFrame ==
    ASSUME [Next]_vars
    PROVE  \/ UNCHANGED <<received, recv>>
           \/ Push \/ TcpClose
           \/ \E c \in Conns : RecvWrite(c) \/ RecvTcpClose(c)
<1> USE DEF vars, openVars, recvVars, queueVars, proxyVars, closeVars, histVars
<1>1. CASE RecvOpen \/ OpenFails \/ OpenOk \/ UNCHANGED vars
    BY <1>1 DEF RecvOpen, OpenFails, OpenOk
<1>2. ASSUME NEW w \in Workers, Work(w) PROVE UNCHANGED <<received, recv>>
    BY <1>2 DEF Work, Take, Start, Lookup, BuildFails, Build, Register, WriteOk, WriteFails
<1>3. ASSUME NEW p, ProxyEnds(p) \/ CloseProxy(p) PROVE UNCHANGED <<received, recv>>
    BY <1>3 DEF ProxyEnds, CloseProxy
<1>4. ASSUME NEW k \in Closers, RecvSessionClose(k) \/ Cleanup(k) PROVE UNCHANGED <<received, recv>>
    BY <1>4 DEF RecvSessionClose, Cleanup, AskLock, Lock, Filter, Delete, DropQueues
<1> QED BY <1>1, <1>2, <1>3, <1>4 DEF Next

\* A packet has arrived when it is pushed, or refused.
LEMMA ArrivingFrame ==
    ASSUME TypeOK, [Next]_vars
    PROVE  Push \/ \A c \in Conns : Arriving(c)' = Arriving(c)
<1>1. CASE UNCHANGED <<received, recv>>
    BY <1>1 DEF Arriving
<1>2. CASE TcpClose
    BY <1>2 DEF TcpClose, Arriving
<1>3. ASSUME NEW c \in Conns, RecvTcpClose(c) PROVE \A d \in Conns : Arriving(d)' = Arriving(d)
    BY <1>3 DEF RecvTcpClose, Arriving
<1>4. ASSUME NEW c \in Conns, RecvWrite(c) PROVE \A d \in Conns : Arriving(d)' = Arriving(d)
    <2>1. recv'.do = "push" /\ recv'.to[1] = c /\ recv.do = "idle"
        BY <1>4 DEF RecvWrite
    <2>2. /\ received'[c] = received[c] + 1 /\ received[c] \in Nat
          /\ \A d \in Conns : d # c => received'[d] = received[d]
        BY <1>4 DEF RecvWrite, TypeOK
    <2> QED BY <2>1, <2>2 DEF Arriving
<1> QED BY <1>1, <1>2, <1>3, <1>4, RecvFrame

\* The packet that is pushed is later than all that arrived before.
LEMMA PushStep ==
    ASSUME TypeOK, Push, NEW v \in Workers, InLine(v)
    PROVE  InLine(v)'
<1> DEFINE w == recv.to
<1>1. w \in Workers /\ w[1] \in Conns /\ v[1] \in Conns
    BY RecvTyped, Pushes, WorkerTyped
<1>2. received[w[1]] \in Nat /\ received' = received /\ written' = written
    BY <1>1, Pushes DEF TypeOK
<1>3. /\ Arriving(v[1])' = received[v[1]] /\ received[v[1]] \in Nat
      /\ Arriving(v[1]) <= received[v[1]] /\ Arriving(v[1]) \in Int
      /\ Arriving(w[1]) = received[w[1]] - 1
    <2>1. recv.do = "push" /\ recv'.do = "idle"
        BY Pushes
    <2>2. received[v[1]] \in Nat
        BY <1>1 DEF TypeOK
    <2> QED BY <1>2, <2>1, <2>2 DEF Arriving
<1>4. /\ worker'[v].pkt = worker[v].pkt /\ worker[v].pkt \in Nat
      /\ worker'[v].pc \notin {"none", "take"} => worker[v].pc \notin {"none", "take"}
    BY Pushes, WorkersAre DEF WorkerType
<1> DEFINE q == queued[v]
           z == received[v[1]]
           out == written[v[1]]
           x == worker[v].pkt
           a == Arriving(v[1])
<1>5. q \in Seq(Nat) /\ out \in Seq(Nat)
    BY <1>1 DEF TypeOK
<1>11. /\ \A i \in 1..Len(q) : q[i] \in Nat
       /\ \A j \in 1..Len(out) : out[j] \in Nat
    <2> HIDE DEF q, out
    <2> QED BY <1>5
<1>8. /\ \A i \in 1..Len(q) : q[i] <= a /\ x < q[i]
      /\ \A i \in 1..Len(q), j \in 1..Len(out) : out[j] < q[i]
      /\ \A i, j \in 1..Len(q) : i < j => q[i] < q[j]
      /\ x <= a
      /\ \A j \in 1..Len(out) : out[j] <= a
      /\ worker[v].pc \notin {"none", "take"} => \A j \in 1..Len(out) : out[j] < x
    BY DEF InLine
<1>9. z \in Nat /\ a \in Int /\ a <= z /\ Arriving(v[1])' = z /\ x \in Nat /\ worker'[v].pkt = x
      /\ written'[v[1]] = out
    BY <1>2, <1>3, <1>4
<1> HIDE DEF q, z, out, x, a
<1>10. x <= z /\ \A j \in 1..Len(out) : out[j] <= z
    BY <1>8, <1>9, <1>11
<1>6. CASE queued'[v] = queued[v]
    <2>1. \A i \in 1..Len(q) : q[i] <= z
        BY <1>8, <1>9, <1>11
    <2> QED BY <1>4, <1>6, <1>8, <1>9, <1>11, <1>10, <2>1 DEF InLine, q
<1>7. CASE queued'[v] # queued[v]
    <2> DEFINE t == queued'[v]
    <2>1. v = w /\ t = Append(q, z)
        BY <1>1, <1>7 DEF Push, TypeOK, q, z
    <2>2. a = z - 1
        BY <1>3, <2>1 DEF a, z
    <2> HIDE DEF t
    <2>3. /\ Len(t) = Len(q) + 1 /\ Len(q) \in Nat
          /\ \A i \in 1..Len(q) : t[i] = q[i]
          /\ t[Len(q) + 1] = z
        BY <1>5, <1>9, <2>1
    <2>4. ASSUME NEW i \in 1..Len(t)
          PROVE  (i \in 1..Len(q) /\ t[i] = q[i]) \/ (i = Len(q) + 1 /\ t[i] = z)
        BY <2>3
    <2>7. ASSUME NEW i \in 1..Len(t) PROVE t[i] <= z /\ x < t[i]
        <3>1. CASE i \in 1..Len(q) /\ t[i] = q[i]
            BY <1>8, <1>9, <1>11, <3>1
        <3>2. CASE t[i] = z
            BY <1>8, <1>9, <1>11, <2>2, <3>2
        <3> QED BY <2>4, <3>1, <3>2
    <2>8. ASSUME NEW i \in 1..Len(t), NEW j \in 1..Len(out) PROVE out[j] < t[i]
        <3>1. CASE i \in 1..Len(q) /\ t[i] = q[i]
            BY <1>8, <3>1
        <3>2. CASE t[i] = z
            BY <1>8, <1>9, <1>11, <2>2, <3>2
        <3> QED BY <2>4, <3>1, <3>2
    <2>9. ASSUME NEW i \in 1..Len(t), NEW j \in 1..Len(t), i < j PROVE t[i] < t[j]
        <3>1. i \in 1..Len(q) /\ t[i] = q[i]
            BY <2>3, <2>9
        <3>2. CASE j \in 1..Len(q) /\ t[j] = q[j]
            BY <1>8, <2>9, <3>1, <3>2
        <3>3. CASE t[j] = z
            BY <1>8, <1>9, <1>11, <2>2, <3>1, <3>3
        <3> QED BY <2>4, <3>2, <3>3
    <2> QED BY <1>4, <1>8, <1>9, <1>11, <1>10, <2>7, <2>8, <2>9 DEF InLine, t
<1> QED BY <1>6, <1>7

\* The packet that is taken is the first of the queue.
LEMMA TakeStep ==
    ASSUME TypeOK, NEW w \in Workers, Take(w), InLine(w), Arriving(w[1])' = Arriving(w[1])
    PROVE  InLine(w)'
<1> DEFINE q == queued[w]
           a == Arriving(w[1])
           out == written[w[1]]
<1>1. q \in Seq(Nat) /\ written' = written
    BY DEF Take, TypeOK, histVars
<1>5. w[1] \in Conns /\ received[w[1]] \in Nat /\ a \in Int /\ out \in Seq(Nat)
    BY WorkerTyped DEF TypeOK, Arriving
<1>2. CASE q = <<>>
    <2>1. worker'[w] = Idle /\ queued' = queued
        BY <1>2, WorkersAre DEF Take
    <2>2. worker[w].pkt \in Nat /\ worker[w].pkt <= a
        BY WorkersAre DEF WorkerType, InLine
    <2> HIDE DEF a
    <2> QED BY <1>1, <1>2, <1>5, <2>1, <2>2 DEF InLine, Idle, a
<1>3. CASE q # <<>>
    <2>1. /\ worker'[w] = [pc |-> "start", pkt |-> Head(q), proxy |-> 0]
          /\ queued'[w] = Tail(q)
        BY <1>3, WorkersAre DEF Take, TypeOK
    <2>2. /\ Len(q) \in Nat \ {0} /\ Len(Tail(q)) = Len(q) - 1 /\ Head(q) = q[1]
          /\ \A i \in 1..(Len(q) - 1) : Tail(q)[i] = q[i + 1]
          /\ \A i \in 1..Len(q) : q[i] \in Nat
        BY <1>1, <1>3
    <2>3. /\ \A i \in 1..Len(q) : q[i] <= a
          /\ \A i \in 1..Len(q), j \in 1..Len(out) : out[j] < q[i]
          /\ \A i, j \in 1..Len(q) : i < j => q[i] < q[j]
          /\ \A j \in 1..Len(out) : out[j] <= a
        BY DEF InLine
    <2> DEFINE t == queued'[w]
               x == worker'[w].pkt
    <2>4. /\ Len(t) = Len(q) - 1 /\ \A i \in 1..Len(t) : t[i] = q[i + 1] /\ i + 1 \in 1..Len(q)
          /\ x = q[1] /\ 1 \in 1..Len(q)
        BY <2>1, <2>2
    <2> HIDE DEF q, a, t, x, out
    <2>5. \A i \in 1..Len(t) : t[i] <= a /\ x < t[i]
        BY <2>2, <2>3, <2>4
    <2>6. \A i \in 1..Len(t), j \in 1..Len(out) : out[j] < t[i]
        BY <2>2, <2>3, <2>4
    <2>7. \A i, j \in 1..Len(t) : i < j => t[i] < t[j]
        BY <2>2, <2>3, <2>4
    <2>8. x <= a /\ \A j \in 1..Len(out) : out[j] < x
        BY <2>2, <2>3, <2>4
    <2> QED BY <1>1, <2>3, <2>5, <2>6, <2>7, <2>8 DEF InLine, t, x, a, out
<1> QED BY <1>2, <1>3

\* Until a queue is dropped, the other queues of a connection whose packet is handled are
\* empty.
LEMMA OthersEmpty ==
    ASSUME AgentInv, ~SomeDone, NEW v \in Workers, NEW w \in Workers, v # w, v[1] = w[1],
           worker[w].pc # "none"
    PROVE  worker[v].pc = "none" /\ worker[v].pkt = 0 /\ queued[v] = <<>>
<1>1. worker[v].pc = "none"
    BY WorkerTyped DEF AgentInv, WorkersStored
<1> QED BY <1>1 DEF AgentInv, HandsAgree, TypeOK

LEMMA WriteStep ==
    ASSUME AgentInv, ~SomeDone, NEW v \in Workers, NEW w \in Workers, WriteOk(w), InLine(v), InLine(w),
           Arriving(v[1])' = Arriving(v[1])
    PROVE  InLine(v)'
<1> USE DEF AgentInv
<1> DEFINE out == written[w[1]]
           new == written'[w[1]]
           x == worker[w].pkt
           a == Arriving(w[1])
<1>1. CASE v[1] # w[1]
    <2>1. v # w /\ written'[v[1]] = written[v[1]]
        BY <1>1, Writes, WorkerTyped
    <2> QED BY <2>1, Writes DEF InLine
<1>2. CASE v[1] = w[1]
    <2>1. /\ \A j \in 1..Len(new) : (j \in 1..Len(out) /\ new[j] = out[j]) \/ new[j] = x
          /\ w[1] \in Conns /\ x \in Nat /\ worker[w].pc \in Holding
        BY Writes, WrittenIndex
    <2>2. out \in Seq(Nat) /\ received[w[1]] \in Nat /\ queued[v] \in Seq(Nat)
        BY <2>1 DEF TypeOK
    <2>3. a \in Int /\ \A i \in 1..Len(queued[v]) : queued[v][i] \in Nat
        BY <2>2 DEF Arriving
    <2>4. /\ \A j \in 1..Len(out) : out[j] <= a /\ out[j] \in Nat
          /\ x <= a
        BY <2>2 DEF InLine
    <2>5. queued'[v] = queued[v] /\ worker'[v].pc \in {"none", "take"} /\ worker'[v].pkt = 0
        <3>1. CASE v = w
            BY <3>1, Writes
        <3>2. CASE v # w
            BY <1>2, <2>1, <3>2, Writes, OthersEmpty DEF Holding
        <3> QED BY <3>1, <3>2
    <2>6. \A i \in 1..Len(queued[v]) : x < queued[v][i] /\ \A j \in 1..Len(out) : out[j] < queued[v][i]
        <3>1. CASE v = w
            BY <3>1 DEF InLine
        <3>2. CASE v # w
            BY <1>2, <2>1, <3>2, OthersEmpty DEF Holding
        <3> QED BY <3>1, <3>2
    <2>7. \A i \in 1..Len(queued[v]), j \in 1..Len(new) : new[j] < queued[v][i]
        BY <2>1, <2>6
    <2>8. \A j \in 1..Len(new) : new[j] <= a
        BY <2>1, <2>4
    <2>9. \A i \in 1..Len(queued[v]) : queued[v][i] <= a /\ 0 < queued[v][i]
        BY <1>2, <2>1, <2>3, <2>6 DEF InLine
    <2>10. \A i, j \in 1..Len(queued[v]) : i < j => queued[v][i] < queued[v][j]
        BY DEF InLine
    <2>11. 0 <= a
        BY <2>1, <2>3, <2>4
    <2> HIDE DEF new, a
    <2> QED BY <1>2, <2>5, <2>7, <2>8, <2>9, <2>10, <2>11 DEF InLine, new, a
<1> QED BY <1>1, <1>2

LEMMA QueueStep ==
    ASSUME AgentInv, OrderInv, [Next]_vars
    PROVE  QueueOrder'
<1> SUFFICES ASSUME ~SomeDone', NEW v \in Workers
             PROVE  InLine(v)'
    BY DEF QueueOrder
<1> USE DEF AgentInv
<1>1. ~SomeDone /\ \A u \in Workers : InLine(u)
    BY DoneStays DEF OrderInv, QueueOrder
<1>2. CASE Push
    BY <1>1, <1>2, PushStep
<1>3. CASE ~Push
    <2>1. v[1] \in Conns /\ Arriving(v[1])' = Arriving(v[1])
        BY <1>3, ArrivingFrame, WorkerTyped
    <2>2. CASE UNCHANGED <<worker, queued, written>>
        BY <1>1, <2>1, <2>2 DEF InLine
    <2>3. ASSUME NEW w \in Workers, WriteOk(w) PROVE InLine(v)'
        BY <1>1, <2>1, <2>3, WriteStep
    <2>4. ASSUME NEW w \in Workers, Take(w) PROVE InLine(v)'
        <3>1. CASE v = w
            BY <1>1, <2>1, <2>4, <3>1, TakeStep
        <3>2. CASE v # w
            <4>1. worker'[v] = worker[v] /\ queued'[v] = queued[v] /\ written' = written
                BY <2>4, <3>2, WorkersAre DEF Take, TypeOK, histVars
            <4> QED BY <1>1, <2>1, <4>1 DEF InLine
        <3> QED BY <3>1, <3>2
    <2>5. ASSUME NEW w \in Workers, Work(w), ~WriteOk(w), ~Take(w) PROVE InLine(v)'
        <3>1. written' = written /\ queued' = queued
            BY <2>5 DEF Work, Start, Lookup, BuildFails, Build, Register, WriteFails, histVars
        <3>2. CASE v # w
            BY <1>1, <2>1, <2>5, <3>1, <3>2, Moves DEF InLine
        <3>3. CASE v = w
            <4>1. \/ worker'[w].pc = "take" /\ worker'[w].pkt = 0
                  \/ worker'[w].pkt = worker[w].pkt /\ worker[w].pc \notin {"none", "take"}
                BY <2>5, WorkersAre
                DEF Work, Start, Lookup, BuildFails, Build, Register, WriteFails, Returns, Goes, Idle, WorkerType
            <4>2. worker[w].pkt \in Nat /\ queued[w] \in Seq(Nat) /\ received[v[1]] \in Nat
                BY <2>1, WorkersAre DEF WorkerType, TypeOK
            <4>3. /\ Arriving(v[1]) \in Int
                  /\ \A i \in 1..Len(queued[v]) : queued[v][i] \in Nat
                BY <3>3, <4>2 DEF Arriving
            <4>4. CASE worker'[w].pkt = worker[w].pkt /\ worker[w].pc \notin {"none", "take"}
                BY <1>1, <2>1, <3>1, <3>3, <4>4 DEF InLine
            <4>5. CASE worker'[w].pc = "take" /\ worker'[w].pkt = 0
                <5>1. /\ \A i \in 1..Len(queued[v]) : worker[v].pkt < queued[v][i]
                      /\ worker[v].pkt <= Arriving(v[1])
                    BY <1>1 DEF InLine
                <5>2. /\ \A i \in 1..Len(queued[v]) : 0 < queued[v][i]
                      /\ 0 <= Arriving(v[1])
                    BY <3>3, <4>2, <4>3, <5>1
                <5> QED BY <1>1, <2>1, <3>1, <3>3, <4>5, <5>2 DEF InLine
            <4> QED BY <4>1, <4>4, <4>5
        <3> QED BY <3>2, <3>3
    <2> QED BY <1>3, <2>2, <2>3, <2>4, <2>5, WorkFrame
<1> QED BY <1>2, <1>3

LEMMA OrderInvariant == Spec => []OrderInv
<1>1. Init => OrderInv
    <2> SUFFICES ASSUME Init PROVE OrderInv
        OBVIOUS
    <2>1. \A w \in Workers : /\ worker[w].pc = "none" /\ worker[w].pkt = 0 /\ queued[w] = <<>>
                             /\ written[w[1]] = <<>> /\ Arriving(w[1]) = 0
        BY WorkerTyped DEF Init, Idle, Arriving
    <2>2. QueueOrder
        BY <2>1 DEF QueueOrder, InLine
    <2>3. HandledLater /\ InOrder
        BY <2>1 DEF HandledLater, InOrder, Holding, Init
    <2> QED BY <2>2, <2>3 DEF OrderInv
<1>2. AgentInv /\ OrderInv /\ [Next]_vars => OrderInv'
    BY QueueStep, HandledStep, InOrderStep DEF OrderInv
<1> QED BY <1>1, <1>2, AgentInvariant, PTL DEF Spec

\* processSSHWriteQueued: the packets of a connection are written in the order they were
\* received, each at most once, unless an HTTP session was opened after its close.
THEOREM InOrderCorrect == Spec => []InOrder
BY OrderInvariant, PTL DEF OrderInv

-----------------------------------------------------------------------------
(* No packet is forgotten *)

\* A worker has the packet, or its queue.
InHands(c, n) ==
    \E g \in Queues : /\ worker[<<c, g>>].pc # "none"
                      /\ n \in Range(queued[<<c, g>>]) \union {worker[<<c, g>>].pkt}

\* What the client was told stays told.
LEMMA ToldStays == ASSUME [Next]_vars PROVE told \subseteq told'
<1> USE DEF vars, openVars, recvVars, queueVars, proxyVars, closeVars, histVars
<1>1. CASE RecvOpen \/ OpenFails \/ OpenOk \/ Push \/ TcpClose \/ UNCHANGED vars
    BY <1>1 DEF RecvOpen, OpenFails, OpenOk, Push, TcpClose
<1>2. ASSUME NEW c \in Conns, RecvWrite(c) \/ RecvTcpClose(c) PROVE told \subseteq told'
    BY <1>2 DEF RecvWrite, RecvTcpClose
<1>3. ASSUME NEW w \in Workers, Work(w) PROVE told \subseteq told'
    BY <1>3 DEF Work, Take, Start, Lookup, BuildFails, Build, Register, WriteOk, WriteFails
<1>4. ASSUME NEW p, ProxyEnds(p) \/ CloseProxy(p) PROVE told \subseteq told'
    BY <1>4 DEF ProxyEnds, CloseProxy
<1>5. ASSUME NEW k \in Closers, RecvSessionClose(k) \/ Cleanup(k) PROVE told \subseteq told'
    BY <1>5 DEF RecvSessionClose, Cleanup, AskLock, Lock, Filter, Delete, DropQueues
<1> QED BY <1>1, <1>2, <1>3, <1>4, <1>5 DEF Next

\* The packets a sequence holds: one more after Append, the others after Tail.
LEMMA SeqRange ==
    ASSUME NEW q \in Seq(Nat)
    PROVE  /\ \A x \in Nat : Range(Append(q, x)) = Range(q) \union {x}
           /\ q # <<>> => Range(q) = Range(Tail(q)) \union {Head(q)}
           /\ Range(<<>>) = {}
<1>1. ASSUME NEW x \in Nat PROVE Range(Append(q, x)) = Range(q) \union {x}
    <2>1. ASSUME NEW y \in Range(Append(q, x)) PROVE y \in Range(q) \union {x}
        BY <2>1 DEF Range
    <2>2. ASSUME NEW y \in Range(q) PROVE y \in Range(Append(q, x))
        BY <2>2 DEF Range
    <2>3. x \in Range(Append(q, x))
        <3>1. Append(q, x)[Len(q) + 1] = x /\ Len(q) + 1 \in DOMAIN Append(q, x)
            OBVIOUS
        <3> QED BY <3>1 DEF Range
    <2> QED BY <2>1, <2>2, <2>3
<1>2. ASSUME q # <<>> PROVE Range(q) = Range(Tail(q)) \union {Head(q)}
    <2> DEFINE t == Tail(q)
    <2>1. /\ Len(q) \in Nat \ {0} /\ t \in Seq(Nat) /\ Len(t) = Len(q) - 1 /\ Head(q) = q[1]
          /\ \A i \in 1..(Len(q) - 1) : t[i] = q[i + 1]
        BY <1>2
    <2> HIDE DEF t
    <2>2. Range(t) = {t[i] : i \in 1..Len(t)} /\ Range(q) = {q[i] : i \in 1..Len(q)}
        <3>1. DOMAIN t = 1..Len(t) /\ DOMAIN q = 1..Len(q)
            BY <2>1
        <3> QED BY <3>1, Zenon DEF Range
    <2>3. ASSUME NEW i \in 1..Len(q) PROVE q[i] \in Range(t) \union {q[1]}
        <3>1. i # 1 => i - 1 \in 1..Len(t) /\ t[i - 1] = q[i]
            BY <2>1
        <3> QED BY <2>2, <3>1
    <2>4. ASSUME NEW i \in 1..Len(t) PROVE t[i] \in Range(q)
        <3>1. i + 1 \in 1..Len(q) /\ t[i] = q[i + 1]
            BY <2>1
        <3> QED BY <2>2, <3>1
    <2>5. q[1] \in Range(q)
        BY <2>1, <2>2
    <2> QED BY <2>1, <2>2, <2>3, <2>4, <2>5 DEF t
<1>3. Range(<<>>) = {}
    BY DEF Range
<1> QED BY <1>1, <1>2, <1>3

LEMMA ForgottenPush ==
    ASSUME TypeOK, Push, NEW c \in Conns, NEW n \in 1..received[c],
           InHands(c, n) \/ (recv.to[1] = c /\ n = received[c]), told' \intersect {c, Session} = {}
    PROVE  InHands(c, n)'
<1> DEFINE w == recv.to
<1>1. w \in Workers /\ w[1] \in Conns /\ w[2] \in Queues /\ w = <<w[1], w[2]>>
    BY RecvTyped, Pushes, WorkerTyped
<1>2. queued[w] \in Seq(Nat) /\ received[w[1]] \in Nat
    BY <1>1 DEF TypeOK
<1>3. CASE UNCHANGED <<queued, worker>> /\ told' = told \union {IF kind = "ssh" THEN Session ELSE w[1]}
    <2>1. queued' = queued /\ told' = told \union {IF kind = "ssh" THEN Session ELSE w[1]}
        BY <1>3
    <2>2. InHands(c, n)
        BY <2>1
    <2>3. PICK g \in Queues : /\ worker[<<c, g>>].pc # "none"
                             /\ n \in Range(queued[<<c, g>>]) \union {worker[<<c, g>>].pkt}
        BY <2>2 DEF InHands
    <2>4. <<c, g>> \in Workers
        BY DEF Workers
    <2> QED BY <2>1, <2>3, <2>4, Pushes DEF InHands
<1>4. CASE /\ queued' = [queued EXCEPT ![w] = Append(@, received[w[1]])]
           /\ worker' = [worker EXCEPT ![w].pc = IF @ = "none" THEN "take" ELSE @]
    <2>1. queued'[w] = Append(queued[w], received[w[1]]) /\ \A v \in Workers : v # w => queued'[v] = queued[v]
        BY <1>1, <1>4 DEF TypeOK
    <2>2. worker'[w].pc # "none"
        BY <1>1, <1>4, WorkersAre DEF WorkerType
    <2>3. Range(queued'[w]) = Range(queued[w]) \union {received[w[1]]}
        BY <1>2, <2>1, SeqRange
    <2>4. CASE w[1] = c /\ n = received[c]
        BY <1>1, <2>2, <2>3, <2>4 DEF InHands
    <2>5. CASE ~(w[1] = c /\ n = received[c])
        <3>1. PICK g \in Queues : /\ worker[<<c, g>>].pc # "none"
                                 /\ n \in Range(queued[<<c, g>>]) \union {worker[<<c, g>>].pkt}
            BY <2>5 DEF InHands
        <3>2. <<c, g>> \in Workers
            BY DEF Workers
        <3> QED BY <2>1, <2>3, <3>1, <3>2, Pushes DEF InHands
    <2> QED BY <2>4, <2>5
<1> QED BY <1>3, <1>4 DEF Push

LEMMA ForgottenWork ==
    ASSUME TypeOK, HandsAgree, NEW w \in Workers, Work(w), NEW c \in Conns, NEW n \in Nat \ {0},
           InHands(c, n), ~closed, told' \intersect {c, Session} = {}
    PROVE  n \in Range(written'[c]) \/ InHands(c, n)'
<1>1. PICK g \in Queues : /\ worker[<<c, g>>].pc # "none"
                         /\ n \in Range(queued[<<c, g>>]) \union {worker[<<c, g>>].pkt}
    BY DEF InHands
<1>2. <<c, g>> \in Workers
    BY DEF Workers
<1>3. CASE <<c, g>> # w
    BY <1>1, <1>2, <1>3, Moves DEF InHands
<1>4. CASE <<c, g>> = w
    <2>1. queued[w] \in Seq(Nat) /\ written[c] \in Seq(Nat) /\ w[1] = c
        BY <1>2, <1>4 DEF TypeOK
    <2>2. CASE Take(w)
        <3>1. worker[w].pkt = 0
            BY <2>2 DEF Take, HandsAgree
        <3>2. queued[w] # <<>> /\ n \in Range(Tail(queued[w])) \union {Head(queued[w])}
            BY <1>1, <1>4, <2>1, <3>1, SeqRange
        <3>3. /\ queued'[w] = Tail(queued[w]) /\ worker'[w].pkt = Head(queued[w])
              /\ worker'[w].pc # "none"
            <4>1. worker'[w] = [pc |-> "start", pkt |-> Head(queued[w]), proxy |-> 0]
                BY <2>2, <3>2, WorkersAre DEF Take
            <4>2. queued'[w] = Tail(queued[w])
                BY <2>2, <3>2 DEF Take, TypeOK
            <4> QED BY <4>1, <4>2
        <3> QED BY <1>4, <3>2, <3>3 DEF InHands
    <2>3. CASE WriteOk(w)
        <3>1. written'[c] = Append(written[c], worker[w].pkt) /\ worker[w].pkt \in Nat
            BY <2>1, <2>3, WorkersAre DEF WriteOk, TypeOK, WorkerType
        <3>2. CASE n = worker[w].pkt
            BY <2>1, <3>1, <3>2, SeqRange
        <3>3. CASE n # worker[w].pkt
            <4>1. n \in Range(queued'[w]) /\ worker'[w].pc # "none"
                BY <1>1, <1>4, <2>3, <3>3, Writes
            <4> QED BY <1>4, <4>1 DEF InHands
        <3> QED BY <3>2, <3>3
    <2>4. CASE ~Take(w) /\ ~WriteOk(w)
        <3>1. ~Returns(w)
            <4>1. CASE Start(w)
                <5>1. Goes(w, "start", "lookup")
                    BY <4>1 DEF Start
                <5> QED BY <5>1, WorkersAre DEF Returns, Idle, Goes, WorkerType
            <4>2. CASE Lookup(w) \/ Build(w) \/ Register(w)
                BY <4>2, WorkersAre DEF Lookup, Build, Register, Returns, Idle, Goes, WorkerType
            <4>3. CASE BuildFails(w)
                BY <4>3 DEF BuildFails
            <4>4. CASE WriteFails(w)
                BY <2>1, <4>4 DEF WriteFails
            <4> QED BY <2>4, <4>1, <4>2, <4>3, <4>4 DEF Work
        <3>2. queued' = queued /\ worker'[w].pkt = worker[w].pkt /\ worker'[w].pc # "none"
            BY <2>4, <3>1, WorkersAre
            DEF Work, Start, Lookup, BuildFails, Build, Register, WriteFails, Goes, WorkerType
        <3> QED BY <1>1, <1>4, <3>2 DEF InHands
    <2> QED BY <2>2, <2>3, <2>4
<1> QED BY <1>3, <1>4

LEMMA NoneForgottenStep ==
    ASSUME AgentInv, NoneForgotten, [Next]_vars
    PROVE  NoneForgotten'
<1> USE DEF AgentInv
<1> SUFFICES ASSUME NEW c \in Conns, NEW n \in 1..received'[c], ~closed', told' \intersect {c, Session} = {},
                    n \notin Range(written'[c]),
                    ~(recv'.do = "push" /\ recv'.to[1] = c /\ n = received'[c])
             PROVE  InHands(c, n)'
    BY DEF NoneForgotten, InHands
<1>1. ~closed /\ told \intersect {c, Session} = {}
    BY ClosedStays, ToldStays
<1>2. received[c] \in Nat /\ received'[c] \in Nat /\ written[c] \in Seq(Nat)
    BY TypeStep DEF TypeOK
<1>3. n \in 1..received[c] => \/ n \in Range(written[c])
                              \/ recv.do = "push" /\ recv.to[1] = c /\ n = received[c]
                              \/ InHands(c, n)
    BY <1>1 DEF NoneForgotten, InHands
<1>4. n \notin Range(written[c])
    <2>1. CASE UNCHANGED written
        BY <2>1
    <2>2. ASSUME NEW w \in Workers, WriteOk(w) PROVE n \notin Range(written[c])
        <3>1. CASE w[1] # c
            BY <2>2, <3>1, Writes
        <3>2. CASE w[1] = c
            <4>1. written'[c] = Append(written[c], worker[w].pkt) /\ worker[w].pkt \in Nat
                BY <2>2, <3>2, WorkersAre DEF WriteOk, TypeOK, WorkerType
            <4> QED BY <1>2, <4>1, SeqRange
        <3> QED BY <3>1, <3>2
    <2> QED BY <2>1, <2>2, WorkFrame, WriteFrame, Pushes
<1>5. CASE Push
    <2>1. n \in 1..received[c]
        BY <1>5, Pushes
    <2> QED BY <1>3, <1>4, <1>5, <2>1, ForgottenPush
<1>6. ASSUME NEW w \in Workers, Work(w) PROVE InHands(c, n)'
    <2>1. UNCHANGED <<received, recv>>
        BY <1>6, Moves
    <2>2. InHands(c, n)
        BY <1>3, <1>4, <2>1
    <2>3. n \in Nat \ {0}
        BY <1>2
    <2> QED BY <1>1, <1>6, <2>2, <2>3, ForgottenWork
<1>7. CASE UNCHANGED <<worker, queued, written>> /\ ~Push
    <2>1. InHands(c, n)
        <3>1. CASE UNCHANGED <<received, recv>>
            BY <1>3, <1>4, <3>1
        <3>2. CASE TcpClose
            BY <1>3, <1>4, <3>2 DEF TcpClose
        <3>3. ASSUME NEW d \in Conns, RecvTcpClose(d) PROVE InHands(c, n)
            BY <1>3, <1>4, <3>3 DEF RecvTcpClose
        <3>4. ASSUME NEW d \in Conns, RecvWrite(d) PROVE InHands(c, n)
            <4>1. recv'.do = "push" /\ recv'.to[1] = d /\ recv.do = "idle"
                BY <3>4 DEF RecvWrite
            <4>2. received' = [received EXCEPT ![d] = @ + 1]
                BY <3>4 DEF RecvWrite
            <4>3. n \in 1..received[c]
                BY <1>2, <4>1, <4>2 DEF TypeOK
            <4> QED BY <1>3, <1>4, <4>1, <4>3
        <3> QED BY <1>7, <3>1, <3>2, <3>3, <3>4, RecvFrame
    <2> QED BY <1>7, <2>1 DEF InHands
<1> QED BY <1>5, <1>6, <1>7, WorkFrame

\* push and drain: a packet that was received is written, or on its way, unless the client
\* was told that the connection or the session is over, or the session is closed.
THEOREM NoneForgottenCorrect == Spec => []NoneForgotten
<1>1. Init => NoneForgotten
    BY DEF Init, NoneForgotten
<1> QED BY <1>1, NoneForgottenStep, AgentInvariant, PTL DEF Spec

-----------------------------------------------------------------------------
(* The cleanup *)

\* connStore.Del takes away the proxies of these connections.
LEMMA Deletes ==
    ASSUME NEW cs, DelKeys(cs)
    PROVE  Stored' = {p \in Stored : p[1] \notin cs}
BY DEF DelKeys, Stored

\* Only a handler that registers a proxy adds to the store, or stores one late.
LEMMA StoreFrame ==
    ASSUME [Next]_vars
    PROVE  \/ Stored' \subseteq Stored /\ late' = late
           \/ \E w \in Workers : Register(w)
<1> USE DEF vars, openVars, recvVars, queueVars, proxyVars, closeVars, histVars
<1>0. ASSUME UNCHANGED store PROVE Stored' = Stored
    BY <1>0 DEF Stored
<1>1. CASE RecvOpen \/ OpenFails \/ OpenOk \/ Push \/ UNCHANGED vars
    BY <1>0, <1>1 DEF RecvOpen, OpenFails, OpenOk, Push
<1>2. CASE TcpClose
    BY <1>2, Deletes DEF TcpClose
<1>3. ASSUME NEW c \in Conns, RecvWrite(c) \/ RecvTcpClose(c) PROVE UNCHANGED <<store, late>>
    BY <1>3 DEF RecvWrite, RecvTcpClose
<1>4. ASSUME NEW w \in Workers, Work(w), ~Register(w) PROVE Stored' \subseteq Stored /\ late' = late
    <2>1. (UNCHANGED store \/ DelKeys({w[1]})) /\ late' = late
        BY <1>4 DEF Work, Take, Start, Lookup, BuildFails, Build, WriteOk, WriteFails
    <2> QED BY <1>0, <2>1, Deletes
<1>5. ASSUME NEW p, ProxyEnds(p) PROVE Stored' \subseteq Stored /\ late' = late
    BY <1>5, Deletes DEF ProxyEnds
<1>6. ASSUME NEW p, CloseProxy(p) PROVE UNCHANGED <<store, late>>
    BY <1>6 DEF CloseProxy
<1>7. ASSUME NEW k \in Closers, RecvSessionClose(k) \/ AskLock(k) \/ Lock(k) \/ Filter(k) \/ DropQueues(k)
      PROVE  UNCHANGED <<store, late>>
    BY <1>7 DEF RecvSessionClose, AskLock, Lock, Filter, DropQueues
<1>8. ASSUME NEW k \in Closers, Delete(k) PROVE Stored' \subseteq Stored /\ late' = late
    BY <1>8, Deletes DEF Delete
<1> QED BY <1>0, <1>1, <1>2, <1>3, <1>4, <1>5, <1>6, <1>7, <1>8 DEF Next, Cleanup

\* The handler that registers: its proxy is in the store then, instead of another.
LEMMA Registers ==
    ASSUME TypeOK, HandsAgree, NEW w \in Workers, Register(w)
    PROVE  /\ worker[w].pc = "register" /\ worker'[w].pc = "first"
           /\ \A v \in Workers : v # w => worker'[v] = worker[v]
           /\ w[1] \in Conns /\ worker[w].proxy \in Nat \ {0}
           /\ store' = [store EXCEPT ![w[1]] = worker[w].proxy]
           /\ Stored' = {p \in Stored : p[1] # w[1]} \union {<<w[1], worker[w].proxy>>}
           /\ late' = late \union {p \in {<<w[1], worker[w].proxy>>} : closed}
           /\ UNCHANGED <<opener, kind, params, closed, closer, found, running, closing, evicted, gateway>>
<1>1. w[1] \in Conns /\ worker[w].proxy \in Nat \ {0} /\ worker[w].pc = "register"
    BY WorkerTyped, WorkersAre DEF Register, Goes, HandsAgree, WorkerType
<1>2. worker'[w].pc = "first" /\ \A v \in Workers : v # w => worker'[v] = worker[v]
    BY WorkersAre DEF Register, Goes, WorkerType
<1>3. /\ store' = [store EXCEPT ![w[1]] = worker[w].proxy]
      /\ late' = late \union {p \in {<<w[1], worker[w].proxy>>} : closed}
      /\ UNCHANGED <<opener, kind, params, closed, closer, found, running, closing, evicted, gateway>>
    BY DEF Register, openVars, closeVars
<1>4. /\ \A c \in Conns : store'[c] = IF c = w[1] THEN worker[w].proxy ELSE store[c]
    BY <1>1, <1>3 DEF TypeOK
<1>5. Stored' = {p \in Stored : p[1] # w[1]} \union {<<w[1], worker[w].proxy>>}
    BY <1>1, <1>4 DEF Stored
<1> QED BY <1>1, <1>2, <1>3, <1>5

LEMMA BuildsStep ==
    ASSUME AgentInv, BuildsFirst, [Next]_vars
    PROVE  BuildsFirst'
<1> SUFFICES ASSUME NEW w \in Workers, worker'[w].pc \in {"build", "register"}, ~Reopened'
             PROVE  store'[w[1]] = 0
    BY DEF BuildsFirst
<1> USE DEF AgentInv
<1>1. ~Reopened /\ w[1] \in Conns
    BY OpenerStays, WorkerTyped
<1>2. ASSUME NEW u \in Workers, Register(u) PROVE store'[w[1]] = 0
    <2>1. w # u /\ worker[w].pc \in {"build", "register"}
        BY <1>2, Registers
    <2>2. w[1] # u[1]
        BY <1>1, <1>2, <2>1, Registers DEF OneHandler, Holding
    <2>3. store' = [store EXCEPT ![u[1]] = worker[u].proxy]
        BY <1>2, Registers
    <2>4. store'[w[1]] = store[w[1]]
        BY <1>1, <2>2, <2>3 DEF TypeOK
    <2> QED BY <1>1, <2>1, <2>4 DEF BuildsFirst
<1>3. CASE Stored' \subseteq Stored
    <2>1. store[w[1]] = 0
        <3>1. CASE UNCHANGED <<worker, queued, written>> \/ Push
            BY <1>1, <3>1, Pushes DEF BuildsFirst
        <3>2. ASSUME NEW u \in Workers, Work(u) PROVE store[w[1]] = 0
            <4>1. CASE worker[w].pc \in {"build", "register"}
                BY <1>1, <4>1 DEF BuildsFirst
            <4>2. CASE worker[w].pc \notin {"build", "register"}
                <5>1. w = u
                    BY <3>2, <4>2, Moves
                <5>2. Lookup(w)
                    BY <3>2, <4>2, <5>1, WorkersAre
                    DEF Work, Take, Start, BuildFails, Build, Register, WriteOk, WriteFails, Returns, Goes, Idle, WorkerType
                <5> QED BY <5>2, WorkersAre DEF Lookup, WorkerType
            <4> QED BY <4>1, <4>2
        <3> QED BY <3>1, <3>2, WorkFrame
    <2>2. ASSUME store'[w[1]] # 0 PROVE FALSE
        <3>1. <<w[1], store'[w[1]]>> \in Stored'
            BY <1>1, <2>2 DEF Stored
        <3>2. <<w[1], store'[w[1]]>> \in Stored
            BY <1>3, <3>1
        <3> QED BY <2>1, <3>2 DEF Stored
    <2> QED BY <2>2
<1> QED BY <1>2, <1>3, StoreFrame

LEMMA StoredLateStep ==
    ASSUME AgentInv, StoredLate, [Next]_vars
    PROVE  StoredLate'
<1> USE DEF AgentInv
<1>1. kind' = kind /\ Guarded' = Guarded
    BY OpenFrame DEF Guarded
<1>2. ASSUME NEW w \in Workers, Register(w) PROVE StoredLate'
    <2>1. Guarded => ~closed
        BY <1>2, Registers DEF NoReaders, Holding
    <2>2. Guarded => late' = {}
        BY <1>2, <2>1, Registers DEF StoredLate
    <2>3. opener = "late" => closed
        BY DEF LateIsClosed
    <2>4. opener' = "late" => Stored' \subseteq late'
        BY <1>2, <2>3, Registers DEF StoredLate
    <2> QED BY <1>1, <2>2, <2>4 DEF StoredLate
<1>3. CASE Stored' \subseteq Stored /\ late' = late
    <2>1. ASSUME opener' = "late", opener # "late" PROVE Stored = {}
        <3>1. opener = "building"
            <4>1. ASSUME NEW k \in Closers, Delete(k) PROVE FALSE
                BY <2>1, <4>1 DEF Delete
            <4> QED BY <2>1, <4>1, OpenFrame DEF RecvOpen, OpenFails, OpenOk
        <3> QED BY <3>1 DEF OpenedFirst, Stored
    <2> QED BY <1>1, <1>3, <2>1 DEF StoredLate
<1> QED BY <1>2, <1>3, StoreFrame

LEMMA FoundStep ==
    ASSUME AgentInv, FoundAll, [Next]_vars
    PROVE  FoundAll'
<1> USE DEF AgentInv
<1>1. ASSUME NEW w \in Workers, Register(w) PROVE FoundAll'
    <2>1. ASSUME NEW k \in Closers, closer[k] \in {"delete", "queues", "done"} PROVE closed
        BY <2>1 DEF ClosedByCleanup, Cleaning
    <2> QED BY <1>1, <2>1, Registers DEF FoundAll
<1>2. CASE Stored' \subseteq Stored /\ late' = late
    <2>1. CASE UNCHANGED <<closed, closer, found>>
        BY <1>2, <2>1 DEF FoundAll
    <2>2. ASSUME NEW k \in Closers, RecvSessionClose(k) \/ AskLock(k) \/ Lock(k) PROVE FoundAll'
        BY <1>2, <2>2 DEF RecvSessionClose, AskLock, Lock, Cleans, FoundAll, TypeOK
    <2>3. ASSUME NEW k \in Closers, Filter(k) PROVE FoundAll'
        BY <1>2, <2>3 DEF Filter, Cleans, FoundAll, TypeOK
    <2>4. ASSUME NEW k \in Closers, Delete(k) PROVE FoundAll'
        <3>1. Stored' = {p \in Stored : p[1] \notin {q[1] : q \in found[k].proxies}}
            BY <2>4, Deletes DEF Delete
        <3>2. Stored \ late \subseteq found[k].proxies
            BY <2>4 DEF Delete, Cleans, FoundAll
        <3>3. Stored' \subseteq late'
            BY <1>2, <3>1, <3>2
        <3> QED BY <1>2, <2>4, <3>3 DEF Delete, Cleans, FoundAll, TypeOK
    <2>5. ASSUME NEW k \in Closers, DropQueues(k) PROVE FoundAll'
        BY <1>2, <2>5 DEF DropQueues, Cleans, FoundAll, TypeOK
    <2> QED BY <2>1, <2>2, <2>3, <2>4, <2>5, CloseFrame DEF Cleanup
<1> QED BY <1>1, <1>2, StoreFrame

LEMMA GatewayStep ==
    ASSUME AgentInv, GatewayGone, [Next]_vars
    PROVE  GatewayGone'
<1> USE DEF AgentInv
<1> USE DEF vars, openVars, recvVars, queueVars, proxyVars, closeVars, histVars
<1>1. ASSUME NEW k \in Closers, DropQueues(k) PROVE GatewayGone'
    BY <1>1 DEF DropQueues, GatewayGone
<1>2. ASSUME NEW w \in Workers, Build(w) \/ BuildFails(w) PROVE GatewayGone'
    <2>1. gateway' \in {gateway, gateway \/ kind = "mcp"} /\ UNCHANGED <<kind, closer, closed>>
        BY <1>2 DEF Build, BuildFails
    <2>2. kind = "mcp" => ~SomeDone
        BY <1>2 DEF Build, BuildFails, NoReaders, Guarded, Holding, SomeDone, ClosedByCleanup
    <2> QED BY <2>1, <2>2 DEF GatewayGone, SomeDone
<1>3. CASE gateway' = gateway
    <2>1. ASSUME SomeDone', ~SomeDone PROVE ~gateway'
        <3>1. ASSUME NEW k \in Closers, RecvSessionClose(k) \/ AskLock(k) \/ Lock(k) \/ Filter(k) \/ Delete(k)
              PROVE  FALSE
            BY <2>1, <3>1 DEF RecvSessionClose, AskLock, Lock, Filter, Delete, Cleans, SomeDone, TypeOK
        <3>2. \E k \in Closers : DropQueues(k)
            BY <2>1, <3>1, CloseFrame DEF Cleanup, SomeDone
        <3> QED BY <3>2 DEF DropQueues
    <2> QED BY <1>3, <2>1, OpenFrame DEF GatewayGone
<1>4. gateway' = gateway \/ (\E w \in Workers : Build(w) \/ BuildFails(w)) \/ \E k \in Closers : DropQueues(k)
    <2>1. CASE RecvOpen \/ OpenFails \/ OpenOk \/ Push \/ TcpClose \/ UNCHANGED vars
        BY <2>1 DEF RecvOpen, OpenFails, OpenOk, Push, TcpClose
    <2>2. ASSUME NEW c \in Conns, RecvWrite(c) \/ RecvTcpClose(c) PROVE gateway' = gateway
        BY <2>2 DEF RecvWrite, RecvTcpClose
    <2>3. ASSUME NEW w \in Workers, Work(w), ~(Build(w) \/ BuildFails(w)) PROVE gateway' = gateway
        BY <2>3 DEF Work, Take, Start, Lookup, Register, WriteOk, WriteFails
    <2>4. ASSUME NEW p, ProxyEnds(p) \/ CloseProxy(p) PROVE gateway' = gateway
        BY <2>4 DEF ProxyEnds, CloseProxy
    <2>5. ASSUME NEW k \in Closers, RecvSessionClose(k) \/ AskLock(k) \/ Lock(k) \/ Filter(k) \/ Delete(k)
          PROVE  gateway' = gateway
        BY <2>5 DEF RecvSessionClose, AskLock, Lock, Filter, Delete
    <2> QED BY <2>1, <2>2, <2>3, <2>4, <2>5 DEF Next, Cleanup
<1> QED BY <1>1, <1>2, <1>3, <1>4

LEMMA RunningStep ==
    ASSUME AgentInv, CleanInv, [Next]_vars
    PROVE  RunningIsKept'
<1> SUFFICES ASSUME NEW p \in running' \ closing', p \notin Stored' \union evicted'
             PROVE  Registering(p)' \/ (Reopened' /\ p \in late')
    BY DEF RunningIsKept
<1> USE DEF AgentInv, CleanInv
<1> USE DEF vars, openVars, recvVars, queueVars, proxyVars, closeVars, histVars
<1>1. Reopened => Reopened'
    BY OpenerStays
<1>2. ASSUME p \in running \ closing, p \notin Stored \union evicted,
             Registering(p) => Registering(p)', late \subseteq late'
      PROVE  Registering(p)' \/ (Reopened' /\ p \in late')
    BY <1>1, <1>2 DEF RunningIsKept
<1>3. ASSUME worker' = worker \/ Push, Registering(p) PROVE Registering(p)'
    <2>1. PICK g \in Queues : worker[<<p[1], g>>].pc = "register" /\ worker[<<p[1], g>>].proxy = p[2]
        BY <1>3 DEF Registering
    <2>2. CASE Push
        <3>1. <<p[1], g>> \in Workers
            BY <2>2 DEF Push, Workers, TypeOK, Proxies
        <3> QED BY <2>1, <2>2, <3>1, Pushes DEF Registering
    <2>3. CASE worker' = worker
        BY <2>1, <2>3 DEF Registering
    <2> QED BY <1>3, <2>2, <2>3
<1>4. ASSUME UNCHANGED store PROVE Stored' = Stored
    BY <1>4 DEF Stored
<1>5. CASE RecvOpen \/ OpenFails \/ OpenOk \/ Push \/ UNCHANGED vars
    <2>1. UNCHANGED <<store, running, closing, evicted, late>> /\ (worker' = worker \/ Push)
        BY <1>5 DEF RecvOpen, OpenFails, OpenOk, Push
    <2> QED BY <1>2, <1>3, <1>4, <2>1
<1>6. ASSUME NEW c \in Conns, RecvWrite(c) \/ RecvTcpClose(c)
      PROVE  Registering(p)' \/ (Reopened' /\ p \in late')
    <2>1. UNCHANGED <<store, running, closing, evicted, late, worker>>
        BY <1>6 DEF RecvWrite, RecvTcpClose
    <2> QED BY <1>2, <1>3, <1>4, <2>1
<1>7. CASE TcpClose
    <2>1. /\ DelKeys({q[1] : q \in recv.hit}) /\ running' = running \ recv.hit
          /\ evicted' = evicted \union Bystanders({q[1] : q \in recv.hit}, recv.hit)
          /\ UNCHANGED <<closing, late, worker>>
        BY <1>7 DEF TcpClose
    <2>2. p \notin Stored
        BY <2>1, Deletes DEF Bystanders
    <2> QED BY <1>2, <1>3, <2>1, <2>2
<1>8. ASSUME NEW q, ProxyEnds(q)
      PROVE  Registering(p)' \/ (Reopened' /\ p \in late')
    <2>1. /\ DelKeys({q[1]}) /\ running' = running \ {q}
          /\ evicted' = evicted \union Bystanders({q[1]}, {q})
          /\ UNCHANGED <<closing, late, worker>>
        BY <1>8 DEF ProxyEnds
    <2>2. p \notin Stored
        BY <2>1, Deletes DEF Bystanders
    <2> QED BY <1>2, <1>3, <2>1, <2>2
<1>9. ASSUME NEW q, CloseProxy(q)
      PROVE  Registering(p)' \/ (Reopened' /\ p \in late')
    <2>1. /\ running' = running \ {q} /\ closing' = closing \ {q}
          /\ UNCHANGED <<store, evicted, late, worker>>
        BY <1>9 DEF CloseProxy
    <2> QED BY <1>2, <1>3, <1>4, <2>1
<1>10. ASSUME NEW k \in Closers, RecvSessionClose(k) \/ AskLock(k) \/ Lock(k) \/ Filter(k) \/ DropQueues(k)
       PROVE  Registering(p)' \/ (Reopened' /\ p \in late')
    <2>1. UNCHANGED <<store, running, closing, evicted, late, worker>>
        BY <1>10 DEF RecvSessionClose, AskLock, Lock, Filter, DropQueues
    <2> QED BY <1>2, <1>3, <1>4, <2>1
<1>11. ASSUME NEW k \in Closers, Delete(k)
       PROVE  Registering(p)' \/ (Reopened' /\ p \in late')
    <2> DEFINE f == found[k].proxies
    <2>1. /\ DelKeys({q[1] : q \in f}) /\ closing' = closing \union f
          /\ evicted' = evicted \union Bystanders({q[1] : q \in f}, f)
          /\ UNCHANGED <<running, late, worker>>
        BY <1>11 DEF Delete
    <2>2. p \notin Stored
        BY <2>1, Deletes DEF Bystanders
    <2> QED BY <1>2, <1>3, <2>1, <2>2
<1>12. ASSUME NEW w \in Workers, Register(w)
       PROVE  Registering(p)' \/ (Reopened' /\ p \in late')
    <2>1. p # <<w[1], worker[w].proxy>> /\ p \in running \ closing /\ p \notin evicted /\ late \subseteq late'
        BY <1>12, Registers
    <2>2. CASE p \in Stored
        <3>1. p[1] = w[1] /\ store[w[1]] # 0
            BY <1>12, <2>2, Registers DEF Stored
        <3>2. Reopened
            BY <1>12, <3>1, Registers DEF BuildsFirst
        <3> QED BY <1>1, <2>1, <2>2, <3>2 DEF StoredLate, Reopened
    <2>3. CASE p \notin Stored
        <3>1. ASSUME Registering(p) PROVE Registering(p)'
            <4>1. PICK g \in Queues : worker[<<p[1], g>>].pc = "register" /\ worker[<<p[1], g>>].proxy = p[2]
                BY <3>1 DEF Registering
            <4>2. <<p[1], g>> \in Workers /\ p = <<p[1], p[2]>>
                BY <2>1 DEF TypeOK, Workers, Proxies
            <4>3. <<p[1], g>> # w
                BY <2>1, <4>1, <4>2
            <4> QED BY <1>12, <4>1, <4>2, <4>3, Registers DEF Registering
        <3> QED BY <1>2, <2>1, <2>3, <3>1
    <2> QED BY <2>2, <2>3
<1>13. ASSUME NEW w \in Workers, Work(w), ~Register(w)
       PROVE  Registering(p)' \/ (Reopened' /\ p \in late')
    <2>1. late' = late
        BY <1>13 DEF Work, Take, Start, Lookup, BuildFails, Build, WriteOk, WriteFails
    <2>2. CASE Build(w)
        <3> DEFINE n == built[w[1]] + 1
        <3>1. /\ running' = running \union {<<w[1], n>>}
              /\ worker' = [worker EXCEPT ![w].pc = "register", ![w].proxy = n]
              /\ UNCHANGED <<store, closing, evicted>> /\ worker[w].pc = "build"
            BY <2>2 DEF Build
        <3> HIDE DEF n
        <3>2. worker'[w].pc = "register" /\ worker'[w].proxy = n /\ \A v \in Workers : v # w => worker'[v] = worker[v]
            BY <3>1, WorkersAre DEF WorkerType
        <3>3. CASE p = <<w[1], n>>
            BY <3>2, <3>3, WorkerTyped DEF Registering
        <3>4. CASE p # <<w[1], n>>
            <4>1. p \in running \ closing /\ p \notin Stored \union evicted
                BY <1>4, <3>1, <3>4
            <4>2. ASSUME Registering(p) PROVE Registering(p)'
                <5>1. PICK g \in Queues : worker[<<p[1], g>>].pc = "register" /\ worker[<<p[1], g>>].proxy = p[2]
                    BY <4>2 DEF Registering
                <5>2. <<p[1], g>> \in Workers
                    BY <4>1 DEF TypeOK, Workers, Proxies
                <5> QED BY <3>1, <3>2, <5>1, <5>2 DEF Registering
            <4> QED BY <1>2, <2>1, <4>1, <4>2
        <3> QED BY <3>3, <3>4
    <2>3. CASE ~Build(w)
        <3>1. /\ running' \subseteq running /\ closing' = closing
              /\ \/ UNCHANGED <<store, evicted>>
                 \/ \E q : /\ running' = running \ {q} /\ DelKeys({q[1]})
                            /\ evicted' = evicted \union Bystanders({q[1]}, {q})
            <4>1. CASE WriteFails(w)
                <5> DEFINE q == <<w[1], worker[w].proxy>>
                <5>1. /\ running' \subseteq running /\ closing' = closing
                      /\ \/ UNCHANGED <<store, evicted>>
                         \/ /\ running' = running \ {q} /\ DelKeys({q[1]})
                            /\ evicted' = evicted \union Bystanders({q[1]}, {q})
                    BY <4>1 DEF WriteFails
                <5> QED BY <5>1
            <4>2. CASE ~WriteFails(w)
                BY <1>13, <2>3, <4>2 DEF Work, Take, Start, Lookup, BuildFails, WriteOk
            <4> QED BY <4>1, <4>2
        <3>2. p \in running \ closing /\ p \notin evicted
            BY <3>1
        <3>3. p \notin Stored
            <4>1. CASE UNCHANGED <<store, evicted>>
                BY <1>4, <4>1
            <4>2. ASSUME NEW q, running' = running \ {q}, DelKeys({q[1]}),
                         evicted' = evicted \union Bystanders({q[1]}, {q})
                  PROVE  p \notin Stored
                BY <4>2, Deletes DEF Bystanders
            <4> QED BY <3>1, <4>1, <4>2
        <3>4. ASSUME Registering(p) PROVE Registering(p)'
            <4>1. PICK g \in Queues : worker[<<p[1], g>>].pc = "register" /\ worker[<<p[1], g>>].proxy = p[2]
                BY <3>4 DEF Registering
            <4>2. <<p[1], g>> \in Workers
                BY <3>2 DEF TypeOK, Workers, Proxies
            <4>3. worker[w].pc # "register"
                BY <1>13, <2>3 DEF Work, Take, Start, Lookup, BuildFails, WriteOk, WriteFails, Goes
            <4> QED BY <1>13, <4>1, <4>2, <4>3, Moves DEF Registering
        <3> QED BY <1>2, <2>1, <3>2, <3>3, <3>4
    <2> QED BY <2>2, <2>3
<1> QED
    BY <1>5, <1>6, <1>7, <1>8, <1>9, <1>10, <1>11, <1>12, <1>13 DEF Next, Cleanup

LEMMA CleanInvariant == Spec => []CleanInv
<1>1. Init => CleanInv
    <2> SUFFICES ASSUME Init PROVE CleanInv
        OBVIOUS
    <2>1. Stored = {} /\ running = {} /\ late = {} /\ ~gateway /\ \A c \in Conns : store[c] = 0
        BY DEF Init, Stored
    <2>2. \A k \in Closers : closer[k] = "none"
        BY DEF Init
    <2>3. BuildsFirst
        BY <2>1, WorkerTyped DEF BuildsFirst
    <2> QED BY <2>1, <2>2, <2>3 DEF CleanInv, StoredLate, FoundAll, GatewayGone, RunningIsKept, SomeDone
<1>2. AgentInv /\ CleanInv /\ [Next]_vars => CleanInv'
    BY BuildsStep, StoredLateStep, FoundStep, GatewayStep, RunningStep DEF CleanInv
<1> QED BY <1>1, <1>2, AgentInvariant, PTL DEF Spec

\* sessionCleanup: when the cleanups of a closed session are through, the MCP gateway and
\* the parameters are gone, and a proxy that runs and that nobody will close lost its key to
\* another of its connection, or is one an HTTP handler was building meanwhile.
THEOREM ClosedIsCleanedCorrect == Spec => []ClosedIsCleaned
<1>1. AgentInv /\ CleanInv => ClosedIsCleaned
    <2> SUFFICES ASSUME AgentInv, CleanInv, closed, \A k \in Closers : closer[k] \in {"none", "done"}
                 PROVE  /\ ~gateway /\ (params => opener = "late")
                        /\ \A p \in running \ closing :
                            p \in evicted \/ (kind = "http" /\ (p \in late \/ Registering(p)))
        BY DEF ClosedIsCleaned, Registering
    <2>1. PICK k \in Closers : closer[k] = "done"
        BY DEF AgentInv, ClosedByCleanup, Cleaning
    <2>2. ~gateway /\ (params => opener = "late")
        BY <2>1 DEF AgentInv, CleanInv, GatewayGone, SomeDone, ParamsGone
    <2>3. Stored \subseteq late
        BY <2>1 DEF CleanInv, FoundAll
    <2>4. ~Guarded => kind = "http"
        BY DEF AgentInv, TypeOK, Kinds, Guarded
    <2>5. ASSUME NEW p \in running \ closing, p \notin evicted
          PROVE  kind = "http" /\ (p \in late \/ Registering(p))
        <3>1. p \in late \/ Registering(p)
            BY <2>3, <2>5 DEF CleanInv, RunningIsKept
        <3>2. CASE p \in late
            BY <2>4, <3>2 DEF CleanInv, StoredLate
        <3>3. CASE Registering(p)
            <4>1. PICK g \in Queues : worker[<<p[1], g>>].pc = "register"
                BY <3>3 DEF Registering
            <4>2. <<p[1], g>> \in Workers
                BY DEF AgentInv, TypeOK, Workers, Proxies
            <4> QED BY <2>4, <3>3, <4>1, <4>2 DEF AgentInv, NoReaders, Holding
        <3> QED BY <3>1, <3>2, <3>3
    <2> QED BY <2>2, <2>5
<1> QED BY <1>1, AgentInvariant, CleanInvariant, PTL

-----------------------------------------------------------------------------
(* Queues for every packet *)

\* The queues of a connection that were dropped and are still drained, or about to be.
Done    == {k \in Closers : closer[k] = "done"}
Left(c) == {g \in Queues : /\ g # queueOf[c]
                           /\ worker[<<c, g>>].pc # "none" \/ (recv.do = "push" /\ recv.to = <<c, g>>)}

\* Each cleanup leaves one queue of a connection behind, at most.
QueuesLeft == \A c \in Conns : Cardinality(Left(c)) <= Cardinality(Done)

LEMMA QueuesFinite ==
    /\ IsFiniteSet(Closers) /\ Cardinality(Closers) \in Nat
    /\ IsFiniteSet(Queues) /\ Cardinality(Queues) = Cardinality(Closers) + 1
<1>1. IsFiniteSet(Closers) /\ Cardinality(Closers) \in Nat
    BY AgentAssumption, FS_CardinalityType
<1> DEFINE n == Cardinality(Closers) + 1
<1>2. 1 \in Int /\ n \in Int /\ ~(1 > n)
    BY <1>1
<1>3. Queues = 1..n
    BY DEF Queues
<1> HIDE DEF n
<1>4. IsFiniteSet(1..n) /\ Cardinality(1..n) = IF 1 > n THEN 0 ELSE n - 1 + 1
    BY <1>2, FS_Interval, Zenon
<1>5. IsFiniteSet(Queues) /\ Cardinality(Queues) = n
    BY <1>2, <1>3, <1>4
<1> QED BY <1>1, <1>5 DEF n

LEMMA DoneFinite == IsFiniteSet(Done) /\ Cardinality(Done) \in Nat /\ Cardinality(Done) <= Cardinality(Closers)
BY QueuesFinite, FS_Subset, FS_CardinalityType DEF Done

LEMMA LeftFinite ==
    ASSUME NEW S \in SUBSET Queues
    PROVE  IsFiniteSet(S) /\ Cardinality(S) \in Nat
BY QueuesFinite, FS_Subset, FS_CardinalityType

\* No step but the drop of the queues leaves one behind.
LEMMA LeftFrame ==
    ASSUME TypeOK, [Next]_vars, NEW c \in Conns
    PROVE  Left(c)' \subseteq Left(c) \/ \E k \in Closers : DropQueues(k)
<1> USE DEF vars, openVars, recvVars, queueVars, proxyVars, closeVars, histVars
<1>0. \A g \in Queues : <<c, g>> \in Workers
    BY DEF Workers
<1>1. ASSUME UNCHANGED <<worker, recv, queueOf>> PROVE Left(c)' = Left(c)
    BY <1>1 DEF Left
<1>2. CASE RecvOpen \/ OpenFails \/ OpenOk \/ UNCHANGED vars
    BY <1>1, <1>2 DEF RecvOpen, OpenFails, OpenOk
<1>3. CASE Push
    BY <1>0, <1>3, Pushes DEF Left
<1>4. CASE TcpClose
    BY <1>4 DEF TcpClose, Left
<1>5. ASSUME NEW d \in Conns, RecvTcpClose(d) PROVE Left(c)' \subseteq Left(c)
    BY <1>5 DEF RecvTcpClose, Left
<1>6. ASSUME NEW d \in Conns, RecvWrite(d) PROVE Left(c)' \subseteq Left(c)
    <2>1. PICK g \in Queues : /\ LoadOrStore(d, g)
                             /\ queueOf' = [queueOf EXCEPT ![d] = g]
                             /\ recv' = [do |-> "push", to |-> <<d, g>>]
        BY <1>6 DEF RecvWrite
    <2>2. worker' = worker /\ recv.do = "idle"
        BY <1>6 DEF RecvWrite
    <2>3. CASE c # d
        BY <2>1, <2>2, <2>3 DEF Left, TypeOK
    <2>4. CASE c = d
        <3>1. queueOf'[c] = g /\ (queueOf[c] # 0 => queueOf[c] = g)
            BY <2>1, <2>4 DEF TypeOK, LoadOrStore
        <3>2. ASSUME NEW h \in Left(c)' PROVE h \in Left(c)
            <4>1. h \in Queues /\ h # g /\ worker[<<c, h>>].pc # "none"
                BY <2>1, <2>2, <3>1 DEF Left
            <4> QED BY <3>1, <4>1, QueuesNat DEF Left
        <3> QED BY <3>2
    <2> QED BY <2>3, <2>4
<1>7. ASSUME NEW w \in Workers, Work(w) PROVE Left(c)' \subseteq Left(c)
    BY <1>0, <1>7, Moves DEF Left
<1>8. ASSUME NEW p, ProxyEnds(p) \/ CloseProxy(p) PROVE Left(c)' \subseteq Left(c)
    BY <1>1, <1>8 DEF ProxyEnds, CloseProxy
<1>9. ASSUME NEW k \in Closers, RecvSessionClose(k) \/ AskLock(k) \/ Lock(k) \/ Filter(k) \/ Delete(k)
      PROVE  Left(c)' \subseteq Left(c)
    BY <1>1, <1>9 DEF RecvSessionClose, AskLock, Lock, Filter, Delete
<1> QED
    BY <1>2, <1>3, <1>4, <1>5, <1>6, <1>7, <1>8, <1>9 DEF Next, Cleanup

LEMMA LeftStep ==
    ASSUME TypeOK, QueuesLeft, [Next]_vars
    PROVE  QueuesLeft'
<1> SUFFICES ASSUME NEW c \in Conns
             PROVE  Cardinality(Left(c)') <= Cardinality(Done')
    BY DEF QueuesLeft
<1>1. Left(c) \in SUBSET Queues /\ Left(c)' \in SUBSET Queues
    BY DEF Left
<1>2. /\ IsFiniteSet(Left(c)) /\ Cardinality(Left(c)) \in Nat
      /\ IsFiniteSet(Left(c)') /\ Cardinality(Left(c)') \in Nat
    BY <1>1, LeftFinite
<1>3. Cardinality(Left(c)) <= Cardinality(Done)
    BY DEF QueuesLeft
<1>4. IsFiniteSet(Done) /\ Cardinality(Done) \in Nat
    BY DoneFinite
<1>5. Done' \in SUBSET Closers /\ IsFiniteSet(Done') /\ Cardinality(Done') \in Nat
    BY QueuesFinite, FS_Subset, FS_CardinalityType DEF Done
<1>6. CASE Left(c)' \subseteq Left(c)
    <2>1. Done \subseteq Done'
        <3>1. ASSUME NEW k \in Closers, RecvSessionClose(k) \/ Cleanup(k) PROVE Done \subseteq Done'
            BY <3>1 DEF RecvSessionClose, Cleanup, AskLock, Lock, Filter, Delete, DropQueues, Cleans, TypeOK, Done
        <3> QED BY <3>1, CloseFrame DEF Done
    <2>2. Cardinality(Done) <= Cardinality(Done')
        BY <1>5, <2>1, FS_Subset
    <2>3. Cardinality(Left(c)') <= Cardinality(Left(c))
        BY <1>2, <1>6, FS_Subset
    <2> QED BY <1>2, <1>3, <1>4, <1>5, <2>2, <2>3
<1>7. ASSUME NEW k \in Closers, DropQueues(k) PROVE Cardinality(Left(c)') <= Cardinality(Done')
    <2>1. Done' = Done \union {k} /\ k \notin Done
        BY <1>7 DEF DropQueues, Cleans, TypeOK, Done
    <2>2. Cardinality(Done') = Cardinality(Done) + 1
        BY <1>4, <2>1, FS_AddElement
    <2>3. Left(c)' \subseteq Left(c) \union {queueOf[c]}
        BY <1>7 DEF DropQueues, Left, recvVars
    <2>4. /\ IsFiniteSet(Left(c) \union {queueOf[c]})
          /\ Cardinality(Left(c) \union {queueOf[c]}) =
                IF queueOf[c] \in Left(c) THEN Cardinality(Left(c)) ELSE Cardinality(Left(c)) + 1
        BY <1>2, FS_AddElement
    <2>5. Cardinality(Left(c)') <= Cardinality(Left(c) \union {queueOf[c]})
        BY <2>3, <2>4, FS_Subset
    <2> QED BY <1>2, <1>3, <1>4, <2>2, <2>4, <2>5
<1> QED BY <1>6, <1>7, LeftFrame

\* A nonempty set of naturals has a least member.
LEMMA LeastNat ==
    ASSUME NEW T, T \subseteq Nat, T # {}
    PROVE  \E n \in T : \A m \in T : n <= m
<1>1. PICK n \in T : \A y \in T : ~(<<y, n>> \in OpToRel(<, Nat))
    BY WFMin, NatLessThanWellFounded
<1>2. \A y \in T : ~(y < n)
    BY <1>1 DEF OpToRel
<1> QED BY <1>2

\* The number of queues is no restriction: whatever cleanups dropped, LoadOrStore finds a
\* queue for a packet of any connection.
QueueIsFound == recv.do = "idle" => \A c \in Conns : \E g \in Queues : LoadOrStore(c, g)

\* packetQueue and sessionCleanup: as many queues as cleanups, and one more, are enough.
THEOREM QueuesSuffice == Spec => []QueueIsFound
<1>1. Init => QueuesLeft
    <2> SUFFICES ASSUME Init, NEW c \in Conns PROVE Cardinality(Left(c)) <= Cardinality(Done)
        BY DEF QueuesLeft
    <2>1. Left(c) = {} /\ Done = {}
        BY DEF Init, Left, Done, Workers, Idle
    <2> QED BY <2>1, FS_EmptySet
<1>2. AgentInv /\ QueuesLeft => QueueIsFound
    <2> SUFFICES ASSUME AgentInv, QueuesLeft, recv.do = "idle", NEW c \in Conns
                 PROVE  \E g \in Queues : LoadOrStore(c, g)
        BY DEF QueueIsFound
    <2>1. CASE queueOf[c] # 0
        BY <2>1 DEF LoadOrStore, AgentInv, TypeOK
    <2>2. CASE queueOf[c] = 0
        <3> DEFINE Free == {g \in Queues : worker[<<c, g>>].pc = "none"}
        <3>1. Left(c) = Queues \ Free
            BY <2>2, QueuesNat DEF Left
        <3>2. Free # {}
            <4> SUFFICES ASSUME Free = {} PROVE FALSE
                OBVIOUS
            <4>1. Left(c) = Queues
                BY <3>1
            <4>2. Cardinality(Queues) <= Cardinality(Done)
                BY <4>1 DEF QueuesLeft
            <4> QED BY <4>2, QueuesFinite, DoneFinite
        <3>3. Free \subseteq Nat
            BY QueuesNat
        <3>4. PICK g \in Free : \A h \in Free : g <= h
            BY <3>2, <3>3, LeastNat
        <3>5. ASSUME NEW h \in 1..(g - 1) PROVE worker[<<c, h>>].pc # "none"
            <4>1. h \in Queues /\ ~(g <= h)
                BY <3>3, QueuesFinite DEF Queues
            <4> QED BY <3>4, <4>1
        <3> QED BY <2>2, <3>5 DEF LoadOrStore
    <2> QED BY <2>1, <2>2
<1>3. AgentInv /\ QueuesLeft /\ [Next]_vars => QueuesLeft'
    BY LeftStep DEF AgentInv
<1> QED BY <1>1, <1>2, <1>3, AgentInvariant, PTL DEF Spec
=============================================================================
