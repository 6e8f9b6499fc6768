---------------------------- MODULE AgentSessions ----------------------------
(***************************************************************************)
(* One session in the agent (agent/controller): the loop that receives     *)
(* packets, the packet queue of each connection and its workers            *)
(* (packetqueue.go), the handlers of the SSH, HTTP proxy and MCP packets,  *)
(* and the cleanup that a SessionClose starts (agent.go).                  *)
(*                                                                         *)
(* The loop never handles a write: it loads the queue of the connection,   *)
(* pushes the packet, and starts a worker when none runs.  A worker drains *)
(* its queue: it looks for the proxy of the connection, builds one if there *)
(* is none, and writes to it until the upstream answers.  SSH and MCP      *)
(* handlers hold the read side of the session's lock, so that the cleanup, *)
(* which takes the write side and marks the session closed, waits for them; *)
(* HTTP handlers do not.  A proxy that was started calls back when it ends. *)
(*                                                                         *)
(* Queues, and proxies, are numbered by connection: a queue dropped by a   *)
(* cleanup is still drained by its worker while a late packet makes another. *)
(***************************************************************************)
EXTENDS Naturals, Sequences, FiniteSets, Functions

CONSTANTS Conns,         \* the connections of the session
          Prefixed,      \* the connections whose id starts with the id of one
          Wedged,        \* by protocol, the connections whose upstream answers no write
          Session,       \* the session itself, as what the client is told is closed
          MaxPackets,    \* bound on the packets of each connection
          MaxQueued,     \* maxQueuedPackets
          Closers        \* the SessionClose packets

Kinds == {"ssh", "http", "mcp"}

ASSUME AgentAssumption ==
    /\ Prefixed \in [Conns -> SUBSET Conns]
    /\ \A c \in Conns : c \in Prefixed[c]
    /\ Wedged \in [Kinds -> SUBSET Conns] /\ Session \notin Conns
    /\ MaxPackets \in [Conns -> Nat] /\ MaxQueued \in Nat \ {0} /\ IsFiniteSet(Closers)

Queues  == 1..(Cardinality(Closers) + 1)
Workers == Conns \X Queues
Proxies == Conns \X Nat

VARIABLES kind,        \* the protocol of the session
          opener,      \* the goroutine of processSessionOpen
          params,      \* the connection parameters are in connStore
          received,    \* packets of each connection the loop has received
          recv,        \* what the loop is doing
          queueOf,     \* the queue stored for each connection, or 0
          queued,      \* the packets of each queue
          worker,      \* the worker of each queue
          store,       \* the proxy of each connection in connStore, or 0
          built,       \* how many proxies were built for the connection
          running,     \* the proxies that have not ended or been closed
          callbacks,   \* the proxies whose callback has not been called
          closing,     \* the proxies that a goroutine is about to close
          gateway,     \* the MCP gateway of the session is built
          closed,      \* sessionState.closed
          closer,      \* each cleanup
          found,       \* what its Filter found: proxies, and whether the parameters
          written,     \* history: the packets written upstream, in order
          told,        \* history: the closes sent to the client
          evicted,     \* history: proxies whose key was deleted on behalf of another
          late         \* history: proxies stored when the session was closed already

openVars  == <<kind, opener, params>>
recvVars  == <<received, recv>>
queueVars == <<queueOf, queued, worker>>
proxyVars == <<store, built, running, callbacks, closing, gateway>>
closeVars == <<closed, closer, found>>
histVars  == <<written, told, evicted, late>>
vars == <<openVars, recvVars, queueVars, proxyVars, closeVars, histVars>>

Nothing == [proxies |-> {}, params |-> FALSE]
Idle    == [pc |-> "none", pkt |-> 0, proxy |-> 0]

Init ==
    /\ kind \in Kinds
    /\ opener = "none" /\ params = FALSE
    /\ received = [c \in Conns |-> 0] /\ recv = [do |-> "idle"]
    /\ queueOf = [c \in Conns |-> 0]
    /\ queued = [w \in Workers |-> <<>>]
    /\ worker = [w \in Workers |-> Idle]
    /\ store = [c \in Conns |-> 0] /\ built = [c \in Conns |-> 0]
    /\ running = {} /\ callbacks = {} /\ closing = {} /\ gateway = FALSE
    /\ closed = FALSE
    /\ closer = [k \in Closers |-> "none"]
    /\ found = [k \in Closers |-> Nothing]
    /\ written = [c \in Conns |-> <<>>]
    /\ told = {} /\ evicted = {} /\ late = {}

\* The proxies in connStore, and those left when the keys of some connections go.
Stored == {<<c, store[c]>> : c \in {d \in Conns : store[d] # 0}}

DelKeys(cs) == store' = [c \in Conns |-> IF c \in cs THEN 0 ELSE store[c]]

\* The proxies that lose their key to a Del of these connections, which meant those.
Bystanders(cs, meant) == {p \in Stored : p[1] \in cs} \ meant

-----------------------------------------------------------------------------
(* SessionOpen *)

RecvOpen ==
    /\ recv.do = "idle" /\ opener = "none"
    /\ opener' = "building"
    /\ UNCHANGED <<kind, params, recvVars, queueVars, proxyVars, closeVars, histVars>>

\* The parameters cannot be built, or the upstream is not alive.
OpenFails ==
    /\ opener = "building"
    /\ opener' = "failed" /\ told' = told \union {Session}
    /\ UNCHANGED <<kind, params, recvVars, queueVars, proxyVars, closeVars, written, evicted, late>>

\* The parameters are stored and SessionOpenOK is sent, also when the session is closed.
OpenOk ==
    /\ opener = "building"
    /\ opener' = IF closed THEN "late" ELSE "ok"
    /\ params' = TRUE
    /\ UNCHANGED <<kind, recvVars, queueVars, proxyVars, closeVars, histVars>>

-----------------------------------------------------------------------------
(* The loop: writes *)

\* Mutant: every packet is dispatched with a worker of its own.
LoadNew(c, g) ==
    worker[<<c, g>>].pc = "none" /\ \A h \in 1..(g - 1) : worker[<<c, h>>].pc # "none"

\* LoadOrStore of the queue: the one stored, or a new one.  A dropped queue that is drained
\* is as good as new.  The client writes once it has the SessionOpenOK.
LoadOrStore(c, g) ==
    IF queueOf[c] # 0 THEN g = queueOf[c]
    ELSE worker[<<c, g>>].pc = "none" /\ \A h \in 1..(g - 1) : worker[<<c, h>>].pc # "none"

RecvWrite(c) ==
    /\ recv.do = "idle" /\ opener \in {"ok", "late"} /\ received[c] < MaxPackets[c]
    /\ received' = [received EXCEPT ![c] = @ + 1]
    /\ \E g \in Queues :
        /\ LoadOrStore(c, g)
        /\ queueOf' = [queueOf EXCEPT ![c] = g]
        /\ recv' = [do |-> "push", to |-> <<c, g>>]
    /\ UNCHANGED <<openVars, queued, worker, proxyVars, closeVars, histVars>>

\* Mutant: the count is tested with > instead of >=.
PushOne ==
    /\ recv.do = "push"
    /\ LET w == recv.to
           c == w[1]
       IN \/ /\ queued[w] # <<>>
             /\ told' = told \union {IF kind = "ssh" THEN Session ELSE c}
             /\ UNCHANGED <<queued, worker>>
          \/ /\ Len(queued[w]) <= MaxQueued
             /\ queued' = [queued EXCEPT ![w] = Append(@, received[c])]
             /\ worker' = [worker EXCEPT ![w].pc = IF @ = "none" THEN "take" ELSE @]
             /\ UNCHANGED told
    /\ recv' = [do |-> "idle"]
    /\ UNCHANGED <<openVars, received, queueOf, proxyVars, closeVars, written, evicted, late>>

\* Mutant: a packet that does not fit is dropped and nobody is told.
PushSilent ==
    /\ recv.do = "push"
    /\ LET w == recv.to
       IN \/ queued[w] # <<>> /\ UNCHANGED <<queued, worker>>
          \/ /\ Len(queued[w]) < MaxQueued
             /\ queued' = [queued EXCEPT ![w] = Append(@, received[w[1]])]
             /\ worker' = [worker EXCEPT ![w].pc = IF @ = "none" THEN "take" ELSE @]
    /\ recv' = [do |-> "idle"]
    /\ UNCHANGED <<openVars, received, queueOf, proxyVars, closeVars, histVars>>

\* push: an overflow ends the SSH session, or the HTTP or MCP connection; a packet that
\* finds no worker starts one.  A queue overflows by its packets, or before that by their
\* bytes, though never when it is empty: one message is far below maxQueuedBytes.
Push ==
    /\ recv.do = "push"
    /\ LET w == recv.to
           c == w[1]
       IN \/ /\ queued[w] # <<>>
             /\ told' = told \union {IF kind = "ssh" THEN Session ELSE c}
             /\ UNCHANGED <<queued, worker>>
          \/ /\ Len(queued[w]) < MaxQueued
             /\ queued' = [queued EXCEPT ![w] = Append(@, received[c])]
             /\ worker' = [worker EXCEPT ![w].pc = IF @ = "none" THEN "take" ELSE @]
             /\ UNCHANGED told
    /\ recv' = [do |-> "idle"]
    /\ UNCHANGED <<openVars, received, queueOf, proxyVars, closeVars, written, evicted, late>>

-----------------------------------------------------------------------------
(* The loop: TCPConnectionClose *)

\* Filter by the id as a prefix of the key ...
RecvTcpClose(c) ==
    /\ recv.do = "idle"
    /\ LET hit == {p \in Stored : p[1] \in Prefixed[c]}
       IN hit # {} /\ recv' = [do |-> "close", hit |-> hit]
    /\ UNCHANGED <<openVars, received, queueVars, proxyVars, closeVars, histVars>>

\* Mutant: the queues of the connections are dropped too.
TcpCloseDrops ==
    /\ recv.do = "close"
    /\ LET cs == {p[1] : p \in recv.hit}
       IN /\ DelKeys(cs)
          /\ queueOf' = [c \in Conns |-> IF c \in cs THEN 0 ELSE queueOf[c]]
          /\ evicted' = evicted \union Bystanders(cs, recv.hit)
    /\ running' = running \ recv.hit
    /\ recv' = [do |-> "idle"]
    /\ UNCHANGED <<openVars, received, queued, worker, built, callbacks, closing, gateway, closeVars,
                   written, told, late>>

\* ... Del of every key found, whatever it holds by now, and Close of the proxies found.
TcpClose ==
    /\ recv.do = "close"
    /\ LET cs == {p[1] : p \in recv.hit}
       IN /\ DelKeys(cs)
          /\ evicted' = evicted \union Bystanders(cs, recv.hit)
    /\ running' = running \ recv.hit
    /\ recv' = [do |-> "idle"]
    /\ UNCHANGED <<openVars, received, queueVars, built, callbacks, closing, gateway, closeVars,
                   written, told, late>>

-----------------------------------------------------------------------------
(* The worker of a queue *)

\* Mutant: HTTP handlers hold the session's lock as well.
AllGuarded == TRUE

\* The handlers that hold the read side of the session's lock, and test closed.
Guarded == kind \in {"ssh", "mcp"}
Holding == {"lookup", "build", "register", "first", "write"}
Readers == {w \in Workers : Guarded /\ worker[w].pc \in Holding}
Cleaning == {"filter", "delete", "queues"}

Goes(w, at, to) == worker[w].pc = at /\ worker' = [worker EXCEPT ![w].pc = to]

\* The handler returns, and the worker goes on draining.
Returns(w) == worker' = [worker EXCEPT ![w] = [Idle EXCEPT !.pc = "take"]]

\* drain: the emptiness is seen and the running flag cleared under one lock.
Take(w) ==
    /\ worker[w].pc = "take"
    /\ IF queued[w] = <<>>
       THEN worker' = [worker EXCEPT ![w] = Idle] /\ UNCHANGED queued
       ELSE /\ worker' = [worker EXCEPT ![w] = [pc |-> "start", pkt |-> Head(queued[w]), proxy |-> 0]]
            /\ queued' = [queued EXCEPT ![w] = Tail(@)]
    /\ UNCHANGED <<openVars, recvVars, queueOf, proxyVars, closeVars, histVars>>

\* RLock is granted: no cleanup holds the lock, or waits for it.
RLocked == Guarded => \A k \in Closers : closer[k] \notin {"locking"} \union Cleaning

\* The packet of a closed session is dropped; without parameters the client is told.
Start(w) ==
    /\ worker[w].pc = "start" /\ RLocked
    /\ \/ /\ Guarded /\ closed
          /\ Returns(w) /\ UNCHANGED told
       \/ /\ ~(Guarded /\ closed) /\ ~params
          /\ Returns(w) /\ told' = told \union {Session}
       \/ /\ ~(Guarded /\ closed) /\ params
          /\ Goes(w, "start", "lookup") /\ UNCHANGED told
    /\ UNCHANGED <<openVars, recvVars, queueOf, queued, proxyVars, closeVars, written, evicted, late>>

\* connStore.Get of the connection.
Lookup(w) ==
    /\ worker[w].pc = "lookup"
    /\ worker' = [worker EXCEPT ![w].pc = IF store[w[1]] = 0 THEN "build" ELSE "write",
                                ![w].proxy = store[w[1]]]
    /\ UNCHANGED <<openVars, recvVars, queueOf, queued, proxyVars, closeVars, histVars>>

\* The credentials are missing, or the MCP gateway, or then the proxy, cannot be built.
BuildFails(w) ==
    /\ worker[w].pc = "build" /\ Returns(w)
    /\ told' = told \union {Session}
    /\ gateway' \in {gateway, gateway \/ kind = "mcp"}
    /\ UNCHANGED <<openVars, recvVars, queueOf, queued, store, built, running, callbacks, closing,
                   closeVars, written, evicted, late>>

\* The proxy is made and, unless HTTP, started; the MCP gateway is made once for the session.
Build(w) ==
    /\ worker[w].pc = "build"
    /\ LET c == w[1]
           n == built[c] + 1
       IN /\ worker' = [worker EXCEPT ![w].pc = "register", ![w].proxy = n]
          /\ built' = [built EXCEPT ![c] = n]
          /\ running' = running \union {<<c, n>>}
          /\ callbacks' = callbacks \union {p \in {<<c, n>>} : Guarded}
          /\ gateway' = (gateway \/ kind = "mcp")
    /\ UNCHANGED <<openVars, recvVars, queueOf, queued, store, closing, closeVars, histVars>>

\* connStore.Set, before the first packet is written.
Register(w) ==
    /\ Goes(w, "register", "first")
    /\ store' = [store EXCEPT ![w[1]] = worker[w].proxy]
    /\ late' = late \union {p \in {<<w[1], worker[w].proxy>>} : closed}
    /\ UNCHANGED <<openVars, recvVars, queueOf, queued, built, running, callbacks, closing, gateway, closeVars,
                   written, told, evicted>>

\* Write returns when the upstream has answered.
WriteOk(w) ==
    LET c == w[1]
        p == <<c, worker[w].proxy>>
    IN /\ worker[w].pc \in {"first", "write"} /\ p \in running /\ c \notin Wedged[kind]
       /\ Returns(w)
       /\ written' = [written EXCEPT ![c] = Append(@, worker[w].pkt)]
       /\ UNCHANGED <<openVars, recvVars, queueOf, queued, proxyVars, closeVars, told, evicted, late>>

\* Write fails, at the latest when the proxy is closed.  SSH ends the session, and closes a
\* proxy it found but leaves it in the store; HTTP and MCP close the proxy, delete the key,
\* and end the connection, or the session when a guardrail refuses.
WriteFails(w) ==
    LET c == w[1]
        p == <<c, worker[w].proxy>>
    IN /\ worker[w].pc \in {"first", "write"} /\ (p \in running => c \notin Wedged[kind])
       /\ Returns(w)
       /\ \/ /\ kind = "ssh"
             /\ told' = told \union {Session}
             /\ running' = IF worker[w].pc = "first" THEN running ELSE running \ {p}
             /\ UNCHANGED <<store, evicted>>
          \/ /\ kind # "ssh"
             /\ \E m \in {c, Session} : told' = told \union {m}
             /\ running' = running \ {p}
             /\ DelKeys({c})
             /\ evicted' = evicted \union Bystanders({c}, {p})
       /\ UNCHANGED <<openVars, recvVars, queueOf, queued, built, callbacks, closing, gateway, closeVars,
                      written, late>>

-----------------------------------------------------------------------------
(* Proxies *)

\* The callback given to Run: the upstream, or the proxy, ended.  The key of the connection
\* is deleted, whatever proxy it holds by now.
ProxyEnds(p) ==
    /\ p \in callbacks
    /\ callbacks' = callbacks \ {p} /\ running' = running \ {p}
    /\ DelKeys({p[1]})
    /\ evicted' = evicted \union Bystanders({p[1]}, {p})
    /\ told' = told \union {IF kind = "ssh" THEN Session ELSE p[1]}
    /\ UNCHANGED <<openVars, recvVars, queueVars, built, closing, gateway, closeVars, written, late>>

\* The goroutine that closes a proxy for a cleanup.
CloseProxy(p) ==
    /\ p \in closing
    /\ closing' = closing \ {p} /\ running' = running \ {p}
    /\ UNCHANGED <<openVars, recvVars, queueVars, store, built, callbacks, gateway, closeVars, histVars>>

-----------------------------------------------------------------------------
(* SessionClose *)

Cleans(k, at, to) == closer[k] = at /\ closer' = [closer EXCEPT ![k] = to]

\* Run: the packet is handled by a goroutine of its own.
RecvSessionClose(k) ==
    /\ recv.do = "idle" /\ opener # "none"
    /\ Cleans(k, "none", "spawned")
    /\ UNCHANGED <<openVars, recvVars, queueVars, proxyVars, closed, found, histVars>>

\* The cleanup asks for the lock: new readers wait from now on.
AskLock(k) ==
    /\ Cleans(k, "spawned", "locking")
    /\ UNCHANGED <<openVars, recvVars, queueVars, proxyVars, closed, found, histVars>>

\* Mutant: the session is marked closed without waiting for its handlers.
LockAtOnce(k) ==
    /\ Cleans(k, "locking", "filter")
    /\ closed' = TRUE
    /\ UNCHANGED <<openVars, recvVars, queueVars, proxyVars, found, histVars>>

\* The lock is granted when the handlers that hold it are through.
Lock(k) ==
    /\ Readers = {} /\ \A j \in Closers : closer[j] \notin Cleaning
    /\ Cleans(k, "locking", "filter")
    /\ closed' = TRUE
    /\ UNCHANGED <<openVars, recvVars, queueVars, proxyVars, found, histVars>>

Filter(k) ==
    /\ Cleans(k, "filter", "delete")
    /\ found' = [found EXCEPT ![k] = [proxies |-> Stored, params |-> params]]
    /\ UNCHANGED <<openVars, recvVars, queueVars, proxyVars, closed, histVars>>

\* Every object found is closed by a goroutine, and its key deleted.
Delete(k) ==
    /\ Cleans(k, "delete", "queues")
    /\ LET cs == {p[1] : p \in found[k].proxies}
       IN /\ DelKeys(cs)
          /\ evicted' = evicted \union Bystanders(cs, found[k].proxies)
    /\ closing' = closing \union found[k].proxies
    /\ params' = (params /\ ~found[k].params)
    /\ UNCHANGED <<kind, opener, recvVars, queueVars, built, running, callbacks, gateway, closed, found, written,
                   told, late>>

\* The queues are dropped, the MCP gateway is closed, and the lock is released.
DropQueues(k) ==
    /\ Cleans(k, "queues", "done")
    /\ queueOf' = [c \in Conns |-> 0] /\ gateway' = FALSE
    /\ found' = [found EXCEPT ![k] = Nothing]
    /\ UNCHANGED <<openVars, recvVars, queued, worker, store, built, running, callbacks, closing, closed,
                   histVars>>

-----------------------------------------------------------------------------

Work(w) ==
    \/ Take(w) \/ Start(w) \/ Lookup(w) \/ BuildFails(w) \/ Build(w) \/ Register(w)
    \/ WriteOk(w) \/ WriteFails(w)

Cleanup(k) == AskLock(k) \/ Lock(k) \/ Filter(k) \/ Delete(k) \/ DropQueues(k)

Next ==
    \/ RecvOpen \/ OpenFails \/ OpenOk
    \/ \E c \in Conns : RecvWrite(c) \/ RecvTcpClose(c)
    \/ Push \/ TcpClose
    \/ \E w \in Workers : Work(w)
    \/ \E p \in callbacks : ProxyEnds(p)
    \/ \E p \in closing : CloseProxy(p)
    \/ \E k \in Closers : RecvSessionClose(k) \/ Cleanup(k)

Spec == Init /\ [][Next]_vars

\* Every goroutine that can go on does; packets need not come, and an upstream need not
\* end or, when it is wedged, answer.
FairSpec ==
    /\ Spec
    /\ WF_vars(OpenFails \/ OpenOk)
    /\ WF_vars(Push \/ TcpClose)
    /\ \A w \in Workers : WF_vars(Work(w))
    /\ WF_vars(\E p \in closing : CloseProxy(p))
    /\ \A k \in Closers : WF_vars(Cleanup(k))

-----------------------------------------------------------------------------
(* Properties *)

WorkerStates == {"none", "take", "start"} \union Holding

\* Types, and the bound of push: a queue never holds more than MaxQueued packets, and one
\* that holds any has a worker.
TypeOK ==
    /\ kind \in Kinds /\ opener \in {"none", "building", "failed", "ok", "late"}
    /\ params \in BOOLEAN /\ closed \in BOOLEAN /\ gateway \in BOOLEAN
    /\ received \in [Conns -> Nat]
    /\ recv \in [do : {"idle"}] \union [do : {"push"}, to : Workers]
                                 \union [do : {"close"}, hit : SUBSET Proxies]
    /\ queueOf \in [Conns -> Queues \union {0}]
    /\ queued \in [Workers -> Seq(Nat)]
    /\ \A w \in Workers : Len(queued[w]) <= MaxQueued /\ (queued[w] # <<>> => worker[w].pc # "none")
    /\ worker \in [Workers -> [pc : WorkerStates, pkt : Nat, proxy : Nat]]
    /\ store \in [Conns -> Nat] /\ built \in [Conns -> Nat]
    /\ running \union callbacks \union closing \union evicted \union late \subseteq Proxies
    /\ closer \in [Closers -> {"none", "spawned", "locking", "done"} \union Cleaning]
    /\ found \in [Closers -> [proxies : SUBSET Proxies, params : BOOLEAN]]
    /\ written \in [Conns -> Seq(Nat)]
    /\ told \subseteq Conns \union {Session}

\* An HTTP session that was closed before it was open: its handlers find parameters that
\* no cleanup removed.
Reopened == kind = "http" /\ opener = "late"

\* packetQueue and sessionCleanup: "at most one worker goroutine at a time" handles the
\* packets of a connection, although a cleanup drops the queue of a worker that still runs
\* and a late packet starts another, unless an HTTP session was opened after its close.
OneHandler ==
    \A v, w \in Workers :
        v[1] = w[1] /\ worker[v].pc \in Holding /\ worker[w].pc \in Holding =>
            v = w \/ Reopened

\* processSSHWriteQueued: the packets of a connection reach its upstream in the order they
\* were received, each at most once.
InOrder ==
    \A c \in Conns : \A i, j \in 1..Len(written[c]) :
        i < j => written[c][i] < written[c][j] \/ Reopened

\* push and drain: a packet that was received is written, or in the hands of the loop or
\* of a worker, or in a queue that a worker drains, unless the client was told that the
\* connection is over or the session is closed.
NoneForgotten ==
    \A c \in Conns : \A n \in 1..received[c] :
        \/ n \in Range(written[c])
        \/ recv.do = "push" /\ recv.to[1] = c /\ n = received[c]
        \/ \E g \in Queues : /\ worker[<<c, g>>].pc # "none"
                             /\ n \in Range(queued[<<c, g>>]) \union {worker[<<c, g>>].pkt}
        \/ told \intersect {c, Session} # {}
        \/ closed

\* sessionCleanup: when the cleanups of a closed session are through, the MCP gateway is
\* gone, the parameters are gone unless the session was opened later, and no proxy runs that
\* nobody will close, except one whose key was deleted on behalf of another proxy of its
\* connection, and one an HTTP handler was building meanwhile.
ClosedIsCleaned ==
    closed /\ (\A k \in Closers : closer[k] \in {"none", "done"}) =>
        /\ ~gateway /\ (params => opener = "late")
        /\ \A p \in running \ closing :
            \/ p \in evicted
            \/ kind = "http" /\ (p \in late \/ \E g \in Queues : /\ worker[<<p[1], g>>].pc = "register"
                                                                      /\ worker[<<p[1], g>>].proxy = p[2])

\* Run and processHttpProxyWriteServer: a SessionClose is carried out, even while an HTTP
\* upstream does not answer the request it is to cancel.
CloseLands == \A k \in Closers : (closer[k] = "spawned") ~> (closer[k] = "done")
=============================================================================
