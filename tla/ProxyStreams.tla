---------------------------- MODULE ProxyStreams ----------------------------
(***************************************************************************)
(* The life of gateway sessions that share one agent: the client's stream  *)
(* (gateway/transport/client.go), the store of proxy streams and the       *)
(* plugin chain (streamclient/{proxy,pluginruntime}.go), the agent's       *)
(* stream (transport/agent.go, streamclient/agent.go), the in-memory state *)
(* of the audit plugin (plugins/audit/audit.go), and the live event stream *)
(* of a session (session/eventbroker, api/session/stream.go).              *)
(*                                                                         *)
(* Each call of a store and each database statement is a step.  Threads:   *)
(* the client streams, the agent streams, closers (a kill, a rejected      *)
(* review, an expired token, the memory cleanup), the goroutines of        *)
(* closeSession (counted per session and stage) and the event subscribers. *)
(* What closeSessionWAL does to the recording is in AuditWal, what becomes *)
(* of the review in ReviewExecution.                                       *)
(***************************************************************************)
EXTENDS Naturals, FiniteSets

CONSTANTS Clients, Sids, SidOf,  \* client streams and the session of each
          ApiClients,            \* those whose origin is client-api
          Agents,                \* streams of the agent
          Closers,               \* other threads that close a stream
          Subscribers, SubOf,    \* requests of StreamSession and their session
          MaxFailures,           \* bound on the statements that fail
          None

ASSUME StreamsAssumption ==
    /\ SidOf \in [Clients -> Sids] /\ SubOf \in [Subscribers -> Sids]
    /\ ApiClients \subseteq Clients
    /\ MaxFailures \in Nat
    /\ None \notin Clients
    /\ Clients \intersect Agents = {} /\ Clients \intersect Closers = {}
    /\ Agents \intersect Closers = {}

VARIABLES proxyStore,  \* the stream stored under each session id
          memory,      \* the keys of memorySessionStore
          wal,         \* the keys of walSessionStore
          row,         \* private.sessions.status
          review,      \* the review of the session
          client,      \* where each client stream is
          reviewed,    \* isSessionReviewed of each stream
          opened,      \* the sessions the agent was asked to open
          saw,         \* the session row the AI analysis of a stream read
          task, on,    \* what each thread does, on which stream
          up,          \* the agent streams that are connected
          todo,        \* the listing a thread works through
          jobs,        \* goroutines of closeSession: their number at each stage
          broker,      \* the subscribers of each session
          sub,         \* where each StreamSession is
          failures,
          lost,        \* history: sessions whose MarkSessionDone failed
          undone       \* history: sessions whose done was overwritten

streamVars  == <<proxyStore, client, reviewed, opened>>
auditVars   == <<memory, wal, jobs>>
rowVars     == <<row, review, saw, failures, lost, undone>>
threadVars  == <<task, on, up, todo>>
brokerVars  == <<broker, sub>>
vars == <<streamVars, auditVars, rowVars, threadVars, brokerVars>>

Threads == Clients \union Agents \union Closers
Stages  == {"pop", "mark", "remove", "forget"}

Init ==
    /\ proxyStore = [s \in Sids |-> None]
    /\ memory = {} /\ wal = {}
    /\ row = [s \in Sids |-> IF \E c \in ApiClients : SidOf[c] = s THEN "open" ELSE "none"]
    /\ review = [s \in Sids |-> "none"]
    /\ client = [c \in Clients |-> "new"]
    /\ reviewed = [c \in Clients |-> FALSE]
    /\ opened = {}
    /\ saw = [c \in Clients |-> "none"]
    /\ task = [a \in Threads |-> "idle"]
    /\ on = [a \in Threads |-> None]
    /\ up = Agents /\ todo = [a \in Agents \union Closers |-> {}]
    /\ jobs = [s \in Sids |-> [g \in Stages |-> 0]]
    /\ broker = [s \in Sids |-> {}]
    /\ sub = [u \in Subscribers |-> "idle"]
    /\ failures = 0 /\ lost = {} /\ undone = {}

Client(c, at, to) == client[c] = at /\ client' = [client EXCEPT ![c] = to]
Thread(a, at, to) == task[a] = at /\ task' = [task EXCEPT ![a] = to]

-----------------------------------------------------------------------------
(* ProxyStream.Save: loadRuntimePlugins, then the store *)

\* Mutant: the log is opened, not stored.
OnConnectNoLog(c) ==
    LET s == SidOf[c]
    IN /\ Client(c, "new", "accepted")
       /\ row' = [row EXCEPT ![s] = IF c \in ApiClients /\ @ # "ready" THEN @ ELSE "open"]
       /\ memory' = memory \union {s}
       /\ UNCHANGED <<proxyStore, reviewed, opened, wal, jobs, review, saw, failures, lost, undone,
                      threadVars, brokerVars>>

\* The OnConnect of the audit plugin.  The row of an api session exists; a
\* reviewed one is moved from ready to open.
OnConnect(c) ==
    LET s == SidOf[c]
    IN /\ Client(c, "new", "accepted")
       /\ row' = [row EXCEPT ![s] = IF c \in ApiClients /\ @ # "ready" THEN @ ELSE "open"]
       /\ memory' = memory \union {s} /\ wal' = wal \union {s}
       /\ UNCHANGED <<proxyStore, reviewed, opened, jobs, review, saw, failures, lost, undone,
                      threadVars, brokerVars>>

\* It fails after writeOnConnect, before or after UpsertSession: nothing is undone.
OnConnectFails(c) ==
    LET s == SidOf[c]
    IN /\ failures < MaxFailures /\ failures' = failures + 1
       /\ Client(c, "new", "refused")
       /\ wal' = wal \union {s}
       /\ \/ row' = row
          \/ c \notin ApiClients /\ row' = [row EXCEPT ![s] = "open"]
       /\ UNCHANGED <<proxyStore, reviewed, opened, memory, jobs, review, saw, lost, undone,
                      threadVars, brokerVars>>

\* A plugin after it refuses the connection (dlp and webhooks check the license).
RefuseConnect(c) ==
    /\ Client(c, "accepted", "refused")
    /\ UNCHANGED <<proxyStore, reviewed, opened, auditVars, rowVars, threadVars, brokerVars>>

SaveStream(c) ==
    /\ Client(c, "accepted", "open")
    /\ proxyStore' = [proxyStore EXCEPT ![SidOf[c]] = c]
    /\ UNCHANGED <<reviewed, opened, auditVars, rowVars, threadVars, brokerVars>>

-----------------------------------------------------------------------------
(* listenClientMessages *)

\* SessionOpen needs a review: SetReviewed, and the client is told to wait.  Of an
\* api session the audit plugin drops its state.
WaitApproval(c) ==
    LET s == SidOf[c]
    IN /\ client[c] = "open" /\ review[s] = "none" /\ s \notin opened
       /\ review' = [review EXCEPT ![s] = "pending"]
       /\ reviewed' = [reviewed EXCEPT ![c] = TRUE]
       /\ wal' = IF c \in ApiClients THEN wal \ {s} ELSE wal
       /\ memory' = IF c \in ApiClients THEN memory \ {s} ELSE memory
       /\ UNCHANGED <<proxyStore, client, opened, jobs, row, saw, failures, lost, undone,
                      threadVars, brokerVars>>

\* SessionOpen of a session that needs no review, or has its approval: the agent is
\* asked to open it.
OpenSession(c) ==
    /\ client[c] = "open" /\ review[SidOf[c]] \in {"none", "approved"}
    /\ SidOf[c] \notin opened
    /\ opened' = opened \union {SidOf[c]}
    /\ UNCHANGED <<proxyStore, client, reviewed, auditVars, rowVars, threadVars, brokerVars>>

\* OnReceive analyses the input of an exec by the command line: it reads the row ...
AiRead(c) ==
    /\ c \notin ApiClients /\ SidOf[c] \notin opened
    /\ Client(c, "open", "analysed")
    /\ saw' = [saw EXCEPT ![c] = row[SidOf[c]]]
    /\ UNCHANGED <<proxyStore, reviewed, opened, auditVars, row, review, failures, lost, undone,
                   threadVars, brokerVars>>

\* listenClientMessages returns.  Only the stream of a command line closes itself.
Leave(c, at) ==
    /\ Client(c, at, "gone")
    /\ IF c \in ApiClients THEN UNCHANGED <<task, on>>
       ELSE Thread(c, "idle", "has") /\ on' = [on EXCEPT ![c] = c]

\* ... and writes it back, with its verdict: go on, or blocked, which ends the loop.
AiSave(c) ==
    LET s == SidOf[c]
    IN /\ \/ /\ Client(c, "analysed", "open") /\ UNCHANGED <<task, on>>
             /\ row' = [row EXCEPT ![s] = saw[c]]
          \/ Leave(c, "analysed") /\ row' = [row EXCEPT ![s] = "done"]
       /\ undone' = IF row[s] = "done" /\ row'[s] # "done" THEN undone \union {s} ELSE undone
       /\ saw' = [saw EXCEPT ![c] = "none"]
       /\ UNCHANGED <<proxyStore, reviewed, opened, auditVars, review, failures, lost, up, todo, brokerVars>>

\* End of stream, an error, a refused packet, or the context is done.
ClientEnds(c) ==
    /\ Leave(c, "open")
    /\ UNCHANGED <<proxyStore, reviewed, opened, auditVars, rowVars, up, todo, brokerVars>>

-----------------------------------------------------------------------------
(* ProxyStream.Close *)

\* Where a thread goes when its Close returns, and that it does.
After(a) == IF a \in up THEN "idle"
            ELSE IF a \in Clients \/ todo[a] = {} THEN "end" ELSE "sweep"
Return(a, at) == Thread(a, at, After(a)) /\ on' = [on EXCEPT ![a] = None]

\* OnDisconnect of the audit plugin starts a goroutine for each session.
CloseSessions(S) ==
    jobs' = [s \in Sids |-> IF s \in S THEN [jobs[s] EXCEPT !["pop"] = @ + 1] ELSE jobs[s]]

\* Mutant: the stream leaves the store before the plugins are told.
HasStreamPops(a) ==
    /\ task[a] = "has"
    /\ IF proxyStore[SidOf[on[a]]] = None
       THEN Return(a, "has")
       ELSE Thread(a, "has", "disconnect") /\ UNCHANGED on
    /\ proxyStore' = [proxyStore EXCEPT ![SidOf[on[a]]] = None]
    /\ UNCHANGED <<client, reviewed, opened, auditVars, rowVars, up, todo, brokerVars>>

\* Of a stream whose session is not in the store only the context is cancelled, which
\* ends its loop: the steps of ClientEnds.
HasStream(a) ==
    /\ task[a] = "has"
    /\ IF proxyStore[SidOf[on[a]]] = None
       THEN Return(a, "has")
       ELSE Thread(a, "has", "disconnect") /\ UNCHANGED on
    /\ UNCHANGED <<proxyStore, client, reviewed, opened, auditVars, rowVars, up, todo, brokerVars>>

PluginExecOnDisconnect(a) ==
    /\ Thread(a, "disconnect", "del")
    /\ CloseSessions({SidOf[on[a]]})
    /\ UNCHANGED <<streamVars, memory, wal, rowVars, on, up, todo, brokerVars>>

\* The key is removed, whatever stream it holds by now.
DelStream(a) ==
    /\ Return(a, "del")
    /\ proxyStore' = [proxyStore EXCEPT ![SidOf[on[a]]] = None]
    /\ UNCHANGED <<client, reviewed, opened, auditVars, rowVars, up, todo, brokerVars>>

\* A reviewed stream is taken out of the store and nothing else.
DropReviewed(a) ==
    /\ Return(a, "drop")
    /\ proxyStore' = [proxyStore EXCEPT ![SidOf[on[a]]] = None]
    /\ UNCHANGED <<client, reviewed, opened, auditVars, rowVars, up, todo, brokerVars>>

-----------------------------------------------------------------------------
(* Who closes *)

\* GetProxyStream, then Close: KillSession, or PollingUserToken of the stream.
CloseFound(a) ==
    /\ a \in Closers
    /\ \E c \in Clients : /\ proxyStore[SidOf[c]] = c
                          /\ on' = [on EXCEPT ![a] = c]
    /\ Thread(a, "idle", "has")
    /\ UNCHANGED <<streamVars, auditVars, rowVars, up, todo, brokerVars>>

\* KillSession of a session that has no stream: the audit plugin closes it anyway.
KillUnknown(a) ==
    /\ a \in Closers /\ Thread(a, "idle", "end")
    /\ \E s \in Sids : proxyStore[s] = None /\ row[s] # "none" /\ CloseSessions({s})
    /\ UNCHANGED <<streamVars, memory, wal, rowVars, on, up, todo, brokerVars>>

\* InitProxyMemoryCleanup takes the streams that are older than two days,
\* DisconnectAllProxies, when the gateway stops, all of them.
ListProxies(a) ==
    /\ a \in Closers /\ Thread(a, "idle", "sweep")
    /\ \E T \in SUBSET {c \in Clients : proxyStore[SidOf[c]] = c} :
          T # {} /\ todo' = [todo EXCEPT ![a] = T]
    /\ UNCHANGED <<streamVars, auditVars, rowVars, on, up, brokerVars>>

\* A listing is worked through one stream after the other.  An agent's disconnect
\* runs OnDisconnect with the context of the agent before it closes the stream.
SweepNext(a) ==
    /\ a \in Agents \union Closers
    /\ \E c \in todo[a] :
          /\ Thread(a, "sweep", CASE reviewed[c]   -> "drop"
                                  [] a \in Agents -> "agentwide"
                                  [] OTHER        -> "has")
          /\ on' = [on EXCEPT ![a] = c]
          /\ todo' = [todo EXCEPT ![a] = @ \ {c}]
    /\ UNCHANGED <<streamVars, auditVars, rowVars, up, brokerVars>>

\* UpdateReview of an approval: the session is ready.
Approve(s) ==
    /\ review[s] = "pending"
    /\ review' = [review EXCEPT ![s] = "approved"]
    /\ row' = [row EXCEPT ![s] = "ready"]
    /\ UNCHANGED <<streamVars, auditVars, saw, failures, lost, undone, threadVars, brokerVars>>

\* UpdateReview of a rejection, then ReleaseConnectionOnReview.
Reject(a, s) ==
    /\ a \in Closers /\ Thread(a, "idle", "release")
    /\ review[s] = "pending"
    /\ review' = [review EXCEPT ![s] = "rejected"]
    /\ row' = [row EXCEPT ![s] = "done"]
    /\ \E c \in Clients : SidOf[c] = s /\ on' = [on EXCEPT ![a] = c]
    /\ UNCHANGED <<streamVars, auditVars, saw, failures, lost, undone, up, todo, brokerVars>>

ReleaseConnection(a) ==
    LET c == proxyStore[SidOf[on[a]]]
    IN /\ Thread(a, "release", IF c = None THEN "end" ELSE "has")
       /\ on' = [on EXCEPT ![a] = c]
       /\ UNCHANGED <<streamVars, auditVars, rowVars, up, todo, brokerVars>>

-----------------------------------------------------------------------------
(* The agent's stream *)

\* listenAgentMessages receives a packet of an open session that has a stream.
AgentPacket(k) ==
    /\ k \in up /\ Thread(k, "idle", "got")
    /\ \E c \in Clients : /\ proxyStore[SidOf[c]] = c /\ SidOf[c] \in opened
                          /\ on' = [on EXCEPT ![k] = c]
    /\ UNCHANGED <<streamVars, auditVars, rowVars, up, todo, brokerVars>>

\* The plugins take it: output for the client, or the end of the session.  Without
\* a log the audit plugin rejects what it has to record, except standard output,
\* and the loop returns.
AgentPlugins(k) ==
    LET s == SidOf[on[k]]
    IN /\ \/ Return(k, "got") /\ UNCHANGED up
          \/ Thread(k, "got", "has") /\ UNCHANGED <<on, up>>
          \/ /\ Thread(k, "got", "leave") /\ s \notin wal
             /\ on' = [on EXCEPT ![k] = None] /\ up' = up \ {k}
       /\ UNCHANGED <<streamVars, auditVars, rowVars, todo, brokerVars>>

\* The agent disconnects.
AgentLeaves(k) ==
    /\ k \in up /\ Thread(k, "idle", "leave")
    /\ up' = up \ {k}
    /\ UNCHANGED <<streamVars, auditVars, rowVars, on, todo, brokerVars>>

\* AgentStream.Close: disconnectProxiesByAgent lists the streams of the agent.
ListByAgent(k) ==
    /\ todo' = [todo EXCEPT ![k] = {c \in Clients : proxyStore[SidOf[c]] = c}]
    /\ k \in Agents /\ Thread(k, "leave", IF todo'[k] = {} THEN "end" ELSE "sweep")
    /\ UNCHANGED <<streamVars, auditVars, rowVars, on, up, brokerVars>>

\* OnDisconnect with the agent's context closes every session of the agent.
AgentWideDisconnect(k) ==
    /\ k \in Agents /\ Thread(k, "agentwide", "has")
    /\ CloseSessions(memory)
    /\ UNCHANGED <<streamVars, memory, wal, rowVars, on, up, todo, brokerVars>>

-----------------------------------------------------------------------------
(* The goroutines of closeSession *)

Advance(s, from, to) ==
    /\ jobs[s][from] > 0
    /\ jobs' = [jobs EXCEPT ![s] = [g \in Stages |-> CASE g = from -> @[g] - 1
                                                        [] g = to   -> @[g] + 1
                                                        [] OTHER    -> @[g]]]

\* closeSessionWAL takes the log out of the store, flushes and removes it, ...
PopWal(s) ==
    /\ Advance(s, "pop", "mark")
    /\ wal' = wal \ {s}
    /\ UNCHANGED <<streamVars, memory, rowVars, threadVars, brokerVars>>

\* ... and marks the session done, which may fail and is only logged.
MarkSessionDone(s) ==
    /\ Advance(s, "mark", "remove")
    /\ \/ row' = [row EXCEPT ![s] = "done"] /\ UNCHANGED <<failures, lost>>
       \/ /\ failures < MaxFailures /\ failures' = failures + 1
          /\ lost' = lost \union {s} /\ UNCHANGED row
    /\ UNCHANGED <<streamVars, memory, wal, review, saw, undone, threadVars, brokerVars>>

\* eventbroker.Remove closes the channel of every subscriber.
RemoveBroker(s) ==
    /\ Advance(s, "remove", "forget")
    /\ broker' = [broker EXCEPT ![s] = {}]
    /\ UNCHANGED <<streamVars, memory, wal, rowVars, threadVars, sub>>

\* The deferred memorySessionStore.Del.
Forget(s) ==
    /\ jobs[s]["forget"] > 0
    /\ jobs' = [jobs EXCEPT ![s]["forget"] = @ - 1]
    /\ memory' = memory \ {s}
    /\ UNCHANGED <<streamVars, wal, rowVars, threadVars, brokerVars>>

-----------------------------------------------------------------------------
(* StreamSession *)

Sub(u, at, to) == sub[u] = at /\ sub' = [sub EXCEPT ![u] = to]
Listening      == {"live", "blind"}
Subscribed(u)  == u \in broker[SubOf[u]]
Unsubscribe(u) == broker' = [broker EXCEPT ![SubOf[u]] = @ \ {u}]

\* A session that is done has nothing to stream.
CheckSession(u) ==
    /\ row[SubOf[u]] # "none"
    /\ Sub(u, "idle", IF row[SubOf[u]] = "done" THEN "end" ELSE "checked")
    /\ UNCHANGED <<streamVars, auditVars, rowVars, threadVars, broker>>

Subscribe(u) ==
    /\ Sub(u, "checked", "subscribed")
    /\ broker' = [broker EXCEPT ![SubOf[u]] = @ \union {u}]
    /\ UNCHANGED <<streamVars, auditVars, rowVars, threadVars>>

\* Mutant: the session is not checked again.
NoRecheck(u) ==
    /\ Sub(u, "subscribed", "live")
    /\ UNCHANGED <<streamVars, auditVars, rowVars, threadVars, broker>>

\* The check is repeated after the subscription.
RecheckSession(u) ==
    /\ IF row[SubOf[u]] = "done" THEN Sub(u, "subscribed", "end") /\ Unsubscribe(u)
                                 ELSE Sub(u, "subscribed", "live") /\ UNCHANGED broker
    /\ UNCHANGED <<streamVars, auditVars, rowVars, threadVars>>

\* The second read fails: the error is ignored and the reader stays.  When the session
\* was done already, nothing tells it ("blind").
RecheckFails(u) ==
    /\ Sub(u, "subscribed", IF row[SubOf[u]] = "done" THEN "blind" ELSE "live")
    /\ UNCHANGED <<streamVars, auditVars, rowVars, threadVars, broker>>

\* Mutant: a closed channel is read as one more event.
ReadsOn(u) == sub[u] \in Listening /\ ~Subscribed(u) /\ UNCHANGED vars

\* The channel was closed: session_end.
SessionEnd(u) ==
    /\ ~Subscribed(u) /\ \E at \in Listening : Sub(u, at, "end")
    /\ UNCHANGED <<streamVars, auditVars, rowVars, threadVars, broker>>

\* The reader goes away.
LeaveStream(u) ==
    /\ \E at \in Listening : Sub(u, at, "end")
    /\ Unsubscribe(u)
    /\ UNCHANGED <<streamVars, auditVars, rowVars, threadVars>>

-----------------------------------------------------------------------------
Close(a) == HasStream(a) \/ PluginExecOnDisconnect(a) \/ DelStream(a) \/ DropReviewed(a)
CloseSession(s) == PopWal(s) \/ MarkSessionDone(s) \/ RemoveBroker(s) \/ Forget(s)

Next ==
    \/ \E c \in Clients :
          \/ OnConnect(c) \/ OnConnectFails(c) \/ RefuseConnect(c) \/ SaveStream(c)
          \/ WaitApproval(c) \/ OpenSession(c) \/ AiRead(c) \/ AiSave(c) \/ ClientEnds(c)
    \/ \E a \in Threads : Close(a)
    \/ \E a \in Closers :
          \/ CloseFound(a) \/ KillUnknown(a) \/ ListProxies(a) \/ ReleaseConnection(a)
          \/ \E s \in Sids : Reject(a, s)
    \/ \E k \in Agents :
          \/ AgentPacket(k) \/ AgentPlugins(k) \/ AgentLeaves(k)
          \/ ListByAgent(k) \/ AgentWideDisconnect(k)
    \/ \E a \in Agents \union Closers : SweepNext(a)
    \/ \E s \in Sids : Approve(s) \/ CloseSession(s)
    \/ \E u \in Subscribers :
          \/ CheckSession(u) \/ Subscribe(u) \/ RecheckSession(u) \/ RecheckFails(u)
          \/ SessionEnd(u) \/ LeaveStream(u)

Spec == Init /\ [][Next]_vars

\* The deferred Close of a client's stream runs on, the goroutines of closeSession
\* and the handler of a live stream too.  Everyone else may stop at any point.  Each
\* subscript is a variable that every step of its action changes.
FairSpec ==
    /\ Spec
    /\ \A c \in Clients : WF_task(Close(c))
    /\ \A s \in Sids : WF_jobs(CloseSession(s))
    /\ \A u \in Subscribers : WF_sub(RecheckSession(u) \/ RecheckFails(u) \/ SessionEnd(u))

-----------------------------------------------------------------------------
(* Properties *)

\* Every variable has its type.
TypeOK ==
    /\ proxyStore \in [Sids -> Clients \union {None}]
    /\ memory \subseteq Sids /\ wal \subseteq Sids /\ opened \subseteq Sids
    /\ row \in [Sids -> {"none", "open", "ready", "done"}]
    /\ review \in [Sids -> {"none", "pending", "approved", "rejected"}]
    /\ client \in [Clients -> {"new", "accepted", "refused", "open", "analysed", "gone"}]
    /\ reviewed \in [Clients -> BOOLEAN]
    /\ saw \in [Clients -> {"none", "open", "ready", "done"}]
    /\ task \in [Threads -> {"idle", "has", "disconnect", "del", "drop", "release", "got",
                             "leave", "sweep", "agentwide", "end"}]
    /\ on \in [Threads -> Clients \union {None}]
    /\ up \subseteq Agents
    /\ todo \in [Agents \union Closers -> SUBSET Clients]
    /\ jobs \in [Sids -> [Stages -> Nat]]
    /\ broker \in [Sids -> SUBSET Subscribers]
    /\ sub \in [Subscribers -> {"idle", "checked", "subscribed", "live", "blind", "end"}]
    /\ failures \in Nat
    /\ lost \subseteq Sids /\ undone \subseteq Sids

\* closeSession has started and will mark the session done, or has done so.
Closing(s) == jobs[s]["pop"] > 0 \/ jobs[s]["mark"] > 0 \/ row[s] = "done" \/ s \in lost

\* The only stream of its session, which never waited for a review.
Alone(c) == \A d \in Clients : SidOf[d] = SidOf[c] => d = c
Plain(c) == ~reviewed[c] /\ Alone(c)

\* ProxyStream.Close: whoever closes a stream first, a session whose client is gone
\* is marked done, unless the statement failed or a stale row was saved over it, and
\* once its goroutines are through the audit plugin holds nothing of it.
ClosedIsDone ==
    \A c \in Clients : LET s == SidOf[c] IN
        task[c] = "end" /\ Plain(c) /\ s \notin undone =>
            /\ Closing(s)
            /\ (\A g \in Stages : jobs[s][g] = 0) => s \notin memory /\ s \notin wal

\* StreamSession: marking the session done before eventbroker.Remove, and checking
\* the row again after Subscribe, leave no reader behind: a reader that listens to a
\* session marked done is still to be woken, by the goroutine that marked it or, when
\* the AI analysis did, by the Close to come.  This is true of a reader whose second
\* check failed too, unless the session was done by then.
ReadersAreWoken ==
    \A u \in Subscribers, c \in Clients : LET s == SidOf[c] IN
        sub[u] = "live" /\ SubOf[u] = s /\ u \in broker[s] /\ row[s] = "done" /\ Plain(c) =>
            \/ \E g \in {"pop", "mark", "remove"} : jobs[s][g] > 0
            \/ s \in undone \union lost
            \/ task[c] \in {"has", "disconnect"}

\* listenAgentMessages: a packet that is rejected for want of a log ends the stream of
\* the agent and all its sessions; only one of a session that is being closed is.
RejectedOnlyWhileClosing ==
    [][\A k \in Agents : task[k] = "got" /\ task'[k] = "leave" =>
          LET s == SidOf[on[k]]
          IN \/ Closing(s) \/ s \in undone
             \/ \E c \in Clients : SidOf[c] = s /\ reviewed[c]]_vars

\* closeSession and StreamSession: no reader listens for ever to a session whose client
\* is gone: it is told session_end, unless its second check failed when the session was
\* done.
ReadersAreTold ==
    \A u \in Subscribers, c \in Clients \ ApiClients :
        []<>(sub[u] = "live" /\ SidOf[c] = SubOf[u] /\ client[c] = "gone" =>
                ~Plain(c) \/ SubOf[u] \in undone \union lost)
=============================================================================
