------------------------- MODULE ProxyStreamsProofs -------------------------
(***************************************************************************)
(* Proofs about ProxyStreams: types, what the threads that close a stream  *)
(* and the stores agree on, and that no interleaving of them leaves a      *)
(* session open, a log behind or a reader unwoken.                         *)
(***************************************************************************)
EXTENDS ProxyStreams, TLAPS

-----------------------------------------------------------------------------
(* Types, threads and stores *)

\* The stream was stored: the plugins had accepted it.
Saved == {"open", "analysed", "gone"}

\* A thread works on a stream that was stored, drops only a reviewed one, and the
\* thread of a client only ever closes its own stream, once its loop is over.
ThreadsAgree ==
    \A a \in Threads :
        /\ task[a] \in {"has", "disconnect", "del", "drop", "agentwide", "got"} =>
              on[a] \in Clients /\ client[on[a]] \in Saved
        /\ task[a] = "release" => on[a] \in Clients
        /\ task[a] = "drop" => reviewed[on[a]]
        /\ a \in Clients => /\ task[a] \in {"idle", "has", "disconnect", "del", "end"}
                            /\ task[a] # "idle" => client[a] = "gone"
                            /\ task[a] \in {"has", "disconnect", "del"} => on[a] = a

\* The listings and the store hold streams that were stored, under their session.
StoresAgree ==
    /\ \A a \in Agents \union Closers : \A c \in todo[a] : client[c] \in Saved
    /\ \A s \in Sids : proxyStore[s] # None =>
          SidOf[proxyStore[s]] = s /\ client[proxyStore[s]] \in Saved

\* Only the session of a reviewed stream, which was stored, has a pending review, only
\* the input of a command line is analysed.
ReviewsAgree ==
    /\ \A s \in Sids : review[s] = "pending" => \E c \in Clients : SidOf[c] = s /\ reviewed[c]
    /\ \A c \in Clients : /\ client[c] = "analysed" => c \notin ApiClients
                          /\ reviewed[c] => client[c] \in Saved

StreamInv == TypeOK /\ ThreadsAgree /\ StoresAgree /\ ReviewsAgree

LEMMA StreamInvariant == Spec => []StreamInv
<1> USE StreamsAssumption
<1>1. Init => StreamInv
  BY DEF Init, StreamInv, TypeOK, ThreadsAgree, StoresAgree, ReviewsAgree, Threads, Stages, Saved
<1>2. StreamInv /\ [Next]_vars => StreamInv'
  <2> SUFFICES ASSUME StreamInv, [Next]_vars PROVE StreamInv'
    OBVIOUS
  <2> USE DEF StreamInv, Saved, Threads, streamVars, auditVars, rowVars, threadVars, brokerVars
  <2>1. TypeOK'
    <3> USE DEF TypeOK, ThreadsAgree, StoresAgree, Stages
    <3>1. CASE UNCHANGED vars
      BY <3>1 DEF vars
    <3>2. ASSUME NEW c \in Clients, OnConnect(c) PROVE TypeOK'
      BY <3>2 DEF OnConnect, Client
    <3>3. ASSUME NEW c \in Clients, OnConnectFails(c) PROVE TypeOK'
      <4>1. row' \in [Sids -> {"none", "open", "ready", "done"}]
        BY SMTT(30), <3>3 DEF OnConnectFails
      <4>2. QED
        BY <3>3, <4>1 DEF OnConnectFails, Client
    <3>4. ASSUME NEW c \in Clients, RefuseConnect(c) PROVE TypeOK'
      BY <3>4 DEF RefuseConnect, Client
    <3>5. ASSUME NEW c \in Clients, SaveStream(c) PROVE TypeOK'
      BY <3>5 DEF SaveStream, Client
    <3>6. ASSUME NEW c \in Clients, WaitApproval(c) PROVE TypeOK'
      BY <3>6 DEF WaitApproval
    <3>7. ASSUME NEW c \in Clients, OpenSession(c) PROVE TypeOK'
      BY <3>7 DEF OpenSession
    <3>8. ASSUME NEW c \in Clients, AiRead(c) PROVE TypeOK'
      BY <3>8 DEF AiRead, Client
    <3>9. ASSUME NEW c \in Clients, AiSave(c) PROVE TypeOK'
      <4>1. row' \in [Sids -> {"none", "open", "ready", "done"}]
        <5>1. \/ row' = [row EXCEPT ![SidOf[c]] = saw[c]]
              \/ row' = [row EXCEPT ![SidOf[c]] = "done"]
          BY <3>9 DEF AiSave
        <5>2. QED
          BY <5>1
      <4>2. undone' \subseteq Sids
        BY <3>9 DEF AiSave
      <4>3. client' \in [Clients -> {"new", "accepted", "refused", "open", "analysed", "gone"}]
        BY SMTT(30), <3>9 DEF AiSave, Client, Leave
      <4>4. /\ task' \in [Threads -> {"idle", "has", "disconnect", "del", "drop", "release", "got",
                                 "leave", "sweep", "agentwide", "end"}]
            /\ on' \in [Threads -> Clients \union {None}]
        <5>1. UNCHANGED <<task, on>> \/ (Thread(c, "idle", "has") /\ on' = [on EXCEPT ![c] = c])
          BY <3>9 DEF AiSave, Leave
        <5>2. CASE UNCHANGED <<task, on>>
          BY <5>2
        <5>3. CASE Thread(c, "idle", "has") /\ on' = [on EXCEPT ![c] = c]
          BY <5>3 DEF Thread
        <5>4. QED
          BY <5>1, <5>2, <5>3
      <4>5. QED
        BY <3>9, <4>1, <4>2, <4>3, <4>4 DEF AiSave
    <3>10. ASSUME NEW c \in Clients, ClientEnds(c) PROVE TypeOK'
      BY SMTT(30), <3>10 DEF ClientEnds, Client, Leave, Thread
    <3>11. ASSUME NEW a \in Threads, HasStream(a) PROVE TypeOK'
      <4>1. Return(a, "has") \/ (Thread(a, "has", "disconnect") /\ UNCHANGED on)
        BY <3>11 DEF HasStream
      <4>2. After(a) \in {"idle", "end", "sweep"}
        BY DEF After
      <4>3. CASE Return(a, "has")
        BY <3>11, <4>2, <4>3 DEF HasStream, Thread, Return
      <4>4. CASE Thread(a, "has", "disconnect") /\ UNCHANGED on
        BY <3>11, <4>4 DEF HasStream, Thread
      <4>5. QED
        BY <4>1, <4>3, <4>4
    <3>12. ASSUME NEW a \in Threads, PluginExecOnDisconnect(a) PROVE TypeOK'
      BY <3>12 DEF PluginExecOnDisconnect, Thread, CloseSessions
    <3>13. ASSUME NEW a \in Threads, DelStream(a) PROVE TypeOK'
      BY <3>13 DEF DelStream, Thread, Return, After
    <3>14. ASSUME NEW a \in Threads, DropReviewed(a) PROVE TypeOK'
      BY <3>14 DEF DropReviewed, Thread, Return, After
    <3>15. ASSUME NEW a \in Closers, CloseFound(a) PROVE TypeOK'
      BY <3>15 DEF CloseFound, Thread
    <3>16. ASSUME NEW a \in Closers, KillUnknown(a) PROVE TypeOK'
      BY <3>16 DEF KillUnknown, Thread, CloseSessions
    <3>17. ASSUME NEW a \in Closers, ListProxies(a) PROVE TypeOK'
      BY <3>17 DEF ListProxies, Thread
    <3>18. ASSUME NEW a \in Closers, ReleaseConnection(a) PROVE TypeOK'
      BY <3>18 DEF ReleaseConnection, Thread
    <3>19. ASSUME NEW a \in Closers, NEW s \in Sids, Reject(a, s) PROVE TypeOK'
      BY <3>19 DEF Reject, Thread
    <3>20. ASSUME NEW k \in Agents, AgentPacket(k) PROVE TypeOK'
      BY <3>20 DEF AgentPacket, Thread
    <3>21. ASSUME NEW k \in Agents, AgentPlugins(k) PROVE TypeOK'
      <4>1. After(k) \in {"idle", "end", "sweep"}
        BY DEF After
      <4>2. task' \in [Threads -> {"idle", "has", "disconnect", "del", "drop", "release", "got",
                                 "leave", "sweep", "agentwide", "end"}]
        BY <3>21, <4>1 DEF AgentPlugins, Thread, Return
      <4>3. on' \in [Threads -> Clients \union {None}] /\ up' \subseteq Agents
        BY <3>21 DEF AgentPlugins, Thread, Return
      <4>4. QED
        BY <3>21, <4>2, <4>3 DEF AgentPlugins
    <3>22. ASSUME NEW k \in Agents, AgentLeaves(k) PROVE TypeOK'
      BY <3>22 DEF AgentLeaves, Thread
    <3>23. ASSUME NEW k \in Agents, ListByAgent(k) PROVE TypeOK'
      BY <3>23 DEF ListByAgent, Thread
    <3>24. ASSUME NEW k \in Agents, AgentWideDisconnect(k) PROVE TypeOK'
      BY <3>24 DEF AgentWideDisconnect, Thread, CloseSessions
    <3>25. ASSUME NEW a \in Agents \union Closers, SweepNext(a) PROVE TypeOK'
      BY <3>25 DEF SweepNext, Thread
    <3>26. ASSUME NEW s \in Sids, Approve(s) PROVE TypeOK'
      BY <3>26 DEF Approve
    <3>27. ASSUME NEW s \in Sids, PopWal(s) PROVE TypeOK'
      BY <3>27 DEF PopWal, Advance
    <3>28. ASSUME NEW s \in Sids, MarkSessionDone(s) PROVE TypeOK'
      BY <3>28 DEF MarkSessionDone, Advance
    <3>29. ASSUME NEW s \in Sids, RemoveBroker(s) PROVE TypeOK'
      BY <3>29 DEF RemoveBroker, Advance
    <3>30. ASSUME NEW s \in Sids, Forget(s) PROVE TypeOK'
      BY <3>30 DEF Forget
    <3>31. ASSUME NEW u \in Subscribers, CheckSession(u) PROVE TypeOK'
      BY <3>31 DEF CheckSession, Sub
    <3>32. ASSUME NEW u \in Subscribers, Subscribe(u) PROVE TypeOK'
      BY <3>32 DEF Subscribe, Sub
    <3>33. ASSUME NEW u \in Subscribers, RecheckSession(u) PROVE TypeOK'
      <4>1. sub' \in [Subscribers -> {"idle", "checked", "subscribed", "live", "blind", "end"}]
        <5>1. Sub(u, "subscribed", "end") \/ Sub(u, "subscribed", "live")
          BY <3>33 DEF RecheckSession
        <5>2. QED
          BY <5>1 DEF Sub
      <4>2. broker' \in [Sids -> SUBSET Subscribers]
        BY SMTT(30), <3>33 DEF RecheckSession, Unsubscribe
      <4>3. QED
        BY <3>33, <4>1, <4>2 DEF RecheckSession
    <3>34. ASSUME NEW u \in Subscribers, SessionEnd(u) PROVE TypeOK'
      BY <3>34 DEF SessionEnd, Listening, Sub
    <3>35. ASSUME NEW u \in Subscribers, LeaveStream(u) PROVE TypeOK'
      BY <3>35 DEF LeaveStream, Listening, Sub, Unsubscribe
    <3>36. ASSUME NEW u \in Subscribers, RecheckFails(u) PROVE TypeOK'
      BY <3>36 DEF RecheckFails, Sub
    <3> HIDE DEF StreamInv, TypeOK, ThreadsAgree, StoresAgree, Stages
    <3>37. QED
      BY <3>1, <3>2, <3>3, <3>4, <3>5, <3>6, <3>7, <3>8, <3>9, <3>10, <3>11, <3>12, <3>13, <3>14, <3>15,
         <3>16, <3>17, <3>18, <3>19, <3>20, <3>21, <3>22, <3>23, <3>24, <3>25, <3>26, <3>27, <3>28,
         <3>29, <3>30, <3>31, <3>32, <3>33, <3>34, <3>35, <3>36
      DEF Next, Close, CloseSession
  <2>2. ThreadsAgree'
    <3> USE <2>1 DEF TypeOK, ThreadsAgree, StoresAgree
    <3>1. ASSUME UNCHANGED <<task, on, client, reviewed>> PROVE ThreadsAgree'
      BY <3>1 DEF ThreadsAgree
    <3>2. ASSUME NEW c \in Clients, OnConnect(c) PROVE ThreadsAgree'
      BY <3>2 DEF OnConnect, Client
    <3>3. ASSUME NEW c \in Clients, OnConnectFails(c) PROVE ThreadsAgree'
      BY <3>3 DEF OnConnectFails, Client
    <3>4. ASSUME NEW c \in Clients, RefuseConnect(c) PROVE ThreadsAgree'
      BY <3>4 DEF RefuseConnect, Client
    <3>5. ASSUME NEW c \in Clients, SaveStream(c) PROVE ThreadsAgree'
      BY <3>5 DEF SaveStream, Client
    <3>6. ASSUME NEW c \in Clients, WaitApproval(c) PROVE ThreadsAgree'
      BY <3>6 DEF WaitApproval
    <3>7. ASSUME NEW c \in Clients, AiRead(c) PROVE ThreadsAgree'
      BY <3>7 DEF AiRead, Client
    <3>8. ASSUME NEW c \in Clients, AiSave(c) PROVE ThreadsAgree'
      <4>1. CASE Client(c, "analysed", "open") /\ UNCHANGED <<task, on>>
        BY <3>8, <4>1 DEF AiSave, Client
      <4>2. CASE Leave(c, "analysed")
        BY <3>8, <4>2 DEF AiSave, Client, Leave, Thread
      <4>3. QED
        BY <3>8, <4>1, <4>2 DEF AiSave
    <3>9. ASSUME NEW c \in Clients, ClientEnds(c) PROVE ThreadsAgree'
      BY <3>9 DEF ClientEnds, Client, Leave, Thread
    <3>10. ASSUME NEW a \in Threads, HasStream(a) PROVE ThreadsAgree'
      BY <3>10 DEF HasStream, Thread, Return, After
    <3>11. ASSUME NEW a \in Threads, PluginExecOnDisconnect(a) PROVE ThreadsAgree'
      BY <3>11 DEF PluginExecOnDisconnect, Thread, CloseSessions
    <3>12. ASSUME NEW a \in Threads, DelStream(a) PROVE ThreadsAgree'
      BY <3>12 DEF DelStream, Thread, Return, After
    <3>13. ASSUME NEW a \in Threads, DropReviewed(a) PROVE ThreadsAgree'
      BY <3>13 DEF DropReviewed, Thread, Return, After
    <3>14. ASSUME NEW a \in Closers, CloseFound(a) PROVE ThreadsAgree'
      BY <3>14 DEF CloseFound, Thread
    <3>15. ASSUME NEW a \in Closers, KillUnknown(a) PROVE ThreadsAgree'
      BY <3>15 DEF KillUnknown, Thread, CloseSessions
    <3>16. ASSUME NEW a \in Closers, ListProxies(a) PROVE ThreadsAgree'
      BY <3>16 DEF ListProxies, Thread
    <3>17. ASSUME NEW a \in Closers, ReleaseConnection(a) PROVE ThreadsAgree'
      BY <3>17 DEF ReleaseConnection, Thread
    <3>18. ASSUME NEW a \in Closers, NEW s \in Sids, Reject(a, s) PROVE ThreadsAgree'
      BY <3>18 DEF Reject, Thread
    <3>19. ASSUME NEW k \in Agents, AgentPacket(k) PROVE ThreadsAgree'
      BY <3>19 DEF AgentPacket, Thread
    <3>20. ASSUME NEW k \in Agents, AgentPlugins(k) PROVE ThreadsAgree'
      BY <3>20 DEF AgentPlugins, Thread, Return, After
    <3>21. ASSUME NEW k \in Agents, AgentLeaves(k) PROVE ThreadsAgree'
      BY <3>21 DEF AgentLeaves, Thread
    <3>22. ASSUME NEW k \in Agents, ListByAgent(k) PROVE ThreadsAgree'
      BY <3>22 DEF ListByAgent, Thread
    <3>23. ASSUME NEW k \in Agents, AgentWideDisconnect(k) PROVE ThreadsAgree'
      BY <3>23 DEF AgentWideDisconnect, Thread, CloseSessions
    <3>24. ASSUME NEW a \in Agents \union Closers, SweepNext(a) PROVE ThreadsAgree'
      BY <3>24 DEF SweepNext, Thread
    <3>25. CASE \/ UNCHANGED vars
                \/ \E c \in Clients : OpenSession(c)
                \/ \E s \in Sids : Approve(s) \/ PopWal(s) \/ MarkSessionDone(s) \/ RemoveBroker(s) \/ Forget(s)
                \/ \E u \in Subscribers : CheckSession(u) \/ Subscribe(u) \/ RecheckSession(u) \/ RecheckFails(u) \/ SessionEnd(u) \/ LeaveStream(u)
      BY <3>25, <3>1 DEF vars, OpenSession, Approve, PopWal, MarkSessionDone, RemoveBroker, Forget, CheckSession,
         Subscribe, RecheckSession, RecheckFails, SessionEnd, LeaveStream
    <3> HIDE DEF StreamInv, TypeOK, ThreadsAgree, StoresAgree
    <3>26. QED
      BY <3>2, <3>3, <3>4, <3>5, <3>6, <3>7, <3>8, <3>9, <3>10, <3>11, <3>12, <3>13, <3>14, <3>15,
         <3>16, <3>17, <3>18, <3>19, <3>20, <3>21, <3>22, <3>23, <3>24, <3>25
      DEF Next, Close, CloseSession
  <2>3. StoresAgree'
    <3> USE <2>1 DEF TypeOK, ThreadsAgree, StoresAgree
    <3>1. ASSUME UNCHANGED <<todo, proxyStore, client>> PROVE StoresAgree'
      BY <3>1 DEF StoresAgree
    <3>2. ASSUME NEW c \in Clients, OnConnect(c) PROVE StoresAgree'
      BY <3>2 DEF OnConnect, Client
    <3>3. ASSUME NEW c \in Clients, OnConnectFails(c) PROVE StoresAgree'
      BY <3>3 DEF OnConnectFails, Client
    <3>4. ASSUME NEW c \in Clients, RefuseConnect(c) PROVE StoresAgree'
      BY <3>4 DEF RefuseConnect, Client
    <3>5. ASSUME NEW c \in Clients, SaveStream(c) PROVE StoresAgree'
      BY <3>5 DEF SaveStream, Client
    <3>6. ASSUME NEW c \in Clients, AiRead(c) PROVE StoresAgree'
      BY <3>6 DEF AiRead, Client
    <3>7. ASSUME NEW c \in Clients, AiSave(c) PROVE StoresAgree'
      <4>1. CASE Client(c, "analysed", "open") /\ UNCHANGED <<task, on>>
        BY <3>7, <4>1 DEF AiSave, Client
      <4>2. CASE Leave(c, "analysed")
        BY <3>7, <4>2 DEF AiSave, Client, Leave, Thread
      <4>3. QED
        BY <3>7, <4>1, <4>2 DEF AiSave
    <3>8. ASSUME NEW c \in Clients, ClientEnds(c) PROVE StoresAgree'
      BY <3>8 DEF ClientEnds, Client, Leave, Thread
    <3>9. ASSUME NEW a \in Threads, DelStream(a) PROVE StoresAgree'
      BY <3>9 DEF DelStream, Thread, Return, After
    <3>10. ASSUME NEW a \in Threads, DropReviewed(a) PROVE StoresAgree'
      BY <3>10 DEF DropReviewed, Thread, Return, After
    <3>11. ASSUME NEW a \in Closers, ListProxies(a) PROVE StoresAgree'
      BY <3>11 DEF ListProxies, Thread
    <3>12. ASSUME NEW k \in Agents, ListByAgent(k) PROVE StoresAgree'
      BY <3>12 DEF ListByAgent, Thread
    <3>13. ASSUME NEW a \in Agents \union Closers, SweepNext(a) PROVE StoresAgree'
      BY <3>13 DEF SweepNext, Thread
    <3>14. CASE \/ UNCHANGED vars
                \/ \E c \in Clients : WaitApproval(c) \/ OpenSession(c)
                \/ \E a \in Threads : HasStream(a) \/ PluginExecOnDisconnect(a)
                \/ \E a \in Closers : CloseFound(a) \/ KillUnknown(a) \/ ReleaseConnection(a)
                \/ \E a \in Closers, s \in Sids : Reject(a, s)
                \/ \E k \in Agents : AgentPacket(k) \/ AgentPlugins(k) \/ AgentLeaves(k) \/ AgentWideDisconnect(k)
                \/ \E s \in Sids : Approve(s) \/ PopWal(s) \/ MarkSessionDone(s) \/ RemoveBroker(s) \/ Forget(s)
                \/ \E u \in Subscribers : CheckSession(u) \/ Subscribe(u) \/ RecheckSession(u) \/ RecheckFails(u) \/ SessionEnd(u) \/ LeaveStream(u)
      BY <3>14, <3>1 DEF vars, WaitApproval, OpenSession, HasStream, PluginExecOnDisconnect, CloseFound, KillUnknown,
         ReleaseConnection, Reject, AgentPacket, AgentPlugins, AgentLeaves, AgentWideDisconnect,
         Approve, PopWal, MarkSessionDone, RemoveBroker, Forget, CheckSession, Subscribe,
         RecheckSession, RecheckFails, SessionEnd, LeaveStream
    <3> HIDE DEF StreamInv, TypeOK, ThreadsAgree, StoresAgree
    <3>15. QED
      BY <3>2, <3>3, <3>4, <3>5, <3>6, <3>7, <3>8, <3>9, <3>10, <3>11, <3>12, <3>13, <3>14
      DEF Next, Close, CloseSession
  <2>4. ReviewsAgree'
    <3> USE <2>1 DEF TypeOK, ReviewsAgree
    <3>1. ASSUME UNCHANGED <<review, reviewed, client>> PROVE ReviewsAgree'
      BY <3>1 DEF ReviewsAgree
    <3>2. ASSUME NEW c \in Clients, OnConnect(c) PROVE ReviewsAgree'
      <4>1. ~reviewed[c]
        BY <3>2 DEF OnConnect, Client
      <4>2. QED
        BY <3>2, <4>1 DEF OnConnect, Client
    <3>3. ASSUME NEW c \in Clients, OnConnectFails(c) PROVE ReviewsAgree'
      <4>1. ~reviewed[c]
        BY <3>3 DEF OnConnectFails, Client
      <4>2. QED
        BY <3>3, <4>1 DEF OnConnectFails, Client
    <3>4. ASSUME NEW c \in Clients, RefuseConnect(c) PROVE ReviewsAgree'
      <4>1. ~reviewed[c]
        BY <3>4 DEF RefuseConnect, Client
      <4>2. QED
        BY <3>4, <4>1 DEF RefuseConnect, Client
    <3>5. ASSUME NEW c \in Clients, SaveStream(c) PROVE ReviewsAgree'
      BY <3>5 DEF SaveStream, Client
    <3>6. ASSUME NEW c \in Clients, WaitApproval(c) PROVE ReviewsAgree'
      BY <3>6 DEF WaitApproval
    <3>7. ASSUME NEW c \in Clients, AiRead(c) PROVE ReviewsAgree'
      BY <3>7 DEF AiRead, Client
    <3>8. ASSUME NEW c \in Clients, AiSave(c) PROVE ReviewsAgree'
      BY <3>8 DEF AiSave, Client, Leave, Thread
    <3>9. ASSUME NEW c \in Clients, ClientEnds(c) PROVE ReviewsAgree'
      BY <3>9 DEF ClientEnds, Client, Leave, Thread
    <3>10. ASSUME NEW a \in Closers, NEW s \in Sids, Reject(a, s) PROVE ReviewsAgree'
      BY <3>10 DEF Reject, Thread
    <3>11. ASSUME NEW s \in Sids, Approve(s) PROVE ReviewsAgree'
      BY <3>11 DEF Approve
    <3>12. CASE \/ UNCHANGED vars
                \/ \E c \in Clients : OpenSession(c)
                \/ \E a \in Threads : HasStream(a) \/ PluginExecOnDisconnect(a) \/ DelStream(a) \/ DropReviewed(a)
                \/ \E a \in Closers : CloseFound(a) \/ KillUnknown(a) \/ ListProxies(a) \/ ReleaseConnection(a)
                \/ \E k \in Agents : AgentPacket(k) \/ AgentPlugins(k) \/ AgentLeaves(k) \/ ListByAgent(k)
                                     \/ AgentWideDisconnect(k)
                \/ \E a \in Agents \union Closers : SweepNext(a)
                \/ \E s \in Sids : PopWal(s) \/ MarkSessionDone(s) \/ RemoveBroker(s) \/ Forget(s)
                \/ \E u \in Subscribers : CheckSession(u) \/ Subscribe(u) \/ RecheckSession(u) \/ RecheckFails(u) \/ SessionEnd(u) \/ LeaveStream(u)
      BY <3>12, <3>1 DEF vars, OpenSession, HasStream, PluginExecOnDisconnect, DelStream, DropReviewed, CloseFound,
         KillUnknown, ListProxies, ReleaseConnection, AgentPacket, AgentPlugins, AgentLeaves,
         ListByAgent, AgentWideDisconnect, SweepNext, PopWal, MarkSessionDone, RemoveBroker, Forget,
         CheckSession, Subscribe, RecheckSession, RecheckFails, SessionEnd, LeaveStream
    <3> HIDE DEF StreamInv, TypeOK, ReviewsAgree
    <3>13. QED
      BY <3>2, <3>3, <3>4, <3>5, <3>6, <3>7, <3>8, <3>9, <3>10, <3>11, <3>12
      DEF Next, Close, CloseSession
  <2>5. QED
    BY <2>1, <2>2, <2>3, <2>4
<1>3. QED
  BY <1>1, <1>2, PTL DEF Spec

-----------------------------------------------------------------------------
(* The close of a session *)

\* A goroutine is still to call eventbroker.Remove, someone reads the live events.
Woken(s)   == jobs[s]["pop"] > 0 \/ jobs[s]["mark"] > 0 \/ jobs[s]["remove"] > 0
Reading(s) == \E u \in Subscribers : SubOf[u] = s /\ sub[u] = "live" /\ u \in broker[s]
Settled(s) == row[s] = "done" /\ ~Reading(s)
\* No fault touched the row of the session.
Clean(c)   == Plain(c) /\ SidOf[c] \notin undone /\ SidOf[c] \notin lost
\* The stream was closed, or is about to leave the store.
Ending(c)  == client[c] \in Saved /\ \/ proxyStore[SidOf[c]] # c
                                     \/ \E a \in Threads : task[a] = "del" /\ on[a] = c

\* Nothing is known of the session of a command line before it connects.
FreshIsUnknown ==
    \A c \in Clients : Alone(c) /\ c \notin ApiClients /\ client[c] = "new" =>
        /\ row[SidOf[c]] = "none" /\ SidOf[c] \notin memory
        /\ \A g \in Stages : jobs[SidOf[c]][g] = 0

\* The analysis never makes a session done that was not when it read the row.
AnalysisIsStale ==
    \A c \in Clients : Clean(c) /\ client[c] = "analysed" /\ saw[c] = "done" => row[SidOf[c]] = "done"

\* The session is marked done before its readers are woken.
MarkedFirst ==
    \A c \in Clients : Clean(c) /\ (jobs[SidOf[c]]["remove"] > 0 \/ jobs[SidOf[c]]["forget"] > 0) =>
        row[SidOf[c]] = "done"

\* A stream leaves the store after closeSession was started for it.
EndingIsHandled ==
    \A c \in Clients : Clean(c) /\ Ending(c) => Woken(SidOf[c]) \/ Settled(SidOf[c])

\* Who still reads a session that is done is woken by a goroutine, or by a Close that
\* will find the stream.
ReadersHaveWaker ==
    \A c \in Clients : Clean(c) /\ row[SidOf[c]] = "done" /\ Reading(SidOf[c]) =>
        \/ Woken(SidOf[c])
        \/ task[c] = "disconnect"
        \/ task[c] = "has" /\ proxyStore[SidOf[c]] = c

\* After its own Close the stream is not in the store.
EndedIsRemoved == \A c \in Clients : task[c] = "end" /\ Alone(c) => proxyStore[SidOf[c]] = None

\* What the audit plugin holds of a session whose stream was closed has a goroutine
\* that will free it.
EndingIsFreed ==
    \A c \in Clients : Plain(c) /\ Ending(c) =>
        /\ SidOf[c] \in wal => jobs[SidOf[c]]["pop"] > 0
        /\ SidOf[c] \in memory => \E g \in Stages : jobs[SidOf[c]][g] > 0

\* A stream that was accepted has its log until the session is closed, unless someone
\* waited for a review of the session.
Logged(s) == \/ s \in wal \/ Closing(s) \/ s \in undone
             \/ \E d \in Clients : SidOf[d] = s /\ reviewed[d]
AcceptedIsLogged ==
    \A c \in Clients : client[c] \in Saved \union {"accepted"} => Logged(SidOf[c])

ClosingInv ==
    /\ FreshIsUnknown /\ AnalysisIsStale /\ MarkedFirst /\ EndingIsHandled
    /\ ReadersHaveWaker /\ EndedIsRemoved /\ EndingIsFreed /\ AcceptedIsLogged

LEMMA ClosingInvariant == Spec => []ClosingInv
<1> USE StreamsAssumption
<1>1. Init => ClosingInv
  BY DEF Init, ClosingInv, FreshIsUnknown, AnalysisIsStale, MarkedFirst, EndingIsHandled,
     ReadersHaveWaker, EndedIsRemoved, EndingIsFreed, AcceptedIsLogged, Ending, Woken, Settled,
     Reading, Saved, Threads, Stages, Clean, Plain, Alone
<1>2. StreamInv /\ StreamInv' /\ ClosingInv /\ [Next]_vars => ClosingInv'
  <2> SUFFICES ASSUME StreamInv, StreamInv', ClosingInv, [Next]_vars PROVE ClosingInv'
    OBVIOUS
  <2> USE DEF ClosingInv, StreamInv, Saved, streamVars, auditVars, rowVars, threadVars, brokerVars
  <2>1. FreshIsUnknown'
    <3> USE DEF TypeOK, FreshIsUnknown, Alone, Stages, ThreadsAgree, Threads, ReviewsAgree
    <3>1. ASSUME UNCHANGED <<client, row, memory, jobs>> PROVE FreshIsUnknown'
      BY <3>1 DEF FreshIsUnknown, Alone, Stages, ThreadsAgree, Threads, ReviewsAgree
    <3>2. ASSUME NEW c \in Clients, OnConnect(c) PROVE FreshIsUnknown'
      BY <3>2 DEF OnConnect, Client
    <3>3. ASSUME NEW c \in Clients, OnConnectFails(c) PROVE FreshIsUnknown'
      BY <3>3 DEF OnConnectFails, Client
    <3>4. ASSUME NEW c \in Clients, RefuseConnect(c) PROVE FreshIsUnknown'
      BY <3>4 DEF RefuseConnect, Client
    <3>5. ASSUME NEW c \in Clients, SaveStream(c) PROVE FreshIsUnknown'
      BY <3>5 DEF SaveStream, Client
    <3>6. ASSUME NEW c \in Clients, WaitApproval(c) PROVE FreshIsUnknown'
      BY <3>6 DEF WaitApproval
    <3>7. ASSUME NEW c \in Clients, AiRead(c) PROVE FreshIsUnknown'
      BY <3>7 DEF AiRead, Client
    <3>8. ASSUME NEW c \in Clients, AiSave(c) PROVE FreshIsUnknown'
      BY <3>8 DEF AiSave, Client, Leave, Thread
    <3>9. ASSUME NEW c \in Clients, ClientEnds(c) PROVE FreshIsUnknown'
      BY <3>9 DEF ClientEnds, Client, Leave, Thread
    <3>10. ASSUME NEW a \in Threads, PluginExecOnDisconnect(a) PROVE FreshIsUnknown'
      <4> SUFFICES ASSUME NEW d \in Clients, (Alone(d) /\ d \notin ApiClients /\ client[d] = "new")'
                   PROVE  (row[SidOf[d]] = "none" /\ SidOf[d] \notin memory /\ \A g \in Stages : jobs[SidOf[d]][g] = 0)'
        BY DEF FreshIsUnknown
      <4>0. on[a] \in Clients /\ client[on[a]] \in Saved
        BY <3>10 DEF PluginExecOnDisconnect, Thread
      <4>1. SidOf[on[a]] # SidOf[d] /\ SidOf[on[a]] \in Sids
        BY <3>10, <4>0 DEF PluginExecOnDisconnect
      <4>2. jobs'[SidOf[d]] = jobs[SidOf[d]]
        BY <3>10, <4>1 DEF PluginExecOnDisconnect, CloseSessions
      <4>3. QED
        BY <3>10, <4>2 DEF PluginExecOnDisconnect
    <3>11. ASSUME NEW a \in Closers, KillUnknown(a) PROVE FreshIsUnknown'
      BY <3>11 DEF KillUnknown, Thread, CloseSessions
    <3>12. ASSUME NEW a \in Closers, NEW s \in Sids, Reject(a, s) PROVE FreshIsUnknown'
      <4> SUFFICES ASSUME NEW d \in Clients, (Alone(d) /\ d \notin ApiClients /\ client[d] = "new")'
                   PROVE  (row[SidOf[d]] = "none" /\ SidOf[d] \notin memory /\ \A g \in Stages : jobs[SidOf[d]][g] = 0)'
        BY DEF FreshIsUnknown
      <4>1. SidOf[d] # s
        BY <3>12 DEF Reject
      <4>2. QED
        BY <3>12, <4>1 DEF Reject
    <3>13. ASSUME NEW k \in Agents, AgentWideDisconnect(k) PROVE FreshIsUnknown'
      BY <3>13 DEF AgentWideDisconnect, Thread, CloseSessions
    <3>14. ASSUME NEW s \in Sids, Approve(s) PROVE FreshIsUnknown'
      <4> SUFFICES ASSUME NEW d \in Clients, (Alone(d) /\ d \notin ApiClients /\ client[d] = "new")'
                   PROVE  (row[SidOf[d]] = "none" /\ SidOf[d] \notin memory /\ \A g \in Stages : jobs[SidOf[d]][g] = 0)'
        BY DEF FreshIsUnknown
      <4>1. SidOf[d] # s
        BY <3>14 DEF Approve
      <4>2. QED
        BY <3>14, <4>1 DEF Approve
    <3>15. ASSUME NEW s \in Sids, PopWal(s) PROVE FreshIsUnknown'
      BY <3>15 DEF PopWal, Advance
    <3>16. ASSUME NEW s \in Sids, MarkSessionDone(s) PROVE FreshIsUnknown'
      BY <3>16 DEF MarkSessionDone, Advance
    <3>17. ASSUME NEW s \in Sids, RemoveBroker(s) PROVE FreshIsUnknown'
      BY <3>17 DEF RemoveBroker, Advance
    <3>18. ASSUME NEW s \in Sids, Forget(s) PROVE FreshIsUnknown'
      BY <3>18 DEF Forget
    <3>19. CASE \/ UNCHANGED vars
                \/ \E c \in Clients : OpenSession(c)
                \/ \E a \in Threads : HasStream(a) \/ DelStream(a) \/ DropReviewed(a)
                \/ \E a \in Closers : CloseFound(a) \/ ListProxies(a) \/ ReleaseConnection(a)
                \/ \E k \in Agents : AgentPacket(k) \/ AgentPlugins(k) \/ AgentLeaves(k) \/ ListByAgent(k)
                \/ \E a \in Agents \union Closers : SweepNext(a)
                \/ \E u \in Subscribers : CheckSession(u) \/ Subscribe(u) \/ RecheckSession(u) \/ RecheckFails(u) \/ SessionEnd(u) \/ LeaveStream(u)
      BY <3>19, <3>1 DEF vars, OpenSession, HasStream, DelStream, DropReviewed, CloseFound, ListProxies,
         ReleaseConnection, AgentPacket, AgentPlugins, AgentLeaves, ListByAgent, SweepNext,
         CheckSession, Subscribe, RecheckSession, RecheckFails, SessionEnd, LeaveStream
    <3> HIDE DEF ClosingInv, StreamInv, TypeOK, FreshIsUnknown, Alone, Stages, ThreadsAgree, Threads, ReviewsAgree
    <3>20. QED
      BY <3>2, <3>3, <3>4, <3>5, <3>6, <3>7, <3>8, <3>9, <3>10, <3>11, <3>12, <3>13, <3>14, <3>15,
         <3>16, <3>17, <3>18, <3>19
      DEF Next, Close, CloseSession
  <2>2. AnalysisIsStale'
    <3> USE DEF TypeOK, AnalysisIsStale, Clean, Plain, Alone, ReviewsAgree
    <3>1. ASSUME UNCHANGED <<client, saw, row, reviewed, undone, lost>> PROVE AnalysisIsStale'
      BY <3>1 DEF AnalysisIsStale, Clean, Plain, Alone, ReviewsAgree
    <3>2. ASSUME NEW c \in Clients, OnConnect(c) PROVE AnalysisIsStale'
      BY <3>2 DEF OnConnect, Client
    <3>3. ASSUME NEW c \in Clients, OnConnectFails(c) PROVE AnalysisIsStale'
      BY <3>3 DEF OnConnectFails, Client
    <3>4. ASSUME NEW c \in Clients, RefuseConnect(c) PROVE AnalysisIsStale'
      BY <3>4 DEF RefuseConnect, Client
    <3>5. ASSUME NEW c \in Clients, SaveStream(c) PROVE AnalysisIsStale'
      BY <3>5 DEF SaveStream, Client
    <3>6. ASSUME NEW c \in Clients, WaitApproval(c) PROVE AnalysisIsStale'
      BY <3>6 DEF WaitApproval
    <3>7. ASSUME NEW c \in Clients, AiRead(c) PROVE AnalysisIsStale'
      BY <3>7 DEF AiRead, Client
    <3>8. ASSUME NEW c \in Clients, AiSave(c) PROVE AnalysisIsStale'
      BY <3>8 DEF AiSave, Client, Leave, Thread
    <3>9. ASSUME NEW c \in Clients, ClientEnds(c) PROVE AnalysisIsStale'
      BY <3>9 DEF ClientEnds, Client, Leave, Thread
    <3>10. ASSUME NEW a \in Closers, NEW s \in Sids, Reject(a, s) PROVE AnalysisIsStale'
      BY <3>10 DEF Reject, Thread
    <3>11. ASSUME NEW s \in Sids, Approve(s) PROVE AnalysisIsStale'
      BY <3>11 DEF Approve
    <3>12. ASSUME NEW s \in Sids, MarkSessionDone(s) PROVE AnalysisIsStale'
      BY <3>12 DEF MarkSessionDone, Advance
    <3>13. CASE \/ UNCHANGED vars
                \/ \E c \in Clients : OpenSession(c)
                \/ \E a \in Threads : HasStream(a) \/ PluginExecOnDisconnect(a) \/ DelStream(a) \/ DropReviewed(a)
                \/ \E a \in Closers : CloseFound(a) \/ KillUnknown(a) \/ ListProxies(a) \/ ReleaseConnection(a)
                \/ \E k \in Agents : AgentPacket(k) \/ AgentPlugins(k) \/ AgentLeaves(k) \/ ListByAgent(k)
                                     \/ AgentWideDisconnect(k)
                \/ \E a \in Agents \union Closers : SweepNext(a)
                \/ \E s \in Sids : PopWal(s) \/ RemoveBroker(s) \/ Forget(s)
                \/ \E u \in Subscribers : CheckSession(u) \/ Subscribe(u) \/ RecheckSession(u) \/ RecheckFails(u) \/ SessionEnd(u) \/ LeaveStream(u)
      BY <3>13, <3>1 DEF vars, OpenSession, HasStream, PluginExecOnDisconnect, DelStream, DropReviewed, CloseFound,
         KillUnknown, ListProxies, ReleaseConnection, AgentPacket, AgentPlugins, AgentLeaves,
         ListByAgent, AgentWideDisconnect, SweepNext, PopWal, RemoveBroker, Forget, CheckSession,
         Subscribe, RecheckSession, RecheckFails, SessionEnd, LeaveStream
    <3> HIDE DEF ClosingInv, StreamInv, TypeOK, AnalysisIsStale, Clean, Plain, Alone, ReviewsAgree
    <3>14. QED
      BY <3>2, <3>3, <3>4, <3>5, <3>6, <3>7, <3>8, <3>9, <3>10, <3>11, <3>12, <3>13
      DEF Next, Close, CloseSession
  <2>3. MarkedFirst'
    <3> USE DEF TypeOK, MarkedFirst, FreshIsUnknown, Clean, Plain, Alone, Stages, ReviewsAgree
    <3>1. ASSUME UNCHANGED <<jobs, row, reviewed, undone, lost>> PROVE MarkedFirst'
      BY <3>1 DEF MarkedFirst, FreshIsUnknown, Clean, Plain, Alone, Stages, ReviewsAgree
    <3>2. ASSUME NEW c \in Clients, OnConnect(c) PROVE MarkedFirst'
      BY <3>2 DEF OnConnect, Client
    <3>3. ASSUME NEW c \in Clients, OnConnectFails(c) PROVE MarkedFirst'
      BY <3>3 DEF OnConnectFails, Client
    <3>4. ASSUME NEW c \in Clients, WaitApproval(c) PROVE MarkedFirst'
      BY <3>4 DEF WaitApproval
    <3>5. ASSUME NEW c \in Clients, AiSave(c) PROVE MarkedFirst'
      BY <3>5 DEF AiSave, Client, Leave, Thread
    <3>6. ASSUME NEW a \in Threads, PluginExecOnDisconnect(a) PROVE MarkedFirst'
      BY <3>6 DEF PluginExecOnDisconnect, Thread, CloseSessions
    <3>7. ASSUME NEW a \in Closers, KillUnknown(a) PROVE MarkedFirst'
      BY <3>7 DEF KillUnknown, Thread, CloseSessions
    <3>8. ASSUME NEW a \in Closers, NEW s \in Sids, Reject(a, s) PROVE MarkedFirst'
      BY <3>8 DEF Reject, Thread
    <3>9. ASSUME NEW k \in Agents, AgentWideDisconnect(k) PROVE MarkedFirst'
      BY <3>9 DEF AgentWideDisconnect, Thread, CloseSessions
    <3>10. ASSUME NEW s \in Sids, Approve(s) PROVE MarkedFirst'
      BY <3>10 DEF Approve
    <3>11. ASSUME NEW s \in Sids, PopWal(s) PROVE MarkedFirst'
      BY <3>11 DEF PopWal, Advance
    <3>12. ASSUME NEW s \in Sids, MarkSessionDone(s) PROVE MarkedFirst'
      BY <3>12 DEF MarkSessionDone, Advance
    <3>13. ASSUME NEW s \in Sids, RemoveBroker(s) PROVE MarkedFirst'
      BY <3>13 DEF RemoveBroker, Advance
    <3>14. ASSUME NEW s \in Sids, Forget(s) PROVE MarkedFirst'
      BY <3>14 DEF Forget
    <3>15. CASE \/ UNCHANGED vars
                \/ \E c \in Clients : RefuseConnect(c) \/ SaveStream(c) \/ OpenSession(c) \/ AiRead(c) \/ ClientEnds(c)
                \/ \E a \in Threads : HasStream(a) \/ DelStream(a) \/ DropReviewed(a)
                \/ \E a \in Closers : CloseFound(a) \/ ListProxies(a) \/ ReleaseConnection(a)
                \/ \E k \in Agents : AgentPacket(k) \/ AgentPlugins(k) \/ AgentLeaves(k) \/ ListByAgent(k)
                \/ \E a \in Agents \union Closers : SweepNext(a)
                \/ \E u \in Subscribers : CheckSession(u) \/ Subscribe(u) \/ RecheckSession(u) \/ RecheckFails(u) \/ SessionEnd(u) \/ LeaveStream(u)
      BY <3>15, <3>1 DEF vars, RefuseConnect, SaveStream, OpenSession, AiRead, ClientEnds, HasStream, DelStream,
         DropReviewed, CloseFound, ListProxies, ReleaseConnection, AgentPacket, AgentPlugins,
         AgentLeaves, ListByAgent, SweepNext, CheckSession, Subscribe, RecheckSession, RecheckFails, SessionEnd,
         LeaveStream
    <3> HIDE DEF ClosingInv, StreamInv, TypeOK, MarkedFirst, FreshIsUnknown, Clean, Plain, Alone, Stages, ReviewsAgree
    <3>16. QED
      BY <3>2, <3>3, <3>4, <3>5, <3>6, <3>7, <3>8, <3>9, <3>10, <3>11, <3>12, <3>13, <3>14, <3>15
      DEF Next, Close, CloseSession
  <2>4. EndingIsHandled'
    <3> USE DEF TypeOK, EndingIsHandled, Ending, Woken, Settled, Reading, MarkedFirst, Clean, Plain, Alone, Stages, ReviewsAgree, ThreadsAgree, StoresAgree, Threads
    <3>1. ASSUME UNCHANGED <<client, proxyStore, task, on, jobs, row, broker, sub, reviewed, undone, lost>> PROVE EndingIsHandled'
      BY <3>1 DEF EndingIsHandled, Ending, Woken, Settled, Reading, MarkedFirst, Clean, Plain, Alone, Stages, ReviewsAgree, ThreadsAgree, StoresAgree, Threads
    <3>2. ASSUME NEW c \in Clients, OnConnect(c) PROVE EndingIsHandled'
      BY <3>2 DEF OnConnect, Client
    <3>3. ASSUME NEW c \in Clients, OnConnectFails(c) PROVE EndingIsHandled'
      BY <3>3 DEF OnConnectFails, Client
    <3>4. ASSUME NEW c \in Clients, RefuseConnect(c) PROVE EndingIsHandled'
      BY <3>4 DEF RefuseConnect, Client
    <3>5. ASSUME NEW c \in Clients, SaveStream(c) PROVE EndingIsHandled'
      BY <3>5 DEF SaveStream, Client
    <3>6. ASSUME NEW c \in Clients, WaitApproval(c) PROVE EndingIsHandled'
      BY <3>6 DEF WaitApproval
    <3>7. ASSUME NEW c \in Clients, AiRead(c) PROVE EndingIsHandled'
      BY <3>7 DEF AiRead, Client
    <3>8. ASSUME NEW c \in Clients, AiSave(c) PROVE EndingIsHandled'
      <4> SUFFICES ASSUME NEW d \in Clients, (Clean(d) /\ Ending(d))'
                   PROVE  (Woken(SidOf[d]) \/ Settled(SidOf[d]))'
        BY DEF EndingIsHandled
      <4>1. Clean(d) /\ Ending(d)
        <5>1. client[d] \in Saved /\ proxyStore' = proxyStore
          BY <3>8 DEF AiSave, Client, Leave
        <5>2. \A a \in Threads : task'[a] = "del" /\ on'[a] = d => task[a] = "del" /\ on[a] = d
          BY <3>8 DEF AiSave, Leave, Thread
        <5>3. QED
          BY <3>8, <5>1, <5>2 DEF AiSave
      <4>2. Woken(SidOf[d]) \/ Settled(SidOf[d])
        BY <4>1
      <4>3. row[SidOf[d]] = "done" => row'[SidOf[d]] = "done"
        BY <3>8 DEF AiSave
      <4>4. QED
        BY <3>8, <4>2, <4>3 DEF AiSave
    <3>9. ASSUME NEW c \in Clients, ClientEnds(c) PROVE EndingIsHandled'
      BY <3>9 DEF ClientEnds, Client, Leave, Thread
    <3>10. ASSUME NEW a \in Threads, HasStream(a) PROVE EndingIsHandled'
      BY <3>10 DEF HasStream, Thread, Return, After
    <3>11. ASSUME NEW a \in Threads, PluginExecOnDisconnect(a) PROVE EndingIsHandled'
      BY <3>11 DEF PluginExecOnDisconnect, Thread, CloseSessions
    <3>12. ASSUME NEW a \in Threads, DelStream(a) PROVE EndingIsHandled'
      BY <3>12 DEF DelStream, Thread, Return, After
    <3>13. ASSUME NEW a \in Threads, DropReviewed(a) PROVE EndingIsHandled'
      BY <3>13 DEF DropReviewed, Thread, Return, After
    <3>14. ASSUME NEW a \in Closers, CloseFound(a) PROVE EndingIsHandled'
      BY <3>14 DEF CloseFound, Thread
    <3>15. ASSUME NEW a \in Closers, KillUnknown(a) PROVE EndingIsHandled'
      BY <3>15 DEF KillUnknown, Thread, CloseSessions
    <3>16. ASSUME NEW a \in Closers, ListProxies(a) PROVE EndingIsHandled'
      BY <3>16 DEF ListProxies, Thread
    <3>17. ASSUME NEW a \in Closers, ReleaseConnection(a) PROVE EndingIsHandled'
      BY <3>17 DEF ReleaseConnection, Thread
    <3>18. ASSUME NEW a \in Closers, NEW s \in Sids, Reject(a, s) PROVE EndingIsHandled'
      BY <3>18 DEF Reject, Thread
    <3>19. ASSUME NEW k \in Agents, AgentPacket(k) PROVE EndingIsHandled'
      BY <3>19 DEF AgentPacket, Thread
    <3>20. ASSUME NEW k \in Agents, AgentPlugins(k) PROVE EndingIsHandled'
      BY <3>20 DEF AgentPlugins, Thread, Return, After
    <3>21. ASSUME NEW k \in Agents, AgentLeaves(k) PROVE EndingIsHandled'
      BY <3>21 DEF AgentLeaves, Thread
    <3>22. ASSUME NEW k \in Agents, ListByAgent(k) PROVE EndingIsHandled'
      BY <3>22 DEF ListByAgent, Thread
    <3>23. ASSUME NEW k \in Agents, AgentWideDisconnect(k) PROVE EndingIsHandled'
      BY <3>23 DEF AgentWideDisconnect, Thread, CloseSessions
    <3>24. ASSUME NEW a \in Agents \union Closers, SweepNext(a) PROVE EndingIsHandled'
      BY <3>24 DEF SweepNext, Thread
    <3>25. ASSUME NEW s \in Sids, Approve(s) PROVE EndingIsHandled'
      BY <3>25 DEF Approve
    <3>26. ASSUME NEW s \in Sids, PopWal(s) PROVE EndingIsHandled'
      BY <3>26 DEF PopWal, Advance
    <3>27. ASSUME NEW s \in Sids, MarkSessionDone(s) PROVE EndingIsHandled'
      BY <3>27 DEF MarkSessionDone, Advance
    <3>28. ASSUME NEW s \in Sids, RemoveBroker(s) PROVE EndingIsHandled'
      BY <3>28 DEF RemoveBroker, Advance
    <3>29. ASSUME NEW s \in Sids, Forget(s) PROVE EndingIsHandled'
      BY <3>29 DEF Forget
    <3>30. ASSUME NEW u \in Subscribers, CheckSession(u) PROVE EndingIsHandled'
      BY <3>30 DEF CheckSession, Sub
    <3>31. ASSUME NEW u \in Subscribers, Subscribe(u) PROVE EndingIsHandled'
      BY <3>31 DEF Subscribe, Sub
    <3>32. ASSUME NEW u \in Subscribers, RecheckSession(u) PROVE EndingIsHandled'
      <4> SUFFICES ASSUME NEW d \in Clients, (Clean(d) /\ Ending(d))'
                   PROVE  (Woken(SidOf[d]) \/ Settled(SidOf[d]))'
        BY DEF EndingIsHandled
      <4>1. Clean(d) /\ Ending(d)
        BY <3>32 DEF RecheckSession
      <4>2. Woken(SidOf[d]) \/ Settled(SidOf[d])
        BY <4>1
      <4>3. ASSUME Settled(SidOf[d]) PROVE Settled(SidOf[d])'
        <5>1. CASE row[SubOf[u]] = "done"
          <6>1. sub' = [sub EXCEPT ![u] = "end"] /\ broker' = [broker EXCEPT ![SubOf[u]] = @ \ {u}]
            BY <3>32, <5>1 DEF RecheckSession, Sub, Unsubscribe
          <6>2. \A v \in Subscribers, s \in Sids :
                   sub'[v] = "live" /\ v \in broker'[s] => sub[v] = "live" /\ v \in broker[s]
            BY <6>1
          <6>3. QED
            BY <3>32, <4>3, <6>2 DEF RecheckSession
        <5>2. CASE row[SubOf[u]] # "done"
          BY <3>32, <4>3, <5>2 DEF RecheckSession, Sub
        <5>3. QED
          BY <5>1, <5>2
      <4>4. QED
        BY <3>32, <4>2, <4>3 DEF RecheckSession
    <3>33. ASSUME NEW u \in Subscribers, SessionEnd(u) PROVE EndingIsHandled'
      BY <3>33 DEF SessionEnd, Listening, Sub
    <3>34. ASSUME NEW u \in Subscribers, LeaveStream(u) PROVE EndingIsHandled'
      BY <3>34 DEF LeaveStream, Listening, Sub, Unsubscribe
    <3>35. CASE \/ UNCHANGED vars
                \/ \E c \in Clients : OpenSession(c)
      BY <3>35, <3>1 DEF vars, OpenSession
    <3>36. ASSUME NEW u \in Subscribers, RecheckFails(u) PROVE EndingIsHandled'
      <4> SUFFICES ASSUME NEW d \in Clients, (Clean(d) /\ Ending(d))'
                   PROVE  (Woken(SidOf[d]) \/ Settled(SidOf[d]))'
        BY DEF EndingIsHandled
      <4>1. Clean(d) /\ Ending(d)
        BY <3>36 DEF RecheckFails
      <4>2. Woken(SidOf[d]) \/ Settled(SidOf[d])
        BY <4>1
      <4>3. ASSUME Settled(SidOf[d]) PROVE Settled(SidOf[d])'
        BY <3>36, <4>3 DEF RecheckFails, Sub
      <4>4. QED
        BY <3>36, <4>2, <4>3 DEF RecheckFails
    <3> HIDE DEF ClosingInv, StreamInv, TypeOK, EndingIsHandled, Ending, Woken, Settled, Reading, MarkedFirst, Clean, Plain, Alone, Stages, ReviewsAgree, ThreadsAgree, StoresAgree, Threads
    <3>37. QED
      BY <3>2, <3>3, <3>4, <3>5, <3>6, <3>7, <3>8, <3>9, <3>10, <3>11, <3>12, <3>13, <3>14, <3>15,
         <3>16, <3>17, <3>18, <3>19, <3>20, <3>21, <3>22, <3>23, <3>24, <3>25, <3>26, <3>27, <3>28,
         <3>29, <3>30, <3>31, <3>32, <3>33, <3>34, <3>35, <3>36
      DEF Next, Close, CloseSession
  <2>5. ReadersHaveWaker'
    <3> USE DEF TypeOK
    <3>1. ASSUME UNCHANGED <<task, proxyStore, jobs, row, broker, sub, reviewed, undone, lost>> PROVE ReadersHaveWaker'
      BY <3>1 DEF ReadersHaveWaker, Woken, Reading, Clean, Plain, Alone
    <3>2. ASSUME NEW c \in Clients, OnConnect(c) PROVE ReadersHaveWaker'
      BY <3>2 DEF OnConnect, Client, ReadersHaveWaker, AnalysisIsStale, EndingIsHandled, Ending, Woken,
         Settled, Reading, Clean, Plain, Alone, Stages, ReviewsAgree, ThreadsAgree, StoresAgree,
         Threads
    <3>3. ASSUME NEW c \in Clients, OnConnectFails(c) PROVE ReadersHaveWaker'
      <4> SUFFICES ASSUME NEW d \in Clients, (Clean(d) /\ row[SidOf[d]] = "done" /\ Reading(SidOf[d]))'
                   PROVE  (Woken(SidOf[d]) \/ task[d] = "disconnect" \/ (task[d] = "has" /\ proxyStore[SidOf[d]] = d))'
        BY DEF ReadersHaveWaker
      <4>1. Clean(d) /\ Reading(SidOf[d]) /\ row[SidOf[d]] = "done"
        BY <3>3 DEF OnConnectFails, Clean, Plain, Alone, Reading
      <4>2. Woken(SidOf[d]) \/ task[d] = "disconnect" \/ (task[d] = "has" /\ proxyStore[SidOf[d]] = d)
        BY <4>1 DEF ReadersHaveWaker
      <4>3. QED
        BY <3>3, <4>2 DEF OnConnectFails, Woken
    <3>4. ASSUME NEW c \in Clients, SaveStream(c) PROVE ReadersHaveWaker'
      <4> SUFFICES ASSUME NEW d \in Clients, (Clean(d) /\ row[SidOf[d]] = "done" /\ Reading(SidOf[d]))'
                   PROVE  (Woken(SidOf[d]) \/ task[d] = "disconnect" \/ (task[d] = "has" /\ proxyStore[SidOf[d]] = d))'
        BY DEF ReadersHaveWaker
      <4>1. Clean(d) /\ Reading(SidOf[d]) /\ row[SidOf[d]] = "done"
        BY <3>4 DEF SaveStream, Clean, Plain, Alone, Reading
      <4>2. Woken(SidOf[d]) \/ task[d] = "disconnect" \/ (task[d] = "has" /\ proxyStore[SidOf[d]] = d)
        BY <4>1 DEF ReadersHaveWaker
      <4>3. QED
        BY <3>4, <4>1, <4>2 DEF SaveStream, Woken, Clean, Plain, Alone
    <3>5. ASSUME NEW c \in Clients, WaitApproval(c) PROVE ReadersHaveWaker'
      <4> SUFFICES ASSUME NEW d \in Clients, (Clean(d) /\ row[SidOf[d]] = "done" /\ Reading(SidOf[d]))'
                   PROVE  (Woken(SidOf[d]) \/ task[d] = "disconnect" \/ (task[d] = "has" /\ proxyStore[SidOf[d]] = d))'
        BY DEF ReadersHaveWaker
      <4>1. Clean(d) /\ Reading(SidOf[d]) /\ row[SidOf[d]] = "done"
        BY <3>5 DEF WaitApproval, Clean, Plain, Alone, Reading
      <4>2. Woken(SidOf[d]) \/ task[d] = "disconnect" \/ (task[d] = "has" /\ proxyStore[SidOf[d]] = d)
        BY <4>1 DEF ReadersHaveWaker
      <4>3. QED
        BY <3>5, <4>2 DEF WaitApproval, Woken
    <3>6. ASSUME NEW c \in Clients, AiSave(c) PROVE ReadersHaveWaker'
      <4> SUFFICES ASSUME NEW d \in Clients, (Clean(d) /\ row[SidOf[d]] = "done" /\ Reading(SidOf[d]))'
                   PROVE  (Woken(SidOf[d]) \/ task[d] = "disconnect" \/ (task[d] = "has" /\ proxyStore[SidOf[d]] = d))'
        BY DEF ReadersHaveWaker
      <4>1. Clean(d) /\ Reading(SidOf[d])
        BY <3>6 DEF AiSave, Clean, Plain, Alone, Reading
      <4>2. CASE row[SidOf[d]] = "done"
        <5>1. Woken(SidOf[d]) \/ task[d] = "disconnect" \/ (task[d] = "has" /\ proxyStore[SidOf[d]] = d)
          BY <4>1, <4>2 DEF ReadersHaveWaker
        <5>2. client[c] = "analysed" /\ task[c] = "idle"
          BY <3>6 DEF AiSave, Client, Leave, ThreadsAgree, Threads
        <5>3. d # c => task'[d] = task[d]
          BY <3>6 DEF AiSave, Leave, Thread, Threads
        <5>4. QED
          BY <3>6, <5>1, <5>2, <5>3 DEF AiSave, Woken
      <4>3. CASE row[SidOf[d]] # "done"
        <5>1. d = c /\ client[c] = "analysed"
          BY <3>6, <4>1, <4>3 DEF AiSave, Clean, Plain, Alone, Client, Leave
        <5>2. saw[c] # "done"
          BY <4>1, <4>3, <5>1 DEF AnalysisIsStale
        <5>3. Leave(c, "analysed")
          BY <3>6, <4>3, <5>1, <5>2 DEF AiSave
        <5>4. task'[c] = "has"
          BY <5>1, <5>3 DEF Leave, Thread, ReviewsAgree, Threads
        <5>5. proxyStore[SidOf[c]] # c => Woken(SidOf[c])
          BY <4>1, <4>3, <5>1 DEF EndingIsHandled, Ending, Settled
        <5>6. QED
          BY <3>6, <5>1, <5>4, <5>5 DEF AiSave, Woken
      <4>4. QED
        BY <4>2, <4>3
    <3>7. ASSUME NEW c \in Clients, ClientEnds(c) PROVE ReadersHaveWaker'
      <4> SUFFICES ASSUME NEW d \in Clients, (Clean(d) /\ row[SidOf[d]] = "done" /\ Reading(SidOf[d]))'
                   PROVE  (Woken(SidOf[d]) \/ task[d] = "disconnect" \/ (task[d] = "has" /\ proxyStore[SidOf[d]] = d))'
        BY DEF ReadersHaveWaker
      <4>1. Clean(d) /\ Reading(SidOf[d]) /\ row[SidOf[d]] = "done"
        BY <3>7 DEF ClientEnds, Clean, Plain, Alone, Reading
      <4>2. Woken(SidOf[d]) \/ task[d] = "disconnect" \/ (task[d] = "has" /\ proxyStore[SidOf[d]] = d)
        BY <4>1 DEF ReadersHaveWaker
      <4>3. client[c] = "open" /\ task[c] = "idle"
        BY <3>7 DEF ClientEnds, Client, Leave, ThreadsAgree, Threads
      <4>4. d # c => task'[d] = task[d]
        BY <3>7 DEF ClientEnds, Leave, Thread, Threads
      <4>5. QED
        BY <3>7, <4>2, <4>3, <4>4 DEF ClientEnds, Woken
    <3>8. ASSUME NEW a \in Threads, HasStream(a) PROVE ReadersHaveWaker'
      <4> SUFFICES ASSUME NEW d \in Clients, (Clean(d) /\ row[SidOf[d]] = "done" /\ Reading(SidOf[d]))'
                   PROVE  (Woken(SidOf[d]) \/ task[d] = "disconnect" \/ (task[d] = "has" /\ proxyStore[SidOf[d]] = d))'
        BY DEF ReadersHaveWaker
      <4>1. Clean(d) /\ Reading(SidOf[d]) /\ row[SidOf[d]] = "done"
        BY <3>8 DEF HasStream, Clean, Plain, Alone, Reading
      <4>2. Woken(SidOf[d]) \/ task[d] = "disconnect" \/ (task[d] = "has" /\ proxyStore[SidOf[d]] = d)
        BY <4>1 DEF ReadersHaveWaker
      <4>3. CASE a # d
        BY <3>8, <4>2, <4>3 DEF HasStream, Return, Thread, Woken, Threads
      <4>4. CASE a = d
        <5>1. on[a] = d /\ task[d] = "has"
          BY <3>8, <4>4 DEF HasStream, ThreadsAgree
        <5>2. CASE Woken(SidOf[d])
          BY <3>8, <5>2 DEF HasStream, Woken
        <5>3. CASE proxyStore[SidOf[d]] = d
          BY <3>8, <4>4, <5>1, <5>3 DEF HasStream, Thread, Threads
        <5>4. QED
          BY <4>2, <5>1, <5>2, <5>3
      <4>5. QED
        BY <4>3, <4>4
    <3>9. ASSUME NEW a \in Threads, PluginExecOnDisconnect(a) PROVE ReadersHaveWaker'
      <4> SUFFICES ASSUME NEW d \in Clients, (Clean(d) /\ row[SidOf[d]] = "done" /\ Reading(SidOf[d]))'
                   PROVE  (Woken(SidOf[d]) \/ task[d] = "disconnect" \/ (task[d] = "has" /\ proxyStore[SidOf[d]] = d))'
        BY DEF ReadersHaveWaker
      <4>1. Clean(d) /\ Reading(SidOf[d]) /\ row[SidOf[d]] = "done"
        BY <3>9 DEF PluginExecOnDisconnect, Clean, Plain, Alone, Reading
      <4>2. Woken(SidOf[d]) \/ task[d] = "disconnect" \/ (task[d] = "has" /\ proxyStore[SidOf[d]] = d)
        BY <4>1 DEF ReadersHaveWaker
      <4>3. Woken(SidOf[d]) => Woken(SidOf[d])'
        BY <3>9 DEF PluginExecOnDisconnect, CloseSessions, Woken, Stages
      <4>4. CASE a = d
        <5>1. SidOf[on[a]] = SidOf[d]
          BY <3>9, <4>4 DEF PluginExecOnDisconnect, Thread, ThreadsAgree
        <5>2. QED
          BY <3>9, <5>1 DEF PluginExecOnDisconnect, CloseSessions, Woken, Stages
      <4>5. CASE a # d
        BY <3>9, <4>2, <4>3, <4>5 DEF PluginExecOnDisconnect, Thread, Threads
      <4>6. QED
        BY <4>4, <4>5
    <3>10. ASSUME NEW a \in Threads, DelStream(a) PROVE ReadersHaveWaker'
      <4> SUFFICES ASSUME NEW d \in Clients, (Clean(d) /\ row[SidOf[d]] = "done" /\ Reading(SidOf[d]))'
                   PROVE  (Woken(SidOf[d]) \/ task[d] = "disconnect" \/ (task[d] = "has" /\ proxyStore[SidOf[d]] = d))'
        BY DEF ReadersHaveWaker
      <4>1. Clean(d) /\ Reading(SidOf[d]) /\ row[SidOf[d]] = "done"
        BY <3>10 DEF DelStream, Clean, Plain, Alone, Reading
      <4>2. Woken(SidOf[d]) \/ task[d] = "disconnect" \/ (task[d] = "has" /\ proxyStore[SidOf[d]] = d)
        BY <4>1 DEF ReadersHaveWaker
      <4>3. on[a] \in Clients /\ client[on[a]] \in Saved /\ task[a] = "del"
        BY <3>10 DEF DelStream, Return, Thread, ThreadsAgree
      <4>4. CASE SidOf[on[a]] = SidOf[d]
        <5>1. on[a] = d
          BY <4>1, <4>3, <4>4 DEF Clean, Plain, Alone
        <5>2. Ending(d)
          BY <4>3, <5>1 DEF Ending
        <5>3. Woken(SidOf[d])
          BY <4>1, <5>2 DEF EndingIsHandled, Settled
        <5>4. QED
          BY <3>10, <5>3 DEF DelStream, Woken
      <4>5. CASE SidOf[on[a]] # SidOf[d]
        <5>1. a # d
          BY <4>3, <4>5 DEF ThreadsAgree
        <5>2. QED
          BY <3>10, <4>2, <4>5, <5>1 DEF DelStream, Return, Thread, Woken, Threads
      <4>6. QED
        BY <4>4, <4>5
    <3>11. ASSUME NEW a \in Threads, DropReviewed(a) PROVE ReadersHaveWaker'
      <4> SUFFICES ASSUME NEW d \in Clients, (Clean(d) /\ row[SidOf[d]] = "done" /\ Reading(SidOf[d]))'
                   PROVE  (Woken(SidOf[d]) \/ task[d] = "disconnect" \/ (task[d] = "has" /\ proxyStore[SidOf[d]] = d))'
        BY DEF ReadersHaveWaker
      <4>1. Clean(d) /\ Reading(SidOf[d]) /\ row[SidOf[d]] = "done"
        BY <3>11 DEF DropReviewed, Clean, Plain, Alone, Reading
      <4>2. Woken(SidOf[d]) \/ task[d] = "disconnect" \/ (task[d] = "has" /\ proxyStore[SidOf[d]] = d)
        BY <4>1 DEF ReadersHaveWaker
      <4>3. on[a] \in Clients /\ reviewed[on[a]] /\ task[a] = "drop"
        BY <3>11 DEF DropReviewed, Return, Thread, ThreadsAgree
      <4>4. SidOf[on[a]] # SidOf[d] /\ a # d
        <5>1. SidOf[on[a]] # SidOf[d]
          BY <4>1, <4>3 DEF Clean, Plain, Alone
        <5>2. d \in Threads /\ task[d] # "drop"
          BY DEF ThreadsAgree, Threads
        <5>3. QED
          BY <4>3, <5>1, <5>2
      <4>5. QED
        BY <3>11, <4>2, <4>4 DEF DropReviewed, Return, Thread, Woken, Threads
    <3>12. ASSUME NEW a \in Closers, CloseFound(a) PROVE ReadersHaveWaker'
      BY <3>12 DEF CloseFound, Thread, ReadersHaveWaker, AnalysisIsStale, EndingIsHandled, Ending, Woken,
         Settled, Reading, Clean, Plain, Alone, Stages, ReviewsAgree, ThreadsAgree, StoresAgree,
         Threads
    <3>13. ASSUME NEW a \in Closers, KillUnknown(a) PROVE ReadersHaveWaker'
      <4> SUFFICES ASSUME NEW d \in Clients, (Clean(d) /\ row[SidOf[d]] = "done" /\ Reading(SidOf[d]))'
                   PROVE  (Woken(SidOf[d]) \/ task[d] = "disconnect" \/ (task[d] = "has" /\ proxyStore[SidOf[d]] = d))'
        BY DEF ReadersHaveWaker
      <4>1. Clean(d) /\ Reading(SidOf[d]) /\ row[SidOf[d]] = "done"
        BY <3>13 DEF KillUnknown, Clean, Plain, Alone, Reading
      <4>2. Woken(SidOf[d]) \/ task[d] = "disconnect" \/ (task[d] = "has" /\ proxyStore[SidOf[d]] = d)
        BY <4>1 DEF ReadersHaveWaker
      <4>3. Woken(SidOf[d]) => Woken(SidOf[d])'
        BY <3>13 DEF KillUnknown, CloseSessions, Woken, Stages
      <4>4. a # d
        OBVIOUS
      <4>5. QED
        BY <3>13, <4>2, <4>3, <4>4 DEF KillUnknown, Thread, Threads
    <3>14. ASSUME NEW a \in Closers, ListProxies(a) PROVE ReadersHaveWaker'
      <4> SUFFICES ASSUME NEW d \in Clients, (Clean(d) /\ row[SidOf[d]] = "done" /\ Reading(SidOf[d]))'
                   PROVE  (Woken(SidOf[d]) \/ task[d] = "disconnect" \/ (task[d] = "has" /\ proxyStore[SidOf[d]] = d))'
        BY DEF ReadersHaveWaker
      <4>1. Clean(d) /\ Reading(SidOf[d]) /\ row[SidOf[d]] = "done"
        BY <3>14 DEF ListProxies, Clean, Plain, Alone, Reading
      <4>2. Woken(SidOf[d]) \/ task[d] = "disconnect" \/ (task[d] = "has" /\ proxyStore[SidOf[d]] = d)
        BY <4>1 DEF ReadersHaveWaker
      <4>3. a # d
        OBVIOUS
      <4>4. QED
        BY <3>14, <4>2, <4>3 DEF ListProxies, Thread, Threads, Woken
    <3>15. ASSUME NEW a \in Closers, ReleaseConnection(a) PROVE ReadersHaveWaker'
      BY <3>15 DEF ReleaseConnection, Thread, ReadersHaveWaker, AnalysisIsStale, EndingIsHandled, Ending,
         Woken, Settled, Reading, Clean, Plain, Alone, Stages, ReviewsAgree, ThreadsAgree,
         StoresAgree, Threads
    <3>16. ASSUME NEW a \in Closers, NEW s \in Sids, Reject(a, s) PROVE ReadersHaveWaker'
      BY <3>16 DEF Reject, Thread, ReadersHaveWaker, AnalysisIsStale, EndingIsHandled, Ending, Woken, Settled,
         Reading, Clean, Plain, Alone, Stages, ReviewsAgree, ThreadsAgree, StoresAgree, Threads
    <3>17. ASSUME NEW k \in Agents, AgentPacket(k) PROVE ReadersHaveWaker'
      BY <3>17 DEF AgentPacket, Thread, ReadersHaveWaker, AnalysisIsStale, EndingIsHandled, Ending, Woken,
         Settled, Reading, Clean, Plain, Alone, Stages, ReviewsAgree, ThreadsAgree, StoresAgree,
         Threads
    <3>18. ASSUME NEW k \in Agents, AgentPlugins(k) PROVE ReadersHaveWaker'
      BY <3>18 DEF AgentPlugins, Thread, Return, After, ReadersHaveWaker, AnalysisIsStale, EndingIsHandled,
         Ending, Woken, Settled, Reading, Clean, Plain, Alone, Stages, ReviewsAgree, ThreadsAgree,
         StoresAgree, Threads
    <3>19. ASSUME NEW k \in Agents, AgentLeaves(k) PROVE ReadersHaveWaker'
      BY SMTT(30), <3>19 DEF AgentLeaves, Thread, ReadersHaveWaker, AnalysisIsStale, EndingIsHandled, Ending, Woken,
         Settled, Reading, Clean, Plain, Alone, Stages, ReviewsAgree, ThreadsAgree, StoresAgree,
         Threads
    <3>20. ASSUME NEW k \in Agents, ListByAgent(k) PROVE ReadersHaveWaker'
      <4> SUFFICES ASSUME NEW d \in Clients, (Clean(d) /\ row[SidOf[d]] = "done" /\ Reading(SidOf[d]))'
                   PROVE  (Woken(SidOf[d]) \/ task[d] = "disconnect" \/ (task[d] = "has" /\ proxyStore[SidOf[d]] = d))'
        BY DEF ReadersHaveWaker
      <4>1. Clean(d) /\ Reading(SidOf[d]) /\ row[SidOf[d]] = "done"
        BY <3>20 DEF ListByAgent, Clean, Plain, Alone, Reading
      <4>2. Woken(SidOf[d]) \/ task[d] = "disconnect" \/ (task[d] = "has" /\ proxyStore[SidOf[d]] = d)
        BY <4>1 DEF ReadersHaveWaker
      <4>3. k # d
        OBVIOUS
      <4>4. QED
        BY <3>20, <4>2, <4>3 DEF ListByAgent, Thread, Threads, Woken
    <3>21. ASSUME NEW k \in Agents, AgentWideDisconnect(k) PROVE ReadersHaveWaker'
      <4> SUFFICES ASSUME NEW d \in Clients, (Clean(d) /\ row[SidOf[d]] = "done" /\ Reading(SidOf[d]))'
                   PROVE  (Woken(SidOf[d]) \/ task[d] = "disconnect" \/ (task[d] = "has" /\ proxyStore[SidOf[d]] = d))'
        BY DEF ReadersHaveWaker
      <4>1. Clean(d) /\ Reading(SidOf[d]) /\ row[SidOf[d]] = "done"
        BY <3>21 DEF AgentWideDisconnect, Clean, Plain, Alone, Reading
      <4>2. Woken(SidOf[d]) \/ task[d] = "disconnect" \/ (task[d] = "has" /\ proxyStore[SidOf[d]] = d)
        BY <4>1 DEF ReadersHaveWaker
      <4>3. Woken(SidOf[d]) => Woken(SidOf[d])'
        BY <3>21 DEF AgentWideDisconnect, CloseSessions, Woken, Stages
      <4>4. k # d
        OBVIOUS
      <4>5. QED
        BY <3>21, <4>2, <4>3, <4>4 DEF AgentWideDisconnect, Thread, Threads
    <3>22. ASSUME NEW a \in Agents \union Closers, SweepNext(a) PROVE ReadersHaveWaker'
      BY <3>22 DEF SweepNext, Thread, ReadersHaveWaker, AnalysisIsStale, EndingIsHandled, Ending, Woken,
         Settled, Reading, Clean, Plain, Alone, Stages, ReviewsAgree, ThreadsAgree, StoresAgree,
         Threads
    <3>23. ASSUME NEW s \in Sids, Approve(s) PROVE ReadersHaveWaker'
      BY <3>23 DEF Approve, ReadersHaveWaker, AnalysisIsStale, EndingIsHandled, Ending, Woken, Settled,
         Reading, Clean, Plain, Alone, Stages, ReviewsAgree, ThreadsAgree, StoresAgree, Threads
    <3>24. ASSUME NEW s \in Sids, PopWal(s) PROVE ReadersHaveWaker'
      BY SMTT(30), <3>24 DEF PopWal, Advance, ReadersHaveWaker, AnalysisIsStale, EndingIsHandled, Ending, Woken,
         Settled, Reading, Clean, Plain, Alone, Stages, ReviewsAgree, ThreadsAgree, StoresAgree,
         Threads
    <3>25. ASSUME NEW s \in Sids, MarkSessionDone(s) PROVE ReadersHaveWaker'
      <4> SUFFICES ASSUME NEW d \in Clients, (Clean(d) /\ row[SidOf[d]] = "done" /\ Reading(SidOf[d]))'
                   PROVE  (Woken(SidOf[d]) \/ task[d] = "disconnect" \/ (task[d] = "has" /\ proxyStore[SidOf[d]] = d))'
        BY DEF ReadersHaveWaker
      <4>1. CASE s = SidOf[d]
        BY <3>25, <4>1 DEF MarkSessionDone, Advance, Woken, Stages
      <4>2. CASE s # SidOf[d]
        <5>1. Clean(d) /\ Reading(SidOf[d]) /\ row[SidOf[d]] = "done"
          BY <3>25, <4>2 DEF MarkSessionDone, Clean, Plain, Alone, Reading
        <5>2. QED
          BY <3>25, <4>2, <5>1 DEF ReadersHaveWaker, MarkSessionDone, Advance, Woken
      <4>3. QED
        BY <4>1, <4>2
    <3>26. ASSUME NEW s \in Sids, RemoveBroker(s) PROVE ReadersHaveWaker'
      <4> SUFFICES ASSUME NEW d \in Clients, (Clean(d) /\ row[SidOf[d]] = "done" /\ Reading(SidOf[d]))'
                   PROVE  (Woken(SidOf[d]) \/ task[d] = "disconnect" \/ (task[d] = "has" /\ proxyStore[SidOf[d]] = d))'
        BY DEF ReadersHaveWaker
      <4>1. s # SidOf[d]
        BY <3>26 DEF RemoveBroker, Reading
      <4>2. Clean(d) /\ Reading(SidOf[d]) /\ row[SidOf[d]] = "done"
        BY <3>26, <4>1 DEF RemoveBroker, rowVars, streamVars, Clean, Plain, Alone, Reading
      <4>3. QED
        BY <3>26, <4>1, <4>2 DEF ReadersHaveWaker, RemoveBroker, Advance, Woken, streamVars, threadVars
    <3>27. ASSUME NEW s \in Sids, Forget(s) PROVE ReadersHaveWaker'
      BY <3>27 DEF Forget, ReadersHaveWaker, AnalysisIsStale, EndingIsHandled, Ending, Woken, Settled,
         Reading, Clean, Plain, Alone, Stages, ReviewsAgree, ThreadsAgree, StoresAgree, Threads
    <3>28. ASSUME NEW u \in Subscribers, CheckSession(u) PROVE ReadersHaveWaker'
      BY <3>28 DEF CheckSession, Sub, ReadersHaveWaker, AnalysisIsStale, EndingIsHandled, Ending, Woken,
         Settled, Reading, Clean, Plain, Alone, Stages, ReviewsAgree, ThreadsAgree, StoresAgree,
         Threads
    <3>29. ASSUME NEW u \in Subscribers, Subscribe(u) PROVE ReadersHaveWaker'
      BY <3>29 DEF Subscribe, Sub, ReadersHaveWaker, AnalysisIsStale, EndingIsHandled, Ending, Woken, Settled,
         Reading, Clean, Plain, Alone, Stages, ReviewsAgree, ThreadsAgree, StoresAgree, Threads
    <3>30. ASSUME NEW u \in Subscribers, RecheckSession(u) PROVE ReadersHaveWaker'
      <4> SUFFICES ASSUME NEW d \in Clients, (Clean(d) /\ row[SidOf[d]] = "done" /\ Reading(SidOf[d]))'
                   PROVE  (Woken(SidOf[d]) \/ task[d] = "disconnect" \/ (task[d] = "has" /\ proxyStore[SidOf[d]] = d))'
        BY DEF ReadersHaveWaker
      <4>1. Clean(d) /\ row[SidOf[d]] = "done"
        BY <3>30 DEF RecheckSession, Clean, Plain, Alone
      <4>2. Reading(SidOf[d])
        <5>1. CASE row[SubOf[u]] = "done"
          <6>1. sub' = [sub EXCEPT ![u] = "end"] /\ broker' = [broker EXCEPT ![SubOf[u]] = @ \ {u}]
            BY <3>30, <5>1 DEF RecheckSession, Sub, Unsubscribe
          <6>2. \A v \in Subscribers, s \in Sids :
                   sub'[v] = "live" /\ v \in broker'[s] => sub[v] = "live" /\ v \in broker[s]
            BY <6>1
          <6>3. QED
            BY <6>2 DEF Reading
        <5>2. CASE row[SubOf[u]] # "done"
          BY <3>30, <4>1, <5>2 DEF RecheckSession, Sub, Reading
        <5>3. QED
          BY <5>1, <5>2
      <4>3. QED
        BY <3>30, <4>1, <4>2 DEF ReadersHaveWaker, RecheckSession, Woken
    <3>31. ASSUME NEW u \in Subscribers, SessionEnd(u) PROVE ReadersHaveWaker'
      <4> SUFFICES ASSUME NEW d \in Clients, (Clean(d) /\ row[SidOf[d]] = "done" /\ Reading(SidOf[d]))'
                   PROVE  (Woken(SidOf[d]) \/ task[d] = "disconnect" \/ (task[d] = "has" /\ proxyStore[SidOf[d]] = d))'
        BY DEF ReadersHaveWaker
      <4>1. Clean(d) /\ row[SidOf[d]] = "done"
        BY <3>31 DEF SessionEnd, Listening, Clean, Plain, Alone
      <4>2. Reading(SidOf[d])
        BY <3>31 DEF SessionEnd, Listening, Sub, Reading
      <4>3. QED
        BY <3>31, <4>1, <4>2 DEF ReadersHaveWaker, SessionEnd, Woken
    <3>32. ASSUME NEW u \in Subscribers, LeaveStream(u) PROVE ReadersHaveWaker'
      BY <3>32 DEF LeaveStream, Listening, Sub, Unsubscribe, ReadersHaveWaker, AnalysisIsStale, EndingIsHandled, Ending,
         Woken, Settled, Reading, Clean, Plain, Alone, Stages, ReviewsAgree, ThreadsAgree,
         StoresAgree, Threads
    <3>33. CASE \/ UNCHANGED vars
                \/ \E c \in Clients : RefuseConnect(c) \/ OpenSession(c) \/ AiRead(c)
      BY <3>33, <3>1 DEF vars, RefuseConnect, OpenSession, AiRead
    <3>34. ASSUME NEW u \in Subscribers, RecheckFails(u) PROVE ReadersHaveWaker'
      <4> SUFFICES ASSUME NEW d \in Clients, (Clean(d) /\ row[SidOf[d]] = "done" /\ Reading(SidOf[d]))'
                   PROVE  (Woken(SidOf[d]) \/ task[d] = "disconnect" \/ (task[d] = "has" /\ proxyStore[SidOf[d]] = d))'
        BY DEF ReadersHaveWaker
      <4>1. Clean(d) /\ row[SidOf[d]] = "done"
        BY <3>34 DEF RecheckFails, Clean, Plain, Alone
      <4>2. Reading(SidOf[d])
        BY <3>34, <4>1 DEF RecheckFails, Sub, Reading
      <4>3. QED
        BY <3>34, <4>1, <4>2 DEF ReadersHaveWaker, RecheckFails, Woken
    <3> HIDE DEF ClosingInv, StreamInv, TypeOK
    <3>35. QED
      BY <3>2, <3>3, <3>4, <3>5, <3>6, <3>7, <3>8, <3>9, <3>10, <3>11, <3>12, <3>13, <3>14, <3>15,
         <3>16, <3>17, <3>18, <3>19, <3>20, <3>21, <3>22, <3>23, <3>24, <3>25, <3>26, <3>27, <3>28,
         <3>29, <3>30, <3>31, <3>32, <3>33, <3>34
      DEF Next, Close, CloseSession
  <2>6. EndedIsRemoved'
    <3> USE DEF TypeOK, EndedIsRemoved, Alone, ThreadsAgree, Threads
    <3>1. ASSUME UNCHANGED <<task, proxyStore>> PROVE EndedIsRemoved'
      BY <3>1 DEF EndedIsRemoved, Alone, ThreadsAgree, Threads
    <3>2. ASSUME NEW c \in Clients, SaveStream(c) PROVE EndedIsRemoved'
      BY <3>2 DEF SaveStream, Client
    <3>3. ASSUME NEW c \in Clients, AiSave(c) PROVE EndedIsRemoved'
      BY <3>3 DEF AiSave, Client, Leave, Thread
    <3>4. ASSUME NEW c \in Clients, ClientEnds(c) PROVE EndedIsRemoved'
      BY <3>4 DEF ClientEnds, Client, Leave, Thread
    <3>5. ASSUME NEW a \in Threads, HasStream(a) PROVE EndedIsRemoved'
      <4> SUFFICES ASSUME NEW d \in Clients, (task[d] = "end" /\ Alone(d))'
                   PROVE  (proxyStore[SidOf[d]] = None)'
        BY DEF EndedIsRemoved
      <4>1. CASE a # d
        BY <3>5, <4>1 DEF HasStream, Return, Thread
      <4>2. CASE a = d
        BY <3>5, <4>2 DEF HasStream, Thread
      <4>3. QED
        BY <4>1, <4>2
    <3>6. ASSUME NEW a \in Threads, PluginExecOnDisconnect(a) PROVE EndedIsRemoved'
      BY <3>6 DEF PluginExecOnDisconnect, Thread, CloseSessions
    <3>7. ASSUME NEW a \in Threads, DelStream(a) PROVE EndedIsRemoved'
      BY <3>7 DEF DelStream, Thread, Return, After
    <3>8. ASSUME NEW a \in Threads, DropReviewed(a) PROVE EndedIsRemoved'
      BY <3>8 DEF DropReviewed, Thread, Return, After
    <3>9. ASSUME NEW a \in Closers, CloseFound(a) PROVE EndedIsRemoved'
      BY <3>9 DEF CloseFound, Thread
    <3>10. ASSUME NEW a \in Closers, KillUnknown(a) PROVE EndedIsRemoved'
      BY <3>10 DEF KillUnknown, Thread, CloseSessions
    <3>11. ASSUME NEW a \in Closers, ListProxies(a) PROVE EndedIsRemoved'
      BY <3>11 DEF ListProxies, Thread
    <3>12. ASSUME NEW a \in Closers, ReleaseConnection(a) PROVE EndedIsRemoved'
      BY <3>12 DEF ReleaseConnection, Thread
    <3>13. ASSUME NEW a \in Closers, NEW s \in Sids, Reject(a, s) PROVE EndedIsRemoved'
      BY <3>13 DEF Reject, Thread
    <3>14. ASSUME NEW k \in Agents, AgentPacket(k) PROVE EndedIsRemoved'
      BY <3>14 DEF AgentPacket, Thread
    <3>15. ASSUME NEW k \in Agents, AgentPlugins(k) PROVE EndedIsRemoved'
      BY SMTT(30), <3>15 DEF AgentPlugins, Thread, Return, After
    <3>16. ASSUME NEW k \in Agents, AgentLeaves(k) PROVE EndedIsRemoved'
      BY <3>16 DEF AgentLeaves, Thread
    <3>17. ASSUME NEW k \in Agents, ListByAgent(k) PROVE EndedIsRemoved'
      BY <3>17 DEF ListByAgent, Thread
    <3>18. ASSUME NEW k \in Agents, AgentWideDisconnect(k) PROVE EndedIsRemoved'
      BY <3>18 DEF AgentWideDisconnect, Thread, CloseSessions
    <3>19. ASSUME NEW a \in Agents \union Closers, SweepNext(a) PROVE EndedIsRemoved'
      BY <3>19 DEF SweepNext, Thread
    <3>20. CASE \/ UNCHANGED vars
                \/ \E c \in Clients : OnConnect(c) \/ OnConnectFails(c) \/ RefuseConnect(c) \/ WaitApproval(c)
                                      \/ OpenSession(c) \/ AiRead(c)
                \/ \E s \in Sids : Approve(s) \/ PopWal(s) \/ MarkSessionDone(s) \/ RemoveBroker(s) \/ Forget(s)
                \/ \E u \in Subscribers : CheckSession(u) \/ Subscribe(u) \/ RecheckSession(u) \/ RecheckFails(u) \/ SessionEnd(u) \/ LeaveStream(u)
      BY <3>20, <3>1 DEF vars, OnConnect, OnConnectFails, RefuseConnect, WaitApproval, OpenSession, AiRead, Approve,
         PopWal, MarkSessionDone, RemoveBroker, Forget, CheckSession, Subscribe, RecheckSession, RecheckFails,
         SessionEnd, LeaveStream
    <3> HIDE DEF ClosingInv, StreamInv, TypeOK, EndedIsRemoved, Alone, ThreadsAgree, Threads
    <3>21. QED
      BY <3>2, <3>3, <3>4, <3>5, <3>6, <3>7, <3>8, <3>9, <3>10, <3>11, <3>12, <3>13, <3>14, <3>15,
         <3>16, <3>17, <3>18, <3>19, <3>20
      DEF Next, Close, CloseSession
  <2>7. EndingIsFreed'
    <3> USE DEF TypeOK, EndingIsFreed, Ending, Plain, Alone, Stages, ThreadsAgree, StoresAgree, Threads
    <3>1. ASSUME UNCHANGED <<client, proxyStore, task, on, jobs, wal, memory, reviewed>> PROVE EndingIsFreed'
      BY <3>1 DEF EndingIsFreed, Ending, Plain, Alone, Stages, ThreadsAgree, StoresAgree, Threads
    <3>2. ASSUME NEW c \in Clients, OnConnect(c) PROVE EndingIsFreed'
      BY <3>2 DEF OnConnect, Client
    <3>3. ASSUME NEW c \in Clients, OnConnectFails(c) PROVE EndingIsFreed'
      BY <3>3 DEF OnConnectFails, Client
    <3>4. ASSUME NEW c \in Clients, RefuseConnect(c) PROVE EndingIsFreed'
      BY <3>4 DEF RefuseConnect, Client
    <3>5. ASSUME NEW c \in Clients, SaveStream(c) PROVE EndingIsFreed'
      BY <3>5 DEF SaveStream, Client
    <3>6. ASSUME NEW c \in Clients, WaitApproval(c) PROVE EndingIsFreed'
      BY <3>6 DEF WaitApproval
    <3>7. ASSUME NEW c \in Clients, AiRead(c) PROVE EndingIsFreed'
      BY <3>7 DEF AiRead, Client
    <3>8. ASSUME NEW c \in Clients, AiSave(c) PROVE EndingIsFreed'
      <4> SUFFICES ASSUME NEW d \in Clients, (Plain(d) /\ Ending(d))'
                   PROVE  ((SidOf[d] \in wal => jobs[SidOf[d]]["pop"] > 0) /\ (SidOf[d] \in memory => \E g \in Stages : jobs[SidOf[d]][g] > 0))'
        BY DEF EndingIsFreed
      <4>1. client[d] \in Saved /\ proxyStore' = proxyStore
        BY <3>8 DEF AiSave, Client, Leave
      <4>2. \A b \in Threads : task'[b] = "del" /\ on'[b] = d => task[b] = "del" /\ on[b] = d
        BY <3>8 DEF AiSave, Leave, Thread
      <4>3. Plain(d) /\ Ending(d)
        BY <3>8, <4>1, <4>2 DEF AiSave
      <4>4. QED
        BY <3>8, <4>3 DEF AiSave
    <3>9. ASSUME NEW c \in Clients, ClientEnds(c) PROVE EndingIsFreed'
      <4> SUFFICES ASSUME NEW d \in Clients, (Plain(d) /\ Ending(d))'
                   PROVE  ((SidOf[d] \in wal => jobs[SidOf[d]]["pop"] > 0) /\ (SidOf[d] \in memory => \E g \in Stages : jobs[SidOf[d]][g] > 0))'
        BY DEF EndingIsFreed
      <4>1. client[d] \in Saved /\ proxyStore' = proxyStore
        BY <3>9 DEF ClientEnds, Client, Leave
      <4>2. \A b \in Threads : task'[b] = "del" /\ on'[b] = d => task[b] = "del" /\ on[b] = d
        BY <3>9 DEF ClientEnds, Leave, Thread
      <4>3. Plain(d) /\ Ending(d)
        BY <3>9, <4>1, <4>2 DEF ClientEnds
      <4>4. QED
        BY <3>9, <4>3 DEF ClientEnds
    <3>10. ASSUME NEW a \in Threads, HasStream(a) PROVE EndingIsFreed'
      BY <3>10 DEF HasStream, Thread, Return, After
    <3>11. ASSUME NEW a \in Threads, PluginExecOnDisconnect(a) PROVE EndingIsFreed'
      BY <3>11 DEF PluginExecOnDisconnect, Thread, CloseSessions
    <3>12. ASSUME NEW a \in Threads, DelStream(a) PROVE EndingIsFreed'
      BY <3>12 DEF DelStream, Thread, Return, After
    <3>13. ASSUME NEW a \in Threads, DropReviewed(a) PROVE EndingIsFreed'
      BY <3>13 DEF DropReviewed, Thread, Return, After
    <3>14. ASSUME NEW a \in Closers, CloseFound(a) PROVE EndingIsFreed'
      BY <3>14 DEF CloseFound, Thread
    <3>15. ASSUME NEW a \in Closers, KillUnknown(a) PROVE EndingIsFreed'
      BY <3>15 DEF KillUnknown, Thread, CloseSessions
    <3>16. ASSUME NEW a \in Closers, ListProxies(a) PROVE EndingIsFreed'
      BY <3>16 DEF ListProxies, Thread
    <3>17. ASSUME NEW a \in Closers, ReleaseConnection(a) PROVE EndingIsFreed'
      BY <3>17 DEF ReleaseConnection, Thread
    <3>18. ASSUME NEW a \in Closers, NEW s \in Sids, Reject(a, s) PROVE EndingIsFreed'
      BY <3>18 DEF Reject, Thread
    <3>19. ASSUME NEW k \in Agents, AgentPacket(k) PROVE EndingIsFreed'
      BY <3>19 DEF AgentPacket, Thread
    <3>20. ASSUME NEW k \in Agents, AgentPlugins(k) PROVE EndingIsFreed'
      <4> SUFFICES ASSUME NEW d \in Clients, (Plain(d) /\ Ending(d))'
                   PROVE  ((SidOf[d] \in wal => jobs[SidOf[d]]["pop"] > 0) /\ (SidOf[d] \in memory => \E g \in Stages : jobs[SidOf[d]][g] > 0))'
        BY DEF EndingIsFreed
      <4>1. client[d] \in Saved /\ proxyStore' = proxyStore
        BY <3>20 DEF AgentPlugins, Thread
      <4>2. \A b \in Threads : task'[b] = "del" /\ on'[b] = d => task[b] = "del" /\ on[b] = d
        BY <3>20 DEF AgentPlugins, Return, After, Thread
      <4>3. Plain(d) /\ Ending(d)
        BY <3>20, <4>1, <4>2 DEF AgentPlugins
      <4>4. QED
        BY <3>20, <4>3 DEF AgentPlugins
    <3>21. ASSUME NEW k \in Agents, AgentLeaves(k) PROVE EndingIsFreed'
      BY <3>21 DEF AgentLeaves, Thread
    <3>22. ASSUME NEW k \in Agents, ListByAgent(k) PROVE EndingIsFreed'
      BY <3>22 DEF ListByAgent, Thread
    <3>23. ASSUME NEW k \in Agents, AgentWideDisconnect(k) PROVE EndingIsFreed'
      BY <3>23 DEF AgentWideDisconnect, Thread, CloseSessions
    <3>24. ASSUME NEW a \in Agents \union Closers, SweepNext(a) PROVE EndingIsFreed'
      BY <3>24 DEF SweepNext, Thread
    <3>25. ASSUME NEW s \in Sids, PopWal(s) PROVE EndingIsFreed'
      BY <3>25 DEF PopWal, Advance
    <3>26. ASSUME NEW s \in Sids, MarkSessionDone(s) PROVE EndingIsFreed'
      BY <3>26 DEF MarkSessionDone, Advance
    <3>27. ASSUME NEW s \in Sids, RemoveBroker(s) PROVE EndingIsFreed'
      BY <3>27 DEF RemoveBroker, Advance
    <3>28. ASSUME NEW s \in Sids, Forget(s) PROVE EndingIsFreed'
      BY <3>28 DEF Forget
    <3>29. CASE \/ UNCHANGED vars
                \/ \E c \in Clients : OpenSession(c)
                \/ \E s \in Sids : Approve(s)
                \/ \E u \in Subscribers : CheckSession(u) \/ Subscribe(u) \/ RecheckSession(u) \/ RecheckFails(u) \/ SessionEnd(u) \/ LeaveStream(u)
      BY <3>29, <3>1 DEF vars, OpenSession, Approve, CheckSession, Subscribe, RecheckSession, RecheckFails, SessionEnd, LeaveStream
    <3> HIDE DEF ClosingInv, StreamInv, TypeOK, EndingIsFreed, Ending, Plain, Alone, Stages, ThreadsAgree, StoresAgree, Threads
    <3>30. QED
      BY <3>2, <3>3, <3>4, <3>5, <3>6, <3>7, <3>8, <3>9, <3>10, <3>11, <3>12, <3>13, <3>14, <3>15,
         <3>16, <3>17, <3>18, <3>19, <3>20, <3>21, <3>22, <3>23, <3>24, <3>25, <3>26, <3>27, <3>28,
         <3>29
      DEF Next, Close, CloseSession
  <2>8. AcceptedIsLogged'
    <3> USE DEF TypeOK, AcceptedIsLogged, Logged, Closing, Stages, ReviewsAgree
    <3>1. ASSUME UNCHANGED <<client, wal, jobs, row, lost, undone, reviewed>> PROVE AcceptedIsLogged'
      BY <3>1 DEF AcceptedIsLogged, Logged, Closing, Stages, ReviewsAgree
    <3>2. ASSUME NEW c \in Clients, OnConnect(c) PROVE AcceptedIsLogged'
      BY <3>2 DEF OnConnect, Client
    <3>3. ASSUME NEW c \in Clients, OnConnectFails(c) PROVE AcceptedIsLogged'
      BY <3>3 DEF OnConnectFails, Client
    <3>4. ASSUME NEW c \in Clients, RefuseConnect(c) PROVE AcceptedIsLogged'
      BY <3>4 DEF RefuseConnect, Client
    <3>5. ASSUME NEW c \in Clients, SaveStream(c) PROVE AcceptedIsLogged'
      BY <3>5 DEF SaveStream, Client
    <3>6. ASSUME NEW c \in Clients, WaitApproval(c) PROVE AcceptedIsLogged'
      BY <3>6 DEF WaitApproval
    <3>7. ASSUME NEW c \in Clients, AiRead(c) PROVE AcceptedIsLogged'
      BY <3>7 DEF AiRead, Client
    <3>8. ASSUME NEW c \in Clients, AiSave(c) PROVE AcceptedIsLogged'
      BY SMTT(30), <3>8 DEF AiSave, Client, Leave, Thread
    <3>9. ASSUME NEW c \in Clients, ClientEnds(c) PROVE AcceptedIsLogged'
      BY <3>9 DEF ClientEnds, Client, Leave, Thread
    <3>10. ASSUME NEW a \in Threads, PluginExecOnDisconnect(a) PROVE AcceptedIsLogged'
      BY <3>10 DEF PluginExecOnDisconnect, Thread, CloseSessions
    <3>11. ASSUME NEW a \in Closers, KillUnknown(a) PROVE AcceptedIsLogged'
      BY <3>11 DEF KillUnknown, Thread, CloseSessions
    <3>12. ASSUME NEW a \in Closers, NEW s \in Sids, Reject(a, s) PROVE AcceptedIsLogged'
      BY <3>12 DEF Reject, Thread
    <3>13. ASSUME NEW k \in Agents, AgentWideDisconnect(k) PROVE AcceptedIsLogged'
      BY <3>13 DEF AgentWideDisconnect, Thread, CloseSessions
    <3>14. ASSUME NEW s \in Sids, Approve(s) PROVE AcceptedIsLogged'
      BY <3>14 DEF Approve
    <3>15. ASSUME NEW s \in Sids, PopWal(s) PROVE AcceptedIsLogged'
      BY <3>15 DEF PopWal, Advance
    <3>16. ASSUME NEW s \in Sids, MarkSessionDone(s) PROVE AcceptedIsLogged'
      BY <3>16 DEF MarkSessionDone, Advance
    <3>17. ASSUME NEW s \in Sids, RemoveBroker(s) PROVE AcceptedIsLogged'
      BY <3>17 DEF RemoveBroker, Advance
    <3>18. ASSUME NEW s \in Sids, Forget(s) PROVE AcceptedIsLogged'
      BY <3>18 DEF Forget
    <3>19. CASE \/ UNCHANGED vars
                \/ \E c \in Clients : OpenSession(c)
                \/ \E a \in Threads : HasStream(a) \/ DelStream(a) \/ DropReviewed(a)
                \/ \E a \in Closers : CloseFound(a) \/ ListProxies(a) \/ ReleaseConnection(a)
                \/ \E k \in Agents : AgentPacket(k) \/ AgentPlugins(k) \/ AgentLeaves(k) \/ ListByAgent(k)
                \/ \E a \in Agents \union Closers : SweepNext(a)
                \/ \E u \in Subscribers : CheckSession(u) \/ Subscribe(u) \/ RecheckSession(u) \/ RecheckFails(u) \/ SessionEnd(u) \/ LeaveStream(u)
      BY <3>19, <3>1 DEF vars, OpenSession, HasStream, DelStream, DropReviewed, CloseFound, ListProxies,
         ReleaseConnection, AgentPacket, AgentPlugins, AgentLeaves, ListByAgent, SweepNext,
         CheckSession, Subscribe, RecheckSession, RecheckFails, SessionEnd, LeaveStream
    <3> HIDE DEF ClosingInv, StreamInv, TypeOK, AcceptedIsLogged, Logged, Closing, Stages, ReviewsAgree
    <3>20. QED
      BY <3>2, <3>3, <3>4, <3>5, <3>6, <3>7, <3>8, <3>9, <3>10, <3>11, <3>12, <3>13, <3>14, <3>15,
         <3>16, <3>17, <3>18, <3>19
      DEF Next, Close, CloseSession
  <2>9. QED
    BY <2>1, <2>2, <2>3, <2>4, <2>5, <2>6, <2>7, <2>8
<1>3. QED
  BY <1>1, <1>2, StreamInvariant, PTL DEF Spec

-----------------------------------------------------------------------------
(* Theorems *)

\* Whatever client.go, agent.go and closeSession do, every variable keeps its type.
THEOREM StreamTypeCorrect == Spec => []TypeOK
  BY StreamInvariant, PTL DEF StreamInv

\* ProxyStream.Close: for any number of clients, agents and closers, a session whose
\* client is gone is marked done and the audit plugin frees what it holds of it.
THEOREM ClosedCorrect == Spec => []ClosedIsDone
<1>1. StreamInv /\ ClosingInv => ClosedIsDone
  <2> SUFFICES ASSUME StreamInv, ClosingInv, NEW c \in Clients, task[c] = "end", Plain(c),
                      SidOf[c] \notin undone
               PROVE  /\ Closing(SidOf[c])
                      /\ (\A g \in Stages : jobs[SidOf[c]][g] = 0) =>
                            SidOf[c] \notin memory /\ SidOf[c] \notin wal
    BY DEF ClosedIsDone
  <2>1. Ending(c)
    <3>1. client[c] = "gone"
      BY DEF StreamInv, ThreadsAgree, Threads
    <3>2. proxyStore[SidOf[c]] = None /\ None # c
      BY StreamsAssumption DEF ClosingInv, EndedIsRemoved, Plain
    <3>3. QED
      BY <3>1, <3>2 DEF Ending, Saved
  <2>2. Closing(SidOf[c])
    <3>1. CASE SidOf[c] \in lost
      BY <3>1 DEF Closing
    <3>2. CASE SidOf[c] \notin lost
      <4>1. Clean(c)
        BY <3>2 DEF Clean
      <4>2. Woken(SidOf[c]) \/ Settled(SidOf[c])
        BY <2>1, <4>1 DEF ClosingInv, EndingIsHandled
      <4>3. jobs[SidOf[c]]["remove"] > 0 => row[SidOf[c]] = "done"
        BY <4>1 DEF ClosingInv, MarkedFirst
      <4>4. QED
        BY <4>2, <4>3 DEF Woken, Settled, Closing
    <3>3. QED
      BY <3>1, <3>2
  <2>3. ASSUME \A g \in Stages : jobs[SidOf[c]][g] = 0
        PROVE  SidOf[c] \notin memory /\ SidOf[c] \notin wal
    <3>1. \A g \in Stages : ~(jobs[SidOf[c]][g] > 0)
      BY <2>3
    <3>2. QED
      BY <2>1, <3>1 DEF ClosingInv, EndingIsFreed, Stages
  <2>4. QED
    BY <2>2, <2>3
<1>2. QED
  BY <1>1, StreamInvariant, ClosingInvariant, PTL

\* StreamSession: no interleaving of closeSession and the check, subscribe and check
\* again of a reader leaves the reader listening with nobody to wake it.
THEOREM ReadersCorrect == Spec => []ReadersAreWoken
<1>1. ClosingInv => ReadersAreWoken
  <2> SUFFICES ASSUME ClosingInv, NEW u \in Subscribers, NEW c \in Clients, sub[u] = "live",
                      SubOf[u] = SidOf[c], u \in broker[SidOf[c]], row[SidOf[c]] = "done", Plain(c),
                      SidOf[c] \notin undone \union lost
               PROVE  \/ \E g \in {"pop", "mark", "remove"} : jobs[SidOf[c]][g] > 0
                      \/ task[c] \in {"has", "disconnect"}
    BY DEF ReadersAreWoken
  <2>1. Clean(c) /\ Reading(SidOf[c])
    BY DEF Clean, Reading
  <2>2. QED
    BY <2>1 DEF ClosingInv, ReadersHaveWaker, Woken
<1>2. QED
  BY <1>1, ClosingInvariant, PTL

\* listenAgentMessages: a packet is rejected for want of a log, which ends every session
\* of the agent, only while its session is being closed or was reviewed.
THEOREM RejectionsCorrect == Spec => RejectedOnlyWhileClosing
<1> DEFINE Excused(s) == \/ Closing(s) \/ s \in undone
                         \/ \E c \in Clients : SidOf[c] = s /\ reviewed[c]
           Step == \A k \in Agents : task[k] = "got" /\ task'[k] = "leave" => Excused(SidOf[on[k]])
<1>1. StreamInv /\ ClosingInv /\ [Next]_vars => [Step]_vars
  <2> SUFFICES ASSUME StreamInv, ClosingInv, Next, NEW k \in Agents, task[k] = "got", task'[k] = "leave"
               PROVE  Excused(SidOf[on[k]])
    OBVIOUS
  <2>1. SidOf[on[k]] \notin wal
    <3> USE DEF StreamInv, TypeOK, Threads, streamVars, auditVars, rowVars, threadVars, brokerVars
    <3>1. task \in [Threads -> {"idle", "has", "disconnect", "del", "drop", "release", "got",
                              "leave", "sweep", "agentwide", "end"}]
      OBVIOUS
    <3>2. ASSUME NEW j \in Agents, AgentPlugins(j) PROVE SidOf[on[k]] \notin wal
      <4>1. j = k
        BY <3>1, <3>2 DEF AgentPlugins, Thread, Return, After
      <4>2. QED
        BY <3>1, <3>2, <4>1 DEF AgentPlugins, Thread, Return, After
    <3>3. ASSUME NEW c \in Clients,
                 \/ OnConnect(c) \/ OnConnectFails(c) \/ RefuseConnect(c) \/ SaveStream(c)
                 \/ WaitApproval(c) \/ OpenSession(c) \/ AiRead(c) \/ AiSave(c) \/ ClientEnds(c)
          PROVE  FALSE
      <4>1. UNCHANGED task \/ Thread(c, "idle", "has")
        BY <3>3 DEF OnConnect, OnConnectFails, RefuseConnect, SaveStream, WaitApproval, OpenSession,
           AiRead, AiSave, ClientEnds, Leave
      <4>2. QED
        BY <3>1, <4>1 DEF Thread
    <3>4. ASSUME NEW a \in Threads, Close(a) PROVE FALSE
      BY <3>1, <3>4 DEF Close, HasStream, PluginExecOnDisconnect, DelStream, DropReviewed, Return, After, Thread
    <3>5. ASSUME NEW a \in Closers,
                 \/ CloseFound(a) \/ KillUnknown(a) \/ ListProxies(a) \/ ReleaseConnection(a)
                 \/ \E s \in Sids : Reject(a, s)
          PROVE  FALSE
      BY <3>1, <3>5 DEF CloseFound, KillUnknown, ListProxies, ReleaseConnection, Reject, Thread
    <3>6. ASSUME NEW j \in Agents,
                 \/ AgentPacket(j) \/ AgentLeaves(j) \/ ListByAgent(j) \/ AgentWideDisconnect(j)
          PROVE  FALSE
      BY <3>1, <3>6 DEF AgentPacket, AgentLeaves, ListByAgent, AgentWideDisconnect, Thread
    <3>7. ASSUME NEW a \in Agents \union Closers, SweepNext(a) PROVE FALSE
      <4>1. \E t : t # "leave" /\ Thread(a, "sweep", t)
        <5>1. PICK c \in todo[a] : Thread(a, "sweep", CASE reviewed[c]   -> "drop"
                                                        [] a \in Agents -> "agentwide"
                                                        [] OTHER        -> "has")
          BY <3>7 DEF SweepNext
        <5>2. c \in Clients /\ reviewed[c] \in BOOLEAN
          OBVIOUS
        <5>3. QED
          BY <5>1, <5>2
      <4>2. QED
        BY <3>1, <4>1 DEF Thread
    <3>8. ASSUME NEW s \in Sids, Approve(s) \/ CloseSession(s) PROVE FALSE
      BY <3>1, <3>8 DEF Approve, CloseSession, PopWal, MarkSessionDone, RemoveBroker, Forget
    <3>9. ASSUME NEW u \in Subscribers,
                 CheckSession(u) \/ Subscribe(u) \/ RecheckSession(u) \/ RecheckFails(u) \/ SessionEnd(u) \/ LeaveStream(u)
          PROVE  FALSE
      BY <3>1, <3>9 DEF CheckSession, Subscribe, RecheckSession, RecheckFails, SessionEnd, LeaveStream
    <3>10. QED
      BY <3>2, <3>3, <3>4, <3>5, <3>6, <3>7, <3>8, <3>9 DEF Next
  <2>2. client[on[k]] \in Saved /\ on[k] \in Clients
    BY DEF StreamInv, ThreadsAgree, Threads
  <2>3. QED
    BY <2>1, <2>2 DEF ClosingInv, AcceptedIsLogged, Logged
<1>2. QED
  BY <1>1, StreamInvariant, ClosingInvariant, PTL DEF Spec, RejectedOnlyWhileClosing

=============================================================================
