------------------------- MODULE ConnRequestsProofs -------------------------
(***************************************************************************)
(* Proofs about ConnRequests, for any number of clients, session ids and   *)
(* agent calls.                                                            *)
(***************************************************************************)
EXTENDS ConnRequests, TLAPS

Registered == {"waiting", "expired", "closing", "timeout", "refused", "connected"}

\* Every variable keeps its type under every step of the clients and the agent.
THEOREM TypeCorrect == Spec => []TypeOK
<1>1. Init => TypeOK
  BY DEF Init, TypeOK, ClientStates, AgentStates
<1>2. TypeOK /\ [Next]_vars => TypeOK'
  <2> SUFFICES ASSUME TypeOK, [Next]_vars PROVE TypeOK'
    OBVIOUS
  <2> USE SidAssumption DEF TypeOK, ClientStates, AgentStates, Acceptors, Client, Agent, acceptVars
  <2>1. CASE UNCHANGED vars
    BY <2>1 DEF vars
  <2>2. ASSUME NEW c \in Clients, IsAgentOnline(c) PROVE TypeOK'
    BY <2>2 DEF IsAgentOnline
  <2>3. ASSUME NEW c \in Clients, CheckInProgress(c) PROVE TypeOK'
    BY <2>3 DEF CheckInProgress
  <2>4. ASSUME NEW c \in Clients, Register(c) PROVE TypeOK'
    BY <2>4 DEF Register
  <2>5. ASSUME NEW c \in Clients, Expire(c) PROVE TypeOK'
    BY <2>5 DEF Expire
  <2>6. ASSUME NEW c \in Clients, Unregister(c) PROVE TypeOK'
    BY <2>6 DEF Unregister
  <2>7. ASSUME NEW c \in Clients, CloseChannel(c) PROVE TypeOK'
    BY <2>7 DEF CloseChannel
  <2>8. ASSUME NEW a \in Acceptors, ListRequests(a) PROVE TypeOK'
    BY <2>8 DEF ListRequests
  <2>9. ASSUME NEW a \in Acceptors, NEW s \in Sids, PopRequest(a, s) PROVE TypeOK'
    BY <2>9 DEF PopRequest
  <2>10. ASSUME NEW a \in Acceptors, Send(a) PROVE TypeOK'
    BY <2>10 DEF Send
  <2>11. ASSUME NEW a \in Acceptors, SendTimeout(a) PROVE TypeOK'
    BY <2>11 DEF SendTimeout
  <2>12. ASSUME NEW a \in Acceptors, SendOnClosed(a) PROVE TypeOK'
    BY <2>12 DEF SendOnClosed
  <2>13. ASSUME NEW a \in Acceptors, Accepted(a) PROVE TypeOK'
    BY <2>13 DEF Accepted
  <2>14. ASSUME NEW k \in Streams, Save(k) PROVE TypeOK'
    BY <2>14 DEF Save
  <2>15. ASSUME NEW k \in Streams, StoreStream(k) PROVE TypeOK'
    BY <2>15 DEF StoreStream
  <2>16. ASSUME NEW k \in Streams, SetOnline(k) PROVE TypeOK'
    BY <2>16 DEF SetOnline
  <2>17. ASSUME NEW k \in Streams, Close(k) PROVE TypeOK'
    BY <2>17 DEF Close
  <2>18. ASSUME NEW k \in Streams, DeleteStream(k) PROVE TypeOK'
    BY <2>18 DEF DeleteStream
  <2>19. ASSUME NEW p \in PreConnects, PreConnect(p) PROVE TypeOK'
    BY <2>19 DEF PreConnect
  <2>20. QED
    BY <2>1, <2>2, <2>3, <2>4, <2>5, <2>6, <2>7, <2>8, <2>9, <2>10, <2>11, <2>12,
       <2>13, <2>14, <2>15, <2>16, <2>17, <2>18, <2>19 DEF Next
<1>3. QED
  BY <1>1, <1>2, PTL DEF Spec

-----------------------------------------------------------------------------
(* One sender for each channel *)

\* A channel is stored under its own session id, and it is stored or held only
\* after its client registered it; no client registers twice.
ChannelsKnown ==
    /\ \A s \in Sids, c \in Clients :
          requests[s] = c => SidOf[c] = s /\ client[c] \in Registered
    /\ \A a \in Acceptors, c \in Clients : holds[a] = c => client[c] \in Registered

SenderInv == ChannelsKnown /\ OneSender

\* The invariant of the channels: RequestProxyConnection and AcceptProxyConnection.
LEMMA SenderInvariant == Spec => []SenderInv
<1>1. Init => SenderInv
  BY NamesAssumption DEF Init, SenderInv, ChannelsKnown, OneSender
<1>2. TypeOK /\ SenderInv /\ [Next]_vars => SenderInv'
  <2> SUFFICES ASSUME TypeOK, SenderInv, [Next]_vars PROVE SenderInv'
    OBVIOUS
  <2> USE SidAssumption, NamesAssumption
      DEF TypeOK, Registered, SenderInv, ChannelsKnown, OneSender, Client, Agent, acceptVars
  <2>1. CASE UNCHANGED vars
    BY <2>1 DEF vars
  <2>2. ASSUME NEW c \in Clients, IsAgentOnline(c) PROVE SenderInv'
    BY <2>2 DEF IsAgentOnline
  <2>3. ASSUME NEW c \in Clients, CheckInProgress(c) PROVE SenderInv'
    BY <2>3 DEF CheckInProgress
  <2>4. ASSUME NEW c \in Clients, Register(c) PROVE SenderInv'
    BY <2>4 DEF Register
  <2>5. ASSUME NEW c \in Clients, Expire(c) PROVE SenderInv'
    BY <2>5 DEF Expire
  <2>6. ASSUME NEW c \in Clients, Unregister(c) PROVE SenderInv'
    BY <2>6 DEF Unregister
  <2>7. ASSUME NEW c \in Clients, CloseChannel(c) PROVE SenderInv'
    BY <2>7 DEF CloseChannel
  <2>8. ASSUME NEW a \in Acceptors, ListRequests(a) PROVE SenderInv'
    BY <2>8 DEF ListRequests
  <2>9. ASSUME NEW a \in Acceptors, NEW s \in Sids, PopRequest(a, s) PROVE SenderInv'
    BY <2>9 DEF PopRequest
  <2>10. ASSUME NEW a \in Acceptors, Send(a) PROVE SenderInv'
    BY <2>10 DEF Send
  <2>11. ASSUME NEW a \in Acceptors, SendTimeout(a) PROVE SenderInv'
    BY <2>11 DEF SendTimeout
  <2>12. ASSUME NEW a \in Acceptors, SendOnClosed(a) PROVE SenderInv'
    BY <2>12 DEF SendOnClosed
  <2>13. ASSUME NEW a \in Acceptors, Accepted(a) PROVE SenderInv'
    BY <2>13 DEF Accepted
  <2>14. ASSUME NEW k \in Streams, Save(k) PROVE SenderInv'
    BY <2>14 DEF Save
  <2>15. ASSUME NEW k \in Streams, StoreStream(k) PROVE SenderInv'
    BY <2>15 DEF StoreStream
  <2>16. ASSUME NEW k \in Streams, SetOnline(k) PROVE SenderInv'
    BY <2>16 DEF SetOnline
  <2>17. ASSUME NEW k \in Streams, Close(k) PROVE SenderInv'
    BY <2>17 DEF Close
  <2>18. ASSUME NEW k \in Streams, DeleteStream(k) PROVE SenderInv'
    BY <2>18 DEF DeleteStream
  <2>19. ASSUME NEW p \in PreConnects, PreConnect(p) PROVE SenderInv'
    BY <2>19 DEF PreConnect
  <2>20. QED
    BY <2>1, <2>2, <2>3, <2>4, <2>5, <2>6, <2>7, <2>8, <2>9, <2>10, <2>11, <2>12,
       <2>13, <2>14, <2>15, <2>16, <2>17, <2>18, <2>19 DEF Next
<1>3. QED
  BY <1>1, <1>2, TypeCorrect, PTL DEF Spec

\* AcceptProxyConnection: however many agent calls race on the store, no channel is
\* answered by two of them, and one being answered can no longer be found.
THEOREM RequestsAnsweredOnce == Spec => []OneSender
<1>1. SenderInv => OneSender
  BY DEF SenderInv
<1>2. QED
  BY <1>1, SenderInvariant, PTL

-----------------------------------------------------------------------------
(* The stored stream *)

\* A stored stream is one whose Save did not fail: only such a stream goes on after
\* AcceptProxyConnection.
StoreInv ==
    /\ StoredStreamIsLive
    /\ agentStore # None => ~failed[agentStore]
    /\ \A a \in Acceptors : failed[a] => agent[a] \in {"accept", "releasing"}

\* AgentStream.Save and Close: however the streams of an agent interleave between
\* the test, the set and the delete of the store, the stored one is never a stream
\* whose handler is over.
THEOREM StoredStreamLives == Spec => []StoredStreamIsLive
<1>1. Init => StoreInv
  BY DEF Init, StoreInv, StoredStreamIsLive
<1>2. TypeOK /\ StoreInv /\ [Next]_vars => StoreInv'
  <2> SUFFICES ASSUME TypeOK, StoreInv, [Next]_vars PROVE StoreInv'
    OBVIOUS
  <2> USE NamesAssumption
      DEF TypeOK, StoreInv, StoredStreamIsLive, Acceptors, Client, Agent, acceptVars
  <2>1. CASE UNCHANGED vars
    BY <2>1 DEF vars
  <2>2. ASSUME NEW c \in Clients, IsAgentOnline(c) PROVE StoreInv'
    BY <2>2 DEF IsAgentOnline
  <2>3. ASSUME NEW c \in Clients, CheckInProgress(c) PROVE StoreInv'
    BY <2>3 DEF CheckInProgress
  <2>4. ASSUME NEW c \in Clients, Register(c) PROVE StoreInv'
    BY <2>4 DEF Register
  <2>5. ASSUME NEW c \in Clients, Expire(c) PROVE StoreInv'
    BY <2>5 DEF Expire
  <2>6. ASSUME NEW c \in Clients, Unregister(c) PROVE StoreInv'
    BY <2>6 DEF Unregister
  <2>7. ASSUME NEW c \in Clients, CloseChannel(c) PROVE StoreInv'
    BY <2>7 DEF CloseChannel
  <2>8. ASSUME NEW a \in Acceptors, ListRequests(a) PROVE StoreInv'
    BY <2>8 DEF ListRequests
  <2>9. ASSUME NEW a \in Acceptors, NEW s \in Sids, PopRequest(a, s) PROVE StoreInv'
    BY <2>9 DEF PopRequest
  <2>10. ASSUME NEW a \in Acceptors, Send(a) PROVE StoreInv'
    BY <2>10 DEF Send
  <2>11. ASSUME NEW a \in Acceptors, SendTimeout(a) PROVE StoreInv'
    BY <2>11 DEF SendTimeout
  <2>12. ASSUME NEW a \in Acceptors, SendOnClosed(a) PROVE StoreInv'
    BY <2>12 DEF SendOnClosed
  <2>13. ASSUME NEW a \in Acceptors, Accepted(a) PROVE StoreInv'
    BY <2>13 DEF Accepted
  <2>14. ASSUME NEW k \in Streams, Save(k) PROVE StoreInv'
    BY <2>14 DEF Save
  <2>15. ASSUME NEW k \in Streams, StoreStream(k) PROVE StoreInv'
    BY <2>15 DEF StoreStream
  <2>16. ASSUME NEW k \in Streams, SetOnline(k) PROVE StoreInv'
    BY <2>16 DEF SetOnline
  <2>17. ASSUME NEW k \in Streams, Close(k) PROVE StoreInv'
    BY <2>17 DEF Close
  <2>18. ASSUME NEW k \in Streams, DeleteStream(k) PROVE StoreInv'
    BY <2>18 DEF DeleteStream
  <2>19. ASSUME NEW p \in PreConnects, PreConnect(p) PROVE StoreInv'
    BY <2>19 DEF PreConnect
  <2>20. QED
    BY <2>1, <2>2, <2>3, <2>4, <2>5, <2>6, <2>7, <2>8, <2>9, <2>10, <2>11, <2>12,
       <2>13, <2>14, <2>15, <2>16, <2>17, <2>18, <2>19 DEF Next
<1>3. StoreInv => StoredStreamIsLive
  BY DEF StoreInv
<1>4. QED
  BY <1>1, <1>2, <1>3, TypeCorrect, PTL DEF Spec

-----------------------------------------------------------------------------
(* Listed requests *)

\* Another request for the session id of c was registered.
Replaced(c) == \E d \in Clients \ {c} : SidOf[d] = SidOf[c] /\ client[d] \in Registered

\* A request a running loop listed and that still waits is yet to be popped, held
\* by some agent call or replaced.
ReleaseInv ==
    \A a \in Acceptors : \A c \in listed[a] :
        /\ client[c] \in Registered
        /\ agent[a] = "releasing" /\ client[c] = "waiting" =>
              \/ requests[SidOf[c]] = c /\ SidOf[c] \in keys[a]
              \/ \E b \in Acceptors : holds[b] = c
              \/ Replaced(c)

\* AcceptProxyConnection: at the end of its loop none of the requests it listed is
\* left waiting, but for those another call answers or another request replaced.
THEOREM ListedReleased == Spec => []ListedAreReleased
<1>1. Init => ReleaseInv
  BY DEF Init, ReleaseInv
<1>2. TypeOK /\ SenderInv /\ ReleaseInv /\ [Next]_vars => ReleaseInv'
  <2> SUFFICES ASSUME TypeOK, SenderInv, ReleaseInv, [Next]_vars PROVE ReleaseInv'
    OBVIOUS
  <2> USE SidAssumption, NamesAssumption
      DEF TypeOK, Registered, SenderInv, ChannelsKnown, ReleaseInv, Replaced, Client, Agent, acceptVars
  <2>1. CASE UNCHANGED vars
    BY <2>1 DEF vars
  <2>2. ASSUME NEW c \in Clients, IsAgentOnline(c) PROVE ReleaseInv'
    BY <2>2 DEF IsAgentOnline
  <2>3. ASSUME NEW c \in Clients, CheckInProgress(c) PROVE ReleaseInv'
    BY <2>3 DEF CheckInProgress
  <2>4. ASSUME NEW c \in Clients, Register(c) PROVE ReleaseInv'
    BY <2>4 DEF Register
  <2>5. ASSUME NEW c \in Clients, Expire(c) PROVE ReleaseInv'
    BY <2>5 DEF Expire
  <2>6. ASSUME NEW c \in Clients, Unregister(c) PROVE ReleaseInv'
    BY <2>6 DEF Unregister
  <2>7. ASSUME NEW c \in Clients, CloseChannel(c) PROVE ReleaseInv'
    BY <2>7 DEF CloseChannel
  <2>8. ASSUME NEW a \in Acceptors, ListRequests(a) PROVE ReleaseInv'
    BY <2>8 DEF ListRequests
  <2>9. ASSUME NEW a \in Acceptors, NEW s \in Sids, PopRequest(a, s) PROVE ReleaseInv'
    BY <2>9 DEF PopRequest
  <2>10. ASSUME NEW a \in Acceptors, Send(a) PROVE ReleaseInv'
    BY <2>10 DEF Send
  <2>11. ASSUME NEW a \in Acceptors, SendTimeout(a) PROVE ReleaseInv'
    BY <2>11 DEF SendTimeout
  <2>12. ASSUME NEW a \in Acceptors, SendOnClosed(a) PROVE ReleaseInv'
    BY <2>12 DEF SendOnClosed
  <2>13. ASSUME NEW a \in Acceptors, Accepted(a) PROVE ReleaseInv'
    BY <2>13 DEF Accepted
  <2>14. ASSUME NEW k \in Streams, Save(k) PROVE ReleaseInv'
    BY <2>14 DEF Save
  <2>15. ASSUME NEW k \in Streams, StoreStream(k) PROVE ReleaseInv'
    BY <2>15 DEF StoreStream
  <2>16. ASSUME NEW k \in Streams, SetOnline(k) PROVE ReleaseInv'
    BY <2>16 DEF SetOnline
  <2>17. ASSUME NEW k \in Streams, Close(k) PROVE ReleaseInv'
    BY <2>17 DEF Close
  <2>18. ASSUME NEW k \in Streams, DeleteStream(k) PROVE ReleaseInv'
    BY <2>18 DEF DeleteStream
  <2>19. ASSUME NEW p \in PreConnects, PreConnect(p) PROVE ReleaseInv'
    BY <2>19 DEF PreConnect
  <2>20. QED
    BY <2>1, <2>2, <2>3, <2>4, <2>5, <2>6, <2>7, <2>8, <2>9, <2>10, <2>11, <2>12,
       <2>13, <2>14, <2>15, <2>16, <2>17, <2>18, <2>19 DEF Next
<1>3. TypeOK /\ ReleaseInv => ListedAreReleased
  BY DEF TypeOK, ReleaseInv, Replaced, Registered, ListedAreReleased
<1>4. QED
  BY <1>1, <1>2, <1>3, TypeCorrect, SenderInvariant, PTL DEF Spec
=============================================================================
