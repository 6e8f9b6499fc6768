---------------------------- MODULE ConnRequests ----------------------------
(***************************************************************************)
(* The rendezvous of clients with an agent that may be offline             *)
(* (gateway/transport/connectionrequests/requests.go): a client that finds *)
(* no agent stream registers a channel under its session id and waits      *)
(* fifteen seconds on it; an agent that connects, or calls PreConnect,     *)
(* pops the registered channels and answers on each.  The agent streams    *)
(* are those of gateway/transport/streamclient/agent.go.                   *)
(*                                                                         *)
(* One agent of one organisation.  Every call of a memory.Store            *)
(* (common/memory/memory.go) runs under its mutex and is one step; between *)
(* the calls of one function any other goroutine may run.  A channel is    *)
(* named by the client that made it.                                       *)
(***************************************************************************)
EXTENDS Integers, FiniteSets

CONSTANTS Clients, Sids, SidOf,  \* client streams and their session ids
          Streams,               \* Connect calls of the agent
          PreConnects,           \* PreConnect calls of the agent
          MaxCalls,              \* bound: agent calls in one behaviour
          None

ASSUME SidAssumption == SidOf \in [Clients -> Sids]
ASSUME NamesAssumption ==
    /\ None \notin Clients \union Streams
    /\ MaxCalls \in Nat
    /\ Streams \intersect PreConnects = {}

VARIABLES agentStore,  \* the agent's stream in agentStore
          requests,    \* requestConnectionStore: the channel of each session id
          client,      \* where each requestProxyConnection is
          agent,       \* where each agent call is
          failed,      \* the error each agent call answers with is not nil
          keys,        \* the session ids left in each AcceptProxyConnection's loop
          holds,       \* the channel it popped and sends on
          listed,      \* history: the channels its listing found
          crashed      \* a send on a closed channel: the process is gone

vars == <<agentStore, requests, client, agent, failed, keys, holds, listed, crashed>>
acceptVars == <<failed, keys, holds, listed>>

Acceptors == Streams \union PreConnects

Init ==
    /\ agentStore = None
    /\ requests = [s \in Sids |-> None]
    /\ client = [c \in Clients |-> "new"]
    /\ agent  = [a \in Acceptors |-> "new"]
    /\ failed = [a \in Acceptors |-> FALSE]
    /\ keys   = [a \in Acceptors |-> {}]
    /\ holds  = [a \in Acceptors |-> None]
    /\ listed = [a \in Acceptors |-> {}]
    /\ crashed = FALSE

Client(c, at, to) == client[c] = at /\ client' = [client EXCEPT ![c] = to]
Agent(a, at, to)  == agent[a] = at /\ agent' = [agent EXCEPT ![a] = to]
MayCall == Cardinality({a \in Acceptors : agent[a] # "new"}) < MaxCalls

-----------------------------------------------------------------------------
(* requestProxyConnection and RequestProxyConnection *)

IsAgentOnline(c) ==
    /\ Client(c, "new", IF agentStore # None THEN "connected" ELSE "offline")
    /\ UNCHANGED <<agentStore, requests, agent, acceptVars, crashed>>

\* The Get of RequestProxyConnection: ErrAlreadyInProgress.
CheckInProgress(c) ==
    /\ Client(c, "offline", IF requests[SidOf[c]] # None THEN "refused" ELSE "free")
    /\ UNCHANGED <<agentStore, requests, agent, acceptVars, crashed>>

\* The Set, whatever was stored since the Get.
Register(c) ==
    /\ Client(c, "free", "waiting")
    /\ requests' = [requests EXCEPT ![SidOf[c]] = c]
    /\ UNCHANGED <<agentStore, agent, acceptVars, crashed>>

\* The select takes the timeout.
Expire(c) ==
    /\ Client(c, "waiting", "expired")
    /\ UNCHANGED <<agentStore, requests, agent, acceptVars, crashed>>

\* The Del of its session id, whoever's channel is stored there.
Unregister(c) ==
    /\ Client(c, "expired", "closing")
    /\ requests' = [requests EXCEPT ![SidOf[c]] = None]
    /\ UNCHANGED <<agentStore, agent, acceptVars, crashed>>

\* The deferred close of the channel.
CloseChannel(c) ==
    /\ Client(c, "closing", "timeout")
    /\ UNCHANGED <<agentStore, requests, agent, acceptVars, crashed>>

-----------------------------------------------------------------------------
(* AcceptProxyConnection, called from subscribeAgent and AgentPreConnect *)

\* connectionRequestItems
ListRequests(a) ==
    LET found == {s \in Sids : requests[s] # None} IN
    /\ Agent(a, "accept", "releasing")
    /\ keys' = [keys EXCEPT ![a] = found]
    /\ listed' = [listed EXCEPT ![a] = {requests[s] : s \in found}]
    /\ UNCHANGED <<agentStore, requests, client, failed, holds, crashed>>

\* Mutant: the stored channel stays in the store.
PopRequestGets(a, s) ==
    /\ agent[a] = "releasing" /\ holds[a] = None /\ s \in keys[a]
    /\ holds' = [holds EXCEPT ![a] = requests[s]]
    /\ keys' = [keys EXCEPT ![a] = @ \ {s}]
    /\ UNCHANGED <<agentStore, requests, client, agent, failed, listed, crashed>>

\* Mutant: only the first of the listed requests is released.
PopRequestFirst(a, s) ==
    /\ agent[a] = "releasing" /\ holds[a] = None /\ s \in keys[a]
    /\ holds' = [holds EXCEPT ![a] = requests[s]]
    /\ requests' = [requests EXCEPT ![s] = None]
    /\ keys' = [keys EXCEPT ![a] = {}]
    /\ UNCHANGED <<agentStore, client, agent, failed, listed, crashed>>

\* The Pop of the next key: nothing may be left, or another client's channel.
PopRequest(a, s) ==
    /\ agent[a] = "releasing" /\ holds[a] = None /\ s \in keys[a]
    /\ holds' = [holds EXCEPT ![a] = requests[s]]
    /\ requests' = [requests EXCEPT ![s] = None]
    /\ keys' = [keys EXCEPT ![a] = @ \ {s}]
    /\ UNCHANGED <<agentStore, client, agent, failed, listed, crashed>>

\* The send meets the client's receive; RequestProxyConnection returns the error.
Send(a) ==
    /\ holds[a] # None
    /\ Client(holds[a], "waiting", IF failed[a] THEN "refused" ELSE "connected")
    /\ holds' = [holds EXCEPT ![a] = None]
    /\ UNCHANGED <<agentStore, requests, agent, failed, keys, listed, crashed>>

\* Two seconds pass: the client has left its select.
SendTimeout(a) ==
    /\ holds[a] # None
    /\ client[holds[a]] \in {"expired", "closing"}
    /\ holds' = [holds EXCEPT ![a] = None]
    /\ UNCHANGED <<agentStore, requests, client, agent, failed, keys, listed, crashed>>

\* The channel is closed under the send.
SendOnClosed(a) ==
    /\ holds[a] # None
    /\ client[holds[a]] = "timeout"
    /\ crashed' = TRUE
    /\ UNCHANGED <<agentStore, requests, client, agent, acceptVars>>

\* The loop ends and its locals are gone.  A stream that could be saved goes on
\* receiving packets.
Accepted(a) ==
    /\ keys[a] = {} /\ holds[a] = None
    /\ Agent(a, "releasing", IF a \in Streams /\ ~failed[a] THEN "up" ELSE "gone")
    /\ failed' = [failed EXCEPT ![a] = FALSE]
    /\ listed' = [listed EXCEPT ![a] = {}]
    /\ UNCHANGED <<agentStore, requests, client, keys, holds, crashed>>

-----------------------------------------------------------------------------
(* AgentStream.Save, subscribeAgent and Close; AgentPreConnect *)

\* validate fails or another stream is stored: the requests are answered with
\* the error.
Save(k) ==
    /\ k \in Streams /\ MayCall
    /\ \/ /\ Agent(k, "new", "accept")
          /\ failed' = [failed EXCEPT ![k] = TRUE]
       \/ /\ agentStore = None
          /\ Agent(k, "new", "saving")
          /\ UNCHANGED failed
    /\ UNCHANGED <<agentStore, requests, client, keys, holds, listed, crashed>>

\* The Set, whatever was stored since the Get.
StoreStream(k) ==
    /\ Agent(k, "saving", "saved")
    /\ agentStore' = k
    /\ UNCHANGED <<requests, client, acceptVars, crashed>>

\* Mutant: the stream of an agent that could not be set online stays stored.
SetOnlineKeeps(k) ==
    /\ Agent(k, "saved", "accept")
    /\ failed' \in {failed, [failed EXCEPT ![k] = TRUE]}
    /\ UNCHANGED <<agentStore, requests, client, keys, holds, listed, crashed>>

\* connectionstatus.SetOnline; when it fails the key is deleted again.
SetOnline(k) ==
    /\ Agent(k, "saved", "accept")
    /\ \/ UNCHANGED <<agentStore, failed>>
       \/ failed' = [failed EXCEPT ![k] = TRUE] /\ agentStore' = None
    /\ UNCHANGED <<requests, client, keys, holds, listed, crashed>>

\* The stream ends: Close looks whether the key is stored ...
Close(k) ==
    /\ Agent(k, "up", IF agentStore # None THEN "leaving" ELSE "gone")
    /\ UNCHANGED <<agentStore, requests, client, acceptVars, crashed>>

\* ... and deletes it, whoever's stream is stored there.
DeleteStream(k) ==
    /\ Agent(k, "leaving", "gone")
    /\ agentStore' = None
    /\ UNCHANGED <<requests, client, acceptVars, crashed>>

\* AgentPreConnect answers the requests when an agent is online or the
\* connection could not be synchronised.
PreConnect(p) ==
    /\ p \in PreConnects /\ MayCall
    /\ \E syncErr \in BOOLEAN :
          /\ Agent(p, "new", IF agentStore # None \/ syncErr THEN "accept" ELSE "gone")
          /\ failed' = [failed EXCEPT ![p] = syncErr]
    /\ UNCHANGED <<agentStore, requests, client, keys, holds, listed, crashed>>

-----------------------------------------------------------------------------
Next ==
    /\ ~crashed
    /\ \/ \E c \in Clients : \/ IsAgentOnline(c) \/ CheckInProgress(c) \/ Register(c)
                             \/ Expire(c) \/ Unregister(c) \/ CloseChannel(c)
       \/ \E a \in Acceptors : \/ ListRequests(a) \/ (\E s \in Sids : PopRequest(a, s))
                               \/ Send(a) \/ SendTimeout(a) \/ SendOnClosed(a) \/ Accepted(a)
       \/ \E k \in Streams : Save(k) \/ StoreStream(k) \/ SetOnline(k) \/ Close(k) \/ DeleteStream(k)
       \/ \E p \in PreConnects : PreConnect(p)

Spec == Init /\ [][Next]_vars

-----------------------------------------------------------------------------
(* Properties *)

ClientStates == {"new", "offline", "free", "waiting", "expired", "closing",
                 "timeout", "refused", "connected"}
AgentStates  == {"new", "saving", "saved", "accept", "releasing", "up", "leaving", "gone"}

\* Every variable has its type.
TypeOK ==
    /\ agentStore \in Streams \union {None}
    /\ requests \in [Sids -> Clients \union {None}]
    /\ client \in [Clients -> ClientStates]
    /\ agent \in [Acceptors -> AgentStates]
    /\ failed \in [Acceptors -> BOOLEAN]
    /\ keys \in [Acceptors -> SUBSET Sids]
    /\ holds \in [Acceptors -> Clients \union {None}]
    /\ listed \in [Acceptors -> SUBSET Clients]
    /\ crashed \in BOOLEAN

\* AcceptProxyConnection: the agent calls that race on the store never answer
\* on the same channel, and a channel one of them answers on can no longer be
\* found: a request is answered at most once.
OneSender ==
    \A c \in Clients, a \in Acceptors :
        holds[a] = c => /\ requests[SidOf[c]] # c
                        /\ \A b \in Acceptors : holds[b] = c => b = a

\* AgentStream.Save and Close: the stream clients are sent to is never one whose
\* handler is over, although the store is tested, set and deleted in separate
\* steps and Close deletes whatever stream is stored.
StoredStreamIsLive ==
    agentStore # None => agent[agentStore] \in {"saved", "accept", "releasing", "up", "leaving"}

\* AcceptProxyConnection releases the requests it found: at the end of its loop
\* none of them waits any more, unless another agent call is about to answer it or
\* there was a second request for the same session id, which may have replaced it in
\* the store.
ListedAreReleased ==
    \A a \in Acceptors : agent[a] = "releasing" /\ keys[a] = {} /\ holds[a] = None =>
        \A c \in listed[a] :
            \/ client[c] # "waiting"
            \/ \E b \in Acceptors : holds[b] = c
            \/ \E d \in Clients \ {c} : /\ SidOf[d] = SidOf[c]
                                        /\ client[d] \notin {"new", "offline", "free"}
=============================================================================
