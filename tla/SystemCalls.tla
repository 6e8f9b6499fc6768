----------------------------- MODULE SystemCalls -----------------------------
(***************************************************************************)
(* Calls of the gateway to an agent outside of any session:                *)
(* RunDBProvisioner, BareExec, RunPgManagerPlan, RunPgManagerApply and     *)
(* RunRunbookHook (gateway/transport/system), which share one shape; the   *)
(* answers, that the loops of the agent streams give to Send (queue.go); and *)
(* the agent's goroutines (agent/controller/system), with the lock of the  *)
(* provisioner.                                                            *)
(*                                                                         *)
(* A call makes an unbuffered channel, stores it under its key, sends the  *)
(* request and selects on the channel and a timeout; its deferred function *)
(* removes the key and closes the channel.  Send pops the channel and offers *)
(* the answer without blocking.  The hooks of one session share one key.   *)
(* Nothing recovers a panic of a gRPC handler: the gateway stops.          *)
(***************************************************************************)
EXTENDS Naturals

CONSTANTS Calls, Keys, Key,        \* calls, and the id each is stored under
          Resources, Resource,     \* databases, and the one a call provisions, or None
          Streams,                 \* loops that receive from the agent
          None

ASSUME CallsAssumption ==
    /\ Key \in [Calls -> Keys]
    /\ Resource \in [Calls -> Resources \union {None}]
    /\ None \notin Calls \union Resources
    /\ Calls \intersect {"none", "timeout", "failed"} = {}

VARIABLES systemStore,  \* the channel stored under each key, named by its call
          call,         \* where each call is
          result,       \* what it returns: the call that was answered, or an error
          agent,        \* where the agent's goroutine for the call is
          lock,         \* memoryStore of the provisioner
          answers,      \* the answers on their way to the gateway
          hold, carry,  \* the channel a loop has popped, and the answer it carries
          lost,         \* history: the calls whose answer the agent could not send, or
                        \* whose channel took none
          panicked      \* a send on a closed channel

gatewayVars == <<systemStore, call, result>>
agentVars   == <<agent, lock>>
loopVars    == <<hold, carry, lost, panicked>>
vars == <<gatewayVars, agentVars, answers, loopVars>>

Init ==
    /\ systemStore = [k \in Keys |-> None]
    /\ call = [c \in Calls |-> "new"]
    /\ result = [c \in Calls |-> "none"]
    /\ agent = [c \in Calls |-> "none"]
    /\ lock = {} /\ answers = {}
    /\ hold = [k \in Streams |-> None] /\ carry = [k \in Streams |-> None]
    /\ lost = {} /\ panicked = FALSE

Step(c, at, to) == call[c] = at /\ call' = [call EXCEPT ![c] = to]
Work(c, at, to) == agent[c] = at /\ agent' = [agent EXCEPT ![c] = to]

-----------------------------------------------------------------------------
(* The caller *)

\* GetAgentStream finds no stream of the agent.
AgentOffline(c) ==
    /\ Step(c, "new", "returned")
    /\ result' = [result EXCEPT ![c] = "failed"]
    /\ UNCHANGED <<systemStore, agentVars, answers, loopVars>>

Register(c) ==
    /\ Step(c, "new", "registered")
    /\ systemStore' = [systemStore EXCEPT ![Key[c]] = c]
    /\ UNCHANGED <<result, agentVars, answers, loopVars>>

\* Mutant: the request is sent before the channel is stored.
SendFirst(c) ==
    /\ Step(c, "new", "sent")
    /\ Work(c, "none", "got")
    /\ UNCHANGED <<systemStore, result, lock, answers, loopVars>>

SendRequest(c) ==
    /\ Step(c, "registered", "sent")
    /\ Work(c, "none", "got")
    /\ UNCHANGED <<systemStore, result, lock, answers, loopVars>>

\* The request cannot be encoded, or Send returns an error.
SendFails(c) ==
    /\ Step(c, "registered", "leaving")
    /\ result' = [result EXCEPT ![c] = "failed"]
    /\ UNCHANGED <<systemStore, agentVars, answers, loopVars>>

\* The select starts to receive.
Wait(c) ==
    /\ Step(c, "sent", "waiting")
    /\ UNCHANGED <<systemStore, result, agentVars, answers, loopVars>>

Timeout(c) ==
    /\ Step(c, "waiting", "leaving")
    /\ result' = [result EXCEPT ![c] = "timeout"]
    /\ UNCHANGED <<systemStore, agentVars, answers, loopVars>>

\* The deferred function: the key is removed, whatever channel it holds by now, and the
\* channel is closed.
DelKey(c) ==
    /\ Step(c, "leaving", "returned")
    /\ systemStore' = [systemStore EXCEPT ![Key[c]] = None]
    /\ UNCHANGED <<result, agentVars, answers, loopVars>>

-----------------------------------------------------------------------------
(* The agent *)

\* sendResponse: the error of Send is discarded, or only logged, and the stream may
\* break before the packet arrives.
SendResponse(c) ==
    \/ answers' = answers \union {c} /\ UNCHANGED lost
    \/ lost' = lost \union {c} /\ UNCHANGED answers

\* Bare executions, hooks and plans take no lock: they run, and answer.
Execute(c) ==
    /\ Resource[c] = None /\ Work(c, "got", "end")
    /\ SendResponse(c)
    /\ UNCHANGED <<gatewayVars, lock, hold, carry, panicked>>

\* processDBProvisionerRequest: Has, and an error when the resource is locked ...
HasLock(c) ==
    /\ Resource[c] # None
    /\ IF Resource[c] \in lock
       THEN Work(c, "got", "end") /\ SendResponse(c)
       ELSE Work(c, "got", "unlocked") /\ UNCHANGED <<answers, lost>>
    /\ UNCHANGED <<gatewayVars, lock, hold, carry, panicked>>

\* ... then Set ...
SetLock(c) ==
    /\ Work(c, "unlocked", "running")
    /\ lock' = lock \union {Resource[c]}
    /\ UNCHANGED <<gatewayVars, answers, loopVars>>

\* ... and, on every path, an answer ...
Answer(c) ==
    /\ Work(c, "running", "answered")
    /\ SendResponse(c)
    /\ UNCHANGED <<gatewayVars, lock, hold, carry, panicked>>

\* Mutant: the lock is left when the answer was sent.
NoDelLock(c) ==
    /\ Work(c, "answered", "end")
    /\ UNCHANGED <<gatewayVars, lock, answers, loopVars>>

\* ... before the deferred Del.
DelLock(c) ==
    /\ Work(c, "answered", "end")
    /\ lock' = lock \ {Resource[c]}
    /\ UNCHANGED <<gatewayVars, answers, loopVars>>

-----------------------------------------------------------------------------
(* Send *)

\* Mutant: the channel is left in the store.
GetChannel(k) ==
    /\ hold[k] = None
    /\ \E r \in answers :
          /\ answers' = answers \ {r}
          /\ hold' = [hold EXCEPT ![k] = systemStore[Key[r]]]
          /\ carry' = [carry EXCEPT ![k] = IF systemStore[Key[r]] = None THEN None ELSE r]
    /\ UNCHANGED <<gatewayVars, agentVars, lost, panicked>>

\* The channel is popped by the id of the packet.  Without one the answer is lost.
PopChannel(k) ==
    /\ hold[k] = None
    /\ \E r \in answers :
          /\ answers' = answers \ {r}
          /\ hold' = [hold EXCEPT ![k] = systemStore[Key[r]]]
          /\ carry' = [carry EXCEPT ![k] = IF systemStore[Key[r]] = None THEN None ELSE r]
          /\ systemStore' = [systemStore EXCEPT ![Key[r]] = None]
    /\ UNCHANGED <<call, result, agentVars, lost, panicked>>

Release(k) == /\ hold' = [hold EXCEPT ![k] = None]
              /\ carry' = [carry EXCEPT ![k] = None]

\* The call is in its select and takes the answer.
Deliver(k) ==
    /\ hold[k] # None
    /\ Step(hold[k], "waiting", "leaving")
    /\ result' = [result EXCEPT ![hold[k]] = carry[k]]
    /\ Release(k)
    /\ UNCHANGED <<systemStore, agentVars, answers, lost, panicked>>

\* Nobody receives: the default case drops the answer.
Drop(k) ==
    /\ hold[k] # None /\ call[hold[k]] \notin {"waiting", "returned"}
    /\ lost' = lost \union {hold[k]}
    /\ Release(k)
    /\ UNCHANGED <<gatewayVars, agentVars, answers, panicked>>

\* A send on a closed channel.
Panic(k) ==
    /\ hold[k] # None /\ call[hold[k]] = "returned"
    /\ panicked' = TRUE
    /\ UNCHANGED <<gatewayVars, agentVars, answers, hold, carry, lost>>

-----------------------------------------------------------------------------
Next ==
    /\ ~panicked
    /\ \/ \E c \in Calls : \/ AgentOffline(c) \/ Register(c) \/ SendRequest(c) \/ SendFails(c)
                           \/ Wait(c) \/ Timeout(c) \/ DelKey(c)
                           \/ Execute(c) \/ HasLock(c) \/ SetLock(c) \/ Answer(c) \/ DelLock(c)
       \/ \E k \in Streams : PopChannel(k) \/ Deliver(k) \/ Drop(k) \/ Panic(k)

Spec == Init /\ [][Next]_vars

-----------------------------------------------------------------------------
(* Properties *)

Begun  == {"registered", "sent", "waiting", "leaving"}
Over   == {"leaving", "returned"}
\* No other call of its key has begun.
Alone(c) == \A d \in Calls : Key[d] = Key[c] => d = c \/ call[d] = "new"

\* Every variable has its type.
TypeOK ==
    /\ systemStore \in [Keys -> Calls \union {None}]
    /\ call \in [Calls -> Begun \union {"new", "returned"}]
    /\ result \in [Calls -> Calls \union {"none", "timeout", "failed"}]
    /\ agent \in [Calls -> {"none", "got", "unlocked", "running", "answered", "end"}]
    /\ lock \subseteq Resources /\ answers \subseteq Calls /\ lost \subseteq Calls
    /\ hold \in [Streams -> Calls \union {None}]
    /\ carry \in [Streams -> Calls \union {None}]
    /\ panicked \in BOOLEAN

\* Send, and Set before the request is sent: as long as a call waits, the answer to it
\* finds its channel, unless the agent could not send it, or it came before the select
\* and was dropped, or another call of the key has begun.
WaitingIsReachable ==
    \A c \in Calls : call[c] = "waiting" /\ Alone(c) =>
        \/ systemStore[Key[c]] = c /\ (agent[c] \notin {"answered", "end"} \/ c \in answers)
        \/ \E k \in Streams : hold[k] = c /\ carry[k] = c
        \/ c \in lost

\* Send pops the channel, so that one answer at most is offered to it: a channel that a
\* loop holds when its call is over is one whose call got no answer.  Only such a loop
\* can bring the gateway down.
OnlyLateAnswersPanic ==
    \A k \in Streams : hold[k] # None /\ call[hold[k]] \in Over =>
        result[hold[k]] \in {"timeout", "failed"}

\* processDBProvisionerRequest: a resource is locked only while a request that locked it
\* is at work, so a request that is told the process is already being executed is told
\* the truth, and none is refused for ever.
LockedIsRunning ==
    \A r \in lock : \E c \in Calls : Resource[c] = r /\ agent[c] \in {"running", "answered"}
=============================================================================
