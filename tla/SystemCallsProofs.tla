-------------------------- MODULE SystemCallsProofs --------------------------
(***************************************************************************)
(* Proofs about SystemCalls: which channel a loop may hold, and that the   *)
(* answer to a call that waits still finds its channel.                    *)
(***************************************************************************)
EXTENDS SystemCalls, TLAPS

\* The answer of a call is on its way only when the agent gave it, and the agent knows
\* only of calls whose request was sent.
AgentFollows ==
    /\ \A c \in answers : agent[c] \in {"answered", "end"}
    /\ \A c \in Calls : /\ call[c] \in {"new", "registered"} => agent[c] = "none"
                        /\ agent[c] \in {"unlocked", "running", "answered"} => Resource[c] # None

\* A channel is stored under the key of its call.
StoredUnderKey == \A k \in Keys : systemStore[k] # None => Key[systemStore[k]] = k

\* A stored channel is not closed: its call has not returned.
StoredBegun == \A k \in Keys : systemStore[k] # None => call[systemStore[k]] \in Begun

\* A call has a result when it is over, and its channel takes one answer at most: a
\* channel that is stored or held has taken none.
Unanswered(c) == result[c] \in {"none", "timeout", "failed"}
AnsweredOnce ==
    /\ \A c \in Calls : result[c] = "none" <=> call[c] \notin Over
    /\ \A k \in Keys : systemStore[k] # None => Unanswered(systemStore[k])
    /\ \A k \in Streams : hold[k] # None => Unanswered(hold[k])

\* A loop holds a channel that was stored and is no longer, alone, with an answer to a
\* call of the same key.
HeldAlone ==
    \A k \in Streams : hold[k] # None =>
        /\ carry[k] \in Calls /\ Key[carry[k]] = Key[hold[k]]
        /\ systemStore[Key[hold[k]]] # hold[k]
        /\ call[hold[k]] # "new"
        /\ \A j \in Streams : hold[j] = hold[k] => j = k

\* WaitingIsReachable, from the moment the call is registered.
Reachable ==
    \A c \in Calls : call[c] \in {"registered", "sent", "waiting"} /\ Alone(c) =>
        \/ systemStore[Key[c]] = c /\ (agent[c] \notin {"answered", "end"} \/ c \in answers)
        \/ \E k \in Streams : hold[k] = c /\ carry[k] = c
        \/ c \in lost

CallInv ==
    /\ TypeOK /\ AgentFollows /\ StoredUnderKey /\ StoredBegun /\ HeldAlone
    /\ AnsweredOnce /\ Reachable /\ LockedIsRunning

LEMMA CallInvariant == Spec => []CallInv
<1> USE CallsAssumption DEF gatewayVars, agentVars, loopVars
<1>1. Init => CallInv
  BY DEF Init, CallInv, TypeOK, AgentFollows, StoredUnderKey, StoredBegun, HeldAlone,
     AnsweredOnce, Unanswered, Reachable, LockedIsRunning, Begun, Over
<1>2. CallInv /\ [Next]_vars => CallInv'
  <2> SUFFICES ASSUME CallInv, [Next]_vars PROVE CallInv'
    OBVIOUS
  <2> USE DEF CallInv, TypeOK, Begun, Step, Work, Release
  <2>1. CASE UNCHANGED vars
    BY <2>1 DEF vars, AgentFollows, StoredUnderKey, StoredBegun, HeldAlone, AnsweredOnce,
       Reachable, LockedIsRunning, Alone, Over, Unanswered
  <2>2. ASSUME NEW c \in Calls, AgentOffline(c) PROVE CallInv'
    <3>1. TypeOK'
      BY <2>2 DEF AgentOffline
    <3>2. AgentFollows'
      BY <2>2 DEF AgentOffline, AgentFollows
    <3>3. StoredBegun'
      BY <2>2 DEF AgentOffline, StoredBegun, StoredUnderKey
    <3>4. HeldAlone'
      BY <2>2 DEF AgentOffline, HeldAlone, StoredUnderKey, StoredBegun
    <3>5. AnsweredOnce'
      BY <2>2 DEF AgentOffline, AnsweredOnce, Unanswered, HeldAlone, StoredUnderKey, StoredBegun, Over
    <3>6. Reachable'
      BY <2>2 DEF AgentOffline, Reachable, AgentFollows, Alone, StoredUnderKey, HeldAlone
    <3>7. StoredUnderKey' /\ LockedIsRunning'
      BY <2>2 DEF AgentOffline, StoredUnderKey, LockedIsRunning
    <3>8. QED
      BY <3>1, <3>2, <3>3, <3>4, <3>5, <3>6, <3>7
  <2>3. ASSUME NEW c \in Calls, Register(c) PROVE CallInv'
    <3>1. TypeOK'
      BY <2>3 DEF Register
    <3>2. AgentFollows'
      BY <2>3 DEF Register, AgentFollows
    <3>3. StoredUnderKey'
      BY <2>3 DEF Register, StoredUnderKey
    <3>4. StoredBegun'
      BY <2>3 DEF Register, StoredBegun, StoredUnderKey
    <3>5. HeldAlone'
      BY <2>3 DEF Register, HeldAlone, StoredUnderKey, StoredBegun
    <3>6. AnsweredOnce'
      BY <2>3 DEF Register, AnsweredOnce, Unanswered, HeldAlone, StoredUnderKey, StoredBegun, Over
    <3>7. Reachable'
      BY <2>3 DEF Register, Reachable, AgentFollows, Alone, StoredUnderKey, HeldAlone
    <3>8. LockedIsRunning'
      BY <2>3 DEF Register, LockedIsRunning
    <3>9. QED
      BY <3>1, <3>2, <3>3, <3>4, <3>5, <3>6, <3>7, <3>8
  <2>4. ASSUME NEW c \in Calls, SendRequest(c) PROVE CallInv'
    <3>1. TypeOK'
      BY <2>4 DEF SendRequest
    <3>2. AgentFollows'
      BY <2>4 DEF SendRequest, AgentFollows
    <3>3. StoredBegun'
      BY <2>4 DEF SendRequest, StoredBegun, StoredUnderKey
    <3>4. HeldAlone'
      BY <2>4 DEF SendRequest, HeldAlone, StoredUnderKey, StoredBegun
    <3>5. AnsweredOnce'
      BY <2>4 DEF SendRequest, AnsweredOnce, Unanswered, HeldAlone, StoredUnderKey, StoredBegun, Over
    <3>6. Reachable'
      BY <2>4 DEF SendRequest, Reachable, AgentFollows, Alone, StoredUnderKey, HeldAlone
    <3>7. LockedIsRunning'
      BY <2>4 DEF SendRequest, LockedIsRunning, AgentFollows
    <3>8. StoredUnderKey'
      BY <2>4 DEF SendRequest, StoredUnderKey
    <3>9. QED
      BY <3>1, <3>2, <3>3, <3>4, <3>5, <3>6, <3>7, <3>8
  <2>5. ASSUME NEW c \in Calls, SendFails(c) PROVE CallInv'
    <3>1. TypeOK'
      BY <2>5 DEF SendFails
    <3>2. AgentFollows'
      BY <2>5 DEF SendFails, AgentFollows
    <3>3. StoredBegun'
      BY <2>5 DEF SendFails, StoredBegun, StoredUnderKey
    <3>4. HeldAlone'
      BY <2>5 DEF SendFails, HeldAlone, StoredUnderKey, StoredBegun
    <3>5. AnsweredOnce'
      BY <2>5 DEF SendFails, AnsweredOnce, Unanswered, HeldAlone, StoredUnderKey, StoredBegun, Over
    <3>6. Reachable'
      BY <2>5 DEF SendFails, Reachable, AgentFollows, Alone, StoredUnderKey, HeldAlone
    <3>7. StoredUnderKey' /\ LockedIsRunning'
      BY <2>5 DEF SendFails, StoredUnderKey, LockedIsRunning
    <3>8. QED
      BY <3>1, <3>2, <3>3, <3>4, <3>5, <3>6, <3>7
  <2>6. ASSUME NEW c \in Calls, Wait(c) PROVE CallInv'
    <3>1. TypeOK'
      BY <2>6 DEF Wait
    <3>2. AgentFollows'
      BY <2>6 DEF Wait, AgentFollows
    <3>3. StoredBegun'
      BY <2>6 DEF Wait, StoredBegun, StoredUnderKey
    <3>4. HeldAlone'
      BY <2>6 DEF Wait, HeldAlone, StoredUnderKey, StoredBegun
    <3>5. AnsweredOnce'
      BY <2>6 DEF Wait, AnsweredOnce, Unanswered, HeldAlone, StoredUnderKey, StoredBegun, Over
    <3>6. Reachable'
      BY <2>6 DEF Wait, Reachable, AgentFollows, Alone, StoredUnderKey, HeldAlone
    <3>7. StoredUnderKey' /\ LockedIsRunning'
      BY <2>6 DEF Wait, StoredUnderKey, LockedIsRunning
    <3>8. QED
      BY <3>1, <3>2, <3>3, <3>4, <3>5, <3>6, <3>7
  <2>7. ASSUME NEW c \in Calls, Timeout(c) PROVE CallInv'
    <3>1. TypeOK'
      BY <2>7 DEF Timeout
    <3>2. AgentFollows'
      BY <2>7 DEF Timeout, AgentFollows
    <3>3. StoredBegun'
      BY <2>7 DEF Timeout, StoredBegun, StoredUnderKey
    <3>4. HeldAlone'
      BY <2>7 DEF Timeout, HeldAlone, StoredUnderKey, StoredBegun
    <3>5. AnsweredOnce'
      BY <2>7 DEF Timeout, AnsweredOnce, Unanswered, HeldAlone, StoredUnderKey, StoredBegun, Over
    <3>6. Reachable'
      BY <2>7 DEF Timeout, Reachable, AgentFollows, Alone, StoredUnderKey, HeldAlone
    <3>7. StoredUnderKey' /\ LockedIsRunning'
      BY <2>7 DEF Timeout, StoredUnderKey, LockedIsRunning
    <3>8. QED
      BY <3>1, <3>2, <3>3, <3>4, <3>5, <3>6, <3>7
  <2>8. ASSUME NEW c \in Calls, DelKey(c) PROVE CallInv'
    <3>1. TypeOK'
      BY <2>8 DEF DelKey
    <3>2. AgentFollows'
      BY <2>8 DEF DelKey, AgentFollows
    <3>3. StoredUnderKey'
      BY <2>8 DEF DelKey, StoredUnderKey
    <3>4. StoredBegun'
      BY <2>8 DEF DelKey, StoredBegun, StoredUnderKey
    <3>5. HeldAlone'
      BY <2>8 DEF DelKey, HeldAlone, StoredUnderKey, StoredBegun
    <3>6. AnsweredOnce'
      BY <2>8 DEF DelKey, AnsweredOnce, Unanswered, HeldAlone, StoredUnderKey, StoredBegun, Over
    <3>7. Reachable'
      BY <2>8 DEF DelKey, Reachable, AgentFollows, Alone, StoredUnderKey, HeldAlone
    <3>8. LockedIsRunning'
      BY <2>8 DEF DelKey, LockedIsRunning
    <3>9. QED
      BY <3>1, <3>2, <3>3, <3>4, <3>5, <3>6, <3>7, <3>8
  <2>9. ASSUME NEW c \in Calls, Execute(c) PROVE CallInv'
    <3>1. TypeOK'
      BY <2>9 DEF Execute, SendResponse
    <3>2. AgentFollows'
      BY <2>9 DEF Execute, SendResponse, AgentFollows
    <3>3. Reachable'
      BY <2>9 DEF Execute, SendResponse, Reachable, AgentFollows, Alone, StoredUnderKey, HeldAlone
    <3>4. LockedIsRunning'
      BY <2>9 DEF Execute, SendResponse, LockedIsRunning, AgentFollows
    <3>5. StoredUnderKey' /\ StoredBegun' /\ HeldAlone' /\ AnsweredOnce'
      BY <2>9 DEF Execute, SendResponse, StoredUnderKey, StoredBegun, HeldAlone, AnsweredOnce, Over, Unanswered
    <3>6. QED
      BY <3>1, <3>2, <3>3, <3>4, <3>5
  <2>10. ASSUME NEW c \in Calls, HasLock(c) PROVE CallInv'
    <3>1. TypeOK'
      BY <2>10 DEF HasLock, SendResponse
    <3>2. AgentFollows'
      BY <2>10 DEF HasLock, SendResponse, AgentFollows
    <3>3. Reachable'
      BY <2>10 DEF HasLock, SendResponse, Reachable, AgentFollows, Alone, StoredUnderKey, HeldAlone
    <3>4. LockedIsRunning'
      BY <2>10 DEF HasLock, SendResponse, LockedIsRunning, AgentFollows
    <3>5. StoredUnderKey' /\ StoredBegun' /\ HeldAlone' /\ AnsweredOnce'
      BY <2>10 DEF HasLock, SendResponse, StoredUnderKey, StoredBegun, HeldAlone, AnsweredOnce, Over, Unanswered
    <3>6. QED
      BY <3>1, <3>2, <3>3, <3>4, <3>5
  <2>11. ASSUME NEW c \in Calls, SetLock(c) PROVE CallInv'
    <3>1. TypeOK'
      BY <2>11 DEF SetLock, AgentFollows, HeldAlone
    <3>2. AgentFollows'
      BY <2>11 DEF SetLock, AgentFollows
    <3>3. Reachable'
      BY <2>11 DEF SetLock, Reachable, AgentFollows, Alone, StoredUnderKey, HeldAlone
    <3>4. LockedIsRunning'
      BY <2>11 DEF SetLock, LockedIsRunning, AgentFollows
    <3>5. StoredUnderKey' /\ StoredBegun' /\ HeldAlone' /\ AnsweredOnce'
      BY <2>11 DEF SetLock, StoredUnderKey, StoredBegun, HeldAlone, AnsweredOnce, Over, Unanswered
    <3>6. QED
      BY <3>1, <3>2, <3>3, <3>4, <3>5
  <2>12. ASSUME NEW c \in Calls, Answer(c) PROVE CallInv'
    <3>1. TypeOK'
      BY <2>12 DEF Answer, SendResponse, AgentFollows, HeldAlone
    <3>2. AgentFollows'
      BY <2>12 DEF Answer, SendResponse, AgentFollows
    <3>3. Reachable'
      BY <2>12 DEF Answer, SendResponse, Reachable, AgentFollows, Alone, StoredUnderKey, HeldAlone
    <3>4. LockedIsRunning'
      BY <2>12 DEF Answer, SendResponse, LockedIsRunning, AgentFollows
    <3>5. StoredUnderKey' /\ StoredBegun' /\ HeldAlone' /\ AnsweredOnce'
      BY <2>12 DEF Answer, SendResponse, StoredUnderKey, StoredBegun, HeldAlone, AnsweredOnce, Over, Unanswered
    <3>6. QED
      BY <3>1, <3>2, <3>3, <3>4, <3>5
  <2>13. ASSUME NEW c \in Calls, DelLock(c) PROVE CallInv'
    <3>1. TypeOK'
      BY <2>13 DEF DelLock, AgentFollows, HeldAlone
    <3>2. AgentFollows'
      BY <2>13 DEF DelLock, AgentFollows
    <3>3. Reachable'
      BY <2>13 DEF DelLock, Reachable, AgentFollows, Alone, StoredUnderKey, HeldAlone
    <3>4. LockedIsRunning'
      BY <2>13 DEF DelLock, LockedIsRunning, AgentFollows
    <3>5. StoredUnderKey' /\ StoredBegun' /\ HeldAlone' /\ AnsweredOnce'
      BY <2>13 DEF DelLock, StoredUnderKey, StoredBegun, HeldAlone, AnsweredOnce, Over, Unanswered
    <3>6. QED
      BY <3>1, <3>2, <3>3, <3>4, <3>5
  <2>14. ASSUME NEW k \in Streams, PopChannel(k) PROVE CallInv'
    <3>1. TypeOK'
      BY <2>14 DEF PopChannel
    <3>2. AgentFollows'
      BY <2>14 DEF PopChannel, AgentFollows
    <3>3. StoredUnderKey'
      BY <2>14 DEF PopChannel, StoredUnderKey
    <3>4. StoredBegun'
      BY <2>14 DEF PopChannel, StoredBegun, StoredUnderKey
    <3>5. HeldAlone'
      BY <2>14 DEF PopChannel, HeldAlone, StoredUnderKey, StoredBegun
    <3>6. AnsweredOnce'
      BY <2>14 DEF PopChannel, AnsweredOnce, Unanswered, HeldAlone, StoredUnderKey, StoredBegun, Over
    <3>7. Reachable'
      BY <2>14 DEF PopChannel, Reachable, AgentFollows, Alone, StoredUnderKey, HeldAlone
    <3>8. LockedIsRunning'
      BY <2>14 DEF PopChannel, LockedIsRunning
    <3>9. QED
      BY <3>1, <3>2, <3>3, <3>4, <3>5, <3>6, <3>7, <3>8
  <2>15. ASSUME NEW k \in Streams, Deliver(k) PROVE CallInv'
    <3>1. TypeOK'
      BY <2>15 DEF Deliver, AgentFollows, HeldAlone
    <3>2. AgentFollows'
      BY <2>15 DEF Deliver, AgentFollows
    <3>3. StoredBegun'
      BY <2>15 DEF Deliver, StoredBegun, StoredUnderKey
    <3>4. HeldAlone'
      BY <2>15 DEF Deliver, HeldAlone, StoredUnderKey, StoredBegun
    <3>5. AnsweredOnce'
      BY <2>15 DEF Deliver, AnsweredOnce, Unanswered, HeldAlone, StoredUnderKey, StoredBegun, Over
    <3>6. Reachable'
      BY <2>15 DEF Deliver, Reachable, AgentFollows, Alone, StoredUnderKey, HeldAlone
    <3>7. StoredUnderKey' /\ LockedIsRunning'
      BY <2>15 DEF Deliver, StoredUnderKey, LockedIsRunning
    <3>8. QED
      BY <3>1, <3>2, <3>3, <3>4, <3>5, <3>6, <3>7
  <2>16. ASSUME NEW k \in Streams, Drop(k) PROVE CallInv'
    <3>1. TypeOK'
      BY <2>16 DEF Drop
    <3>2. HeldAlone'
      BY <2>16 DEF Drop, HeldAlone, StoredUnderKey, StoredBegun
    <3>3. AnsweredOnce'
      BY <2>16 DEF Drop, AnsweredOnce, Unanswered, HeldAlone, StoredUnderKey, StoredBegun, Over
    <3>4. Reachable'
      BY <2>16 DEF Drop, Reachable, AgentFollows, Alone, StoredUnderKey, HeldAlone
    <3>5. AgentFollows' /\ StoredUnderKey' /\ StoredBegun' /\ LockedIsRunning'
      BY <2>16 DEF Drop, AgentFollows, StoredUnderKey, StoredBegun, LockedIsRunning
    <3>6. QED
      BY <3>1, <3>2, <3>3, <3>4, <3>5
  <2>17. ASSUME NEW k \in Streams, Panic(k) PROVE CallInv'
    <3>1. TypeOK'
      BY <2>17 DEF Panic
    <3>2. AgentFollows' /\ StoredUnderKey' /\ StoredBegun' /\ HeldAlone' /\ AnsweredOnce' /\ Reachable' /\ LockedIsRunning'
      BY <2>17 DEF Panic, AgentFollows, StoredUnderKey, StoredBegun, HeldAlone, AnsweredOnce, Reachable, LockedIsRunning, Alone, Over, Unanswered
    <3>3. QED
      BY <3>1, <3>2
  <2> HIDE DEF CallInv
  <2>20. QED
    BY <2>1, <2>2, <2>3, <2>4, <2>5, <2>6, <2>7, <2>8, <2>9, <2>10, <2>11, <2>12, <2>13, <2>14,
       <2>15, <2>16, <2>17 DEF Next
<1>3. QED
  BY <1>1, <1>2, PTL DEF Spec

\* Whatever calls, agent and loops do, every variable keeps its type.
THEOREM CallTypeCorrect == Spec => []TypeOK
  BY CallInvariant, PTL DEF CallInv

\* Send: the answer to a call that waits, alone of its key, still finds its channel,
\* unless the agent could not send it or it came before the select.
THEOREM WaitingCorrect == Spec => []WaitingIsReachable
<1>1. CallInv => WaitingIsReachable
  BY DEF CallInv, Reachable, WaitingIsReachable
<1>2. QED
  BY <1>1, CallInvariant, PTL

\* Send: only an answer to a call that timed out or failed can meet a closed channel.
THEOREM LateCorrect == Spec => []OnlyLateAnswersPanic
<1>1. CallInv => OnlyLateAnswersPanic
  BY CallsAssumption DEF CallInv, TypeOK, AnsweredOnce, Unanswered, OnlyLateAnswersPanic, Over
<1>2. QED
  BY <1>1, CallInvariant, PTL

\* processDBProvisionerRequest never leaves a lock behind.
THEOREM LockCorrect == Spec => []LockedIsRunning
  BY CallInvariant, PTL DEF CallInv
=============================================================================
