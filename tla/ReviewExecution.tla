-------------------------- MODULE ReviewExecution ---------------------------
(***************************************************************************)
(* The execution of a one-time review: the HTTP handler RunReviewedExec    *)
(* (gateway/api/session/run-exec.go) and the MCP tool reviews_execute      *)
(* (gateway/api/mcpserver/tools_reviews.go) open a gateway session with the*)
(* reviewed session id, the access-request interceptor consumes the review *)
(* (accessrequest.go), the agent runs the input, the audit plugin marks    *)
(* the session done and settles the review (audit.go closeSession,         *)
(* models.SetReviewStatusExecutedIfFinished), and a restarted gateway      *)
(* reconciles what was left (models.ReconcileStaleReviews).  Reviewers go  *)
(* on deciding meanwhile: the actions of ReviewDecision interleave.        *)
(*                                                                         *)
(* Each execution has two threads: the handler (api) and the gateway       *)
(* session (run).  All executions of the review share the session id, under*)
(* which proxyStore holds one stream: the one saved last.  Who closes a    *)
(* stream finds it there (the agent's SessionClose, the agent's disconnect,*)
(* InitProxyMemoryCleanup), starts closeSession's goroutine (closer) and   *)
(* then deletes the id, whatever it holds by then (deleting).              *)
(***************************************************************************)
EXTENDS ReviewDecision

CONSTANTS HttpExecs, McpExecs,   \* calls of RunReviewedExec, of reviews_execute
          NoExec,                \* proxyStore has no stream of the session
          Closers,               \* goroutines that close streams
          ReviewPlugin,          \* the connection has the review plugin enabled
          DbFails,               \* database statements may fail
          MaxRestarts            \* bound on gateway restarts

Execs == HttpExecs \union McpExecs

ASSUME ExecAssumption ==
    /\ ReviewPlugin \in BOOLEAN /\ DbFails \in BOOLEAN /\ MaxRestarts \in Nat
    /\ NoExec \notin Execs

VARIABLES api,       \* where each handler is
          saw,       \* the review status its handler read
          run,       \* where each gateway session is
          httpLock,  \* mutexExecMap holds the session id
          mcpLock,   \* reviewsExecLock holds the session id
          ran,       \* history: how many times the agent was told to run
          granted,   \* history: the review was approved at some time
          restarts

VARIABLES stored,    \* the stream proxyStore holds under the session id
          closer,    \* closeSession's goroutine: idle, or what it does next
          deleting,  \* the stream whose Close, or removal, has yet to delete the id
          cut,       \* the streams cancelled while a packet of theirs is handled
          reconcile, \* ReconcileStaleReviews: pending, done or failed
          failed,    \* history: statements of closeSession that failed
          orphaned   \* history: a stream marked the review, or lived on, that no
                     \* close will find any more

execVars  == <<api, saw, run, httpLock, mcpLock, ran, granted, restarts>>
closeVars == <<stored, closer, deleting, cut, reconcile, failed, orphaned>>
vars      == <<decisionVars, execVars, closeVars>>

locks == <<httpLock, mcpLock>>

ExecInit ==
    /\ Init
    /\ api = [e \in Execs |-> "idle"]
    /\ saw = [e \in Execs |-> "PENDING"]
    /\ run = [e \in Execs |-> "none"]
    /\ httpLock = FALSE /\ mcpLock = FALSE
    /\ ran = 0 /\ granted = FALSE /\ restarts = 0
    /\ stored = NoExec
    /\ closer = [c \in Closers |-> "idle"]
    /\ deleting = [c \in Closers |-> NoExec]
    /\ cut = {} /\ reconcile = "done" /\ failed = {} /\ orphaned = FALSE

Api(e, at, to) == api[e] = at /\ api' = [api EXCEPT ![e] = to]
Run(e, at, to) == run[e] = at /\ run' = [run EXCEPT ![e] = to]

\* The deferred unlockExec, or the deferred delete from reviewsExecLock.
Unlock(e) == IF e \in HttpExecs THEN httpLock' = FALSE /\ UNCHANGED mcpLock
                                ELSE mcpLock' = FALSE  /\ UNCHANGED httpLock

\* UpdateReviewStatus: an unconditional write of the status column.
UpdateReviewStatus(st) ==
    /\ status' = st
    /\ granted' = (granted \/ st = "APPROVED")
    /\ UNCHANGED <<groups, session, request, draft, forced>>

-----------------------------------------------------------------------------
(* The handlers *)

\* GetReviewByIdOrSid.  reviews_execute stops here unless the review is one-time,
\* RunReviewedExec after it locked.
ReadReview(e) ==
    /\ Api(e, "idle", IF e \in McpExecs /\ ReviewType # "onetime" THEN "done" ELSE "read")
    /\ saw' = [saw EXCEPT ![e] = status]
    /\ UNCHANGED <<decisionVars, run, locks, ran, granted, restarts, closeVars>>

\* isLockedForExec: 409 when another call holds the lock.
IsLockedForExec(e) ==
    /\ e \in HttpExecs
    /\ Api(e, "read", IF httpLock THEN "done" ELSE "unlocked")
    /\ UNCHANGED <<decisionVars, saw, run, locks, ran, granted, restarts, closeVars>>

\* lockExec, a critical section of its own.
LockExec(e) ==
    /\ e \in HttpExecs
    /\ Api(e, "unlocked", "locked")
    /\ httpLock' = TRUE
    /\ UNCHANGED <<decisionVars, saw, run, mcpLock, ran, granted, restarts, closeVars>>

\* reviews_execute tests and sets its lock in one critical section.
LockMcp(e) ==
    /\ e \in McpExecs
    /\ Api(e, "read", IF mcpLock THEN "done" ELSE "locked")
    /\ mcpLock' = TRUE
    /\ UNCHANGED <<decisionVars, saw, run, httpLock, ran, granted, restarts, closeVars>>

\* canExecReviewedSession on the review read before the lock.  The HTTP handler
\* asks only when the connection has the review plugin.
MayExec(e) == /\ ReviewType = "onetime"
              /\ saw[e] = "APPROVED" \/ (e \in HttpExecs /\ ~ReviewPlugin)

\* The handler does not look at the review it read any more.
Forget(e) == saw' = [saw EXCEPT ![e] = "PENDING"]

\* Not one-time, not approved, another user's session, outside the time window,
\* or a lookup failed: the lock is released and nothing else changes.
RefuseExec(e) ==
    /\ Api(e, "locked", "done")
    /\ Unlock(e)
    /\ Forget(e)
    /\ UNCHANGED <<decisionVars, run, ran, granted, restarts, closeVars>>

\* clientexec asks for a gateway session, which fails when no agent answers or a
\* plugin refuses it.  Audit's OnConnect moves the session from ready to open
\* (SetSessionStatusOpenIfReady, whose failure is only logged), and Save puts the
\* stream in the store, in the place of an earlier one of the same session.
StartExec(e) ==
    /\ MayExec(e)
    /\ Api(e, "locked", "waiting")
    /\ \/ /\ Run(e, "none", "failed")
          /\ UNCHANGED stored
       \/ /\ Run(e, "none", "open")
          /\ stored' = e
    /\ \/ session' = IF session = "ready" THEN "open" ELSE session
       \/ (DbFails \/ run'[e] = "failed") /\ UNCHANGED session
    /\ Forget(e)
    /\ UNCHANGED <<status, groups, request, draft, forced, locks, ran, granted, restarts>>
    /\ UNCHANGED <<closer, deleting, cut, reconcile, failed, orphaned>>

Answered == {"failed", "refused", "unsent", "consent", "ended"}

\* The client returned: whatever the answer was, the HTTP handler writes
\* EXECUTED.  reviews_execute writes APPROVED back when the user still has to
\* connect an account.  A failed write is only logged.
Respond(e) ==
    /\ run[e] \in Answered
    /\ Api(e, "waiting", "done")
    /\ \/ UpdateReviewStatus(IF e \in McpExecs /\ run[e] = "consent" THEN "APPROVED"
                                                                  ELSE "EXECUTED")
       \/ DbFails /\ UNCHANGED <<decisionVars, granted>>
    /\ Unlock(e)
    /\ UNCHANGED <<saw, run, ran, restarts, closeVars>>

\* Fifty seconds passed: the handler returns, the session goes on.
TimeoutExec(e) ==
    /\ run[e] \notin Answered
    /\ Api(e, "waiting", "done")
    /\ Unlock(e)
    /\ UNCHANGED <<decisionVars, saw, run, ran, granted, restarts, closeVars>>

-----------------------------------------------------------------------------
(* The gateway session *)

\* Mutant: a review that is still pending passes.
InterceptPending(e) ==
    /\ Run(e, "open", CASE status = "APPROVED"                -> "mark"
                        [] status \in {"PENDING", "PROCESSING"} -> "go"
                        [] OTHER                               -> "refused")
    /\ UNCHANGED <<decisionVars, api, saw, locks, ran, granted, restarts, closeVars>>

\* getValidatedOneTimeReview reads the review again.
Intercept(e) ==
    /\ Run(e, "open", CASE status = "APPROVED"   -> "mark"
                        [] status = "PROCESSING" -> "go"
                        [] OTHER                 -> "refused")
    /\ UNCHANGED <<decisionVars, api, saw, locks, ran, granted, restarts, closeVars>>

\* ... and, when it read APPROVED, marks it PROCESSING or ends the stream.
MarkProcessing(e) ==
    /\ \/ /\ Run(e, "mark", "go")
          /\ UpdateReviewStatus("PROCESSING")
          /\ orphaned' = (orphaned \/ stored # e \/ \E c \in Closers : deleting[c] = e)
       \/ /\ DbFails
          /\ Run(e, "mark", "unsent")
          /\ UNCHANGED <<decisionVars, granted, orphaned>>
    /\ UNCHANGED <<api, saw, locks, ran, restarts>>
    /\ UNCHANGED <<stored, closer, deleting, cut, reconcile, failed>>

\* processClientPacket: SessionOpen is not sent (the agent went offline), or
\* federation asks for the user's consent, or the agent is told to run;
\* listenClientMessages then returns when the context was cancelled meanwhile.
OpenSession(e) ==
    \/ /\ \E out \in {"unsent", "consent"} : Run(e, "go", out)
       /\ UNCHANGED <<decisionVars, api, saw, locks, ran, granted, restarts, closeVars>>
    \/ /\ Run(e, "go", IF e \in cut THEN "ended" ELSE "running")
       /\ ran' = ran + 1
       /\ UNCHANGED <<decisionVars, api, saw, locks, granted, restarts, closeVars>>

-----------------------------------------------------------------------------
(* The end of the session *)

\* OnDisconnect of the audit plugin: closeSession starts its goroutine.
Disconnect(c, next) ==
    /\ closer[c] = "idle" /\ deleting[c] = NoExec
    /\ closer' = [closer EXCEPT ![c] = next]
    /\ UNCHANGED <<decisionVars, execVars, stored, cut, reconcile, failed, orphaned>>

\* Mutant: a stream that never reached the agent is not closed.
CloseRunning(c) ==
    /\ stored # NoExec /\ run[stored] = "running"
    /\ Disconnect(c, "mark")
    /\ deleting' = [deleting EXCEPT ![c] = stored]

\* ProxyStream.Close up to its Del, of the stream the store holds: after the
\* agent's SessionClose, when the agent disconnects, when the gateway shuts down,
\* or by InitProxyMemoryCleanup.
CloseStream(c) ==
    /\ stored # NoExec /\ run[stored] # "refused"
    /\ Disconnect(c, "mark")
    /\ deleting' = [deleting EXCEPT ![c] = stored]

\* A refused session is reviewed: all but the agent's SessionClose, of a run that
\* goes on without a stream of its own, only remove it from the store.
CloseReviewed(c) ==
    /\ stored # NoExec /\ run[stored] = "refused"
    /\ \/ Disconnect(c, "idle")
       \/ ran > 0 /\ Disconnect(c, "mark")
    /\ deleting' = [deleting EXCEPT ![c] = stored]

\* The rest of Close: the session id leaves the store, whichever stream holds it by
\* now, and the context of the closed one is cancelled: listenClientMessages
\* returns, at once when it waits for a packet.
Del(c) ==
    LET s == deleting[c] IN
    /\ s # NoExec
    /\ orphaned' = (orphaned \/ stored \notin {NoExec, s})
    /\ stored' = NoExec
    /\ run' = IF run[s] \in {"open", "running"} THEN [run EXCEPT ![s] = "ended"] ELSE run
    /\ cut' = IF run[s] \in {"mark", "go"} THEN cut \union {s} ELSE cut
    /\ deleting' = [deleting EXCEPT ![c] = NoExec]
    /\ UNCHANGED <<decisionVars, api, saw, locks, ran, granted, restarts>>
    /\ UNCHANGED <<closer, reconcile, failed>>

\* audit closeSession, first half: MarkSessionDone, whose failure is logged.
MarkSessionDone(c) ==
    /\ closer[c] = "mark"
    /\ closer' = [closer EXCEPT ![c] = "settle"]
    /\ \/ session' = "done" /\ UNCHANGED failed
       \/ DbFails /\ failed' = failed \union {"mark"} /\ UNCHANGED session
    /\ UNCHANGED <<status, groups, request, draft, forced, execVars>>
    /\ UNCHANGED <<stored, deleting, cut, reconcile, orphaned>>

\* Mutant: the review is settled while its session is open.
SettledWhileOpen == IF ReviewType = "onetime" /\ status = "PROCESSING" /\ session = "open"
                    THEN "EXECUTED" ELSE status

\* The status one UPDATE statement leaves: EXECUTED for a one-time review in
\* PROCESSING whose session is done, unchanged otherwise.
SettledStatus == IF ReviewType = "onetime" /\ status = "PROCESSING" /\ session = "done"
                 THEN "EXECUTED" ELSE status

\* audit closeSession, second half: SetReviewStatusExecutedIfFinished.
Settle(c) ==
    /\ closer[c] = "settle"
    /\ closer' = [closer EXCEPT ![c] = "idle"]
    /\ \/ UpdateReviewStatus(SettledStatus) /\ UNCHANGED failed
       \/ DbFails /\ failed' = failed \union {"settle"} /\ UNCHANGED <<decisionVars, granted>>
    /\ UNCHANGED <<api, saw, run, locks, ran, restarts>>
    /\ UNCHANGED <<stored, deleting, cut, reconcile, orphaned>>

\* The gateway stops: handlers, sessions, stores, locks and review requests in
\* flight are lost.  It starts again, with ReconcileStaleReviews in the background.
Restart ==
    /\ restarts < MaxRestarts
    /\ restarts' = restarts + 1
    /\ api' = [e \in Execs |-> IF api[e] = "idle" THEN "idle" ELSE "done"]
    /\ run' = [e \in Execs |-> IF run[e] \in {"none", "failed", "refused", "ended"}
                               THEN run[e] ELSE "lost"]
    /\ httpLock' = FALSE /\ mcpLock' = FALSE
    /\ request' = [r \in Requests |-> IF request[r] = "drafted" THEN "done" ELSE request[r]]
    /\ stored' = NoExec
    /\ closer' = [c \in Closers |-> "idle"]
    /\ deleting' = [c \in Closers |-> NoExec]
    /\ cut' = {}
    /\ reconcile' = "pending"
    /\ UNCHANGED <<status, groups, session, draft, forced, saw, ran, granted, failed, orphaned>>

\* ReconcileStaleReviews, once after the start, while the gateway serves; a failure
\* is only logged.  Its success makes up for what went before.
Reconcile ==
    /\ reconcile = "pending"
    /\ \/ /\ UpdateReviewStatus(SettledStatus)
          /\ reconcile' = "done" /\ failed' = {} /\ orphaned' = FALSE
       \/ /\ DbFails
          /\ reconcile' = "failed"
          /\ UNCHANGED <<decisionVars, granted, failed, orphaned>>
    /\ UNCHANGED <<api, saw, run, locks, ran, restarts, stored, closer, deleting, cut>>

Decide ==
    /\ DecisionNext
    /\ granted' = (granted \/ status' = "APPROVED")
    /\ UNCHANGED <<api, saw, run, locks, ran, restarts, closeVars>>

Gateway(e) == Intercept(e) \/ MarkProcessing(e) \/ OpenSession(e)

ExecNext ==
    \/ Decide
    \/ \E e \in Execs :
          \/ ReadReview(e) \/ IsLockedForExec(e) \/ LockExec(e) \/ LockMcp(e)
          \/ RefuseExec(e) \/ StartExec(e) \/ Respond(e) \/ TimeoutExec(e)
          \/ Gateway(e)
    \/ \E c \in Closers :
          \/ CloseStream(c) \/ CloseReviewed(c) \/ Del(c)
          \/ MarkSessionDone(c) \/ Settle(c)
    \/ Restart \/ Reconcile

ExecSpec == ExecInit /\ [][ExecNext]_vars

\* Handlers, gateway sessions, closes and the reconciliation are goroutines that
\* run on; the fifty seconds of a handler pass; a stream that stays in the store is
\* found by InitProxyMemoryCleanup after 48 hours.  Nothing is assumed of a stream
\* the store does not hold: nobody finds it.
FairExecSpec ==
    /\ ExecSpec
    /\ \A e \in Execs : WF_vars(Respond(e) \/ TimeoutExec(e)) /\ WF_vars(Gateway(e))
    /\ \A c \in Closers : WF_vars(Del(c)) /\ WF_vars(MarkSessionDone(c) \/ Settle(c))
    /\ WF_vars(\E c \in Closers : CloseStream(c))
    /\ WF_vars(Reconcile)

-----------------------------------------------------------------------------
(* Properties *)

ApiStates == {"idle", "read", "unlocked", "locked", "waiting", "done"}
RunStates == {"none", "open", "mark", "go", "running", "lost"} \union Answered

\* Every variable has its type.
ExecTypeOK ==
    /\ TypeOK
    /\ api \in [Execs -> ApiStates]
    /\ saw \in [Execs -> Statuses]
    /\ run \in [Execs -> RunStates]
    /\ httpLock \in BOOLEAN /\ mcpLock \in BOOLEAN /\ granted \in BOOLEAN
    /\ ran \in Nat /\ restarts \in Nat
    /\ stored \in Execs \union {NoExec}
    /\ closer \in [Closers -> {"idle", "mark", "settle"}]
    /\ deleting \in [Closers -> Execs \union {NoExec}]
    /\ cut \subseteq Execs
    /\ reconcile \in {"pending", "done", "failed"}
    /\ failed \subseteq {"mark", "settle"} /\ orphaned \in BOOLEAN

\* getValidatedOneTimeReview: the agent never runs a reviewed input, and no
\* review is in PROCESSING, unless the review was approved at some time, however
\* decisions, executions, responses and restarts interleave.
RunOnlyIfGranted == (ran > 0 \/ status = "PROCESSING") => granted

\* closeSession and ReconcileStaleReviews: a review in PROCESSING (a state nobody
\* can change any more) whose session is done is still going to be settled: a close
\* is under way, or the store holds a stream that will be closed, or the restarted
\* gateway has not reconciled yet.  The exceptions are the code's own: a settling
\* or a reconciliation the database refused, and a stream no close finds any more
\* because another stream of the session took its place in the store or its close
\* removed the id (orphaned).
NeverStuckProcessing ==
    status = "PROCESSING" /\ session = "done" =>
        \/ \E c \in Closers : closer[c] # "idle"
        \/ stored # NoExec /\ run[stored] # "refused"
        \/ reconcile # "done" \/ "settle" \in failed \/ orphaned

\* closeSession, RunReviewedExec and InitProxyMemoryCleanup: a review does not stay
\* in PROCESSING for ever, whatever handlers time out, whichever of two executions
\* has the store's entry and whoever decides meanwhile, unless the gateway stopped
\* while it was executed, the database refused to settle it or to mark its session
\* done, or its stream was orphaned.
ProcessingIsSettled ==
    (status = "PROCESSING") ~>
        \/ status # "PROCESSING"
        \/ failed # {} \/ orphaned
        \/ restarts > 0 /\ (session # "done" \/ reconcile = "failed")

-----------------------------------------------------------------------------
(* What the comments and the documentation say *)

\* "The plugin must be active to be able to change the state of the review after
\* the execution, this will ensure that a review is executed only once."
ExecutedOnlyOnce == ran <= 1
=============================================================================
