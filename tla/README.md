# TLA+ models of the hoop gateway

The hoop gateway is an access gateway: users and tools reach databases, servers
and web services through it, agents in the customer's network hold the
connections, and the gateway decides who may run what, asks for reviews, masks
and records.  This directory holds TLA+ modules for the parts of the gateway
and of its agent whose correctness depends on the order of concurrent steps, TLC
configurations
that check them on small instances, and TLAPS proofs of the most important
properties for instances of any size.

Paths below are relative to the repository (`src/` in `PROJECT.json`).

- [Inventory](#inventory)
- [Modules](#modules)
- [Runs](#runs)
- [Bounds](#bounds)
- [Fairness](#fairness)
- [Proofs](#proofs)
- [What is not modelled](#what-is-not-modelled)
- [Observations without a run](#observations-without-a-run)
- [Plan](#plan)

## Inventory

How the parts meet.  A client (command line, HTTP API, MCP tool) opens a gRPC
stream to the gateway and is matched with the stream of an agent.  Packets pass
through plugins in both directions; the audit plugin records them.  An
interceptor stops a session that needs an access review until people, through
HTTP, Slack or MCP, approved it.  State lives in three places: PostgreSQL (reviews,
sessions, blobs), process memory (stores of streams, locks, the log ring) and
the write-ahead logs on disk.  Nothing but single statements and short
transactions protects the database from interleavings; the in-memory stores are
maps under a mutex whose calls are atomic one by one, never together.

| Component | State | Operations | Hard behaviour | What makes it correct |
|---|---|---|---|---|
| review decisions (`gateway/api/review`, `gateway/models/reviews.go`) | review status, group rows, session status | `DoReview`, forced and individual reviews, `UpdateReview` | the whole record is read, changed in memory and written back without a lock or version | approvals are backed by the policy; nobody approves their own request; denials are final and attributed |
| execution of one-time reviews (`gateway/api/session/run-exec.go`, `gateway/api/mcpserver/tools_reviews.go`, `accessrequest.go`) | review status, session status, two lock maps, the gateway session | check and lock, run, answer or time out, intercept, settle, reconcile at start-up | two unrelated locks, a check that is not atomic with the lock, timeouts, crashes, failing statements | nothing runs unapproved; once; no review is left in PROCESSING |
| session recording (`gateway/transport/plugins/audit`, `gateway/session/wal`) | write-ahead log, store of logs, flush indices, persisted stream | `OnConnect`, `OnReceive`, flush ticker, `dropWalLog`, `closeSessionWAL` | writers, ticker, drop and several closes race; appends fail; the stream is capped | the stream is an ordered prefix of the log, bounded, and loses only what was in flight |
| agent rendezvous (`gateway/transport/connectionrequests`, `streamclient/agent.go`) | store of request channels, store of agent streams | request, accept, pre-connect, save, close | tests and sets are separate calls, keys are shared, channels close under senders | a request is answered once, by a call that found it; the stored stream is alive |
| server logs (`common/memory/ring.go`, `gateway/serverlogs`, `gateway/api/serverlogs`) | ring, subscribers' cursors | append, poll | wrap-around, eviction under a slow cursor, organisations share the ring | ordered, exact, isolated, lossy only by eviction |
| proxy streams and plugin runtime (`transport/client.go`, `transport/agent.go`, `streamclient/proxy.go`, `pluginruntime.go`, `plugins/audit/audit.go`) | store of proxy streams, the audit plugin's session store, session rows, goroutines of `closeSession` | open, run the plugins, save, receive, disconnect, `Close`, `DisconnectAll` | the client, the agent, a kill, a rejection and the memory cleanup close one stream; a plugin refuses after another accepted; a stale row is saved | a session whose client is gone is done and forgotten, whoever closed it; an agent's packet is refused only while its session is closed |
| live session events (`session/eventbroker`, `api/session/stream.go`) | subscribers | subscribe, check again, remove | the session ends between check and subscription | every reader of a session that ended is told |
| just-in-time access (`accessrequest.go`, `transport/client.go`, `review.go`) | review with its expiry, the deadline of the loop | lookup, grant, request, decide, expire | a decision between the lookup and the grant; a clock; several reviews | access is bounded by the last approval, a denial takes effect, no session is prolonged |
| system calls to agents (`transport/system`, `agent/controller/system`) | map of channels, the provisioner's lock | send, answer, time out, provision | an early answer is dropped, a late one meets a closed channel; keys are shared; the lock is check-then-act | an answer in time finds its call; a database is locked only while somebody works on it |
| agent (`agent/controller`) | packet queues and workers, connection store, session state and lock | receive, push, drain, build a proxy, write, close a connection, clean a session up | a wedged upstream, a late packet, a cleanup next to handlers and callbacks | packets in order, by one worker, none forgotten; a close is carried out and leaves nothing running |
| connection status (`connectionstatus`) | status rows | set online, set offline, periodic conciliation | the conciliation uses a stale listing | the row agrees with the streams in the end |
| proxy manager, dispatchers (`proxymanager.go`, `dispatchers.go`) | dispatcher state per user | connect, disconnect, stop | requests while a dispatcher stops | one dispatcher per user, replies reach the waiter |
| credential sweeper and other jobs (`gateway/jobs`) | database rows | periodic update | several replicas | idempotent |
| transport server, authentication, user-token polling | none of their own | token checks | expiry while a stream runs | a stream ends with its token |
| HTTP API, services, models | database | create, read, update, delete | few | single statements |
| protocol brokers, client, tunnel, inspector, web applications | I/O | - | - | outside a model of the gateway's control |

`PROJECT.json` lists every component with its status, and under `hazards` the
lines where an untested order of steps bites, with the properties that watch
them.

## Modules

### ReviewDecision

One access review.  `status`, `groups` and `session` are the database columns;
`request` and `draft` are the requests in flight.  `DoReviewRead` is `DoReview`
from the read of the review to the record it is about to write
(`validateReviewStatusTransition`, `doForcedReview`, `doIndividualReview`);
`UpdateReview` is the transaction that writes status, rows and session, and
`UpdateFails` its rollback.  Between the two any other request may write.  A row
created with the review is named by its group, a row a request appends by the
request.  Time window, rejection reason, notifications and event routing are
left out.

### ReviewExecution

Extends ReviewDecision with the executions of a one-time review.  Each execution
has a handler thread (`api`: read, check the lock, lock, check the status, wait,
answer or time out) and a gateway session (`run`: intercept, mark PROCESSING, open,
run).  The HTTP handler and the MCP tool share the actions where the code agrees and
differ in the lock they take and in what they write at the end.

All executions of a review have one session id, and `proxyStore` holds one stream
under it: `stored` is the execution whose stream was saved last.  Whoever closes a
stream looks it up there (`CloseStream`, `CloseReviewed`), starts a goroutine of
`closeSession` (`closer`: mark the session done, settle the review) and then deletes
the id, whichever stream it holds by then (`Del`).  A stream that lost its entry to
another one, or to the delete of another one, is found by nobody: `orphaned` records
it, and also a review that is marked PROCESSING by a session whose close is already
under way.  The sweep that an agent's disconnect makes over all its sessions
is in ProxyStreams.

`DbFails` lets every statement whose error is only logged fail (`failed` remembers
which).  `Restart` loses all threads, stores and locks; the restarted gateway serves
at once, and `Reconcile` is its background `ReconcileStaleReviews`, which runs once at
any later time, or fails and is not tried again.  `Decide` is any step of
ReviewDecision, so the module is the composition of decisions and executions.

### AuditWal

The recording of one session.  A step is a critical section of the log's mutex, a
call of a store, a file-system call or a statement.  `wal` is the log, `blob` the
log indices that the persisted stream covers, so order, gaps and repetitions are
visible.  `FlushSession` is the critical section of `flushSession`, shared by the
ticker (`TickFlush`) and the final flush of a close; its parameter is the outcome
of `AppendSessionStream`: done, failed, or unknown, when the database committed and
the answer was lost, after which the retry appends the same entries again.
`Restart` ends all goroutines and forgets the store, keeps the database, and keeps or
(on an ephemeral disk) loses the file.  An entry counts as one byte and is told apart
by its AI-analyzer verdict number alone.  Any number of closers run `closeSessionWAL`;
`dropWalLog` is a thread of its own.  The session row starts absent, as it does for
gRPC clients; for API-created sessions the row exists and `OnConnect` only reopens it.

The log is that of one connect.  A session id can be connected again while a log of it
is in use (executed_once shows how), and `writeOnConnect` then removes the folder and
replaces the entry in the store.  These other connects, any number of them, are the
steps `OtherRemoves` (their RemoveAll, at connect or at close), `OtherSets` (the
store) and `OtherStarts` (row, blob, and a ticker for whichever log the store holds);
`shared` says that there was one.  After it the log may be without its folder: a write
may fail and a flush may not be able to read (outcome "unread"), a close may find the
folder of another log, and of two tickers started for one log only the second can be
cancelled.  What the other logs hold is not modelled: `blob` is what this log adds to
a stream that others may append to as well.

### ConnRequests

Clients that find no agent register a channel under their session id and wait;
agent calls (`Connect` streams and `PreConnect`) list, pop and answer.  Each call
of a `memory.Store` is a step.  A channel is named by its client; `keys` and
`holds` are the locals of `AcceptProxyConnection`'s loop, `listed` is history.
`SendOnClosed` is Go's panic on a send to a closed channel, which ends the
process.

### ServerLogs

The ring (`buf`, `next`, `head`, `size`, with `hist` everything ever appended),
the visibility rule and the polling subscribers with their cursors.  `Kept` is the
loop that both `Since` functions run over the buffered items.

### Recording

The abstract specification of a recording: entries are written, persisted in their
order and without gaps (some perhaps twice), and the session is finished, or its
whole recording is replaced by a placeholder.  From the moment another connect shares
the session (`Share`) status and placeholder are whatever the two leave (`Disturb`),
while the entries of this one stay in order and without gaps.  AuditWal implements it: `IsRecording`
instantiates `Recording` with the number of entries after the header for `written`,
`blob` shifted by the header for `stream`, and the session's columns.

### ProxyStreams

Sessions that share one agent.  The threads are the client streams (`Connect`,
`OnConnect` of the plugins, `Save`, the loop, the deferred `Close`), the streams of
the agent (a packet is looked up, given to the plugins and forwarded; their end
closes what the agent had open), the other closers (kill, rejection, expired token,
memory cleanup, shutdown), the goroutines of `closeSession` and the requests of
`StreamSession`.  Goroutines are counted per session and stage (`pop`, `mark`,
`remove`, `forget`), since any number of them run for one session.  `lost` and
`undone` are history: the sessions whose `MarkSessionDone` failed, and those whose
`done` was overwritten by the row that the AI analysis of `OnReceive` had read.
A reader checks the row, subscribes and checks again; `RecheckFails` is the second
read that fails, whose error `StreamSession` ignores: when the session is done by
then, the reader is "blind" and stays until it leaves by itself.
What a close does to the log is AuditWal's subject, what becomes of the review is
ReviewExecution's; ProxyStreams is about who closes and what is left.

### SystemCalls

Calls of the gateway to an agent outside a session (database provisioner, command,
the plan and the apply of the PostgreSQL manager, runbook hook).  They share one
shape: make an unbuffered channel, `Set` it under an id, send, select on channel and
timeout, and on return `Del` and close.  `Send` pops the channel and offers the answer in a select with a
default, so that an answer which finds nobody receiving is dropped, and one which
finds the channel closed panics, in a goroutine nobody recovers.  The agent's part is
the provisioner with its `Has`/`Set`/`Del` lock.  It discards the error of
`client.Send`, so that any answer may be lost on its way; `lost` is history, of these
and of the answers that were dropped.

### JitAccess

One user, one connection, one rule with an access duration.  `now` is the clock.
`GetApprovedReviewJit` returns the newest approved review of the user and the
connection, whichever session asked for it; `Grant` gives the context of the loop a
deadline, `Ask` makes a review, `Refuse` is an error that ends the loop.  A decision
reads the review and writes it back later, with the expiry it computed.
`by`, `raced`, `decided` and `denied` are history.

### AgentSessions

One session in the agent.  The receive loop never writes upstream: it loads the queue
of the connection, pushes, and starts a worker if none runs.  A queue is bounded by
packets and by bytes; the byte cap is modelled as an overflow that may happen
whenever the queue is not empty, since one message (at most 17 MiB) is always below
it (64 MiB).  A worker drains its
queue: it finds or builds the proxy of the connection and writes until the upstream
answers.  SSH and MCP handlers hold the read side of the session's lock meanwhile,
HTTP handlers hold nothing; `sessionCleanup` takes the write side, marks the session
closed, lists the connection store, closes what it found and deletes the queues.
Queues and proxies are numbered, because a queue that was deleted may still be
drained while a late packet makes another.  `evicted` (a proxy whose key was deleted
on behalf of another one) and `late` (registered by an HTTP handler after the cleanup
listed the store) are history; `Reopened` says that an HTTP session was closed before
its `SessionOpen` was handled.  Connection ids are counters and the close of a
connection filters by prefix, so a constant says whose id is a prefix of whose.

### MC and proof modules

`MC<Module>` gives TLC model values; `<Module>Proofs` extends the module with
theorems (ReviewProofs those of both review modules).  Operators marked "Mutant" in a module are deliberately wrong versions
of the definition after them: substituted for it, they must violate the property
`PROJECT.json` names, which shows that the property constrains the code.

## Runs

Run from this directory with `tlc -config <cfg> <module>`.

| Run | Configuration | Result | Shows |
|---|---|---|---|
| review_decision | MCReviewDecision | passes | stale and conflicting requests never approve below the quorum, never store a self-approval, and a denial keeps the name of who denied |
| denial_final | MCDenialFinal | violated | a draft read before a rejection is written after it: the rejected review is open again, although `api-update-review.md` calls it immutable |
| review_execution | MCReviewExecution | passes | no unapproved execution; a review in PROCESSING whose session is done is still going to be settled, under failing statements, a restart and a late reconciliation; liveness: it does leave PROCESSING, even when its handler timed out.  Exempted are refused statements and a stream that the store lost |
| executed_once | MCExecutedOnce | violated | two HTTP executions pass `isLockedForExec` before either locks; the agent runs twice, although a comment promises once |
| audit_wal | MCAuditWal | passes | the stream is an ordered bounded prefix, also after lost answers, a restart and other connects of the session id; one owner; loss and verdict counting as stated; AuditWal implements Recording |
| conn_requests | MCConnRequests | passes | one answer for each request, listed requests are released, the stored stream is alive |
| server_logs | MCServerLogs | passes | the ring is the window of the history; subscribers get ordered, visible entries and lose only evicted ones |
| proxy_streams | MCProxyStreams | passes | whoever closes a session first, it is done and forgotten; packets are refused only while it is closed; its readers are to be woken, and are told in the end, unless their second check failed on a session that was done |
| system_calls | MCSystemCalls | passes | the answer to a waiting call finds its channel unless the answer was lost, only unanswered calls leave a loop that may panic, no lock is left behind |
| jit_access | MCJitAccess | passes | access ends within two durations of the last approval and one of a denial, is never prolonged, and ends |
| agent_sessions | MCAgentSessions | passes | one worker handles a connection, in order, no packet is forgotten, a closed session is cleaned up, and a close is carried out although an HTTP upstream is wedged |
| close_lands | MCCloseLands | violated | with a wedged SSH upstream the cleanup waits for the handler's lock and the handler for the upstream the cleanup is to close: the close never lands, although `ssh.go` relies on it |

The runs that are violated check what a document, a comment or a log line of the
repository says; `PROJECT.json` quotes the line under `findings`.

Deadlock checking is off everywhere: requests, sessions, packets and subscribers are
finitely many in a model and the system rests when they are done.  Where waiting for
each other is the danger (the agent's cleanup) a liveness property says so.

Type invariants are theorems; TLC checks those of ServerLogs and AgentSessions, which
also bound what a queue or a ring holds, as well.

## Bounds

- review_decision: three requests, so that one may read, another write and a
  third meet the result; two reviewing groups with quorum two; an owner who is
  also a reviewer, a reviewer in both groups who may force, an administrator.
- review_execution: one HTTP and one MCP execution (different locks, one session id),
  one decision, one closing goroutine at a time, one restart, any statement failing
  (643 thousand states).  Each stream can take the other's place in the store and be
  orphaned by its close.  The theorems include more decisions and closers at once,
  which take TLC too long; stale decisions are review_decision's subject.
  `executed_once` uses two HTTP executions.
- audit_wal: two writers, two closers, the ticker and the drop, three entries
  over a cap of one (`MaxRead`), one failed or lost answer, one restart, any number of
  other connects (2.5 million states): the cap is crossed in one flush, across flushes
  and in a retry.  A retry that fails as well is left to the theorems.
- conn_requests: three clients, two of them with one session id, two streams and
  one PreConnect of which `MaxCalls` = 2 run in one behaviour.  Clients of one
  session id and streams are interchangeable (symmetry).
- server_logs: a ring of two and four appends (it wraps twice), two
  organisations and entries without one.
- proxy_streams: one command-line client, one agent stream, one other closer, one
  reader, one failing statement (1.4 million states).  That is four threads on one
  session, with any number of `closeSession` goroutines they start.  API clients
  (`ApiClients`) differ in who creates the session row; the safety theorems include
  them and sessions that share an agent, the run does not.
- system_calls: two hooks under one key, two provisioners of one database, one
  receiving loop, any answer lost (4.4 million states).
- jit_access: two sessions, two decisions, durations of 1 and of 3, more than the rule
  allows, decisions up to time 1 and a clock up to 3: every deadline can pass.
- agent_sessions, close_lands: connections 1 and 10, the first id a prefix of the
  second, two packets and one, a queue of one (it overflows), one `SessionClose`; the
  upstream of connection 10 answers no write, over HTTP in the first run (613 thousand
  states) and over SSH in the second.

The theorems below hold without these bounds.

## Fairness

- `FairSpec` (ReviewDecision, used by denial_final): a handler that computed its
  draft goes on to the transaction.
- `FairExecSpec` (ReviewExecution): handlers and sessions are goroutines that nobody
  suspends, and so are a close that began and the reconciliation after a start; the
  handler's fifty seconds pass; a stream that stays in the store is found by
  `InitProxyMemoryCleanup`.  Nothing is assumed of a stream that is not in the store:
  nobody finds it.  No fairness is assumed of users, decisions,
  restarts or failures.
- `FairSpec` (ProxyStreams): the deferred `Close` of a client's stream runs on, as do
  the goroutines of `closeSession` and the handler of a live stream.  Nobody else has
  to take a step: no agent, closer or client.
- `FairSpec` (JitAccess): time passes and a handler that began ends (weak).  `Expire`
  has strong fairness: the loop's select may find a packet and the ended context
  ready together, again and again, and Go chooses among ready cases at random.
- `FairSpec` (AgentSessions): the loop, workers, cleanups and closing goroutines go
  on when they can.  Packets need not come, an upstream need not end, and a wedged
  one never answers.

The other properties are safety properties and need none.

## Proofs

`tlapm <Module>Proofs.tla`.  The proofs use only the modules' named ASSUMEs (types
and disjointness of the constants, finiteness of the groups, requests and
writers).

- **ReviewProofs**, of ReviewDecision: `ApprovalBacked`, `NobodyApprovesOwn`,
  `DenialRecorded`, types.  ApprovalIsBacked is not inductive: a request writes
  a draft computed earlier.  The invariant `DecisionInv` therefore says `Sound` of
  the review *and of every draft*: the created rows are present, an approval has
  its quorum or was forced, no self-approval, a denial has its row.  A draft of a
  sound review is sound (`ForcedDraftSound`, `IndividualDraftSound`: the needed
  count never falls below the quorum because rows are only added, and a kept
  APPROVED keeps its rows), and merging a sound draft with newer rows is sound
  (`MergeSound`).
- **ReviewProofs**, of ReviewExecution: `RunsGranted` from `GrantInv` (a session past the
  interceptor passed on an approval, and no draft is ever PROCESSING), `NotStuck`
  from `SettleInv` (a review in PROCESSING with a done session has a closing goroutine
  that still has to settle it, or a stream in the store, or one of the excuses; and a
  close that is about to delete the stored stream has its goroutine at work or an
  excuse), types.
- **AuditWalProofs**: `StreamCorrect` (prefix) and `StreamBoundCorrect` from `WalInv`:
  the prefix property needs the types of the window, the bound needs that the bytes
  counted are at least those persisted and that an untruncated stream is below the
  cap, and after a lost answer the last index that was flushed must be in the stream.
  `StoredWalIsLive` and `WalHasOneOwner` from `OwnerInv` (whoever popped the log owns
  it alone until it is closed, whatever other connects put in its place; a connect
  that has not happened has no log in the store and no owner).  `RecordingCorrect` is the refinement: initial states
  map to initial states of Recording and, under `WalInv`, `OwnerInv` and `LifeInv`
  (which columns a recording has in each phase of the plugin, as long as no other
  connect was there), each step maps to a step or a stutter.  `LossCorrect` from `MissInv`: after the last flush the entries
  missing and the writers that still hold the log are together at most the writers.
  `VerdictsCorrect` from `VerdictInv`: verdicts are written in order and the dedup
  state is the last one in the stream.
- **ConnRequestsProofs**: `RequestsAnsweredOnce` from `SenderInv` (a channel is
  stored only under its own session id and only after its client registered it),
  `StoredStreamLives` from `StoreInv` (a stored stream did not fail to save),
  `ListedReleased` from `ReleaseInv` (a listed request that waits is yet to be
  popped, held by somebody, or replaced), types.
- **ProxyStreamsProofs**: `StreamInv` says what threads and stores agree on: a thread
  works on streams that were saved, a client's thread on its own.  On it rests
  `ClosingInv`: a stream leaves the store only after a `closeSession` was started for
  it (`EndingIsHandled`); the session is marked before its readers are woken
  (`MarkedFirst`); whoever reads a session that is done, and is not blind, has a waker
  (`ReadersHaveWaker`), what the plugin holds of it somebody who frees it
  (`EndingIsFreed`); a stream that was accepted has its log until it is closed.  It
  gives `ClosedCorrect`, `ReadersCorrect` and the action property
  `RejectionsCorrect`, for any number of clients, agent streams, closers and readers.
- **SystemCallsProofs**: `WaitingCorrect`, `LateCorrect` and `LockCorrect` from
  `CallInv`: a channel is stored under the key of its call, a loop
  that holds one holds it alone and it has taken no answer, and reachability holds
  from the registration on, not only while the call waits.
- **JitAccessProofs**: `ExpiryCorrect`, `BoundCorrect`, `DenialCorrect` and the action
  property `ExtensionCorrect` from `JitInv`: the expiry is bounded by the last
  approval in the table, *in every draft and in what every session has read*, since
  each of them is used later.
- **ServerLogsProofs**: `RingCorrect` from `RingInv` (index ranges together with
  the window property; the core is arithmetic modulo the capacity).  `SentCorrect` and
  the action property `PollCorrect` from `StreamInv`: the ring's invariant, and that
  no cursor is past the history.  What a poll sends comes out of two loops, the one of
  `Ring.Since` and the one of `serverlogs.Since`, each the recursive function of `Kept`.
  `KeptIs` says what it computes for every sequence: the kept items, all of them,
  in their order.  The induction it needs is stated without an operator parameter:
  if some prefix broke the claim, the set of such lengths would have a least member
  (`LeastNat`, from the well-foundedness of the order on Nat), and one more turn of the
  loop (`LoopStep`) refutes it.
- **AgentSessionsProofs**, in three layers, for any connections, packets, queue bound
  and cleanups.
  - `AgentInv` gives `OneHandlerCorrect`.  The property is not inductive: it needs that
    a worker exists only for the stored queue of its connection until a cleanup drops
    the queues (`WorkersStored`), that once a session is closed no SSH or MCP handler
    holds the read lock (`NoReaders`), and that no parameters are left then which a
    late worker could find (`ParamsGone`).
  - `OrderInv` gives `InOrderCorrect`.  Until the queues are dropped, what is written,
    what the worker holds, what is queued and what the loop is about to push are one
    increasing sequence (`QueueOrder`); after it, only packets that are already in a
    handler matter (`HandledLater`).  `NoneForgottenCorrect` is inductive on
    `AgentInv`.
  - `CleanInv` gives `ClosedIsCleanedCorrect`: whoever builds found no proxy stored
    (`BuildsFirst`), a cleanup that deletes found every stored proxy but the late
    ones (`FoundAll`), and a proxy that runs has a key, lost it to another, is about to
    be registered, or is late (`RunningIsKept`).
  - `QueuesSuffice` justifies a bound of the model: the queues of a connection are
    numbered up to one more than there are cleanups.  Each cleanup leaves at most one
    queue with a worker behind (`QueuesLeft`, a count), so that a free number is left
    and `LoadOrStore` is never blocked for want of one.

Each module's type invariant is a theorem as well.

Every invariant and action property of the passing runs is a theorem.  Only
model-checked: liveness, which is beyond the prover (ProcessingIsSettled,
ReadersAreTold, GrantedEnds, CloseLands), and of course every violated property.

## What is not modelled

Most of the repository is create, read, update and delete over single database
statements, HTTP plumbing, generated API documentation, wire protocols, calls to
external services and user interface.  It has no state of its own between two steps,
or none whose order matters, and is left out on purpose; the models cover the code
where steps of several actors meet, which is a small share of the lines.

Stateful components without a module: the conciliation of connection status and the
proxy manager with its dispatchers (see [Plan](#plan)).  Of the modelled ones:

- AuditWal: the encoding of entries, the data-masking metrics, which entries are
  metadata only (they are read and not appended); what the logs of other connects of
  the session id hold; the AI analysis of `OnReceive` is in ProxyStreams, without its
  verdict.
- ConnRequests: connection status and connection synchronisation.
- ReviewDecision, ReviewExecution: the rule that chooses a review's groups (a
  constant), the time window (a nondeterministic refusal).
- ProxyStreams: the contents of packets, transport interceptors, the other plugins'
  own state; a plugin other than audit accepts or refuses.
- JitAccess: reviews the HTTP API creates with an expiry already set.
- AgentSessions: the handlers that run on the receive loop itself (PostgreSQL, MySQL,
  MSSQL, MongoDB, Oracle, TCP, terminal), the MCP stdio backend and the event sink.

## Observations without a run

Behaviours the models have, or reading showed, that no run is about.  Most of them no
line of the repository rules out; where a comment does, the item says so.

- A stale draft also undoes another group's approval: its copy of that row is
  written back as PENDING.
- `RunReviewedExec` writes EXECUTED whatever the client returned, so an execution
  that never reached an agent consumes the review.
- A restart while a session runs leaves the review in PROCESSING: the session is
  never marked done, and `ReconcileStaleReviews` settles only done ones.  It runs once,
  in the background; when it fails, nothing settles the review until the next start.
- The streams of two executions of a review share a key of `proxyStore`.  The one that
  was replaced, or whose key the close of the other deleted, is found by no close; a
  review it marks PROCESSING stays so (`orphaned`).  So does a review marked PROCESSING
  by a session that was closed while it was intercepted.
- A second connect of a session id removes the folder of a log that is in use, and its
  log takes the other's place in the store; the owner of the first log removes the
  folder of the second when it closes.  A placeholder close takes the log out of the
  store without cancelling its ticker, and the first of two tickers started for one
  log is never cancelled.
- When `OnConnect` fails after `writeOnConnect`, the log stays in the store and a
  session row already written stays open.
- The final flush misses the entry of a goroutine that had looked the log up but
  not yet written.
- A failed append has already advanced the verdict dedup state: the verdict is not
  counted by the retry.
- A failed append counts its bytes again in the retry (`bytesRead` advances while
  reading), so a stream may be cut below the cap.
- If `AppendSessionStream` commits and its answer is lost, the retry appends the
  same entries again (`Recording` allows it, `repeated` marks it in AuditWal).
- The second of two closes, the kill of a finished session, and a close after a
  restart that lost the disk find no folder and replace the recording by the
  placeholder.
- A reviewer in two groups approves both rows at once; `doIndividualReview` compares
  the count with `==`, so that every group may be APPROVED and the review PENDING.
- A client may find the agent offline just before it connects and register just
  after it released the requests: it waits for the full timeout.
- `AcceptProxyConnection` may send on a channel that a timeout has closed
  (`SendOnClosed` in ConnRequests): a panic that ends the gateway.
- The close of one of two racing streams of an agent removes the other one from
  the store; the sweep of a disconnected agent goes by agent id and also meets the
  streams of its successor.
- `OnReceive` saves a whole session row it read before: a close in between is undone
  (`undone` in ProxyStreams).
- `isSessionReviewed` is never reset: an approved session that runs is only removed
  from the store when its agent disconnects; its own `Close` then finds nothing, and
  its row, log and ticker stay.
- A reader that subscribes after a failed `MarkSessionDone` waits until it leaves; so
  does one whose second check failed after its session was done and its broker entry
  removed ("blind").
- An error of a plugin on one packet ends the whole stream of the agent.
- System calls: an answer that comes before the select is dropped and the call times
  out; an answer that races the timeout ends the gateway; hooks of one session share
  one id; two requests for one database may both pass the provisioner's lock, although it is
  there "to avoid initializing multiple process to the same instance"
  (`dbprovisioner.go:37`), and the first to end releases the other's.  An answer the agent cannot send is lost without a trace, and
  the call times out.
- Just-in-time access: a session that opens just before the expiry or a revocation
  keeps the connection for a whole duration more; approving an approved review again
  moves its expiry; a newer approved review that has expired hides an older one that
  is valid.
- Agent: closing connection 1 closes 10 as well; packets queued behind a close build
  the proxy again; the callback of an ended proxy may delete its successor's key, and
  that proxy is never closed; an HTTP handler, which takes no lock, may register a
  proxy after the cleanup, although a comment of `sessionCleanup` rules out a handler
  in mid-build; a `SessionOpen` handled after the `SessionClose` stores its
  parameters for good.
- Proxy manager (read, not modelled): the deferred cleanup of an old stream may
  remove the entry of a new one, and an error of `requestProxyConnection` returns
  without a response to the waiter.

## Plan

Done: ServerLogs, ReviewDecision, ReviewExecution, AuditWal with Recording,
ConnRequests, ProxyStreams, SystemCalls, JitAccess, AgentSessions, and the proofs
above.  Next, in this order:

1. **Connection status**: conciliation against SetOnline and SetOffline, composed
   with ConnRequests; eventual agreement of status and streams.
2. **Proxy manager and dispatchers**.
3. **Agent**: the handlers that run on the loop, the MCP stdio backend and its sink.
4. A larger instance of ProxyStreams, with an API client and a second session.
5. An atomic review (read and write in one step) that ReviewDecision implements for
   the properties that survive, and an abstract connection (packets in, packets out in
   order, closed) that AgentSessions implements, with their refinement proofs.
