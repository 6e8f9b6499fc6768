------------------------------ MODULE AuditWal ------------------------------
(***************************************************************************)
(* The recording of one session by the audit plugin                        *)
(* (gateway/transport/plugins/audit/{audit,wal}.go): packets are written   *)
(* to a write-ahead log on disk (gateway/session/wal/wal.go), a ticker     *)
(* appends the new entries to the session's blob_stream, and closing the   *)
(* session flushes the rest, removes the log and marks the session done    *)
(* (gateway/models/session.go).  The gateway may stop and start again.     *)
(*                                                                         *)
(* Steps are the critical sections of walLogRWMutex.mu and of the stores,  *)
(* the file-system calls and the database statements: packet goroutines,   *)
(* the ticker, dropWalLog and any number of concurrent closers interleave  *)
(* between them.  The entry at WAL index i is wal[i - 1], since index 1    *)
(* holds the header; every entry counts as one byte.  blob is the sequence *)
(* of the WAL indices that were appended to the persisted stream.          *)
(*                                                                         *)
(* The log is that of one connect.  "Sometimes a client could execute the  *)
(* same session id" (wal.go): other connects of the id, at any time, remove*)
(* the folder, open a log of their own in it and put it in the store in    *)
(* place of this one.  What their logs hold is not modelled, so blob is    *)
(* what this log adds to a stream they append to as well.                  *)
(***************************************************************************)
EXTENDS Integers, Sequences, FiniteSets

CONSTANTS Writers,      \* goroutines that record packets (client side, agent side)
          Closers,      \* calls of closeSession for this session
          MaxRead,      \* sessionwal.DefaultMaxRead
          MaxEvents,    \* bound on the entries written
          MaxVerdicts,  \* bound on the AI analyzer verdicts
          MaxFailures,  \* bound on the database failures and failed reads of the log
          MaxRestarts   \* bound on the restarts of the gateway

ASSUME BoundsAssumption ==
    /\ MaxRead \in Nat /\ MaxEvents \in Nat /\ MaxVerdicts \in Nat /\ MaxFailures \in Nat
    /\ MaxRestarts \in Nat
    /\ IsFiniteSet(Writers)

VARIABLES phase,      \* OnConnect: "new", "opened", "leaked" or "open"
          folder,     \* the folder of this log is on disk
          inStore,    \* walSessionStore holds the walLogRWMutex of this log
          shared,     \* another connect of the session id was there
          wal,        \* the entries written
          last,       \* lastFlushedIndex
          bytesRead, truncated,
          closed,     \* the log was closed, or its process has stopped
          lastSeq,    \* aiDedup.lastSeq of the connection
          counted,    \* the verdicts folded in walLogRWMutex.metrics
          ticker,     \* "off", "on", "due" (ticked) or "last" (ticked, then cancelled)
          writer,     \* of each writer: "idle" or "got" (it holds the walLogRWMutex)
          dropper,    \* dropWalLog: "idle", "popped", "end" or "stopped"
          closer,     \* where each closeSessionWAL is
          blob,       \* the WAL indices covered by the persisted stream
          blobKind,   \* "absent", "stream" or "placeholder"
          session,    \* private.sessions.status
          failures,   \* database failures and failed reads so far
          repeated,   \* history: an append was committed and reported as failed
          restarts    \* restarts so far

flushVars == <<last, bytesRead, truncated, lastSeq, counted, blob, failures, repeated>>
vars == <<phase, folder, inStore, shared, wal, closed, ticker, writer, dropper, closer,
          blobKind, session, restarts, flushVars>>

\* An entry is told apart by the sequence number of its verdict, 0 for none.
Event == 0..MaxVerdicts
MaxOf(m, n) == IF m > n THEN m ELSE n

Init ==
    /\ phase = "new" /\ folder = FALSE /\ inStore = FALSE /\ shared = FALSE /\ wal = <<>>
    /\ last = 0 /\ bytesRead = 0 /\ truncated = FALSE /\ closed = FALSE
    /\ lastSeq = 0 /\ counted = {}
    /\ ticker = "off" /\ dropper = "idle"
    /\ writer = [w \in Writers |-> "idle"]
    /\ closer = [c \in Closers |-> "idle"]
    /\ blob = <<>> /\ blobKind = "absent" /\ session = "none"
    /\ failures = 0 /\ repeated = FALSE /\ restarts = 0

-----------------------------------------------------------------------------
(* OnConnect *)

\* writeOnConnect: a folder of the session id is removed; then the folder, its header
\* and the entry in the store, in place of another.
WriteOnConnect ==
    /\ phase = "new"
    /\ phase' = "opened" /\ folder' = TRUE /\ inStore' = TRUE
    /\ UNCHANGED <<shared, wal, closed, ticker, writer, dropper, closer, blobKind, session, restarts, flushVars>>

\* Each of these is one database transaction.
UpsertSession                == session' = "open"
CreateEmptySessionStreamBlob == blobKind' = IF blobKind = "absent" THEN "stream" ELSE blobKind

\* A ticker is started for the log in the store, and flushCancel cancels it.  Of two
\* connects that start one for the same log, the first ticker is cancelled by nobody.
Started   == CASE ticker = "off" -> "on" [] ticker = "last" -> "due" [] OTHER -> ticker
Cancelled == CASE ticker = "on" -> "off" [] ticker = "due" -> "last" [] OTHER -> ticker
FlushCancel == ticker' = Cancelled \/ (shared /\ ticker' = ticker)

\* The rest of OnConnect, with startFlushTicker, which fails without a log in the store.
StartFlushTicker ==
    /\ phase = "opened"
    /\ UpsertSession
    /\ \/ /\ inStore \/ shared
          /\ phase' = "open" /\ CreateEmptySessionStreamBlob
          /\ ticker' = IF inStore THEN Started ELSE ticker
       \/ ~inStore /\ phase' = "leaked" /\ UNCHANGED <<blobKind, ticker>>
    /\ UNCHANGED <<folder, inStore, shared, wal, closed, writer, dropper, closer, restarts, flushVars>>

\* A statement fails: OnConnect returns the error and undoes nothing, not even
\* the session row when only the blob could not be created.
ConnectFails ==
    /\ phase = "opened" /\ failures < MaxFailures
    /\ phase' = "leaked" /\ failures' = failures + 1
    /\ session' \in {session, "open"}
    /\ UNCHANGED <<folder, inStore, shared, wal, closed, ticker, writer, dropper, closer, blobKind,
                   last, bytesRead, truncated, lastSeq, counted, blob, repeated, restarts>>

-----------------------------------------------------------------------------
(* Another connect of the session id *)

\* Its RemoveAll, or that of the close or the dropWalLog of its log.  What its log has
\* in the folder from then on, and whether the store holds it, is left open.
OtherRemoves ==
    /\ shared' = TRUE /\ folder' = FALSE
    /\ UNCHANGED <<phase, inStore, wal, closed, ticker, writer, dropper, closer, blobKind, session,
                   restarts, flushVars>>

\* The Set of the store ...
OtherSets ==
    /\ shared /\ inStore' = FALSE
    /\ UNCHANGED <<phase, folder, shared, wal, closed, ticker, writer, dropper, closer, blobKind,
                   session, restarts, flushVars>>

\* ... and the rest of OnConnect, as far as it comes.
OtherStarts ==
    /\ shared /\ session' \in {session, "open"}
    /\ \/ UNCHANGED <<blobKind, ticker>>
       \/ CreateEmptySessionStreamBlob /\ ticker' = IF inStore THEN Started ELSE ticker
    /\ UNCHANGED <<phase, folder, inStore, shared, wal, closed, writer, dropper, closer, restarts, flushVars>>

\* The streams of the session are in use: of this connect, or of another.
InUse == phase = "open" \/ shared

-----------------------------------------------------------------------------
(* OnReceive *)

\* writeOnReceive, the lookup.  Without an entry the packet is refused.
GetWal(w) ==
    /\ InUse /\ writer[w] = "idle" /\ inStore
    /\ writer' = [writer EXCEPT ![w] = "got"]
    /\ UNCHANGED <<phase, folder, inStore, shared, wal, closed, ticker, dropper, closer, blobKind,
                   session, restarts, flushVars>>

\* The entries OnReceive makes of a packet.  The verdict is absent, the current one
\* again (it is sticky on the response spec) or the next one.
LastVerdict ==
    LET seqs == {0} \union {wal[j] : j \in 1..Len(wal)}
    IN CHOOSE a \in seqs : \A b \in seqs : b <= a
Recorded == {0} \union ((MaxOf(1, LastVerdict)..LastVerdict + 1) \intersect Event)

\* writeOnReceive, the locked part.  A closed log refuses the write, one without its
\* folder may.
WriteWal(w) ==
    /\ writer[w] = "got"
    /\ writer' = [writer EXCEPT ![w] = "idle"]
    /\ \/ (closed \/ ~folder) /\ wal' = wal
       \/ /\ ~closed /\ Len(wal) < MaxEvents
          /\ \E e \in Recorded : wal' = Append(wal, e)
    /\ UNCHANGED <<phase, folder, inStore, shared, closed, ticker, dropper, closer, blobKind,
                   session, restarts, flushVars>>

-----------------------------------------------------------------------------
(* flushSession *)

StartIndex == MaxOf(last + 1, 2)
\* ReadFrom stops at the end of the log or with the entry that exceeds the cap.
Available  == Len(wal) + 2 - StartIndex
\* Mutant: the cap counts one flush.
RoomPerFlush == MaxRead + 1
Room       == MaxOf(1, MaxRead - bytesRead + 1)
CapReached == Available >= Room
Taken      == IF CapReached THEN Room ELSE Available
Window     == StartIndex..StartIndex + Taken - 1
\* aiVerdictDedup.seen lets a verdict through once, as its sequence grows.
\* Mutant: the next verdict is taken for a repetition.
NewVerdictsLate == {wal[i - 1] : i \in Window} \ 0..lastSeq + 1
NewVerdicts == {wal[i - 1] : i \in Window} \ 0..lastSeq
DedupSeq    == IF NewVerdicts = {} THEN lastSeq
               ELSE CHOOSE a \in NewVerdicts : \A b \in NewVerdicts : b <= a

\* blob_stream || entries
AppendSessionStream(indices) == blob' = blob \o indices
FlushedIndices == [j \in 1..Taken |-> StartIndex + j - 1]

\* AppendSessionStream succeeds (or is not called, when of all the entries read only
\* the metadata is kept), fails, or commits and reports an error; or the log, without
\* its folder, cannot be read to its end.
Outcomes == {"ok", "failed", "unknown", "unread"}

\* Mutant: the index advances before the append.
FlushIndexFirst(r) ==
    IF closed \/ truncated \/ Available = 0
    THEN r = "ok" /\ UNCHANGED flushVars
    ELSE /\ bytesRead' = bytesRead + Taken
         /\ lastSeq' = DedupSeq
         /\ last' = StartIndex + Taken - 1
         /\ truncated' = CapReached
         /\ counted' = counted \union NewVerdicts
         /\ IF r = "ok"
            THEN /\ AppendSessionStream(FlushedIndices)
                 /\ UNCHANGED <<failures, repeated>>
            ELSE /\ failures < MaxFailures /\ failures' = failures + 1
                 /\ UNCHANGED <<blob, repeated>>

\* The critical section of flushSession.  bytesRead and the dedup state advance
\* while reading, before the append, which commits nothing without a stream.
FlushSession(r) ==
    IF closed \/ truncated \/ Available = 0
    THEN r = "ok" /\ UNCHANGED flushVars
    ELSE /\ r = "unknown" => blobKind # "absent"
         /\ IF r = "unread"
            THEN ~folder /\ bytesRead' \in bytesRead..bytesRead + Taken /\ lastSeq' \in lastSeq..DedupSeq
            ELSE bytesRead' = bytesRead + Taken /\ lastSeq' = DedupSeq
         /\ IF r \in {"failed", "unread"} THEN UNCHANGED blob ELSE AppendSessionStream(FlushedIndices)
         /\ IF r = "ok"
            THEN /\ last' = StartIndex + Taken - 1
                 /\ truncated' = CapReached
                 /\ counted' = counted \union NewVerdicts
                 /\ UNCHANGED <<failures, repeated>>
            ELSE /\ failures < MaxFailures
                 /\ failures' = failures + 1
                 /\ repeated' = (repeated \/ r = "unknown")
                 /\ UNCHANGED <<last, truncated, counted>>

\* The ticker fires; flushCancel may come before the goroutine gets the lock.
Tick ==
    /\ ticker = "on" /\ ticker' = "due"
    /\ UNCHANGED <<phase, folder, inStore, shared, wal, closed, writer, dropper, closer, blobKind,
                   session, restarts, flushVars>>

TickFlush(r) ==
    /\ ticker \in {"due", "last"}
    /\ ticker' = IF ticker = "due" THEN "on" ELSE "off"
    /\ FlushSession(r)
    /\ UNCHANGED <<phase, folder, inStore, shared, wal, closed, writer, dropper, closer, blobKind, session,
                   restarts>>

-----------------------------------------------------------------------------
(* dropWalLog, for a reviewed session opened by the api *)

DropPop ==
    /\ InUse /\ dropper = "idle" /\ inStore
    /\ dropper' = "popped" /\ FlushCancel
    /\ inStore' = FALSE
    /\ UNCHANGED <<phase, folder, shared, wal, closed, writer, closer, blobKind, session, restarts, flushVars>>

DropRemove ==
    /\ dropper = "popped"
    /\ dropper' = "end" /\ closed' = TRUE
    /\ folder' = FALSE
    /\ UNCHANGED <<phase, inStore, shared, wal, ticker, writer, closer, blobKind, session, restarts, flushVars>>

-----------------------------------------------------------------------------
(* closeSessionWAL *)

Closer(c, at, to) == closer[c] = at /\ closer' = [closer EXCEPT ![c] = to]

\* FileNotExists decides between case 1 and the others.
CheckFolder(c) ==
    /\ InUse
    /\ \/ (folder \/ shared) /\ Closer(c, "idle", "pop")
       \/ ~folder /\ Closer(c, "idle", "placeholder")
    /\ UNCHANGED <<phase, folder, inStore, shared, wal, closed, ticker, writer, dropper, blobKind,
                   session, restarts, flushVars>>

\* Mutant: Get in place of Pop.
PopWalGets(c) ==
    /\ \/ inStore /\ Closer(c, "pop", "error") /\ FlushCancel
       \/ ~inStore /\ Closer(c, "pop", "mark") /\ UNCHANGED ticker
    /\ UNCHANGED <<phase, folder, inStore, shared, wal, closed, writer, dropper, blobKind, session,
                   restarts, flushVars>>

\* Case 2 when the log is in memory.  Otherwise case 3; or case 2 for another log, which
\* ends alike: the folder it removes is the step OtherRemoves.
PopWal(c) ==
    /\ \/ inStore /\ Closer(c, "pop", "error") /\ FlushCancel
       \/ ~inStore /\ Closer(c, "pop", "mark") /\ UNCHANGED ticker
    /\ inStore' = FALSE
    /\ UNCHANGED <<phase, folder, shared, wal, closed, writer, dropper, blobKind, session, restarts, flushVars>>

\* The trailing error entry, when the session ended with one.
WriteError(c) ==
    /\ Closer(c, "error", "flush")
    /\ \/ wal' = wal
       \/ Len(wal) < MaxEvents /\ wal' = Append(wal, 0)
    /\ UNCHANGED <<phase, folder, inStore, shared, closed, ticker, writer, dropper, blobKind,
                   session, restarts, flushVars>>

\* Mutant: what the last tick left is not flushed.
FinalFlushSkipped(c, r) ==
    /\ r = "ok" /\ Closer(c, "flush", "remove")
    /\ UNCHANGED <<phase, folder, inStore, shared, wal, closed, ticker, writer, dropper, blobKind,
                   session, restarts, flushVars>>

\* The final flush; its failure is logged and the close goes on.
FinalFlush(c, r) ==
    /\ Closer(c, "flush", "remove")
    /\ FlushSession(r)
    /\ UNCHANGED <<phase, folder, inStore, shared, wal, closed, ticker, writer, dropper, blobKind, session,
                   restarts>>

\* Mutant: the log is not marked as closed.
RemoveWalOpen(c) ==
    /\ Closer(c, "remove", "mark")
    /\ folder' = FALSE
    /\ UNCHANGED <<phase, inStore, shared, wal, closed, ticker, writer, dropper, blobKind, session,
                   restarts, flushVars>>

RemoveWal(c) ==
    /\ Closer(c, "remove", "mark")
    /\ closed' = TRUE
    /\ folder' = FALSE
    /\ UNCHANGED <<phase, inStore, shared, wal, ticker, writer, dropper, blobKind, session, restarts, flushVars>>

\* markSessionDone leaves the stream alone.
MarkSessionDone(c) ==
    /\ Closer(c, "mark", "end")
    /\ session' = "done"
    /\ UNCHANGED <<phase, folder, inStore, shared, wal, closed, ticker, writer, dropper, blobKind, restarts, flushVars>>

\* UpdateSessionEventStream replaces the stream: one transaction.
UpdateSessionEventStream == session' = "done" /\ blobKind' = "placeholder"

MarkSessionDonePlaceholder(c) ==
    /\ Closer(c, "placeholder", "end")
    /\ inStore' = FALSE
    /\ UpdateSessionEventStream
    /\ UNCHANGED <<phase, folder, shared, wal, closed, ticker, writer, dropper, restarts, flushVars>>

\* Either statement fails: closeSession logs it and nobody tries again.
MarkFails(c) ==
    /\ failures < MaxFailures
    /\ \/ Closer(c, "mark", "end") /\ UNCHANGED inStore
       \/ Closer(c, "placeholder", "end") /\ inStore' = FALSE
    /\ failures' = failures + 1
    /\ UNCHANGED <<phase, folder, shared, wal, closed, ticker, writer, dropper, blobKind, session,
                   last, bytesRead, truncated, lastSeq, counted, blob, repeated, restarts>>

-----------------------------------------------------------------------------
(* The gateway stops and starts again *)

\* What is in memory is gone, the goroutines with it; what was in the log and not in
\* the stream is read by nobody.  The folder may be on a disk that outlives the
\* process or not.  A later close (KillSession) finds case 1 or case 3.
Restart ==
    /\ phase # "new" /\ restarts < MaxRestarts
    /\ restarts' = restarts + 1
    /\ phase' = IF phase = "opened" THEN "leaked" ELSE phase
    /\ inStore' = FALSE /\ closed' = TRUE /\ ticker' = "off"
    /\ folder' \in {folder, FALSE}
    /\ writer' = [w \in Writers |-> "idle"]
    /\ dropper' = IF dropper = "popped" THEN "stopped" ELSE dropper
    /\ closer' = [c \in Closers |-> IF closer[c] = "idle" THEN "idle" ELSE "end"]
    /\ UNCHANGED <<shared, wal, blobKind, session, flushVars>>

-----------------------------------------------------------------------------
Next ==
    \/ WriteOnConnect \/ StartFlushTicker \/ ConnectFails
    \/ OtherRemoves \/ OtherSets \/ OtherStarts
    \/ \E w \in Writers : GetWal(w) \/ WriteWal(w)
    \/ Tick \/ (\E r \in Outcomes : TickFlush(r))
    \/ DropPop \/ DropRemove \/ Restart
    \/ \E c \in Closers :
          \/ CheckFolder(c) \/ PopWal(c) \/ WriteError(c)
          \/ \E r \in Outcomes : FinalFlush(c, r)
          \/ RemoveWal(c) \/ MarkSessionDone(c) \/ MarkSessionDonePlaceholder(c) \/ MarkFails(c)

Spec == Init /\ [][Next]_vars

-----------------------------------------------------------------------------
(* Properties *)

CloserStates == {"idle", "pop", "error", "flush", "remove", "mark", "placeholder", "end"}

\* Every variable has its type.
TypeOK ==
    /\ phase \in {"new", "opened", "leaked", "open"}
    /\ folder \in BOOLEAN /\ inStore \in BOOLEAN
    /\ shared \in BOOLEAN /\ truncated \in BOOLEAN /\ closed \in BOOLEAN
    /\ wal \in Seq(Event)
    /\ last \in Nat /\ bytesRead \in Nat /\ lastSeq \in Nat /\ failures \in Nat
    /\ repeated \in BOOLEAN /\ restarts \in Nat
    /\ counted \subseteq 0..MaxVerdicts
    /\ ticker \in {"off", "on", "due", "last"}
    /\ writer \in [Writers -> {"idle", "got"}]
    /\ dropper \in {"idle", "popped", "end", "stopped"}
    /\ closer \in [Closers -> CloserStates]
    /\ blob \in Seq(Nat)
    /\ blobKind \in {"absent", "stream", "placeholder"}
    /\ session \in {"none", "open", "done"}

\* flushSession: as long as no committed append was reported as failed, the
\* persisted stream is exactly the entries up to lastFlushedIndex, in order, each
\* once: failed appends, the cap, restarts, ticks and closers racing each other
\* neither duplicate, skip nor reorder an entry.
StreamIsPrefix ==
    /\ MaxOf(last, 1) - 1 <= Len(wal)
    /\ ~repeated => /\ blob = [j \in 1..Len(blob) |-> j + 1]
                    /\ Len(blob) = MaxOf(last, 1) - 1

\* flushSession: the stream never outgrows the cap by more than the entry that
\* crossed it, even though a failed append leaves bytesRead ahead of the stream.
StreamIsBounded == ~repeated => Len(blob) <= MaxRead + 1

\* writeOnReceive, closeSessionWAL and dropWalLog: a log that can be looked up is open,
\* so only a goroutine that looked it up before the close can meet a closed log, and
\* it is on disk unless another connect of the session id was there.
StoreHoldsLiveWal == inStore => ~closed /\ (folder \/ shared)

\* closeSessionWAL: a log is flushed, closed and removed by one owner at a time, who
\* took it out of the store and never finds it closed, also when another connect of the
\* session id puts its own log in the store and in the folder meanwhile.
OneOwner ==
    /\ Cardinality({c \in Closers : closer[c] \in {"error", "flush", "remove"}})
         + (IF dropper = "popped" THEN 1 ELSE 0) <= 1
    /\ \A c \in Closers : closer[c] \in {"error", "flush", "remove"} => ~closed /\ ~inStore

\* closeSessionWAL: when no database call and no read of the log failed, the gateway
\* did not stop and the cap was not reached, a closed session misses at most one entry
\* for each goroutine that had looked the log up before the close took it out of the
\* store.
LostOnlyInFlight ==
    closed /\ dropper # "end" /\ failures = 0 /\ ~truncated /\ restarts = 0 =>
        Len(wal) - Len(blob) <= Cardinality(Writers)

\* accumulateAIAnalyzerVerdict: as long as no append failed, the verdict of every
\* persisted entry is counted, though the entries that repeat it are spread over
\* several flushes.  (A failed append has already advanced the dedup state.)
VerdictsCounted ==
    failures = 0 => \A j \in 1..Len(blob) : wal[j] # 0 => wal[j] \in counted

\* The promise: whatever fails or stops, in whatever order, what is persisted is in
\* order and without gaps, and nothing follows the placeholder, unless another connect
\* records to the same session.
R == INSTANCE Recording WITH written <- Len(wal), stream <- [j \in 1..Len(blob) |-> blob[j] - 1],
                             kind <- blobKind, status <- session
IsRecording == R!Spec
=============================================================================
