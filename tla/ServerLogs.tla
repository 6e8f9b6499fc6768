----------------------------- MODULE ServerLogs -----------------------------
(***************************************************************************)
(* The server-logs tail: common/memory/ring.go (a mutex-protected circular *)
(* buffer that numbers its entries), gateway/serverlogs/store.go (the one  *)
(* ring shared by the gateway and every agent, filtered by organisation)   *)
(* and gateway/api/serverlogs/stream.go (SSE subscribers that poll the     *)
(* ring with a cursor).                                                    *)
(*                                                                         *)
(* Every ring method runs under the ring's mutex, so it is one step.       *)
(* AppendAgentLogs appends entry by entry: other steps interleave.         *)
(* hist is a history variable: everything ever appended, in order.         *)
(***************************************************************************)
EXTENDS Integers, Sequences

CONSTANTS Capacity,   \* serverlogs.Capacity
          Orgs,       \* organisations
          NoOrg,      \* the empty OrgID of a self-hosted gateway
          Streams,    \* SSE requests
          StreamOrg,  \* the organisation that makes each request
          MaxAppends  \* bound on the appends TLC explores

ASSUME CapacityAssumption == Capacity \in Nat \ {0}
ASSUME OrgAssumption      == NoOrg \notin Orgs /\ StreamOrg \in [Streams -> Orgs]
ASSUME BoundAssumption    == MaxAppends \in Nat

VARIABLES buf,     \* Ring.buf
          next,    \* Ring.next, the sequence number of the next entry
          head,    \* Ring.head, the index of the oldest entry
          size,    \* Ring.size
          hist,    \* history: every entry appended so far
          status,  \* of each request: "new", "open" or "closed"
          cursor,  \* the local variable seq of Stream
          sent     \* the ring items each request was sent

ringVars == <<buf, next, head, size, hist>>
vars     == <<buf, next, head, size, hist, status, cursor, sent>>

Entry   == [source : {"gateway"}, org : {NoOrg}]
           \union [source : {"agent"}, org : Orgs \union {NoOrg}]
NoEntry == [source |-> "none", org |-> NoOrg]
Item    == [seq : Nat, val : Entry \union {NoEntry}]

-----------------------------------------------------------------------------
(* Ring *)

\* The item at offset i from the oldest one.
Slot(i) == buf[(head + i) % Capacity]

\* The buffered items, oldest first (the loop of Snapshot and of Since).
Buffered == [i \in 1..size |-> Slot(i - 1)]

\* The loop of Since that appends an item to its result when it is to be kept.
Kept(items, keep) ==
    LET out[i \in 0..Len(items)] ==
            IF i = 0 THEN <<>>
            ELSE IF items[i] \in keep THEN Append(out[i - 1], items[i]) ELSE out[i - 1]
    IN out[Len(items)]

\* Mutant: the entry at the cursor is returned again.
RingSinceInclusive(seq) ==
    IF size = 0 \/ seq >= next - 1
    THEN [items |-> <<>>, latest |-> seq]
    ELSE [items  |-> Kept(Buffered, {it \in Item : it.seq >= seq}),
          latest |-> next - 1]

\* Mutant: the cursor skips the next entry.
RingSinceSkips(seq) ==
    IF size = 0 \/ seq >= next - 1
    THEN [items |-> <<>>, latest |-> seq]
    ELSE [items  |-> Kept(Buffered, {it \in Item : it.seq > seq}),
          latest |-> next]

\* Since returns the newer items and the new cursor.
RingSince(seq) ==
    IF size = 0 \/ seq >= next - 1
    THEN [items |-> <<>>, latest |-> seq]
    ELSE [items  |-> Kept(Buffered, {it \in Item : it.seq > seq}),
          latest |-> next - 1]

\* NewRing
Init ==
    /\ buf    = [i \in 0..Capacity-1 |-> [seq |-> 0, val |-> NoEntry]]
    /\ next   = 1
    /\ head   = 0
    /\ size   = 0
    /\ hist   = <<>>
    /\ status = [s \in Streams |-> "new"]
    /\ cursor = [s \in Streams |-> 0]
    /\ sent   = [s \in Streams |-> <<>>]

\* Mutant: head is not wrapped.
AppendNoWrap(e) ==
    /\ buf'  = [buf EXCEPT ![(head + size) % Capacity] = [seq |-> next, val |-> e]]
    /\ next' = next + 1
    /\ IF size < Capacity
       THEN size' = size + 1 /\ head' = head
       ELSE size' = size     /\ head' = head + 1
    /\ hist' = Append(hist, e)

\* Mutant: a full ring keeps its head.
AppendKeepsHead(e) ==
    /\ buf'  = [buf EXCEPT ![(head + size) % Capacity] = [seq |-> next, val |-> e]]
    /\ next' = next + 1
    /\ size' = IF size < Capacity THEN size + 1 ELSE size
    /\ UNCHANGED head
    /\ hist' = Append(hist, e)

\* Append: write after the newest item; when the ring was full the position
\* written is the oldest item's, and head moves past it.
Append1(e) ==
    /\ buf'  = [buf EXCEPT ![(head + size) % Capacity] = [seq |-> next, val |-> e]]
    /\ next' = next + 1
    /\ IF size < Capacity
       THEN size' = size + 1 /\ head' = head
       ELSE size' = size     /\ head' = (head + 1) % Capacity
    /\ hist' = Append(hist, e)

\* The gateway's log observer and AppendAgentLogs.
LogEntry(e) ==
    /\ Len(hist) < MaxAppends
    /\ Append1(e)
    /\ UNCHANGED <<status, cursor, sent>>

-----------------------------------------------------------------------------
(* Stream *)

\* serverlogs.visible: an agent's entries are shown to its organisation only.
Visible(e, org) == e.source # "agent" \/ e.org = NoOrg \/ e.org = org

\* serverlogs.Since: the cursor advances past the filtered entries too.
VisibleItems(items, org) == Kept(items, {it \in Item : Visible(it.val, org)})

LastN(s, n) == IF Len(s) > n THEN SubSeq(s, Len(s) - n + 1, Len(s)) ELSE s

\* Connect: the backlog and the cursor come from one call of Since.
Connect(s, backlog) ==
    LET r == RingSince(0) IN
    /\ status[s] = "new"
    /\ status' = [status EXCEPT ![s] = "open"]
    /\ cursor' = [cursor EXCEPT ![s] = r.latest]
    /\ sent'   = [sent EXCEPT ![s] =
                    IF backlog > 0
                    THEN LastN(VisibleItems(r.items, StreamOrg[s]), backlog)
                    ELSE <<>>]
    /\ UNCHANGED ringVars

\* One tick of the poll ticker.
Poll(s) ==
    LET r == RingSince(cursor[s]) IN
    /\ status[s] = "open"
    /\ cursor' = [cursor EXCEPT ![s] = r.latest]
    /\ sent'   = [sent EXCEPT ![s] = @ \o VisibleItems(r.items, StreamOrg[s])]
    /\ UNCHANGED <<ringVars, status>>

\* The request's context ends, or a write fails: the handler returns.
Leave(s) ==
    /\ status[s] = "open"
    /\ status' = [status EXCEPT ![s] = "closed"]
    /\ UNCHANGED <<ringVars, cursor, sent>>

Next ==
    \/ \E e \in Entry : LogEntry(e)
    \/ \E s \in Streams : \/ \E b \in 0..Capacity : Connect(s, b)
                          \/ Poll(s)
                          \/ Leave(s)

Spec == Init /\ [][Next]_vars

-----------------------------------------------------------------------------
(* Properties *)

\* The ring's fields have their types: in particular the indices are in range.
RingTypeOK ==
    /\ buf \in [0..Capacity-1 -> Item]
    /\ next \in Nat \ {0}
    /\ head \in 0..Capacity-1
    /\ size \in 0..Capacity
    /\ hist \in Seq(Entry)

\* Every variable has its type.
TypeOK ==
    /\ RingTypeOK
    /\ status \in [Streams -> {"new", "open", "closed"}]
    /\ cursor \in [Streams -> Nat]
    /\ sent \in [Streams -> Seq(Item)]

\* Ring.Append/Snapshot: whatever the wrap-around, the slot at offset i from
\* head holds the entry that was appended (next - size + i)-th: the ring is the
\* window of the last `size` entries of the history, in order and without holes.
RingIsWindow ==
    /\ next = Len(hist) + 1
    /\ size = IF Len(hist) < Capacity THEN Len(hist) ELSE Capacity
    /\ \A i \in 0..size-1 :
          Slot(i) = [seq |-> next - size + i, val |-> hist[next - size + i]]

\* serverlogs.Since as Stream uses it: a subscriber is never sent the same entry
\* twice nor out of order, never one beyond its cursor, never an altered one
\* and never the agent logs of another organisation.
SentIsOrderedAndVisible ==
    \A s \in Streams :
        /\ \A i \in DOMAIN sent[s] :
              LET it == sent[s][i] IN
              /\ it.seq \in 1..Len(hist) /\ it.seq <= cursor[s]
              /\ it.val = hist[it.seq]
              /\ Visible(it.val, StreamOrg[s])
        /\ \A i, j \in DOMAIN sent[s] : i < j => sent[s][i].seq < sent[s][j].seq

\* Stream's poll loop: when the cursor of an open stream advances, it advances to
\* the newest entry and no further, and the stream is sent every visible entry
\* appended since the previous poll, except those the ring had evicted by then
\* (more than Capacity appends between two polls).
PollLosesOnlyEvicted ==
    [][\A s \in Streams :
          status[s] = "open" /\ cursor'[s] # cursor[s] =>
            /\ cursor'[s] = Len(hist)
            /\ \A n \in 1..Len(hist) :
                  (/\ n > cursor[s]
                   /\ n > Len(hist) - Capacity
                   /\ Visible(hist[n], StreamOrg[s]))
                  <=> (\E i \in Len(sent[s])+1..Len(sent'[s]) : sent'[s][i].seq = n)]_vars
=============================================================================
