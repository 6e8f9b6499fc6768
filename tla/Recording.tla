------------------------------ MODULE Recording ------------------------------
(***************************************************************************)
(* What the audit plugin promises of the recording of one session: the     *)
(* entries written are persisted in order and without gaps.  Entries that  *)
(* were persisted may be persisted again (the database may commit and      *)
(* report an error), and the whole recording may be replaced by a          *)
(* placeholder, after which nothing is added.  When another connect of the *)
(* session records as well, the entries of this one stay in order, and     *)
(* status and placeholder are whatever the two leave.                      *)
(***************************************************************************)
EXTENDS Naturals, Sequences

VARIABLES written,  \* the number of entries written
          stream,   \* the numbers of the entries persisted, in their order
          kind,     \* "absent", "stream" or "placeholder"
          status,   \* of the session: "none", "open" or "done"
          shared    \* another connect of the session records too

vars == <<written, stream, kind, status, shared>>

Init == written = 0 /\ stream = <<>> /\ kind = "absent" /\ status = "none" /\ shared = FALSE

\* OnConnect; the session may be left without a recording.
Open ==
    /\ status = "none"
    /\ status' = "open" /\ kind' \in {"absent", "stream"}
    /\ UNCHANGED <<written, stream, shared>>

Record ==
    /\ kind = "stream" \/ shared
    /\ written' = written + 1
    /\ UNCHANGED <<stream, kind, status, shared>>

\* The entries a..b are appended: entry a follows one that was persisted.
Persist(a, b) ==
    /\ kind = "stream" \/ shared
    /\ a = 1 \/ \E j \in 1..Len(stream) : stream[j] = a - 1
    /\ stream' = stream \o [i \in 1..b - a + 1 |-> a + i - 1]
    /\ UNCHANGED <<written, kind, status, shared>>

Finish ==
    /\ status = "open" /\ status' = "done"
    /\ UNCHANGED <<written, stream, kind, shared>>

Replace ==
    /\ kind = "stream"
    /\ kind' = "placeholder" /\ status' = "done"
    /\ UNCHANGED <<written, stream, shared>>

\* Another connect comes, and from then on disturbs what the session shows.
Share ==
    /\ ~shared /\ shared' = TRUE
    /\ UNCHANGED <<written, stream, kind, status>>

Disturb ==
    /\ shared
    /\ kind' \in {"absent", "stream", "placeholder"} /\ status' \in {"none", "open", "done"}
    /\ UNCHANGED <<written, stream, shared>>

Next ==
    \/ Open \/ Record \/ Finish \/ Replace \/ Share \/ Disturb
    \/ \E a \in 1..written : \E b \in a..written : Persist(a, b)

Spec == Init /\ [][Next]_vars
=============================================================================
