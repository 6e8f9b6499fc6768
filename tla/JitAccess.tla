------------------------------ MODULE JitAccess ------------------------------
(***************************************************************************)
(* Just-in-time access of one user to one connection: the checks of        *)
(* SessionOpen (gateway/transport/interceptors/accessrequest), the context *)
(* with a deadline in which listenClientMessages runs (transport/client.go)*)
(* and the expiry that a decision writes (gateway/api/review/review.go,    *)
(* UpdateReview of models/reviews.go).                                     *)
(*                                                                         *)
(* A session asks for at most one review (UNIQUE(org_id, session_id)), so  *)
(* a review is named by its session.  The newest approved review of the    *)
(* user and the connection grants, whatever session asked for it.  Each    *)
(* database statement is a step, and time passes between any two.  Which   *)
(* requests may decide is in ReviewDecision, how a rejection closes the    *)
(* stream in ProxyStreams.                                                 *)
(***************************************************************************)
EXTENDS Naturals

CONSTANTS Sessions,      \* connect sessions of the user
          Requests,      \* requests that decide a review
          Durations,     \* access durations a client may ask for
          MaxDuration,   \* AccessMaxDuration of the rule, or 48 hours
          MaxDecision,   \* bound: no decision is made after this time
          MaxTime,       \* bound on the clock
          None

Denials  == {"REJECTED", "REVOKED"}
Statuses == Denials \union {"PENDING", "APPROVED"}
Review   == [status : Statuses, duration : Nat, created : Nat, revokedAt : Nat \union {None}]

ASSUME JitAssumption ==
    /\ Durations \subseteq Nat /\ MaxDuration \in Nat
    /\ MaxDecision \in Nat /\ MaxTime \in Nat
    /\ None \notin Nat /\ None \notin Sessions /\ None \notin Review

VARIABLES now,
          review,    \* the review of each session, or None
          stage,     \* where the loop of each session is
          found,     \* the review GetApprovedReviewJit returned to it
          deadline,  \* of the context of the loop, or None
          by,        \* history: the review that last granted it access
          raced,     \* history: granted by a review denied since it was read
          draft,     \* the review a request is about to write
          made,      \* the requests that were made
          decided,   \* history: when a request last drafted an approval
          denied     \* history: when a denial was last written

sessionVars == <<stage, found, deadline, by, raced>>
reviewVars  == <<review, draft, made, decided, denied>>
vars == <<now, sessionVars, reviewVars>>

Init ==
    /\ now = 0
    /\ review = [s \in Sessions |-> None]
    /\ stage = [s \in Sessions |-> "open"]
    /\ found = [s \in Sessions |-> None]
    /\ deadline = [s \in Sessions |-> None] /\ by = [s \in Sessions |-> None]
    /\ raced = {}
    /\ draft = [q \in Requests |-> None] /\ made = {}
    /\ decided = [s \in Sessions |-> 0] /\ denied = [s \in Sessions |-> 0]

Tick ==
    /\ now < MaxTime /\ now' = now + 1
    /\ UNCHANGED <<sessionVars, reviewVars>>

-----------------------------------------------------------------------------
(* SessionOpen, which a client also sends again when its review is approved *)

Reviewed == {s \in Sessions : review[s] # None}

\* Mutant: the newest review, whatever its status.
LatestOfAll == {r \in Reviewed : \A q \in Reviewed : review[q].created <= review[r].created}

\* GetApprovedReviewJit: ORDER BY created_at DESC LIMIT 1.
Latest ==
    LET Approved == {r \in Reviewed : review[r].status = "APPROVED"}
    IN {r \in Approved : \A q \in Approved : review[q].created <= review[r].created}

Lookup(s) ==
    /\ stage[s] = "open"
    /\ stage' = [stage EXCEPT ![s] = "looked"]
    /\ IF Latest = {} THEN found' = [found EXCEPT ![s] = None]
       ELSE \E r \in Latest : found' = [found EXCEPT ![s] = [of |-> r, was |-> review[r]]]
    /\ UNCHANGED <<now, deadline, by, raced, reviewVars>>

\* A record without revoked_at is an error, which ends the loop.
Consistent(s) == found[s] # None => found[s].was.revokedAt # None

\* Mutant: an expired review grants.
ValidForEver(s) == found[s] # None /\ Consistent(s)

\* validateJit: the access is expired when revoked_at is before the present time.
Valid(s) == found[s] # None /\ Consistent(s) /\ ~(found[s].was.revokedAt < now)

\* Mutant: the new context replaces the old one.
EarlierNew(s, t) == t

\* The deadline of a context is never later than that of its parent.
Earlier(s, t) == IF deadline[s] # None /\ deadline[s] < t THEN deadline[s] ELSE t

\* getValidatedJitReview: the whole duration, from now on, in the context of the loop.
Grant(s) ==
    /\ stage[s] = "looked" /\ Valid(s)
    /\ stage' = [stage EXCEPT ![s] = "open"]
    /\ deadline' = [deadline EXCEPT ![s] = Earlier(s, now + found[s].was.duration)]
    /\ by' = [by EXCEPT ![s] = found[s].of]
    /\ raced' = IF found[s].was.status = "APPROVED" /\ review[found[s].of].status # "APPROVED"
                THEN raced \union {s} ELSE raced \ {s}
    /\ found' = [found EXCEPT ![s] = None]
    /\ UNCHANGED <<now, reviewVars>>

\* createReview: the client is told to wait for the approval.
MayAsk(s, d) == Consistent(s) /\ review[s] = None /\ d <= MaxDuration
Ask(s, d) ==
    /\ stage[s] = "looked" /\ ~Valid(s) /\ MayAsk(s, d)
    /\ review' = [review EXCEPT ![s] = [status |-> "PENDING", duration |-> d, created |-> now,
                                        revokedAt |-> None]]
    /\ stage' = [stage EXCEPT ![s] = "open"]
    /\ found' = [found EXCEPT ![s] = None]
    /\ UNCHANGED <<now, deadline, by, raced, draft, made, decided, denied>>

\* The loop returns, and its context with it.
End(s, at) ==
    /\ stage[s] = at /\ stage' = [stage EXCEPT ![s] = "ended"]
    /\ found' = [found EXCEPT ![s] = None]
    /\ deadline' = [deadline EXCEPT ![s] = None]
    /\ by' = [by EXCEPT ![s] = None] /\ raced' = raced \ {s}
    /\ UNCHANGED <<now, reviewVars>>

\* The duration is too long, the session has a review already: an error ends the loop.
Refuse(s, d) == End(s, "looked") /\ ~Valid(s) /\ ~MayAsk(s, d)

\* Mutant: the loop does not look at its context.
NoExpire(s) == FALSE /\ UNCHANGED vars

\* "session ended, reached connection duration"
Expire(s) == End(s, "open") /\ deadline[s] # None /\ deadline[s] <= now

\* The client leaves, or its stream is closed.
Leave(s) == End(s, "open")

-----------------------------------------------------------------------------
(* DoReview *)

\* Mutant: the expiry is set when an approved review is approved again.
ExpiryOfApproved(r, st) == IF st = "APPROVED" /\ review[r].status = "APPROVED"
                           THEN now + review[r].duration ELSE review[r].revokedAt

\* doReview: a review that is approved, now or already, expires a duration from now.
Expiry(r, st) == IF st = "APPROVED" THEN now + review[r].duration ELSE review[r].revokedAt

\* validateReviewStatusTransition and doReview.  An approval that is not the last one
\* leaves the status as it was read.
DoReview(q, r, decision) ==
    /\ q \notin made /\ made' = made \union {q} /\ now <= MaxDecision
    /\ review[r] # None /\ review[r].status \in {"PENDING", "APPROVED"}
    /\ decision = "REVOKED" => review[r].status = "APPROVED"
    /\ \E st \in IF decision = "APPROVED" THEN {decision, review[r].status} ELSE {decision} :
          /\ draft' = [draft EXCEPT ![q] = [of |-> r, status |-> st, revokedAt |-> Expiry(r, st)]]
          /\ decided' = IF st = "APPROVED" THEN [decided EXCEPT ![r] = now] ELSE decided
    /\ UNCHANGED <<now, sessionVars, review, denied>>

\* UpdateReview writes the status and the expiry, an empty one is left out.
UpdateReview(q) ==
    /\ draft[q] # None
    /\ LET d == draft[q]
           t == IF d.revokedAt = None THEN review[d.of].revokedAt ELSE d.revokedAt
       IN /\ review' = [review EXCEPT ![d.of] = [@ EXCEPT !.status = d.status, !.revokedAt = t]]
          /\ denied' = IF d.status \in Denials THEN [denied EXCEPT ![d.of] = now] ELSE denied
    /\ draft' = [draft EXCEPT ![q] = None]
    /\ UNCHANGED <<now, sessionVars, made, decided>>

-----------------------------------------------------------------------------
Handle(s) == Grant(s) \/ \E d \in Durations : Ask(s, d) \/ Refuse(s, d)

Next ==
    \/ Tick
    \/ \E s \in Sessions : Lookup(s) \/ Handle(s) \/ Expire(s) \/ Leave(s)
    \/ \E q \in Requests :
          \/ \E r \in Sessions, decision \in Denials \union {"APPROVED"} : DoReview(q, r, decision)
          \/ UpdateReview(q)

Spec == Init /\ [][Next]_vars

\* Time passes, a handler that was begun ends, and a select of the loop that finds its
\* context done again and again picks that case in the end (Go chooses at random).
FairSpec ==
    /\ Spec /\ WF_vars(Tick)
    /\ \A s \in Sessions : WF_vars(Handle(s)) /\ SF_vars(Expire(s))

-----------------------------------------------------------------------------
(* Properties *)

\* Every variable has its type.
TypeOK ==
    /\ now \in Nat
    /\ review \in [Sessions -> Review \union {None}]
    /\ stage \in [Sessions -> {"open", "looked", "ended"}]
    /\ found \in [Sessions -> [of : Sessions, was : Review] \union {None}]
    /\ deadline \in [Sessions -> Nat \union {None}]
    /\ by \in [Sessions -> Sessions \union {None}]
    /\ raced \subseteq Sessions /\ made \subseteq Requests
    /\ draft \in [Requests -> [of : Sessions, status : Statuses, revokedAt : Nat \union {None}]
                              \union {None}]
    /\ decided \in [Sessions -> Nat] /\ denied \in [Sessions -> Nat]

\* validateJit: "found inconsistent jit record" cannot happen, however requests
\* interleave: an approved review always has its expiry.
ApprovedExpires == \A r \in Reviewed : review[r].status = "APPROVED" => review[r].revokedAt # None

\* getValidatedJitReview and doReview: a session gets the whole duration from the moment
\* it is granted, and that is while its review has not expired: it ends at most two
\* durations after the last approval of the review that granted it.
AccessIsBounded ==
    \A s \in Sessions : by[s] # None =>
        /\ deadline[s] # None
        /\ deadline[s] <= decided[by[s]] + 2 * review[by[s]].duration

\* A review that was rejected or revoked grants nothing more: what it granted ends at
\* most a duration after the denial, except for a session that had read the review
\* before it was denied.
DenialFades ==
    \A s \in Sessions : by[s] # None /\ s \notin raced /\ review[by[s]].status \in Denials =>
        deadline[s] <= denied[by[s]] + review[by[s]].duration

\* getValidatedJitReview derives the new context from that of the loop: neither another
\* approval nor another SessionOpen, by a newer review, gives a session more time.
NeverExtended ==
    [][\A s \in Sessions : deadline[s] # None /\ stage'[s] # "ended" =>
          deadline'[s] # None /\ deadline'[s] <= deadline[s]]_vars

\* listenClientMessages: a session that was granted access ends.
GrantedEnds == \A s \in Sessions : by[s] # None ~> stage[s] = "ended"
=============================================================================
