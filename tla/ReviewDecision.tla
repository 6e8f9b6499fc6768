--------------------------- MODULE ReviewDecision ---------------------------
(***************************************************************************)
(* The decision on one access review (gateway/api/review/review.go and     *)
(* UpdateReview of gateway/models/reviews.go).                             *)
(*                                                                         *)
(* DoReview reads the review, computes the new one in memory and writes    *)
(* the whole record back in a transaction of its own: two steps, between   *)
(* which any other request may write.  No lock and no version column       *)
(* protects the pair, so a request writes what it computed from the record *)
(* it read (its draft).                                                    *)
(*                                                                         *)
(* The review groups are rows: the ones created with the review are named  *)
(* by their group, a row a request appends is named by the request.        *)
(***************************************************************************)
EXTENDS Integers, FiniteSets

CONSTANTS Users, Owner,          \* users, and the one who asked for access
          Groups, NoGroup,       \* user groups, and the name of no group
          AdminGroup,            \* types.GroupAdmin
          GroupsOf,              \* Context.UserGroups of each user
          Reviewers,             \* the groups that review (ReviewersGroups)
          ForceGroups,           \* ForceApprovalGroups
          MinApprovals,          \* MinApprovals; without one, the row count
          ReviewType,            \* "jit" or "onetime"
          Requests,              \* review requests (API, Slack, MCP)
          NoUser

ASSUME UsersAssumption ==
    /\ Owner \in Users /\ NoUser \notin Users
    /\ GroupsOf \in [Users -> SUBSET Groups]
ASSUME GroupsAssumption ==
    /\ Reviewers \subseteq Groups /\ ForceGroups \subseteq Groups
    /\ AdminGroup \in Groups /\ NoGroup \notin Groups
    /\ IsFiniteSet(Reviewers) /\ IsFiniteSet(Requests)
    /\ Reviewers \intersect Requests = {}
ASSUME PolicyAssumption ==
    /\ MinApprovals \in Nat
    /\ ReviewType \in {"jit", "onetime"}

VARIABLES status,   \* private.reviews.status
          groups,   \* the review's rows of private.review_groups
          session,  \* private.sessions.status of the reviewed session
          request,  \* of each request: "new", "drafted" or "done"
          draft,    \* the review a request is about to write
          forced    \* history: a forced approval was written

decisionVars == <<status, groups, session, request, draft, forced>>

Decisions == {"APPROVED", "REJECTED", "REVOKED"}
Statuses  == Decisions \union {"PENDING", "PROCESSING", "EXECUTED"}
RowIds    == Reviewers \union Requests
Row       == [name : Groups \union {NoGroup}, status : Statuses \union {"none"},
              by : Users \union {NoUser}]
Rows      == [RowIds -> Row]
Draft     == [status : Statuses, groups : Rows, forced : BOOLEAN]

IsAdmin(u) == AdminGroup \in GroupsOf[u]
Reviewed(name, st, u) == [name |-> name, status |-> st, by |-> u]
NoRow       == [name |-> NoGroup, status |-> "none", by |-> NoUser]
MinOf(m, n) == IF m < n THEN m ELSE n

Present(rows)      == {x \in RowIds : rows[x] # NoRow}
ApprovedRows(rows) == {x \in RowIds : rows[x].status = "APPROVED"}

\* createReview and CreateReview: every reviewers' group starts pending.  The
\* session row exists already.
NewRows == [x \in RowIds |-> IF x \in Reviewers
                             THEN [name |-> x, status |-> "PENDING", by |-> NoUser]
                             ELSE NoRow]
Init ==
    /\ status  = "PENDING"
    /\ groups  = NewRows
    /\ session = "open"
    /\ request = [r \in Requests |-> "new"]
    /\ draft   = [r \in Requests |-> [status |-> "PENDING", groups |-> NewRows, forced |-> FALSE]]
    /\ forced  = FALSE

-----------------------------------------------------------------------------
(* What a request computes from the review it read *)

\* Mutant: the requester may approve.
MayDecideSelf(u, st) ==
    /\ status \in {"PENDING", "APPROVED"}
    /\ st = "REVOKED" => status = "APPROVED" /\ ReviewType = "jit"

\* validateReviewStatusTransition
MayDecide(u, st) ==
    /\ status \in {"PENDING", "APPROVED"}
    /\ ~(st = "APPROVED" /\ u = Owner /\ ~IsAdmin(u))
    /\ st = "REVOKED" => status = "APPROVED" /\ ReviewType = "jit"

\* doForcedReview: the row of the forcing group is mutated, or appended.
ForcedDrafts(r, u, st) ==
    UNION {LET rows == {x \in Present(groups) : groups[x].name = g} IN
           IF rows # {}
           THEN {[status |-> st, forced |-> st = "APPROVED",
                  groups |-> [groups EXCEPT ![x] = Reviewed(g, st, u)]] : x \in rows}
           ELSE {[status |-> st, forced |-> st = "APPROVED",
                  groups |-> [groups EXCEPT ![r] = Reviewed(g, st, u)]]}
           : g \in GroupsOf[u] \intersect ForceGroups}

\* doIndividualReview: the loop marks every row of a group the user is in.
Eligible(u) == \E x \in Present(groups) : groups[x].name \in GroupsOf[u]
Marked(u, st) ==
    [x \in RowIds |->
        IF groups[x].name \in GroupsOf[u] THEN Reviewed(groups[x].name, st, u)
                                          ELSE groups[x]]

\* The group a denial by somebody who is not eligible is recorded under.
DenialNames(u) == IF IsAdmin(u) THEN {AdminGroup}
                  ELSE IF GroupsOf[u] = {} THEN {NoGroup} ELSE GroupsOf[u]

ReviewsCountNeeded == MinOf(Cardinality(Present(groups)), MinApprovals)

\* Mutant: one approval is enough.
IndividualStatusAtOnce(u, st) == st

IndividualStatus(u, st) ==
    IF st # "APPROVED" THEN st
    ELSE IF Cardinality(ApprovedRows(Marked(u, st))) = ReviewsCountNeeded
         THEN "APPROVED" ELSE status

\* Mutant: the denial of somebody who is not eligible leaves no row.
IndividualDraftsNoRow(r, u, st) ==
    IF Eligible(u) \/ u = Owner \/ IsAdmin(u)
    THEN {[status |-> IndividualStatus(u, st), forced |-> FALSE, groups |-> Marked(u, st)]}
    ELSE {}

IndividualDrafts(r, u, st) ==
    IF Eligible(u) \/ (st = "APPROVED" /\ (u = Owner \/ IsAdmin(u)))
    THEN {[status |-> IndividualStatus(u, st), forced |-> FALSE,
           groups |-> Marked(u, st)]}
    ELSE IF u = Owner \/ IsAdmin(u)
         THEN {[status |-> st, forced |-> FALSE,
                groups |-> [groups EXCEPT ![r] = Reviewed(n, st, u)]]
               : n \in DenialNames(u)}
         ELSE {}

-----------------------------------------------------------------------------
(* Actions *)

\* DoReview up to UpdateReview.  A request that fails a check changes nothing.
DoReviewRead(r, u, st, force) ==
    /\ request[r] = "new"
    /\ MayDecide(u, st)
    /\ \E d \in IF force THEN ForcedDrafts(r, u, st) ELSE IndividualDrafts(r, u, st) :
          draft' = [draft EXCEPT ![r] = [d EXCEPT !.forced = forced \/ d.forced]]
    /\ request' = [request EXCEPT ![r] = "drafted"]
    /\ UNCHANGED <<status, groups, session, forced>>

\* UpdateReview: the status, every row of the draft and the session's status in
\* one transaction.  Rows other requests appended meanwhile are not in the draft
\* and stay.
UpdateReview(r) ==
    LET d == draft[r] IN
    /\ request[r] = "drafted"
    /\ status'  = d.status
    /\ groups'  = [x \in RowIds |->
                      IF d.groups[x] # NoRow THEN d.groups[x] ELSE groups[x]]
    /\ session' = CASE d.status = "APPROVED"              -> "ready"
                    [] d.status \in {"REJECTED", "REVOKED"} -> "done"
                    [] OTHER                                -> session
    /\ forced'  = (forced \/ d.forced)
    /\ request' = [request EXCEPT ![r] = "done"]
    /\ UNCHANGED draft

\* The transaction fails: it is rolled back and the caller gets an error.
UpdateFails(r) ==
    /\ request[r] = "drafted"
    /\ request' = [request EXCEPT ![r] = "done"]
    /\ UNCHANGED <<status, groups, session, draft, forced>>

DecisionNext ==
    \E r \in Requests :
        \/ \E u \in Users, st \in Decisions, force \in BOOLEAN : DoReviewRead(r, u, st, force)
        \/ UpdateReview(r)
        \/ UpdateFails(r)

Spec == Init /\ [][DecisionNext]_decisionVars

\* An HTTP handler that computed a draft goes on to write it.
FairSpec == Spec /\ \A r \in Requests : WF_decisionVars(UpdateReview(r) \/ UpdateFails(r))

-----------------------------------------------------------------------------
(* Properties *)

\* Every variable has its type.
TypeOK ==
    /\ status \in Statuses
    /\ groups \in Rows
    /\ session \in {"open", "ready", "done"}
    /\ request \in [Requests -> {"new", "drafted", "done"}]
    /\ draft \in [Requests -> Draft]
    /\ forced \in BOOLEAN

\* The number of approvals the policy asks for.
Quorum == MinOf(Cardinality(Reviewers), MinApprovals)

\* doIndividualReview and UpdateReview: however requests interleave, a review
\* that is approved has an approval in as many rows as the policy asks for, or a
\* member of a force-approval group approved it: no interleaving of partial,
\* stale or conflicting requests approves a review by itself.
ApprovalIsBacked ==
    status = "APPROVED" => forced \/ Cardinality(ApprovedRows(groups)) >= Quorum

\* validateReviewStatusTransition: no approval ever stored is the requester's own,
\* unless the requester is an administrator.
NoSelfApproval ==
    \A x \in ApprovedRows(groups) : groups[x].by = Owner => IsAdmin(Owner)

\* doForcedReview and doIndividualReview: a denial, once its transaction
\* commits, is on record in a row with its author.
DenialIsAttributed ==
    status \in {"REJECTED", "REVOKED"} =>
        \E x \in RowIds : groups[x].status = status /\ groups[x].by \in Users

-----------------------------------------------------------------------------
(* What api-update-review.md promises *)

\* "Once a review reaches REJECTED or REVOKED the resource is considered as
\* immutable and it cannot be updated again": UpdateReview writes a draft that
\* was computed before the denial.
DenialIsFinal ==
    [][(status \in {"REJECTED", "REVOKED"}) => (status' = status)]_decisionVars
=============================================================================
